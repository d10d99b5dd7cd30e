-------------------------- MODULE Conversations_proofs --------------------------
(***************************************************************************)
(* Proofs about Conversations, for any number of requests and any forms,   *)
(* policies and faults: conversations stay apart, attachments live as long *)
(* as their request, every turn is answered, the agent is told what was    *)
(* refused, a request starts under the policy of its day, and only work    *)
(* the gate let through reaches a branch.                                  *)
(***************************************************************************)
EXTENDS Conversations, Workbench_proofs

-------------------------------------------------------------------------------
(* The invariants *)

\* A request whose conversation is settled; one that may have written in it; one
\* that has had the lock, or gone without.
Entered == {"policy", "settings", "thread", "words", "lock", "refusal",
            "running", "filing", "marking", "mailing"}
Begun   == {"running", "filing", "marking", "mailing", "over"}
Spoken  == {"lock", "refusal"} \cup Begun
Closed  == {"marking", "mailing", "over"}

\* Each request claims one name at most, however often it tries.
Claimants == {r \in Requests :
                  http[r].opens /\ http[r].pc \notin {"inspect", "predict", "claim"}}

\* Names are taken in the order of the numbers, and who is about to claim one has
\* found, or predicts, that those before it are taken.
NamesInOrder ==
    /\ \E k \in 2 .. 2 + Cardinality(Claimants) : refs = 1 .. k
    /\ \A r \in Requests : http[r].pc = "claim" =>
          http[r].branch >= 1 /\ 1 .. (http[r].branch - 1) \subseteq refs

\* A name belongs to one pull request, to one request that is about to open its own,
\* or to nobody, as the one that was left at the start does.
NamesAreOwned ==
    /\ \A c, d \in DOMAIN pulls : pulls[c] = pulls[d] => c = d
    /\ \A c \in DOMAIN pulls : pulls[c] # 2
    /\ \A r \in Requests : http[r].pc = "pull" =>
          /\ http[r].branch \in refs \ {2}
          /\ \A c \in DOMAIN pulls : pulls[c] # http[r].branch
    /\ \A r, q \in Requests :
          http[r].pc = "pull" /\ http[q].pc = "pull" /\ http[r].branch = http[q].branch
              => r = q

\* Where a request is, and what it knows by then.
RequestsFit ==
    \A r \in Requests :
        /\ http[r].pc = "idle" => ~http[r].opens /\ http[r].answer = 0
        /\ http[r].pc \in Opening => http[r].opens /\ http[r].postedTo = 0
        /\ http[r].pc \in Entered => http[r].conversation \in DOMAIN pulls
        /\ http[r].pc \in {"words", "lock"} =>
              http[r].branch = pulls[http[r].conversation]

\* The settings a request starts under, on their way through the cache.
VersionsFit ==
    /\ current <= version
    /\ \A r \in Requests :
        /\ http[r].pc \in Unfinished => http[r].postedAt \in 1 .. version
        /\ http[r].pc = "settings" /\ http[r].reading # 0 =>
              http[r].reading \in http[r].postedAt .. version
        /\ http[r].pc \in {"thread", "words", "lock"} =>
              /\ http[r].settings \in 1 .. version
              /\ http[r].settings >= http[r].postedAt \/ http[r].stale

\* The stash, without the request at work.
StashFits ==
    \A r \in Requests :
        http[r].pc \in Unfinished /\ http[r].uploads > 0 => r \in stash

\* What the records of a thread have refused, up to a comment.
Refuses(m) == m.kind = "record" /\ m.readable /\ m.outcome = "blocked"
RefusedBy(comments, n) ==
    {comments[i].path : i \in {j \in DOMAIN comments : j <= n /\ Refuses(comments[j])}}

\* Who posted after n comments is told of what they refused, if they were on the page.
Tells(refused, comments, n) ==
    /\ n <= Len(comments)
    /\ RefusedBy(comments, IF n < PageSize THEN n ELSE PageSize) \subseteq refused
    /\ refused \subseteq RefusedBy(comments, PageSize)

RefusalsFit ==
    \A r \in Requests :
        /\ http[r].pc \in Entered =>
              http[r].postedTo <= Len(thread[http[r].conversation])
        /\ http[r].pc \in {"words", "lock"} =>
              Tells(http[r].refused, thread[http[r].conversation], http[r].postedTo)

\* The bench works for a request that has begun, on what that request knew.
OrderIsRequests ==
    order # None =>
        /\ order.request \in Requests
        /\ http[order.request].pc \in Begun
        /\ order.conversation = http[order.request].conversation
        /\ order.conversation \in DOMAIN pulls
        /\ order.branch = pulls[order.conversation]
        /\ Tells(order.refused, thread[order.conversation], http[order.request].postedTo)

\* Whoever writes in a thread does it in its own conversation, and its ending last.
CommentsFit ==
    \A c \in Conversations : \A i \in DOMAIN thread[c] :
        LET r == thread[c][i].request
        IN  /\ http[r].conversation = c /\ http[r].pc \in Spoken
            /\ thread[c][i].kind = "record" => http[r].pc \in Closed

\* A comment is an ending of the request; it reads back, or names no path.
EndsIt(m, r) == m.request = r /\ m.kind = "record"
ReadsBack(m) == m.readable \/ (m.outcome = "blocked" /\ m.path = "none")
IsEnded(r, comments) ==
    \E j \in DOMAIN comments :
        /\ EndsIt(comments[j], r) /\ ReadsBack(comments[j])
        /\ \A i \in DOMAIN comments : comments[i].request = r =>
              i = j \/ (i < j /\ comments[i].kind = "words")
IsMarked(r, comments) ==
    \E j \in DOMAIN comments : EndsIt(comments[j], r) /\ comments[j].notified

\* Past its filing a request has its ending, and past its marking a marked one.
EndingsFit ==
    \A r \in Requests :
        /\ http[r].pc = "filing" =>
              http[r].due \in Comments /\ EndsIt(http[r].due, r) /\ ReadsBack(http[r].due)
        /\ \/ http[r].pc \in {"marking", "mailing"}
           \/ http[r].pc = "over" /\ http[r].answer \in {201, 202} /\ ~http[r].silent
           => /\ http[r].conversation \in Conversations
              /\ IsEnded(r, thread[http[r].conversation])
        /\ r \in mailed => http[r].pc = "over"
        /\ http[r].pc = "mailing" \/ r \in mailed =>
              /\ http[r].conversation \in Conversations
              /\ IsMarked(r, thread[http[r].conversation])

IInv ==
    /\ TypeOK /\ BenchInv
    /\ NamesInOrder /\ NamesAreOwned /\ RequestsFit /\ VersionsFit
    /\ StashFits /\ StashLivesAsLongAsItsRequest
    /\ RefusalsFit /\ OrderIsRequests /\ CommentsFit /\ EndingsFit
-------------------------------------------------------------------------------
(* What each step does to the request that takes it *)

Alone(r) == \A q \in Requests \ {r} : http'[q] = http[q]

\* What of a request a step leaves as it is: the form, its place, the settings, what
\* it will tell the agent, and how it ends.
KeepsForm(r) ==
    /\ http'[r].opens = http[r].opens /\ http'[r].uploads = http[r].uploads
    /\ http'[r].postedAt = http[r].postedAt /\ http'[r].postedTo = http[r].postedTo
KeepsPlace(r) ==
    http'[r].conversation = http[r].conversation /\ http'[r].branch = http[r].branch
KeepsSettings(r) ==
    /\ http'[r].reading = http[r].reading /\ http'[r].settings = http[r].settings
    /\ http'[r].stale = http[r].stale
KeepsTold(r) ==
    /\ http'[r].refused = http[r].refused /\ http'[r].history = http[r].history
    /\ http'[r].buildFailed = http[r].buildFailed
KeepsEnd(r) ==
    /\ http'[r].answer = http[r].answer /\ http'[r].silent = http[r].silent
    /\ http'[r].due = http[r].due

\* A request that moves on and learns nothing; one that is over, and silent or not.
Moves(r, pc) ==
    /\ http' \in [Requests -> Known] /\ Alone(r) /\ http'[r].pc = pc
    /\ KeepsForm(r) /\ KeepsPlace(r) /\ KeepsSettings(r) /\ KeepsTold(r) /\ KeepsEnd(r)
IsOver(r, answer) ==
    /\ http' \in [Requests -> Known] /\ Alone(r) /\ http'[r].pc = "over"
    /\ http'[r].opens = http[r].opens /\ http'[r].conversation = http[r].conversation
    /\ http'[r].answer = answer /\ ~http'[r].silent
    /\ http'[r].postedTo = 0
IsSilent(r, answer) ==
    /\ http' \in [Requests -> Known] /\ Alone(r) /\ http'[r].pc = "over"
    /\ http'[r].opens = http[r].opens /\ http'[r].conversation = http[r].conversation
    /\ http'[r].answer = answer /\ http'[r].silent
    /\ http'[r].postedTo = 0

LEMMA IdleIsKnown ==
  Idle \in Known
  BY DEF Idle, Known, Stages, Unfinished, Opening

LEMMA OverIsKnown ==
  ASSUME NEW k \in Known
  PROVE  /\ Over(k) \in Known /\ Over(k).pc = "over" /\ Over(k).opens = k.opens
         /\ Over(k).answer = k.answer /\ Over(k).conversation = k.conversation
         /\ ~Over(k).silent /\ Over(k).postedTo = 0
  <1>1. /\ "over" \in Stages /\ k.opens \in BOOLEAN
        /\ k.answer \in Nat /\ k.conversation \in Nat
    BY DEF Known, Stages
  <1>2. Over(k) \in Known
    BY <1>1, IdleIsKnown DEF Over, Known
  <1>3. /\ Over(k).pc = "over" /\ Over(k).opens = k.opens
        /\ Over(k).answer = k.answer /\ Over(k).conversation = k.conversation
        /\ ~Over(k).silent /\ Over(k).postedTo = 0
    BY DEF Over, Idle
  <1> QED
    BY <1>2, <1>3

LEMMA WhenBecomes ==
  ASSUME http \in [Requests -> Known], NEW r \in Requests, NEW k \in Known, Becomes(r, k)
  PROVE  http' \in [Requests -> Known] /\ http'[r] = k /\ Alone(r)
  BY DEF Becomes, Alone

LEMMA WhenGoes ==
  ASSUME http \in [Requests -> Known], NEW r \in Requests, NEW pc \in Stages, Goes(r, pc)
  PROVE  Moves(r, pc)
  <1>1. /\ http' \in [Requests -> Known] /\ Alone(r)
        /\ http'[r] = [http[r] EXCEPT !.pc = pc]
    BY DEF Goes, Alone, Known
  <1>2. http[r] \in Known
    OBVIOUS
  <1> QED
    BY <1>1, <1>2
    DEF Moves, KeepsForm, KeepsPlace, KeepsSettings, KeepsTold, KeepsEnd, Known

LEMMA WhenEnds ==
  ASSUME http \in [Requests -> Known], NEW r \in Requests
  PROVE  /\ Ends(r) => IsOver(r, http[r].answer)
         /\ EndsSilently(r) => IsSilent(r, http[r].answer)
         /\ \A status \in Nat : Answers(r, status) => IsOver(r, status)
  <1> DEFINE k == Over(http[r])
  <1>1. /\ k \in Known /\ k.pc = "over" /\ k.opens = http[r].opens
        /\ k.answer = http[r].answer /\ k.conversation = http[r].conversation
        /\ k.silent = FALSE /\ k.postedTo = 0
    BY OverIsKnown DEF Known
  <1> HIDE DEF k
  <1>2. Ends(r) => IsOver(r, http[r].answer)
    BY <1>1, WhenBecomes DEF Ends, IsOver, k
  <1>3. EndsSilently(r) => IsSilent(r, http[r].answer)
    <2> DEFINE l == [k EXCEPT !.silent = TRUE]
    <2>1. /\ l \in Known /\ l.pc = "over" /\ l.opens = k.opens /\ l.answer = k.answer
          /\ l.conversation = k.conversation /\ l.silent = TRUE /\ l.postedTo = 0
      BY <1>1 DEF Known
    <2>2. EndsSilently(r) => Becomes(r, l)
      BY DEF EndsSilently, k
    <2> HIDE DEF l
    <2> QED
      BY <1>1, <2>1, <2>2, WhenBecomes DEF IsSilent
  <1>4. ASSUME NEW status \in Nat, Answers(r, status)
        PROVE  IsOver(r, status)
    <2> DEFINE l == [k EXCEPT !.answer = status]
    <2>1. /\ l \in Known /\ l.pc = "over" /\ l.opens = k.opens /\ l.answer = status
          /\ l.conversation = k.conversation /\ l.silent = FALSE /\ l.postedTo = 0
      BY <1>1 DEF Known
    <2>2. Becomes(r, l)
      BY <1>4 DEF Answers, k
    <2> HIDE DEF l
    <2> QED
      BY <1>1, <2>1, <2>2, WhenBecomes DEF IsOver
  <1> QED
    BY <1>2, <1>3, <1>4

LEMMA WhenAnswers ==
  ASSUME http \in [Requests -> Known], NEW r \in Requests,
         NEW status \in {409, 500, 502}, Answers(r, status)
  PROVE  IsOver(r, status)
  <1>1. status \in Nat
    OBVIOUS
  <1> QED
    BY <1>1, WhenEnds

LEMMA PagesAreSequences ==
  ASSUME TypeOK, NEW c \in Conversations
  PROVE  /\ Len(thread[c]) \in Nat /\ DOMAIN thread[c] = 1 .. Len(thread[c])
         /\ \A i \in 1 .. Len(thread[c]) : thread[c][i] \in Comments
         /\ DOMAIN ListComments(c) = 1 .. Len(ListComments(c))
         /\ Len(ListComments(c)) = IF Len(thread[c]) < PageSize THEN Len(thread[c]) ELSE PageSize
         /\ Len(ListComments(c)) \in Nat
         /\ \A i \in DOMAIN ListComments(c) :
               i \in DOMAIN thread[c] /\ i <= PageSize /\ ListComments(c)[i] = thread[c][i]
         /\ \A i \in DOMAIN thread[c] : i <= PageSize => i \in DOMAIN ListComments(c)
  <1> DEFINE s == thread[c]
             n == IF Len(s) < PageSize THEN Len(s) ELSE PageSize
  <1>1. s \in Seq(Comments)
    BY DEF TypeOK
  <1>2. Len(s) \in Nat /\ DOMAIN s = 1 .. Len(s) /\ \A i \in 1 .. Len(s) : s[i] \in Comments
    BY <1>1, LenProperties, ElementOfSeq
  <1>3. n \in Nat /\ n <= Len(s) /\ n <= PageSize /\ PageSize \in Nat
    BY <1>2, ConversationsConstants
  <1>4. /\ SubSeq(s, 1, n) \in Seq(Comments) /\ Len(SubSeq(s, 1, n)) = n
        /\ \A i \in 1 .. n : SubSeq(s, 1, n)[i] = s[i]
    <2> HIDE DEF n, s
    <2>1. \A i \in 1 .. n : s[i] \in Comments
      BY <1>2, <1>3
    <2> QED
      BY <1>3, <2>1, SubSeqProperties
  <1>5. DOMAIN SubSeq(s, 1, n) = 1 .. n
    BY <1>4, LenProperties
  <1>6. ListComments(c) = SubSeq(s, 1, n)
    BY DEF ListComments
  <1> HIDE DEF s
  <1>7. \A i \in 1 .. Len(s) : i <= PageSize => i \in 1 .. n
    BY <1>2, <1>3
  <1> QED
    BY <1>2, <1>3, <1>4, <1>5, <1>6, <1>7 DEF s

LEMMA SizesOfThreads ==
  ASSUME TypeOK
  PROVE  Len(pulls) \in Nat /\ DOMAIN pulls = 1 .. Len(pulls)
  BY LenProperties DEF TypeOK
-------------------------------------------------------------------------------
(* The effect of each action *)

LEMMA Typed ==
  ASSUME IInv
  PROVE  /\ http \in [Requests -> Known] /\ version \in Nat \ {0} /\ current \in Nat
         /\ refs \subseteq Nat /\ pulls \in Seq(refs)
         /\ Len(pulls) \in Nat /\ DOMAIN pulls = 1 .. Len(pulls)
         /\ DOMAIN pulls \subseteq Conversations /\ Conversations \subseteq Nat
         /\ version \in 1 .. Len(PolicyFiles)
         /\ \A c \in DOMAIN pulls : pulls[c] \in refs /\ pulls[c] \in Branches
  <1>1. TypeOK
    BY DEF IInv
  <1>2. /\ http \in [Requests -> Known] /\ version \in Nat \ {0} /\ current \in Nat
        /\ version \in 1 .. Len(PolicyFiles)
    BY <1>1, ConversationsConstants DEF TypeOK
  <1>3. IsFiniteSet(Requests) /\ Cardinality(Requests) \in Nat
    BY NumbersForAll, FS_CardinalityType
  <1>4. Conversations \subseteq Nat /\ Branches \subseteq Nat
    BY <1>3, NumbersForAll
  <1>5. \A c \in DOMAIN pulls : pulls[c] \in refs
    BY <1>1, ElementOfSeq, LenProperties DEF TypeOK
  <1> QED
    BY <1>1, <1>2, <1>4, <1>5, SizesOfThreads DEF TypeOK

\* The refusals a route may answer a form with.
LEMMA FormsAreAnswered ==
  ASSUME NEW form \in Forms
  PROVE  /\ ParseChangeRequest(form) \in {0, 400, 413, 415}
         /\ ParseChangeRequest(form) = 0 => (Stashes(form) <=> form.files # <<>>)
         /\ Stashes(form) => ParseChangeRequest(form) \in {0, 400}
         /\ Len(form.files) \in Nat /\ (Len(form.files) > 0 => form.files # <<>>)
  <1>1. form.files \in Seq(FileKinds)
    BY ConversationsConstants
  <1>2. Len(form.files) \in Nat /\ (Len(form.files) > 0 => form.files # <<>>)
    BY <1>1, LenProperties, EmptySeq
  <1>3. /\ ParseChangeRequest(form) \in {0, 400, 413, 415}
        /\ ParseChangeRequest(form) = 0 => form.fields /\ StashUploads(form.files) = "none"
        /\ form.fields /\ StashUploads(form.files) = "none" => ParseChangeRequest(form) \in {0, 400}
    BY DEF ParseChangeRequest
  <1> QED
    BY <1>2, <1>3 DEF Stashes

LEMMA PostDoes ==
  ASSUME IInv, NEW r \in Requests, Post(r)
  PROVE  /\ http[r].pc = "idle" /\ http' \in [Requests -> Known] /\ Alone(r)
         /\ http'[r].pc \in {"inspect", "policy", "over"}
         /\ http'[r].pc = "inspect" => http'[r].opens /\ http'[r].postedTo = 0
         /\ http'[r].pc = "policy" =>
               /\ http'[r].conversation \in DOMAIN pulls
               /\ http'[r].postedTo = Len(thread[http'[r].conversation])
         /\ http'[r].pc # "over" =>
               http'[r].postedAt = version /\ (http'[r].uploads > 0 => r \in stash')
         /\ http'[r].pc = "over" =>
               /\ http'[r].answer \in {400, 413, 415, Crash}
               /\ r \in stash' => r \in stash \/ http'[r].answer \in {400, Crash}
         /\ stash' \in {stash, stash \cup {r}}
  <1> DEFINE Sent(form, target) ==
                 [Idle EXCEPT !.opens = (target = 0), !.conversation = target,
                              !.uploads = Len(form.files), !.postedAt = version,
                              !.postedTo = IF target = 0 THEN 0 ELSE Len(thread[target])]
             Asks(form, target) == [Sent(form, target) EXCEPT !.pc = IF target = 0 THEN "inspect" ELSE "policy"]
             Refused(form, target, status) == [Over(Sent(form, target)) EXCEPT !.answer = status]
  <1>0. TypeOK /\ http \in [Requests -> Known]
    BY DEF IInv, TypeOK
  <1>1. PICK form \in Forms, target \in {0} \cup DOMAIN pulls :
            \/ /\ ParseChangeRequest(form) = 0
               /\ Becomes(r, Asks(form, target))
               /\ stash' = IF Stashes(form) THEN stash \cup {r} ELSE stash
            \/ /\ ParseChangeRequest(form) # 0
               /\ Becomes(r, Refused(form, target, ParseChangeRequest(form)))
               /\ stash' = IF Stashes(form) THEN stash \cup {r} ELSE stash
            \/ /\ HostFaults /\ Stashes(form)
               /\ Becomes(r, Refused(form, target, Crash))
               /\ stash' = stash \cup {r}
    BY Zenon DEF Post
  <1>2. http[r].pc = "idle"
    BY DEF Post, At
  <1>3. target \in Nat /\ (target # 0 => Len(thread[target]) \in Nat)
    BY <1>0, Typed, PagesAreSequences
  <1>4. version \in Nat /\ Len(form.files) \in Nat
    BY Typed, FormsAreAnswered
  <1>5. /\ Sent(form, target) \in Known
        /\ Sent(form, target).uploads = Len(form.files)
        /\ Sent(form, target).postedAt = version
        /\ Sent(form, target).opens = (target = 0)
        /\ Sent(form, target).conversation = target
        /\ Sent(form, target).postedTo = IF target = 0 THEN 0 ELSE Len(thread[target])
    BY <1>3, <1>4 DEF Idle, Known, Stages, Unfinished, Opening
  <1> HIDE DEF Sent
  <1>6. /\ Asks(form, target) \in Known
        /\ Asks(form, target).pc = IF target = 0 THEN "inspect" ELSE "policy"
        /\ Asks(form, target).uploads = Len(form.files)
        /\ Asks(form, target).postedAt = version
        /\ Asks(form, target).opens = (target = 0)
        /\ Asks(form, target).conversation = target
        /\ Asks(form, target).postedTo = IF target = 0 THEN 0 ELSE Len(thread[target])
    BY <1>5 DEF Known, Stages, Unfinished, Opening
  <1>7. \A status \in Nat : /\ Refused(form, target, status) \in Known
                            /\ Refused(form, target, status).pc = "over"
                            /\ Refused(form, target, status).answer = status
    <2> SUFFICES ASSUME NEW status \in Nat
                 PROVE  /\ Refused(form, target, status) \in Known
                        /\ Refused(form, target, status).pc = "over"
                        /\ Refused(form, target, status).answer = status
      OBVIOUS
    <2>1. Over(Sent(form, target)) \in Known /\ Over(Sent(form, target)).pc = "over"
      BY <1>5, OverIsKnown
    <2> QED
      BY <2>1 DEF Known
  <1> HIDE DEF Asks, Refused
  <1>8. CASE Becomes(r, Asks(form, target)) /\ ParseChangeRequest(form) = 0
              /\ stash' = IF Stashes(form) THEN stash \cup {r} ELSE stash
    <2>1. http' \in [Requests -> Known] /\ http'[r] = Asks(form, target) /\ Alone(r)
      BY <1>0, <1>6, <1>8, WhenBecomes
    <2>2. http'[r].uploads > 0 => r \in stash'
      BY <1>6, <1>8, <2>1, FormsAreAnswered
    <2> QED
      BY <1>2, <1>6, <1>8, <2>1, <2>2
  <1>9. ASSUME NEW status \in {400, 413, 415, Crash}, Becomes(r, Refused(form, target, status)),
               Stashes(form) => status \in {400, Crash},
               stash' = IF Stashes(form) THEN stash \cup {r} ELSE stash
        PROVE  /\ http' \in [Requests -> Known] /\ Alone(r) /\ http'[r].pc = "over"
               /\ http'[r].answer \in {400, 413, 415, Crash}
               /\ r \in stash' => r \in stash \/ http'[r].answer \in {400, Crash}
    <2>1. status \in Nat
      BY <1>9 DEF Crash
    <2>2. http' \in [Requests -> Known] /\ http'[r] = Refused(form, target, status) /\ Alone(r)
      BY <1>0, <1>7, <1>9, <2>1, WhenBecomes
    <2> QED
      BY <1>7, <1>9, <2>1, <2>2
  <1>10. stash' \in {stash, stash \cup {r}}
    BY <1>1
  <1> QED
    BY <1>1, <1>2, <1>8, <1>9, <1>10, FormsAreAnswered

LEMMA InspectLockDoes ==
  ASSUME IInv, NEW r \in Requests, InspectLock(r)
  PROVE  /\ http[r].pc = "inspect"
         /\ \/ Moves(r, "predict") /\ UNCHANGED stash
            \/ IsOver(r, 409) /\ stash' = stash \ {r}
  <1>1. http \in [Requests -> Known] /\ http[r].pc = "inspect"
    BY Typed DEF InspectLock, At
  <1>2. CASE step = "free" /\ Goes(r, "predict") /\ UNCHANGED stash
    <2>1. "predict" \in Stages
      BY DEF Stages, Unfinished, Opening
    <2> QED
      BY <1>1, <1>2, <2>1, WhenGoes
  <1>3. CASE step # "free" /\ Answers(r, 409) /\ Discards(r)
    <2>1. IsOver(r, 409)
      BY <1>1, <1>3, WhenAnswers
    <2> QED
      BY <1>1, <1>3, <2>1 DEF Discards
  <1> QED
    BY <1>2, <1>3 DEF InspectLock

LEMMA OpeningFailsDoes ==
  ASSUME IInv, NEW r \in Requests, OpeningFails(r)
  PROVE  /\ http[r].pc \in Opening /\ stash' = stash \ {r}
         /\ \E status \in {500, 502} : IsOver(r, status)
  <1>1. PICK status \in {500, 502} : Answers(r, status)
    BY DEF OpeningFails
  <1>2. http \in [Requests -> Known] /\ status \in {409, 500, 502}
    BY Typed
  <1>3. IsOver(r, status)
    BY <1>1, <1>2, WhenAnswers
  <1> QED
    BY <1>3 DEF OpeningFails, Discards

LEMMA PredictDoes ==
  ASSUME IInv, NEW r \in Requests, Predict(r)
  PROVE  /\ http[r].pc = "predict" /\ http' \in [Requests -> Known] /\ Alone(r)
         /\ http'[r].pc = "claim" /\ http'[r].branch = Len(pulls) + 1 /\ KeepsForm(r)
         /\ http'[r].conversation = http[r].conversation
  <1> DEFINE k == [http[r] EXCEPT !.pc = "claim", !.branch = HighestNumber + 1]
  <1>1. HighestNumber + 1 \in Nat /\ http[r] \in Known
    BY Typed DEF HighestNumber
  <1>2. /\ k \in Known /\ k.pc = "claim" /\ k.branch = HighestNumber + 1
        /\ k.opens = http[r].opens /\ k.uploads = http[r].uploads
        /\ k.postedAt = http[r].postedAt /\ k.postedTo = http[r].postedTo
        /\ k.conversation = http[r].conversation
    BY <1>1 DEF Known, Stages, Unfinished, Opening
  <1>3. Becomes(r, k) /\ http[r].pc = "predict"
    BY DEF Predict, At
  <1> HIDE DEF k
  <1> QED
    BY <1>2, <1>3, Typed, WhenBecomes DEF KeepsForm, HighestNumber

LEMMA ClaimBranchDoes ==
  ASSUME IInv, NEW r \in Requests, ClaimBranch(r)
  PROVE  /\ http[r].pc = "claim" /\ http' \in [Requests -> Known] /\ Alone(r)
         /\ \/ /\ http[r].branch \notin refs /\ refs' = refs \cup {http[r].branch}
               /\ http'[r].conversation = http[r].conversation
               /\ http'[r].pc = "pull" /\ http'[r].branch = http[r].branch /\ KeepsForm(r)
               /\ UNCHANGED stash
            \/ /\ http[r].branch \in refs
               /\ http'[r].conversation = http[r].conversation
               /\ http'[r].pc = "claim" /\ http'[r].branch = http[r].branch + 1 /\ KeepsForm(r)
               /\ UNCHANGED <<refs, stash>>
            \/ /\ IsOver(r, 500) /\ stash' = stash \ {r}
               /\ UNCHANGED refs
  <1> DEFINE k == [http[r] EXCEPT !.pc = "pull", !.reading = 0]
             l == [http[r] EXCEPT !.branch = http[r].branch + 1, !.reading = http[r].reading + 1]
  <1>1. http[r] \in Known /\ http[r].pc = "claim"
    BY Typed DEF ClaimBranch, At
  <1>2. http[r].branch + 1 \in Nat /\ http[r].reading + 1 \in Nat
    BY <1>1 DEF Known
  <1>3. /\ k \in Known /\ k.pc = "pull" /\ k.branch = http[r].branch
        /\ k.opens = http[r].opens /\ k.uploads = http[r].uploads
        /\ k.postedAt = http[r].postedAt /\ k.postedTo = http[r].postedTo
        /\ k.conversation = http[r].conversation
    BY <1>1 DEF Known, Stages, Unfinished, Opening
  <1>4. /\ l \in Known /\ l.pc = "claim" /\ l.branch = http[r].branch + 1
        /\ l.opens = http[r].opens /\ l.uploads = http[r].uploads
        /\ l.postedAt = http[r].postedAt /\ l.postedTo = http[r].postedTo
        /\ l.conversation = http[r].conversation
    BY <1>1, <1>2 DEF Known
  <1>5. \/ CreateRef(http[r].branch) /\ Becomes(r, k) /\ UNCHANGED stash
        \/ http[r].branch \in refs /\ Becomes(r, l) /\ UNCHANGED <<refs, stash>>
        \/ Answers(r, 500) /\ stash' = stash \ {r} /\ UNCHANGED refs
    BY DEF ClaimBranch, Discards
  <1> HIDE DEF k, l
  <1>6. CASE CreateRef(http[r].branch) /\ Becomes(r, k) /\ UNCHANGED stash
    BY <1>1, <1>3, <1>6, Typed, WhenBecomes DEF CreateRef, KeepsForm
  <1>7. CASE http[r].branch \in refs /\ Becomes(r, l) /\ UNCHANGED <<refs, stash>>
    BY <1>1, <1>4, <1>7, Typed, WhenBecomes DEF KeepsForm
  <1>8. CASE Answers(r, 500) /\ stash' = stash \ {r} /\ UNCHANGED refs
    <2> DEFINE status == 500
    <2>1. status \in {409, 500, 502} /\ Answers(r, status) /\ http \in [Requests -> Known]
      BY <1>8, Typed
    <2> HIDE DEF status
    <2>2. IsOver(r, status)
      BY <2>1, WhenAnswers
    <2> QED
      BY <1>1, <1>8, <2>2 DEF IsOver, status
  <1> QED
    BY <1>5, <1>6, <1>7, <1>8

LEMMA OpenConversationDoes ==
  ASSUME IInv, NEW r \in Requests, OpenConversation(r)
  PROVE  /\ http[r].pc = "pull" /\ http' \in [Requests -> Known] /\ Alone(r)
         /\ http'[r].pc = "policy" /\ KeepsForm(r)
         /\ http'[r].conversation = Len(pulls) + 1
         /\ Len(pulls') = Len(pulls) + 1 /\ DOMAIN pulls' = 1 .. Len(pulls) + 1
         /\ pulls'[Len(pulls) + 1] = http[r].branch
         /\ \A c \in DOMAIN pulls : pulls'[c] = pulls[c]
         /\ pulls' \in Seq(refs)
  <1> DEFINE n == Len(pulls')
             k == [http[r] EXCEPT !.pc = "policy", !.answer = 201, !.branch = 0,
                                  !.conversation = n]
  <1>1. http[r] \in Known /\ http[r].pc = "pull" /\ pulls \in Seq(refs)
    BY Typed DEF OpenConversation, At
  <1>2. http[r].branch \in refs
    BY <1>1 DEF IInv, NamesAreOwned
  <1>3. pulls' = Append(pulls, http[r].branch)
    BY DEF OpenConversation, CreatePullRequest
  <1>4. /\ pulls' \in Seq(refs) /\ Len(pulls') = Len(pulls) + 1
        /\ pulls'[Len(pulls) + 1] = http[r].branch
        /\ \A c \in 1 .. Len(pulls) : pulls'[c] = pulls[c]
    BY <1>1, <1>2, <1>3
  <1>5. Len(pulls) \in Nat /\ DOMAIN pulls = 1 .. Len(pulls)
    BY Typed
  <1>6. DOMAIN pulls' = 1 .. Len(pulls) + 1
    BY <1>4, LenProperties
  <1>a. n \in Nat
    BY <1>4, <1>5
  <1>7. /\ k \in Known /\ k.pc = "policy" /\ k.conversation = n
        /\ k.opens = http[r].opens /\ k.uploads = http[r].uploads
        /\ k.postedAt = http[r].postedAt /\ k.postedTo = http[r].postedTo
    <2> DEFINE created == 201
               l == [http[r] EXCEPT !.pc = "policy", !.answer = created, !.branch = 0]
    <2>1. created \in Nat
      OBVIOUS
    <2> HIDE DEF created, n
    <2>2. /\ l \in Known /\ l.pc = "policy"
          /\ l.opens = http[r].opens /\ l.uploads = http[r].uploads
          /\ l.postedAt = http[r].postedAt /\ l.postedTo = http[r].postedTo
      BY <1>1, <2>1 DEF Known, Stages, Unfinished
    <2>3. k = [l EXCEPT !.conversation = n]
      BY <1>1 DEF created, Known
    <2> HIDE DEF l, k
    <2> QED
      BY <1>a, <2>2, <2>3 DEF Known
  <1>8. Becomes(r, k)
    BY DEF OpenConversation
  <1> HIDE DEF k
  <1> QED
    BY <1>1, <1>4, <1>5, <1>6, <1>7, <1>8, Typed, WhenBecomes DEF KeepsForm

LEMMA StartFailedDoes ==
  ASSUME IInv, NEW r \in Requests, StartFailed(r)
  PROVE  /\ stash' = stash \ {r}
         /\ \/ http[r].opens /\ Moves(r, "refusal")
            \/ ~http[r].opens /\ IsOver(r, 500)
  <1>1. http \in [Requests -> Known] /\ http[r].opens \in BOOLEAN
    BY Typed DEF Known
  <1>2. CASE http[r].opens
    <2>1. Goes(r, "refusal") /\ "refusal" \in Stages
      BY <1>2 DEF StartFailed, Stages
    <2> QED
      BY <1>1, <1>2, <2>1, WhenGoes DEF StartFailed, Discards
  <1>3. CASE ~http[r].opens
    <2> DEFINE status == 500
    <2>1. status \in {409, 500, 502} /\ Answers(r, status)
      BY <1>3 DEF StartFailed
    <2> HIDE DEF status
    <2>2. IsOver(r, status)
      BY <1>1, <2>1, WhenAnswers
    <2> QED
      BY <1>3, <2>2 DEF StartFailed, Discards, status
  <1> QED
    BY <1>2, <1>3

LEMMA ReadPolicyDoes ==
  ASSUME IInv, NEW r \in Requests, ReadPolicy(r)
  PROVE  /\ http[r].pc = "policy" /\ http' \in [Requests -> Known] /\ Alone(r)
         /\ http'[r].pc = "settings" /\ http'[r].reading \in {0, version}
         /\ KeepsForm(r) /\ KeepsPlace(r)
  <1>1. PICK read \in Load :
            Becomes(r, [http[r] EXCEPT !.pc = "settings", !.reading = read])
    BY DEF ReadPolicy
  <1> DEFINE k == [http[r] EXCEPT !.pc = "settings", !.reading = read]
  <1>2. http[r] \in Known /\ http[r].pc = "policy" /\ read \in {0, version} /\ read \in Nat
    BY Typed DEF ReadPolicy, At, Load
  <1>3. /\ k \in Known /\ k.pc = "settings" /\ k.reading = read
        /\ k.opens = http[r].opens /\ k.uploads = http[r].uploads
        /\ k.postedAt = http[r].postedAt /\ k.postedTo = http[r].postedTo
        /\ k.conversation = http[r].conversation /\ k.branch = http[r].branch
    BY <1>2 DEF Known, Stages, Unfinished
  <1> HIDE DEF k
  <1> QED
    BY <1>1, <1>2, <1>3, Typed, WhenBecomes DEF KeepsForm, KeepsPlace, k

LEMMA PolicyArrivesDoes ==
  ASSUME IInv, NEW r \in Requests, PolicyArrives(r)
  PROVE  /\ http[r].pc = "settings" /\ http' \in [Requests -> Known] /\ Alone(r)
         /\ \/ /\ http[r].reading # 0 /\ current' = http[r].reading
               /\ http'[r].pc = "thread" /\ http'[r].settings = http[r].reading
               /\ KeepsForm(r) /\ KeepsPlace(r) /\ UNCHANGED stash
            \/ /\ current # 0
               /\ http'[r].pc = "thread" /\ http'[r].settings = current /\ http'[r].stale
               /\ KeepsForm(r) /\ KeepsPlace(r) /\ UNCHANGED <<current, stash>>
            \/ StartFailed(r) /\ UNCHANGED current
  <1> DEFINE k == [http[r] EXCEPT !.pc = "thread", !.reading = 0, !.settings = http[r].reading]
             l == [http[r] EXCEPT !.pc = "thread", !.reading = 0, !.settings = current,
                                  !.stale = TRUE]
  <1>1. http[r] \in Known /\ http[r].pc = "settings" /\ http[r].reading \in Nat /\ current \in Nat
    BY Typed DEF PolicyArrives, At, Known
  <1>2. /\ k \in Known /\ k.pc = "thread" /\ k.settings = http[r].reading
        /\ k.opens = http[r].opens /\ k.uploads = http[r].uploads
        /\ k.postedAt = http[r].postedAt /\ k.postedTo = http[r].postedTo
        /\ k.conversation = http[r].conversation /\ k.branch = http[r].branch
    BY <1>1 DEF Known, Stages, Unfinished
  <1>3. /\ l \in Known /\ l.pc = "thread" /\ l.settings = current /\ l.stale
        /\ l.opens = http[r].opens /\ l.uploads = http[r].uploads
        /\ l.postedAt = http[r].postedAt /\ l.postedTo = http[r].postedTo
        /\ l.conversation = http[r].conversation /\ l.branch = http[r].branch
    BY <1>1 DEF Known, Stages, Unfinished
  <1>4. \/ http[r].reading # 0 /\ current' = http[r].reading /\ Becomes(r, k) /\ UNCHANGED stash
        \/ current # 0 /\ Becomes(r, l) /\ UNCHANGED <<current, stash>>
        \/ StartFailed(r) /\ UNCHANGED current
    BY DEF PolicyArrives
  <1> HIDE DEF k, l
  <1>5. CASE http[r].reading # 0 /\ current' = http[r].reading /\ Becomes(r, k) /\ UNCHANGED stash
    BY <1>1, <1>2, <1>5, Typed, WhenBecomes DEF KeepsForm, KeepsPlace
  <1>6. CASE current # 0 /\ Becomes(r, l) /\ UNCHANGED <<current, stash>>
    BY <1>1, <1>3, <1>6, Typed, WhenBecomes DEF KeepsForm, KeepsPlace
  <1>7. CASE StartFailed(r) /\ UNCHANGED current
    BY <1>1, <1>7, StartFailedDoes DEF IsOver, Moves
  <1> QED
    BY <1>4, <1>5, <1>6, <1>7

LEMMA ReadThreadDoes ==
  ASSUME IInv, NEW r \in Requests, ReadThread(r)
  PROVE  /\ http[r].pc = "thread" /\ http' \in [Requests -> Known] /\ Alone(r)
         /\ http'[r].pc = "words" /\ KeepsForm(r) /\ KeepsSettings(r)
         /\ http'[r].conversation = http[r].conversation
         /\ http'[r].branch = pulls[http[r].conversation]
         /\ http'[r].refused = CollectRefusedPaths(ListComments(http[r].conversation))
  <1> DEFINE c == http[r].conversation
             page == ListComments(c)
             k == [http[r] EXCEPT !.pc = "words", !.branch = HeadOf(c),
                                  !.history = Cardinality(MessagesIn(page)),
                                  !.refused = CollectRefusedPaths(page),
                                  !.buildFailed = LastBuildFailed(page)]
  <1>1. http[r] \in Known /\ http[r].pc = "thread" /\ TypeOK
    BY Typed DEF ReadThread, At, IInv
  <1>2. c \in DOMAIN pulls /\ c \in Conversations /\ HeadOf(c) \in Nat /\ HeadOf(c) = pulls[c]
    BY <1>1, Typed DEF IInv, RequestsFit, Entered, HeadOf
  <1>3. Cardinality(MessagesIn(page)) \in Nat
    <2>1. DOMAIN page = 1 .. Len(page) /\ Len(page) \in Nat
      BY <1>1, <1>2, PagesAreSequences
    <2>2. IsFiniteSet(1 .. Len(page))
      BY <2>1, FS_Interval
    <2>3. MessagesIn(page) \subseteq 1 .. Len(page)
      BY <2>1 DEF MessagesIn
    <2> QED
      BY <2>2, <2>3, FS_Subset, FS_CardinalityType
  <1>4. CollectRefusedPaths(page) \subseteq Paths \cup {"none"}
    <2>1. \A i \in DOMAIN page : page[i] \in Comments
      BY <1>1, <1>2, PagesAreSequences
    <2> QED
      BY <2>1 DEF CollectRefusedPaths, RecordsIn, Comments
  <1>5. LastBuildFailed(page) \in BOOLEAN
    BY DEF LastBuildFailed
  <1> HIDE DEF page
  <1>a. "words" \in Stages
    BY DEF Stages, Unfinished
  <1>6. /\ k \in Known /\ k.pc = "words" /\ k.branch = HeadOf(c)
        /\ k.refused = CollectRefusedPaths(page)
        /\ k.opens = http[r].opens /\ k.uploads = http[r].uploads
        /\ k.postedAt = http[r].postedAt /\ k.postedTo = http[r].postedTo
        /\ k.conversation = c /\ k.settings = http[r].settings
        /\ k.reading = http[r].reading /\ k.stale = http[r].stale
    BY <1>1, <1>2, <1>3, <1>4, <1>5, <1>a DEF Known
  <1>7. Becomes(r, k)
    BY DEF ReadThread, page
  <1> HIDE DEF k
  <1> QED
    BY <1>1, <1>2, <1>6, <1>7, Typed, WhenBecomes DEF KeepsForm, KeepsSettings, page

\* A comment is appended to one thread, or marked in it; nothing else of it changes.
Appends(c, m) ==
    /\ \A d \in Conversations \ {c} : thread'[d] = thread[d]
    /\ Len(thread'[c]) = Len(thread[c]) + 1 /\ thread'[c][Len(thread[c]) + 1] = m
    /\ \A i \in DOMAIN thread[c] : thread'[c][i] = thread[c][i]
Marks(c, j) ==
    /\ \A d \in Conversations \ {c} : thread'[d] = thread[d]
    /\ Len(thread'[c]) = Len(thread[c])
    /\ \A i \in DOMAIN thread[c] :
          /\ i = j => thread'[c][i].notified
          /\ i # j => thread'[c][i] = thread[c][i]
          /\ thread'[c][i].kind = thread[c][i].kind
          /\ thread'[c][i].request = thread[c][i].request
          /\ thread'[c][i].outcome = thread[c][i].outcome
          /\ thread'[c][i].path = thread[c][i].path
          /\ thread'[c][i].readable = thread[c][i].readable

LEMMA CommentsAreAppended ==
  ASSUME TypeOK, NEW c \in Conversations, NEW m \in Comments, CreateComment(c, m)
  PROVE  thread' \in [Conversations -> Seq(Comments)] /\ Appends(c, m)
  <1>1. thread[c] \in Seq(Comments) /\ thread \in [Conversations -> Seq(Comments)]
    BY DEF TypeOK
  <1>2. thread' = [thread EXCEPT ![c] = Append(thread[c], m)]
    BY DEF CreateComment
  <1>3. thread'[c] = Append(thread[c], m) /\ \A d \in Conversations \ {c} : thread'[d] = thread[d]
    BY <1>1, <1>2
  <1>4. Append(thread[c], m) \in Seq(Comments)
    BY <1>1
  <1>5. /\ Len(Append(thread[c], m)) = Len(thread[c]) + 1
        /\ Append(thread[c], m)[Len(thread[c]) + 1] = m
        /\ \A i \in 1 .. Len(thread[c]) : Append(thread[c], m)[i] = thread[c][i]
    BY <1>1
  <1>6. DOMAIN thread[c] = 1 .. Len(thread[c])
    BY <1>1, LenProperties
  <1> QED
    BY <1>1, <1>2, <1>3, <1>4, <1>5, <1>6 DEF Appends

LEMMA CommentsAreMarked ==
  ASSUME TypeOK, NEW c \in Conversations, NEW j \in DOMAIN thread[c], MarkNotified(c, j)
  PROVE  thread' \in [Conversations -> Seq(Comments)] /\ Marks(c, j)
  <1> DEFINE m == [thread[c][j] EXCEPT !.notified = TRUE]
             s == [thread[c] EXCEPT ![j] = m]
  <1>1. thread[c] \in Seq(Comments) /\ thread \in [Conversations -> Seq(Comments)]
    BY DEF TypeOK
  <1>2. thread' = [thread EXCEPT ![c] = s]
    BY DEF MarkNotified
  <1>3. j \in 1 .. Len(thread[c]) /\ DOMAIN thread[c] = 1 .. Len(thread[c]) /\ thread[c][j] \in Comments
    BY <1>1, LenProperties, ElementOfSeq
  <1>4. /\ m \in Comments /\ m.notified
        /\ m.kind = thread[c][j].kind /\ m.request = thread[c][j].request
        /\ m.outcome = thread[c][j].outcome /\ m.path = thread[c][j].path
        /\ m.readable = thread[c][j].readable
    BY <1>3 DEF Comments
  <1> HIDE DEF m
  <1>5. /\ s \in Seq(Comments) /\ Len(s) = Len(thread[c])
        /\ \A i \in 1 .. Len(thread[c]) : s[i] = IF i = j THEN m ELSE thread[c][i]
    BY <1>1, <1>3, <1>4, ExceptSeq
  <1> HIDE DEF s
  <1>6. thread'[c] = s /\ \A d \in Conversations \ {c} : thread'[d] = thread[d]
    BY <1>1, <1>2
  <1>7. thread' \in [Conversations -> Seq(Comments)]
    BY <1>1, <1>2, <1>5
  <1> QED
    BY <1>3, <1>4, <1>5, <1>6, <1>7 DEF Marks

LEMMA RecordsAreComments ==
  ASSUME NEW r \in Requests, NEW end \in Endings
  PROVE  /\ RecordOf(r, end) \in Comments /\ EndsIt(RecordOf(r, end), r)
         /\ RecordOf(r, end).outcome = end.outcome /\ RecordOf(r, end).path = end.blockedPath
         /\ (end.outcome = "failed" => end.errorCode # "none")
            /\ (end.outcome = "blocked" => end.violation # "none") => ReadsBack(RecordOf(r, end))
  <1>1. /\ RecordOf(r, end).kind = "record" /\ RecordOf(r, end).request = r
        /\ RecordOf(r, end).outcome = end.outcome /\ RecordOf(r, end).path = end.blockedPath
        /\ RecordOf(r, end).readable = Complete(end)
    BY DEF RecordOf
  <1>2. Complete(end) \in BOOLEAN /\ (end.errorCode = "build_failed") \in BOOLEAN
    BY DEF Complete
  <1>3. RecordOf(r, end) \in Comments
    BY <1>2 DEF RecordOf, Comments, Endings
  <1>4. (end.outcome = "failed" => end.errorCode # "none")
            /\ (end.outcome = "blocked" => end.violation # "none")
        => Complete(end) \/ (end.outcome = "blocked" /\ end.blockedPath = "none")
    BY DEF Complete
  <1> QED
    BY <1>1, <1>3, <1>4 DEF EndsIt, ReadsBack

LEMMA WriteWordsDoes ==
  ASSUME IInv, NEW r \in Requests, WriteWords(r)
  PROVE  /\ http[r].pc = "words" /\ Moves(r, "lock") /\ Words(r) \in Comments
         /\ thread' \in [Conversations -> Seq(Comments)]
         /\ Appends(http[r].conversation, Words(r))
  <1>1. http \in [Requests -> Known] /\ http[r].pc = "words" /\ TypeOK
    BY Typed DEF WriteWords, At, IInv
  <1>2. http[r].conversation \in Conversations
    BY <1>1, Typed DEF IInv, RequestsFit, Entered
  <1>3. Words(r) \in Comments
    BY DEF Words, Comments
  <1>4. "lock" \in Stages
    BY DEF Stages, Unfinished
  <1>5. Moves(r, "lock")
    BY <1>1, <1>4, WhenGoes DEF WriteWords
  <1> QED
    BY <1>1, <1>2, <1>3, <1>5, CommentsAreAppended DEF WriteWords

LEMMA StartFailsDoes ==
  ASSUME IInv, NEW r \in Requests, StartFails(r)
  PROVE  /\ http[r].pc \in {"thread", "words", "lock"}
         /\ stash' = stash \ {r}
         /\ \/ http[r].opens /\ Moves(r, "refusal")
            \/ ~http[r].opens /\ IsOver(r, 500)
  BY StartFailedDoes DEF StartFails

LEMMA AcquireDoes ==
  ASSUME IInv, NEW r \in Requests, Acquire(r)
  PROVE  /\ http[r].pc = "lock" /\ step = "free" /\ order' = OrderOf(r)
         /\ http' \in [Requests -> Known] /\ Alone(r) /\ http'[r].pc = "running"
         /\ http'[r].opens = http[r].opens /\ http'[r].conversation = http[r].conversation
         /\ http'[r].postedTo = http[r].postedTo
  <1> DEFINE o == Over(http[r])
             n == IF o.opens THEN o.answer ELSE 202
             k == [o EXCEPT !.pc = "running", !.postedTo = http[r].postedTo, !.answer = n]
  <1>1. http[r] \in Known /\ http[r].pc = "lock" /\ http[r].postedTo \in Nat
    BY Typed DEF Acquire, At, Known
  <1>2. o \in Known /\ o.opens = http[r].opens /\ o.answer = http[r].answer
        /\ o.conversation = http[r].conversation
    BY <1>1, OverIsKnown
  <1>3. Becomes(r, [o EXCEPT !.pc = "running", !.postedTo = http[r].postedTo,
                             !.answer = IF http[r].opens THEN @ ELSE 202])
    BY DEF Acquire
  <1>4. [o EXCEPT !.pc = "running", !.postedTo = http[r].postedTo,
                  !.answer = IF http[r].opens THEN @ ELSE 202] = k
    BY <1>2 DEF Known
  <1>5. n \in Nat
    BY <1>2 DEF Known
  <1> HIDE DEF n
  <1>6. k \in Known /\ k.pc = "running" /\ k.opens = http[r].opens
        /\ k.conversation = http[r].conversation /\ k.postedTo = http[r].postedTo
    <2> HIDE DEF o
    <2> QED
      BY <1>1, <1>2, <1>5 DEF Known, Stages
  <1>7. step = "free" /\ order' = OrderOf(r)
    BY DEF Acquire, Begin
  <1>8. Becomes(r, k)
    BY <1>3, <1>4
  <1> HIDE DEF k, o
  <1> QED
    BY <1>1, <1>6, <1>7, <1>8, Typed, WhenBecomes

LEMMA TurnedAwayDoes ==
  ASSUME IInv, NEW r \in Requests, TurnedAway(r)
  PROVE  /\ http[r].pc = "lock" /\ stash' = stash \ {r}
         /\ \/ http[r].opens /\ Moves(r, "refusal")
            \/ ~http[r].opens /\ IsOver(r, 409)
  <1>1. http \in [Requests -> Known] /\ http[r].opens \in BOOLEAN /\ http[r].pc = "lock"
    BY Typed DEF Known, TurnedAway, At
  <1>2. CASE http[r].opens
    <2>1. Goes(r, "refusal") /\ "refusal" \in Stages
      BY <1>2 DEF TurnedAway, Stages
    <2> QED
      BY <1>1, <1>2, <2>1, WhenGoes DEF TurnedAway, Discards
  <1>3. CASE ~http[r].opens
    <2> DEFINE status == 409
    <2>1. status \in {409, 500, 502} /\ Answers(r, status)
      BY <1>3 DEF TurnedAway
    <2> HIDE DEF status
    <2>2. IsOver(r, status)
      BY <1>1, <2>1, WhenAnswers
    <2> QED
      BY <1>1, <1>3, <2>2 DEF TurnedAway, Discards, status
  <1> QED
    BY <1>2, <1>3

LEMMA RecordRefusalDoes ==
  ASSUME IInv, NEW r \in Requests, RecordRefusal(r)
  PROVE  /\ http[r].pc = "refusal"
         /\ \/ /\ IsOver(r, http[r].answer)
               /\ thread' \in [Conversations -> Seq(Comments)]
               /\ \E m \in Comments : /\ EndsIt(m, r) /\ ReadsBack(m)
                                      /\ Appends(http[r].conversation, m)
            \/ IsSilent(r, http[r].answer) /\ UNCHANGED thread
  <1>1. http \in [Requests -> Known] /\ http[r].pc = "refusal" /\ TypeOK
    BY Typed DEF RecordRefusal, At, IInv
  <1>2. http[r].conversation \in Conversations
    BY <1>1, Typed DEF IInv, RequestsFit, Entered
  <1> DEFINE m == RecordOf(r, Failed("request_in_flight"))
  <1>3. m \in Comments /\ EndsIt(m, r) /\ ReadsBack(m)
    <2>1. /\ Failed("request_in_flight") \in Endings
          /\ Failed("request_in_flight").outcome = "failed"
          /\ Failed("request_in_flight").errorCode = "request_in_flight"
      BY EndingsAreTyped DEF ErrorCodes
    <2> QED
      BY <2>1, RecordsAreComments
  <1> HIDE DEF m
  <1>4. CASE CreateComment(http[r].conversation, m) /\ Ends(r)
    BY <1>1, <1>2, <1>3, <1>4, WhenEnds, CommentsAreAppended
  <1>5. CASE EndsSilently(r) /\ UNCHANGED thread
    BY <1>1, <1>5, WhenEnds
  <1> QED
    BY <1>4, <1>5 DEF RecordRefusal, m

LEMMA FileRecordDoes ==
  ASSUME IInv, NEW r \in Requests, FileRecord(r)
  PROVE  /\ http[r].pc = "filing" /\ http[r].due \in Comments
         /\ thread' \in [Conversations -> Seq(Comments)]
         /\ Appends(http[r].conversation, http[r].due)
         /\ Moves(r, "marking") \/ IsOver(r, http[r].answer)
  <1>1. http \in [Requests -> Known] /\ http[r].pc = "filing" /\ TypeOK
    BY Typed DEF FileRecord, At, IInv
  <1>2. http[r].conversation \in Conversations
    BY <1>1, Typed DEF IInv, RequestsFit, Entered
  <1>3. http[r].due \in Comments
    BY <1>1 DEF IInv, EndingsFit
  <1>4. "marking" \in Stages
    BY DEF Stages
  <1>5. Moves(r, "marking") \/ IsOver(r, http[r].answer)
    BY <1>1, <1>4, WhenGoes, WhenEnds DEF FileRecord
  <1> QED
    BY <1>1, <1>2, <1>3, <1>5, CommentsAreAppended DEF FileRecord

LEMMA FilingFailsDoes ==
  ASSUME IInv, NEW r \in Requests, FilingFails(r)
  PROVE  http[r].pc = "filing" /\ IsSilent(r, http[r].answer)
  <1>1. http \in [Requests -> Known] /\ http[r].pc = "filing" /\ EndsSilently(r)
    BY Typed DEF FilingFails, At
  <1> QED
    BY <1>1, WhenEnds

LEMMA NotifyDoes ==
  ASSUME IInv, NEW r \in Requests, Notify(r)
  PROVE  /\ http[r].pc = "marking"
         /\ \/ /\ Moves(r, "mailing") /\ thread' \in [Conversations -> Seq(Comments)]
               /\ \E j \in DOMAIN thread[http[r].conversation] :
                     /\ EndsIt(thread[http[r].conversation][j], r)
                     /\ Marks(http[r].conversation, j)
            \/ IsOver(r, http[r].answer) /\ UNCHANGED thread
  <1> DEFINE c == http[r].conversation
             found == {i \in DOMAIN ListComments(c) :
                          thread[c][i].kind = "record" /\ thread[c][i].request = r}
  <1>1. http \in [Requests -> Known] /\ http[r].pc = "marking" /\ TypeOK
    BY Typed DEF Notify, At, IInv
  <1>2. c \in Conversations
    BY <1>1, Typed DEF IInv, RequestsFit, Entered
  <1>3. ASSUME NEW i \in found, MarkNotified(c, i), Goes(r, "mailing")
        PROVE  /\ Moves(r, "mailing") /\ thread' \in [Conversations -> Seq(Comments)]
               /\ i \in DOMAIN thread[c] /\ EndsIt(thread[c][i], r) /\ Marks(c, i)
    <2>1. i \in DOMAIN thread[c] /\ EndsIt(thread[c][i], r)
      BY <1>1, <1>2, PagesAreSequences DEF EndsIt
    <2>2. "mailing" \in Stages
      BY DEF Stages
    <2> QED
      BY <1>1, <1>2, <1>3, <2>1, <2>2, WhenGoes, CommentsAreMarked
  <1>4. Ends(r) => IsOver(r, http[r].answer)
    BY <1>1, WhenEnds
  <1> QED
    BY <1>1, <1>3, <1>4 DEF Notify

LEMMA SendMailDoes ==
  ASSUME IInv, NEW r \in Requests, SendMail(r)
  PROVE  /\ http[r].pc = "mailing" /\ IsOver(r, http[r].answer)
         /\ mailed' = mailed \cup {r}
  BY Typed, WhenEnds DEF SendMail, At

LEMMA FinishRequestDoes ==
  ASSUME IInv, FinishRequest
  PROVE  LET r == order.request
         IN  /\ order # None /\ step = "finish" /\ step' = "discard" /\ order' = order
             /\ r \in Requests /\ http[r].pc = "running"
             /\ http' \in [Requests -> Known] /\ Alone(r) /\ http'[r].pc = "filing"
             /\ KeepsForm(r) /\ KeepsPlace(r)
             /\ http'[r].due \in Comments /\ EndsIt(http'[r].due, r) /\ ReadsBack(http'[r].due)
  <1> DEFINE r == order.request
             due == RecordOf(r, ending)
             k == [http[r] EXCEPT !.pc = "filing", !.due = due]
  <1>1. step = "finish" /\ step' = "discard" /\ order' = order
    BY DEF FinishRequest, Finish
  <1>2. order # None
    BY <1>1 DEF IInv, TypeOK, BenchTypeOK
  <1>3. r \in Requests /\ http \in [Requests -> Known] /\ http[r] \in Known
    BY <1>2, Typed DEF IInv, OrderIsRequests
  <1>4. http[r].pc = "running"
    BY <1>1, <1>2, <1>3 DEF IInv, TypeOK
  <1>5. due \in Comments /\ EndsIt(due, r) /\ ReadsBack(due)
    <2>1. ending \in Endings /\ (ending.outcome = "failed" => ending.errorCode # "none")
            /\ (ending.outcome = "blocked" => ending.violation # "none")
      BY <1>1 DEF IInv, BenchInv, BenchTypeOK, EndingIsTold
    <2> QED
      BY <1>3, <2>1, RecordsAreComments
  <1>6. http' = [http EXCEPT ![r].pc = "filing", ![r].due = due]
    BY DEF FinishRequest
  <1> HIDE DEF due, r
  <1>7. http' = [http EXCEPT ![r] = k]
    BY <1>3, <1>6
  <1>8. /\ k \in Known /\ k.pc = "filing" /\ k.due = due
        /\ k.opens = http[r].opens /\ k.uploads = http[r].uploads
        /\ k.postedAt = http[r].postedAt /\ k.postedTo = http[r].postedTo
        /\ k.conversation = http[r].conversation /\ k.branch = http[r].branch
    BY <1>3, <1>5 DEF Known, Stages
  <1> HIDE DEF k
  <1>9. http' \in [Requests -> Known] /\ http'[r] = k /\ Alone(r)
    BY <1>3, <1>7, <1>8 DEF Alone
  <1> QED
    BY <1>1, <1>2, <1>3, <1>4, <1>5, <1>8, <1>9 DEF KeepsForm, KeepsPlace, r

-------------------------------------------------------------------------------
(* What each step leaves as it is *)

BenchStays == UNCHANGED benchVars /\ step' = step /\ order' = order /\ prompt' = prompt
PolicyStays == version' = version /\ current' = current
NamesStay == pulls' = pulls /\ refs' = refs

LEMMA Frames ==
  ASSUME NEW r \in Requests
  PROVE  /\ Post(r) \/ InspectLock(r) \/ OpeningFails(r) \/ StartFails(r) \/ TurnedAway(r)
              => BenchStays /\ PolicyStays /\ NamesStay /\ UNCHANGED <<thread, mailed>>
         /\ Predict(r) \/ ReadPolicy(r) \/ ReadThread(r) \/ FilingFails(r)
              => BenchStays /\ PolicyStays /\ NamesStay /\ UNCHANGED <<thread, stash, mailed>>
         /\ ClaimBranch(r)
              => BenchStays /\ PolicyStays /\ UNCHANGED <<pulls, thread, mailed>>
         /\ OpenConversation(r)
              => BenchStays /\ PolicyStays /\ UNCHANGED <<refs, thread, stash, mailed>>
         /\ PolicyArrives(r)
              => BenchStays /\ NamesStay /\ UNCHANGED <<version, thread, mailed>>
         /\ WriteWords(r) \/ RecordRefusal(r) \/ FileRecord(r) \/ Notify(r)
              => BenchStays /\ PolicyStays /\ NamesStay /\ UNCHANGED <<stash, mailed>>
         /\ SendMail(r)
              => BenchStays /\ PolicyStays /\ NamesStay /\ UNCHANGED <<thread, stash>>
         /\ Acquire(r)
              => PolicyStays /\ NamesStay /\ UNCHANGED <<thread, stash, mailed>>
  <1> USE DEF BenchStays, PolicyStays, NamesStay, benchVars, bench, hostVars, threads
  <1>1. Post(r) \/ InspectLock(r) \/ OpeningFails(r) \/ StartFails(r) \/ TurnedAway(r)
              => BenchStays /\ PolicyStays /\ NamesStay /\ UNCHANGED <<thread, mailed>>
    <2>1. Post(r) => BenchStays /\ PolicyStays /\ NamesStay /\ UNCHANGED <<thread, mailed>>
      BY DEF Post
    <2>2. InspectLock(r) \/ OpeningFails(r)
              => BenchStays /\ PolicyStays /\ NamesStay /\ UNCHANGED <<thread, mailed>>
      BY DEF InspectLock, OpeningFails
    <2>3. StartFails(r) \/ TurnedAway(r)
              => BenchStays /\ PolicyStays /\ NamesStay /\ UNCHANGED <<thread, mailed>>
      BY DEF StartFails, TurnedAway
    <2> QED
      BY <2>1, <2>2, <2>3
  <1>2. Predict(r) \/ ReadPolicy(r) \/ ReadThread(r) \/ FilingFails(r)
              => BenchStays /\ PolicyStays /\ NamesStay /\ UNCHANGED <<thread, stash, mailed>>
    BY DEF Predict, ReadPolicy, ReadThread, FilingFails
  <1>3. ClaimBranch(r)
              => BenchStays /\ PolicyStays /\ UNCHANGED <<pulls, thread, mailed>>
    BY DEF ClaimBranch
  <1>4. OpenConversation(r)
              => BenchStays /\ PolicyStays /\ UNCHANGED <<refs, thread, stash, mailed>>
    BY DEF OpenConversation
  <1>5. PolicyArrives(r)
              => BenchStays /\ NamesStay /\ UNCHANGED <<version, thread, mailed>>
    BY DEF PolicyArrives
  <1>6. WriteWords(r) \/ RecordRefusal(r) \/ FileRecord(r) \/ Notify(r)
              => BenchStays /\ PolicyStays /\ NamesStay /\ UNCHANGED <<stash, mailed>>
    BY DEF WriteWords, RecordRefusal, FileRecord, Notify
  <1>7. SendMail(r)
              => BenchStays /\ PolicyStays /\ NamesStay /\ UNCHANGED <<thread, stash>>
    BY DEF SendMail
  <1>8. Acquire(r)
              => PolicyStays /\ NamesStay /\ UNCHANGED <<thread, stash, mailed>>
    BY DEF Acquire
  <1> HIDE DEF BenchStays, PolicyStays, NamesStay, benchVars, bench, hostVars, threads
  <1> QED
    BY <1>1, <1>2, <1>3, <1>4, <1>5, <1>6, <1>7, <1>8

LEMMA OtherFrames ==
  /\ AtWork \/ FinishRequest
        => PolicyStays /\ NamesStay /\ UNCHANGED <<thread, stash, mailed>>
  /\ AtWork => Work /\ UNCHANGED http
  /\ CleanUpRequest
        => PolicyStays /\ NamesStay /\ UNCHANGED <<thread, mailed, http>>
  /\ CleanUpRequest => CleanUp /\ step = "discard" /\ step' = "free" /\ order' = None
                       /\ stash' = stash \ {order.request}
  /\ EditPolicy => /\ BenchStays /\ NamesStay /\ UNCHANGED <<current, thread, stash, mailed, http>>
                   /\ version' = version + 1 /\ version < Len(PolicyFiles)
  /\ UNCHANGED vars
        => BenchStays /\ PolicyStays /\ NamesStay /\ UNCHANGED <<thread, stash, mailed, http>>
  <1> USE DEF BenchStays, PolicyStays, NamesStay, benchVars, bench, hostVars, threads
  <1>1. /\ AtWork \/ FinishRequest
              => PolicyStays /\ NamesStay /\ UNCHANGED <<thread, stash, mailed>>
        /\ AtWork => Work /\ UNCHANGED http
    BY DEF AtWork, FinishRequest
  <1>2. CleanUpRequest
          => PolicyStays /\ NamesStay /\ UNCHANGED <<thread, mailed, http>>
    BY DEF CleanUpRequest
  <1>3. CleanUpRequest => CleanUp /\ step = "discard" /\ step' = "free" /\ order' = None
                          /\ stash' = stash \ {order.request}
    BY DEF CleanUpRequest, CleanUp, Discards
  <1>4. EditPolicy => /\ BenchStays /\ NamesStay
                      /\ UNCHANGED <<current, thread, stash, mailed, http>>
                      /\ version' = version + 1 /\ version < Len(PolicyFiles)
    BY DEF EditPolicy
  <1>5. UNCHANGED vars
          => BenchStays /\ PolicyStays /\ NamesStay /\ UNCHANGED <<thread, stash, mailed, http>>
    BY DEF vars
  <1> QED
    BY <1>1, <1>2, <1>3, <1>4, <1>5

-------------------------------------------------------------------------------
(* Threads, and what stays true of them as they grow *)

\* A comment stays what it was, but that it may have been marked since.
Same(m, n) ==
    /\ n.kind = m.kind /\ n.request = m.request /\ n.outcome = m.outcome
    /\ n.path = m.path /\ n.readable = m.readable /\ (m.notified => n.notified)
Grows(s, t) ==
    /\ Len(s) <= Len(t) /\ DOMAIN s \subseteq DOMAIN t
    /\ \A i \in DOMAIN s : Same(s[i], t[i])
ThreadsGrow == \A c \in Conversations : Grows(thread[c], thread'[c])
NobodyWrites == \A c \in Conversations : DOMAIN thread'[c] = DOMAIN thread[c]

LEMMA KeptThreadsGrow ==
  ASSUME TypeOK, thread' = thread
  PROVE  /\ thread' \in [Conversations -> Seq(Comments)] /\ ThreadsGrow /\ NobodyWrites
  BY PagesAreSequences DEF TypeOK, ThreadsGrow, NobodyWrites, Grows, Same

LEMMA AppendedThreadsGrow ==
  ASSUME TypeOK, NEW c \in Conversations, NEW m,
         thread' \in [Conversations -> Seq(Comments)], Appends(c, m)
  PROVE  /\ ThreadsGrow
         /\ \A d \in Conversations, i \in Nat : i \in DOMAIN thread'[d] =>
               \/ i \in DOMAIN thread[d] /\ thread'[d][i] = thread[d][i]
               \/ d = c /\ i = Len(thread[c]) + 1 /\ thread'[d][i] = m
         /\ Len(thread[c]) + 1 \in DOMAIN thread'[c]
  <1>1. \A d \in Conversations : /\ Len(thread[d]) \in Nat /\ DOMAIN thread[d] = 1 .. Len(thread[d])
                                 /\ DOMAIN thread'[d] = 1 .. Len(thread'[d])
    BY PagesAreSequences, LenProperties
  <1>2. Len(thread'[c]) = Len(thread[c]) + 1 /\ thread'[c][Len(thread[c]) + 1] = m
    BY DEF Appends
  <1>3. \A d \in Conversations \ {c} : thread'[d] = thread[d]
    BY DEF Appends
  <1>4. \A i \in DOMAIN thread[c] : thread'[c][i] = thread[c][i]
    BY DEF Appends
  <1>5. Grows(thread[c], thread'[c])
    BY <1>1, <1>2, <1>4 DEF Grows, Same
  <1>6. \A d \in Conversations \ {c} : Grows(thread[d], thread'[d])
    BY <1>1, <1>3 DEF Grows, Same
  <1>7. ASSUME NEW i \in DOMAIN thread'[c]
        PROVE  \/ i \in DOMAIN thread[c] /\ thread'[c][i] = thread[c][i]
               \/ i = Len(thread[c]) + 1 /\ thread'[c][i] = m
    BY <1>1, <1>2, <1>4
  <1> QED
    BY <1>1, <1>2, <1>3, <1>5, <1>6, <1>7 DEF ThreadsGrow

LEMMA MarkedThreadsGrow ==
  ASSUME TypeOK, NEW c \in Conversations, NEW j \in DOMAIN thread[c],
         thread' \in [Conversations -> Seq(Comments)], Marks(c, j)
  PROVE  ThreadsGrow /\ NobodyWrites /\ j \in DOMAIN thread'[c] /\ thread'[c][j].notified
  <1>1. \A d \in Conversations : /\ Len(thread[d]) \in Nat /\ DOMAIN thread[d] = 1 .. Len(thread[d])
                                 /\ DOMAIN thread'[d] = 1 .. Len(thread'[d])
    BY PagesAreSequences, LenProperties
  <1>2. Len(thread'[c]) = Len(thread[c])
    BY DEF Marks
  <1>3. \A d \in Conversations \ {c} : thread'[d] = thread[d]
    BY DEF Marks
  <1>4. \A i \in DOMAIN thread[c] : Same(thread[c][i], thread'[c][i])
    BY DEF Marks, Same
  <1>5. Grows(thread[c], thread'[c]) /\ DOMAIN thread'[c] = DOMAIN thread[c]
    BY <1>1, <1>2, <1>4 DEF Grows
  <1>6. \A d \in Conversations \ {c} : Grows(thread[d], thread'[d])
    BY <1>1, <1>3 DEF Grows, Same
  <1>7. thread'[c][j].notified
    BY DEF Marks
  <1> QED
    BY <1>3, <1>5, <1>6, <1>7 DEF ThreadsGrow, NobodyWrites

LEMMA TellsOn ==
  ASSUME NEW s \in Seq(Comments), NEW t \in Seq(Comments), Grows(s, t),
         NEW n \in Nat, NEW refused, Tells(refused, s, n)
  PROVE  Tells(refused, t, n) /\ Tells(refused, t, 0)
  <1>1. /\ Len(s) \in Nat /\ DOMAIN s = 1 .. Len(s) /\ Len(t) \in Nat /\ DOMAIN t = 1 .. Len(t)
        /\ PageSize \in Nat
    BY LenProperties, ConversationsConstants
  <1>2. \A i \in DOMAIN s : /\ i \in DOMAIN t /\ t[i].path = s[i].path
                            /\ Refuses(t[i]) <=> Refuses(s[i])
    BY DEF Grows, Same, Refuses
  <1> DEFINE m == IF n < PageSize THEN n ELSE PageSize
  <1>3. m \in Nat /\ m <= Len(s)
    BY <1>1 DEF Tells
  <1>4. RefusedBy(t, m) \subseteq RefusedBy(s, m)
    <2> HIDE DEF m
    <2> QED
      BY <1>1, <1>2, <1>3 DEF RefusedBy
  <1>5. RefusedBy(s, PageSize) \subseteq RefusedBy(t, PageSize)
    BY <1>2 DEF RefusedBy
  <1>6. n <= Len(t)
    BY <1>1 DEF Tells, Grows
  <1>7. RefusedBy(s, m) \subseteq refused /\ refused \subseteq RefusedBy(s, PageSize)
    BY DEF Tells
  <1>8. RefusedBy(t, IF 0 < PageSize THEN 0 ELSE PageSize) = {}
    <2>1. (IF 0 < PageSize THEN 0 ELSE PageSize) = 0
      BY ConversationsConstants
    <2>2. RefusedBy(t, 0) = {}
      BY <1>1 DEF RefusedBy
    <2> QED
      BY <2>1, <2>2
  <1> HIDE DEF m
  <1>9. RefusedBy(t, m) \subseteq refused /\ refused \subseteq RefusedBy(t, PageSize)
    BY <1>4, <1>5, <1>7
  <1> QED
    BY <1>1, <1>6, <1>8, <1>9 DEF Tells, m

LEMMA EndedOn ==
  ASSUME NEW r, NEW s, NEW t, Grows(s, t), IsEnded(r, s),
         \A i \in DOMAIN t \ DOMAIN s : t[i].request # r
  PROVE  IsEnded(r, t)
  <1>1. PICK j \in DOMAIN s :
            /\ EndsIt(s[j], r) /\ ReadsBack(s[j])
            /\ \A i \in DOMAIN s : s[i].request = r => i = j \/ (i < j /\ s[i].kind = "words")
    BY DEF IsEnded
  <1>2. j \in DOMAIN t /\ EndsIt(t[j], r) /\ ReadsBack(t[j])
    BY <1>1 DEF Grows, Same, EndsIt, ReadsBack
  <1>3. \A i \in DOMAIN t : t[i].request = r => i = j \/ (i < j /\ t[i].kind = "words")
    BY <1>1 DEF Grows, Same
  <1> QED
    BY <1>2, <1>3 DEF IsEnded

LEMMA MarkedOn ==
  ASSUME NEW r, NEW s, NEW t, Grows(s, t), IsMarked(r, s)
  PROVE  IsMarked(r, t)
  BY DEF Grows, Same, IsMarked, EndsIt

\* Whatever the step, a name taken stays taken, a pull request keeps its head and a
\* thread its comments.
NamesGrow ==
    /\ refs \subseteq refs' /\ pulls' \in Seq(refs')
    /\ DOMAIN pulls \subseteq DOMAIN pulls' /\ \A c \in DOMAIN pulls : pulls'[c] = pulls[c]

LEMMA WorldGrows ==
  ASSUME IInv, [Next]_vars
  PROVE  /\ http' \in [Requests -> Known]
         /\ thread' \in [Conversations -> Seq(Comments)] /\ ThreadsGrow
         /\ NamesGrow
         /\ version' \in {version, version + 1} /\ version' \in 1 .. Len(PolicyFiles)
  <1> DEFINE AllKnown == http' \in [Requests -> Known]
             ThreadsGo == thread' \in [Conversations -> Seq(Comments)] /\ ThreadsGrow
             VersionGoes == version' \in {version, version + 1} /\ version' \in 1 .. Len(PolicyFiles)
  <1>0. TypeOK /\ http \in [Requests -> Known] /\ version \in 1 .. Len(PolicyFiles)
        /\ Len(PolicyFiles) \in Nat
    BY Typed, ConversationsConstants DEF IInv
  <1>a. thread' = thread => ThreadsGo
    BY <1>0, KeptThreadsGrow
  <1>b. PolicyStays => VersionGoes
    BY <1>0 DEF PolicyStays
  <1>c. NamesStay => NamesGrow
    BY Typed DEF NamesStay, NamesGrow
  <1>d. refs' = refs /\ pulls' = pulls => NamesGrow
    BY Typed DEF NamesGrow
  <1>e. http' = http => AllKnown
    BY <1>0
  <1>h. ASSUME NEW c \in Conversations, NEW m, thread' \in [Conversations -> Seq(Comments)], Appends(c, m)
        PROVE  ThreadsGo
    BY <1>0, <1>h, AppendedThreadsGrow
  <1>i. \A r \in Requests : http[r].pc \in Entered => http[r].conversation \in Conversations
    BY Typed DEF IInv, RequestsFit
  <1> USE DEF Entered
  <1> HIDE DEF AllKnown, ThreadsGo, VersionGoes
  <1>1. CASE AtWork \/ CleanUpRequest \/ EditPolicy \/ UNCHANGED vars
    <2>1. AllKnown /\ ThreadsGo /\ NamesGrow
      BY <1>1, <1>a, <1>c, <1>e, OtherFrames
    <2>2. EditPolicy => VersionGoes
      BY <1>0, OtherFrames DEF VersionGoes
    <2>3. ~EditPolicy => VersionGoes
      BY <1>1, <1>b, OtherFrames
    <2> QED
      BY <2>1, <2>2, <2>3 DEF AllKnown, ThreadsGo, VersionGoes
  <1>2. CASE FinishRequest
    <2>1. AllKnown
      BY <1>2, FinishRequestDoes DEF AllKnown
    <2> QED
      BY <1>2, <1>a, <1>b, <1>c, <2>1, OtherFrames DEF AllKnown, ThreadsGo, VersionGoes
  <1>3. ASSUME NEW r \in Requests,
               Post(r) \/ InspectLock(r) \/ OpeningFails(r) \/ Predict(r) \/ ReadPolicy(r)
                 \/ ReadThread(r) \/ StartFails(r) \/ Acquire(r) \/ TurnedAway(r)
                 \/ FilingFails(r) \/ SendMail(r)
        PROVE  AllKnown /\ ThreadsGo /\ VersionGoes /\ NamesGrow
    <2>1. thread' = thread /\ PolicyStays /\ NamesStay
      BY <1>3, Frames
    <2>2. AllKnown
      <3>1. Post(r) \/ Predict(r) \/ ReadPolicy(r) \/ ReadThread(r) \/ Acquire(r) => AllKnown
        BY PostDoes, PredictDoes, ReadPolicyDoes, ReadThreadDoes, AcquireDoes DEF AllKnown
      <3>2. InspectLock(r) \/ OpeningFails(r) \/ StartFails(r) => AllKnown
        BY InspectLockDoes, OpeningFailsDoes, StartFailsDoes DEF Moves, IsOver, AllKnown
      <3>3. TurnedAway(r) \/ FilingFails(r) \/ SendMail(r) => AllKnown
        BY TurnedAwayDoes, FilingFailsDoes, SendMailDoes DEF Moves, IsOver, IsSilent, AllKnown
      <3> QED
        BY <1>3, <3>1, <3>2, <3>3
    <2> QED
      BY <1>a, <1>b, <1>c, <2>1, <2>2
  <1>4. ASSUME NEW r \in Requests, ClaimBranch(r)
        PROVE  AllKnown /\ ThreadsGo /\ VersionGoes /\ NamesGrow
    <2>1. AllKnown /\ refs \subseteq refs'
      BY <1>4, ClaimBranchDoes DEF AllKnown
    <2>2. thread' = thread /\ PolicyStays /\ pulls' = pulls
      BY <1>4, Frames
    <2>3. pulls' \in Seq(refs')
      <3>1. \A c \in 1 .. Len(pulls) : pulls[c] \in refs'
        BY <2>1, Typed
      <3> QED
        BY <2>2, <3>1, Typed, SeqDef
    <2> QED
      BY <1>a, <1>b, <2>1, <2>2, <2>3 DEF NamesGrow
  <1>5. ASSUME NEW r \in Requests, OpenConversation(r)
        PROVE  AllKnown /\ ThreadsGo /\ VersionGoes /\ NamesGrow
    <2>1. AllKnown
      BY <1>5, OpenConversationDoes DEF AllKnown
    <2>2. thread' = thread /\ PolicyStays /\ refs' = refs
      BY <1>5, Frames
    <2>3. /\ pulls' \in Seq(refs) /\ DOMAIN pulls' = 1 .. Len(pulls) + 1
          /\ \A c \in DOMAIN pulls : pulls'[c] = pulls[c]
          /\ Len(pulls) \in Nat /\ DOMAIN pulls = 1 .. Len(pulls)
      BY <1>5, OpenConversationDoes, Typed
    <2>4. NamesGrow
      BY <2>2, <2>3 DEF NamesGrow
    <2> QED
      BY <1>a, <1>b, <2>1, <2>2, <2>4
  <1>6. ASSUME NEW r \in Requests, PolicyArrives(r)
        PROVE  AllKnown /\ ThreadsGo /\ VersionGoes /\ NamesGrow
    <2>1. AllKnown
      BY <1>6, PolicyArrivesDoes DEF AllKnown
    <2> QED
      BY <1>0, <1>6, <1>a, <1>c, <2>1, Frames DEF VersionGoes
  <1>7. ASSUME NEW r \in Requests,
               WriteWords(r) \/ RecordRefusal(r) \/ FileRecord(r) \/ Notify(r)
        PROVE  AllKnown /\ ThreadsGo /\ VersionGoes /\ NamesGrow
    <2>1. PolicyStays /\ NamesStay
      BY <1>7, Frames
    <2>2. AllKnown
      BY <1>7, WriteWordsDoes, RecordRefusalDoes, FileRecordDoes, NotifyDoes
      DEF Moves, IsOver, IsSilent, AllKnown
    <2>3. WriteWords(r) => ThreadsGo
      BY <1>h, <1>i, WriteWordsDoes
    <2>4. RecordRefusal(r) => ThreadsGo
      BY <1>h, <1>i, <1>a, RecordRefusalDoes
    <2>5. FileRecord(r) => ThreadsGo
      BY <1>h, <1>i, FileRecordDoes
    <2>6. Notify(r) => ThreadsGo
      BY <1>0, <1>a, <1>i, NotifyDoes, MarkedThreadsGrow DEF ThreadsGo
    <2> QED
      BY <1>7, <1>b, <1>c, <2>1, <2>2, <2>3, <2>4, <2>5, <2>6
  <1> QED
    BY <1>1, <1>2, <1>3, <1>4, <1>5, <1>6, <1>7 DEF Next, AllKnown, ThreadsGo, VersionGoes

\* The life of a request, from one step to the next.
LEMMA Opens ==
  ASSUME IInv, NEW r \in Requests
  PROVE  /\ Post(r) => http[r].pc = "idle" /\ http'[r].pc \in {"inspect", "policy", "over"}
         /\ InspectLock(r) => http[r].pc = "inspect" /\ http'[r].pc \in {"predict", "over"}
         /\ OpeningFails(r) => http[r].pc \in Opening /\ http'[r].pc = "over"
         /\ Predict(r) => http[r].pc = "predict" /\ http'[r].pc = "claim"
         /\ ClaimBranch(r) => http[r].pc = "claim" /\ http'[r].pc \in {"claim", "pull", "over"}
         /\ OpenConversation(r) => http[r].pc = "pull" /\ http'[r].pc = "policy"
  <1> USE DEF Moves, IsOver, IsSilent
  <1>1. Post(r) => http[r].pc = "idle" /\ http'[r].pc \in {"inspect", "policy", "over"}
    BY PostDoes
  <1>2. InspectLock(r) => http[r].pc = "inspect" /\ http'[r].pc \in {"predict", "over"}
    BY InspectLockDoes
  <1>3. OpeningFails(r) => http[r].pc \in Opening /\ http'[r].pc = "over"
    BY OpeningFailsDoes
  <1>4. Predict(r) => http[r].pc = "predict" /\ http'[r].pc = "claim"
    BY PredictDoes
  <1>5. ClaimBranch(r) => http[r].pc = "claim" /\ http'[r].pc \in {"claim", "pull", "over"}
    BY ClaimBranchDoes
  <1>6. OpenConversation(r) => http[r].pc = "pull" /\ http'[r].pc = "policy"
    BY OpenConversationDoes
  <1> QED
    BY <1>1, <1>2, <1>3, <1>4, <1>5, <1>6

LEMMA Begins ==
  ASSUME IInv, NEW r \in Requests
  PROVE  /\ ReadPolicy(r) => http[r].pc = "policy" /\ http'[r].pc = "settings"
         /\ PolicyArrives(r) => http[r].pc = "settings" /\ http'[r].pc \in {"thread", "refusal", "over"}
         /\ ReadThread(r) => http[r].pc = "thread" /\ http'[r].pc = "words"
         /\ WriteWords(r) => http[r].pc = "words" /\ http'[r].pc = "lock"
         /\ StartFails(r) => http[r].pc \in {"thread", "words", "lock"} /\ http'[r].pc \in {"refusal", "over"}
         /\ Acquire(r) => http[r].pc = "lock" /\ http'[r].pc = "running"
         /\ TurnedAway(r) => http[r].pc = "lock" /\ http'[r].pc \in {"refusal", "over"}
  <1> USE DEF Moves, IsOver, IsSilent
  <1>1. ReadPolicy(r) => http[r].pc = "policy" /\ http'[r].pc = "settings"
    BY ReadPolicyDoes
  <1>2. StartFailed(r) => http'[r].pc \in {"refusal", "over"}
    BY StartFailedDoes
  <1>3. PolicyArrives(r) => http[r].pc = "settings" /\ http'[r].pc \in {"thread", "refusal", "over"}
    BY <1>2, PolicyArrivesDoes
  <1>4. ReadThread(r) => http[r].pc = "thread" /\ http'[r].pc = "words"
    BY ReadThreadDoes
  <1>5. WriteWords(r) => http[r].pc = "words" /\ http'[r].pc = "lock"
    BY WriteWordsDoes
  <1>6. StartFails(r) => http[r].pc \in {"thread", "words", "lock"} /\ http'[r].pc \in {"refusal", "over"}
    BY StartFailsDoes
  <1>7. Acquire(r) => http[r].pc = "lock" /\ http'[r].pc = "running"
    BY AcquireDoes
  <1>8. TurnedAway(r) => http[r].pc = "lock" /\ http'[r].pc \in {"refusal", "over"}
    BY TurnedAwayDoes
  <1> QED
    BY <1>1, <1>3, <1>4, <1>5, <1>6, <1>7, <1>8

LEMMA Closes ==
  ASSUME IInv, NEW r \in Requests
  PROVE  /\ RecordRefusal(r) => http[r].pc = "refusal" /\ http'[r].pc = "over"
         /\ FileRecord(r) => http[r].pc = "filing" /\ http'[r].pc \in {"marking", "over"}
         /\ FilingFails(r) => http[r].pc = "filing" /\ http'[r].pc = "over"
         /\ Notify(r) => http[r].pc = "marking" /\ http'[r].pc \in {"mailing", "over"}
         /\ SendMail(r) => http[r].pc = "mailing" /\ http'[r].pc = "over"
         /\ FinishRequest /\ r = order.request => http[r].pc = "running" /\ http'[r].pc = "filing"
  <1> USE DEF Moves, IsOver, IsSilent
  <1>1. RecordRefusal(r) => http[r].pc = "refusal" /\ http'[r].pc = "over"
    BY RecordRefusalDoes
  <1>2. FileRecord(r) => http[r].pc = "filing" /\ http'[r].pc \in {"marking", "over"}
    BY FileRecordDoes
  <1>3. FilingFails(r) => http[r].pc = "filing" /\ http'[r].pc = "over"
    BY FilingFailsDoes
  <1>4. Notify(r) => http[r].pc = "marking" /\ http'[r].pc \in {"mailing", "over"}
    BY NotifyDoes
  <1>5. SendMail(r) => http[r].pc = "mailing" /\ http'[r].pc = "over"
    BY SendMailDoes
  <1>6. FinishRequest /\ r = order.request => http[r].pc = "running" /\ http'[r].pc = "filing"
    BY FinishRequestDoes
  <1> QED
    BY <1>1, <1>2, <1>3, <1>4, <1>5, <1>6

\* One request moves at a time, never back: who has chosen a name has done so for
\* good, who has spoken, begun or closed stays so, in the same conversation.
Choosing == {"inspect", "predict", "claim"}
Advances(r) ==
    /\ http' \in [Requests -> Known] /\ Alone(r) /\ http[r].pc # "over"
    /\ http'[r].pc # "idle"
    /\ http[r].pc # "idle" =>
        /\ http'[r].opens = http[r].opens
        /\ http'[r].postedTo \in {http[r].postedTo, 0}
        /\ http[r].pc \notin Choosing => http'[r].pc \notin Choosing
        /\ http[r].pc # "pull" => http'[r].conversation = http[r].conversation
        /\ http[r].pc \in Spoken => http'[r].pc \in Spoken
        /\ http[r].pc \in Begun => http'[r].pc \in Begun
        /\ http[r].pc \in Closed => http'[r].pc \in Closed

LEMMA OverAdvances ==
  ASSUME NEW r \in Requests, NEW status, IsOver(r, status) \/ IsSilent(r, status),
         http[r].pc # "over"
  PROVE  Advances(r)
  BY DEF Advances, IsOver, IsSilent, Choosing, Spoken, Begun, Closed

LEMMA MovesAdvance ==
  ASSUME NEW r \in Requests, NEW pc, Moves(r, pc), http[r].pc # "over", pc # "idle",
         http[r].pc \notin Choosing => pc \notin Choosing,
         http[r].pc \in Spoken => pc \in Spoken, http[r].pc \in Begun => pc \in Begun,
         http[r].pc \in Closed => pc \in Closed
  PROVE  Advances(r)
  BY DEF Advances, Moves, KeepsForm, KeepsPlace

LEMMA OpeningsAdvance ==
  ASSUME IInv, NEW r \in Requests,
         Post(r) \/ InspectLock(r) \/ OpeningFails(r) \/ Predict(r) \/ ClaimBranch(r)
           \/ OpenConversation(r)
  PROVE  Advances(r)
  <1> USE DEF Choosing, Spoken, Begun, Closed
  <1>1. CASE Post(r)
    BY <1>1, PostDoes DEF Advances
  <1>2. CASE InspectLock(r)
    BY <1>2, InspectLockDoes, OverAdvances, MovesAdvance
  <1>3. CASE OpeningFails(r)
    <2>1. PICK status : IsOver(r, status)
      BY <1>3, OpeningFailsDoes
    <2>2. http[r].pc # "over"
      BY <1>3, Opens DEF Opening
    <2> QED
      BY <2>1, <2>2, OverAdvances
  <1>4. CASE Predict(r)
    BY <1>4, PredictDoes DEF Advances, KeepsForm, KeepsPlace
  <1>5. CASE ClaimBranch(r)
    BY <1>5, ClaimBranchDoes, OverAdvances DEF Advances, KeepsForm
  <1>6. CASE OpenConversation(r)
    BY <1>6, OpenConversationDoes DEF Advances, KeepsForm, KeepsPlace
  <1> QED
    BY <1>1, <1>2, <1>3, <1>4, <1>5, <1>6

LEMMA StartsAdvance ==
  ASSUME IInv, NEW r \in Requests,
         ReadPolicy(r) \/ PolicyArrives(r) \/ ReadThread(r) \/ WriteWords(r)
           \/ StartFails(r) \/ Acquire(r) \/ TurnedAway(r)
  PROVE  Advances(r)
  <1> USE DEF Choosing, Spoken, Begun, Closed
  <1>1. CASE ReadPolicy(r)
    BY <1>1, ReadPolicyDoes DEF Advances, KeepsForm, KeepsPlace
  <1>2. CASE PolicyArrives(r)
    <2>1. StartFailed(r) => Advances(r)
      BY <1>2, PolicyArrivesDoes, StartFailedDoes, OverAdvances, MovesAdvance
    <2> QED
      BY <1>2, <2>1, PolicyArrivesDoes DEF Advances, KeepsForm, KeepsPlace
  <1>3. CASE ReadThread(r)
    BY <1>3, ReadThreadDoes DEF Advances, KeepsForm, KeepsPlace
  <1>4. CASE WriteWords(r)
    BY <1>4, WriteWordsDoes, OverAdvances, MovesAdvance
  <1>5. CASE StartFails(r)
    BY <1>5, StartFailsDoes, OverAdvances, MovesAdvance
  <1>6. CASE Acquire(r)
    BY <1>6, AcquireDoes DEF Advances, KeepsForm, KeepsPlace
  <1>7. CASE TurnedAway(r)
    BY <1>7, TurnedAwayDoes, OverAdvances, MovesAdvance
  <1> QED
    BY <1>1, <1>2, <1>3, <1>4, <1>5, <1>6, <1>7

LEMMA EndingsAdvance ==
  ASSUME IInv, NEW r \in Requests,
         RecordRefusal(r) \/ FileRecord(r) \/ FilingFails(r) \/ Notify(r) \/ SendMail(r)
           \/ (FinishRequest /\ r = order.request)
  PROVE  Advances(r)
  <1> USE DEF Choosing, Spoken, Begun, Closed
  <1>1. CASE RecordRefusal(r)
    BY <1>1, RecordRefusalDoes, OverAdvances, MovesAdvance
  <1>2. CASE FileRecord(r)
    BY <1>2, FileRecordDoes, OverAdvances, MovesAdvance
  <1>3. CASE FilingFails(r)
    BY <1>3, FilingFailsDoes, OverAdvances, MovesAdvance
  <1>4. CASE Notify(r)
    BY <1>4, NotifyDoes, OverAdvances, MovesAdvance
  <1>5. CASE SendMail(r)
    BY <1>5, SendMailDoes, OverAdvances, MovesAdvance
  <1>6. CASE FinishRequest /\ r = order.request
    BY <1>6, FinishRequestDoes DEF Advances, KeepsForm, KeepsPlace
  <1> QED
    BY <1>1, <1>2, <1>3, <1>4, <1>5, <1>6

LEMMA RequestsAdvance ==
  ASSUME IInv, [Next]_vars
  PROVE  http' = http \/ \E r \in Requests : Advances(r)
  <1>1. CASE FinishRequest
    BY <1>1, FinishRequestDoes, EndingsAdvance
  <1> QED
    BY <1>1, OtherFrames, OpeningsAdvance, StartsAdvance, EndingsAdvance DEF Next

\* Who changed what: a request, by one of its own actions; a variable, by one of few.
ActsOpening(q) ==
    Post(q) \/ InspectLock(q) \/ OpeningFails(q) \/ Predict(q) \/ ClaimBranch(q)
      \/ OpenConversation(q)
ActsStarting(q) ==
    ReadPolicy(q) \/ PolicyArrives(q) \/ ReadThread(q) \/ WriteWords(q)
      \/ StartFails(q) \/ Acquire(q) \/ TurnedAway(q)
ActsEnding(q) ==
    RecordRefusal(q) \/ FileRecord(q) \/ FilingFails(q) \/ Notify(q) \/ SendMail(q)
      \/ (FinishRequest /\ q = order.request)

LEMMA SomeoneActs ==
  ASSUME [Next]_vars
  PROVE  \/ AtWork \/ FinishRequest \/ CleanUpRequest \/ EditPolicy \/ UNCHANGED vars
         \/ \E r \in Requests : ActsOpening(r) \/ ActsStarting(r) \/ ActsEnding(r)
  BY DEF Next, ActsOpening, ActsStarting, ActsEnding

LEMMA ActorsAdvance ==
  ASSUME IInv, NEW r \in Requests, ActsOpening(r) \/ ActsStarting(r) \/ ActsEnding(r)
  PROVE  Advances(r)
  BY OpeningsAdvance, StartsAdvance, EndingsAdvance DEF ActsOpening, ActsStarting, ActsEnding

LEMMA WhoMoves ==
  ASSUME IInv, [Next]_vars, NEW q \in Requests
  PROVE  http'[q] = http[q] \/ ActsOpening(q) \/ ActsStarting(q) \/ ActsEnding(q)
  <1>1. CASE AtWork \/ CleanUpRequest \/ EditPolicy \/ UNCHANGED vars
    BY <1>1, OtherFrames
  <1>2. CASE FinishRequest
    BY <1>2, FinishRequestDoes DEF Alone, ActsEnding
  <1>3. ASSUME NEW r \in Requests, ActsOpening(r) \/ ActsStarting(r) \/ ActsEnding(r)
        PROVE  http'[q] = http[q] \/ ActsOpening(q) \/ ActsStarting(q) \/ ActsEnding(q)
    BY <1>3, ActorsAdvance DEF Advances, Alone
  <1> QED
    BY <1>1, <1>2, <1>3, SomeoneActs

LEMMA WhoChanges ==
  ASSUME IInv, [Next]_vars
  PROVE  /\ pulls' = pulls \/ \E r \in Requests : OpenConversation(r)
         /\ refs' = refs \/ \E r \in Requests : ClaimBranch(r)
         /\ current' = current \/ \E r \in Requests : PolicyArrives(r)
         /\ mailed' = mailed \/ \E r \in Requests : SendMail(r)
         /\ \/ order' = order \/ CleanUpRequest
            \/ \E r \in Requests : Acquire(r)
  <1> USE DEF BenchStays, PolicyStays, NamesStay
  <1>1. CASE AtWork
    BY <1>1, OtherFrames, WorkKeepsBench DEF IInv
  <1>2. CASE FinishRequest
    BY <1>2, OtherFrames, FinishRequestDoes
  <1>3. CASE CleanUpRequest \/ EditPolicy \/ UNCHANGED vars
    BY <1>3, OtherFrames
  <1>4. ASSUME NEW r \in Requests, ActsOpening(r)
        PROVE  /\ order' = order /\ current' = current /\ mailed' = mailed
               /\ pulls' = pulls \/ OpenConversation(r)
               /\ refs' = refs \/ ClaimBranch(r)
    BY <1>4, Frames DEF ActsOpening
  <1>5. ASSUME NEW r \in Requests, ActsStarting(r)
        PROVE  /\ order' = order \/ Acquire(r)
               /\ current' = current \/ PolicyArrives(r)
               /\ pulls' = pulls /\ refs' = refs /\ mailed' = mailed
    BY <1>5, Frames DEF ActsStarting
  <1>6. ASSUME NEW r \in Requests, ActsEnding(r), ~FinishRequest
        PROVE  /\ order' = order /\ current' = current /\ pulls' = pulls /\ refs' = refs
               /\ mailed' = mailed \/ SendMail(r)
    BY <1>6, Frames DEF ActsEnding
  <1> QED
    BY <1>1, <1>2, <1>3, <1>4, <1>5, <1>6, SomeoneActs

-------------------------------------------------------------------------------
(* Every step keeps the invariant, part by part *)

LEMMA OrdersAreTyped ==
  ASSUME IInv, NEW r \in Requests, http[r].pc = "lock"
  PROVE  /\ OrderOf(r) \in Orders /\ OrderOf(r) # None /\ OrderOf(r).request = r
         /\ OrderOf(r).conversation = http[r].conversation
         /\ OrderOf(r).branch = pulls[http[r].conversation]
         /\ OrderOf(r).policy = ParsePolicy(PolicyFiles[http[r].settings])
         /\ OrderOf(r).uploads = http[r].uploads /\ OrderOf(r).refused = http[r].refused
  <1>1. http[r] \in Known
    BY Typed
  <1>2. /\ http[r].conversation \in DOMAIN pulls /\ http[r].conversation \in Conversations
        /\ http[r].branch = pulls[http[r].conversation] /\ http[r].branch \in Branches
    BY Typed DEF IInv, RequestsFit, Entered
  <1>3. ParsePolicy(PolicyFiles[http[r].settings]) \in Policies
    <2>1. version \in 1 .. Len(PolicyFiles) /\ Len(PolicyFiles) \in Nat
      BY Typed, ConversationsConstants
    <2>2. http[r].settings \in 1 .. version
      BY DEF IInv, VersionsFit
    <2>3. http[r].settings \in DOMAIN PolicyFiles
      BY <2>1, <2>2, ConversationsConstants
    <2> QED
      BY <2>3, ConversationsConstants
  <1>4. OrderOf(r) \in Orders
    BY <1>1, <1>2, <1>3 DEF OrderOf, Orders, Known
  <1> QED
    BY <1>2, <1>4, NoneIsNoOrder DEF OrderOf

\* The bench is kept, and what leaves it was judged, whoever moves.
LEMMA BenchIsKept ==
  ASSUME IInv, [Next]_vars
  PROVE  BenchInv' /\ JudgedLeaves /\ order' \in {None} \cup Orders
  <1>1. BenchInv /\ order \in {None} \cup Orders
    BY DEF IInv, TypeOK
  <1>2. CASE AtWork
    BY <1>1, <1>2, OtherFrames, WorkKeepsBench, WorkLeavesJudged
  <1>3. CASE FinishRequest
    BY <1>1, <1>3, FinishKeepsBench DEF FinishRequest, Finish
  <1>4. CASE CleanUpRequest
    BY <1>1, <1>4, OtherFrames, CleanUpKeepsBench
  <1>5. CASE EditPolicy \/ UNCHANGED vars
    BY <1>1, <1>5, OtherFrames, RestKeepsBench DEF BenchStays
  <1>6. ASSUME NEW r \in Requests, Acquire(r)
        PROVE  BenchInv' /\ JudgedLeaves /\ order' \in {None} \cup Orders
    <2> DEFINE o == OrderOf(r)
    <2>1. /\ Begin(o) /\ http[r].pc = "lock" /\ order' = o
      BY <1>6, AcquireDoes DEF Acquire
    <2>2. o \in Orders /\ o # None
      BY <2>1, OrdersAreTyped
    <2>3. /\ o.conversation \in Conversations /\ o.branch \in Branches
          /\ o.policy \in Policies
      BY <2>2 DEF Orders
    <2> HIDE DEF o
    <2>4. BenchInv' /\ JudgedLeaves
      BY <1>1, <2>1, <2>2, <2>3, BeginKeepsBench
    <2>5. order' \in {None} \cup Orders
      BY <2>1, <2>2
    <2> QED
      BY <2>4, <2>5
  <1>7. CASE \E r \in Requests : BenchStays
    BY <1>1, <1>7, RestKeepsBench DEF BenchStays
  <1> QED
    BY <1>2, <1>3, <1>4, <1>5, <1>6, <1>7, Frames DEF Next

\* The names taken are the first k, two of them from the start.
LEMMA NamesAreFirst ==
  ASSUME IInv
  PROVE  /\ IsFiniteSet(Claimants) /\ Cardinality(Claimants) \in Nat
         /\ \E k \in Nat : refs = 1 .. k /\ 2 <= k /\ k <= 2 + Cardinality(Claimants)
  <1>1. IsFiniteSet(Claimants)
    BY NumbersForAll, FS_Subset DEF Claimants
  <1>2. Cardinality(Claimants) \in Nat
    BY <1>1, FS_CardinalityType
  <1> QED
    BY <1>1, <1>2 DEF IInv, NamesInOrder

LEMMA NumbersAreFinite ==
  ASSUME NEW n \in Nat
  PROVE  IsFiniteSet(1 .. n) /\ Cardinality(1 .. n) = n
  <1> DEFINE one == 1
  <1>1. one \in Int /\ n \in Int /\ n - one + 1 = n /\ (one > n <=> n = 0)
    OBVIOUS
  <1> HIDE DEF one
  <1>2. IsFiniteSet(one .. n) /\ Cardinality(one .. n) = IF one > n THEN 0 ELSE n - one + 1
    BY <1>1, FS_Interval
  <1>3. Cardinality(one .. n) = n
    BY <1>1, <1>2
  <1> QED
    BY <1>2, <1>3 DEF one

\* Pull requests with heads of their own, none of them the second name, are fewer
\* than the names.
LEMMA HeadsAreNames ==
  ASSUME NEW k \in Nat, k >= 2, NEW s \in Seq(1 .. k),
         \A c, d \in DOMAIN s : s[c] = s[d] => c = d,
         \A c \in DOMAIN s : s[c] # 2
  PROVE  Len(s) \in Nat /\ Len(s) <= k - 1
  <1> DEFINE names == (1 .. k) \ {2}
  <1>1. Len(s) \in Nat /\ DOMAIN s = 1 .. Len(s) /\ s \in [1 .. Len(s) -> 1 .. k]
    BY LenProperties
  <1>2. IsFiniteSet(1 .. Len(s)) /\ Cardinality(1 .. Len(s)) = Len(s)
    BY <1>1, NumbersAreFinite
  <1>3. IsFiniteSet(1 .. k) /\ Cardinality(1 .. k) = k
    BY NumbersAreFinite
  <1>4. IsFiniteSet(names) /\ Cardinality(names) = k - 1
    <2> DEFINE first == 1 .. k
               left == 2
    <2>1. left \in first /\ IsFiniteSet(first) /\ Cardinality(first) = k
      BY <1>3
    <2> HIDE DEF first, left
    <2>2. IsFiniteSet(first \ {left}) /\ Cardinality(first \ {left}) = k - 1
      BY <2>1, FS_RemoveElement
    <2> QED
      BY <2>2 DEF first, left
  <1>5. s \in [1 .. Len(s) -> names]
    BY <1>1
  <1> HIDE DEF names
  <1>6. ~(Cardinality(names) < Cardinality(1 .. Len(s)))
    <2> SUFFICES ASSUME Cardinality(names) < Cardinality(1 .. Len(s))
                 PROVE  FALSE
      OBVIOUS
    <2> DEFINE numbers == 1 .. Len(s)
    <2>1. IsFiniteSet(numbers) /\ s \in [numbers -> names] /\ Cardinality(names) < Cardinality(numbers)
      BY <1>2, <1>5
    <2> HIDE DEF numbers
    <2>2. \E c, d \in numbers : c # d /\ s[c] = s[d]
      BY <1>4, <2>1, FS_PigeonHole
    <2> QED
      BY <1>1, <2>2 DEF numbers
  <1> QED
    BY <1>1, <1>2, <1>4, <1>6

LEMMA ClaimsStand ==
  ASSUME IInv, [Next]_vars
  PROVE  /\ Claimants \subseteq Claimants' /\ Claimants' \subseteq Requests
         /\ IsFiniteSet(Claimants') /\ Cardinality(Claimants') \in Nat
         /\ Cardinality(Claimants) <= Cardinality(Claimants')
  <1>1. Claimants' \subseteq Requests
    BY DEF Claimants
  <1>2. Claimants \subseteq Claimants'
    <2>1. CASE http' = http
      BY <2>1 DEF Claimants
    <2>2. ASSUME NEW r \in Requests, Advances(r)
          PROVE  Claimants \subseteq Claimants'
      <3>1. \A q \in Requests \ {r} : q \in Claimants => q \in Claimants'
        BY <2>2 DEF Advances, Alone, Claimants
      <3>2. r \in Claimants => r \in Claimants'
        <4>1. http[r].pc = "idle" => ~http[r].opens
          BY DEF IInv, RequestsFit
        <4> QED
          BY <2>2, <4>1 DEF Advances, Claimants, Choosing
      <3> QED
        BY <3>1, <3>2 DEF Claimants
    <2> QED
      BY <2>1, <2>2, RequestsAdvance
  <1>3. IsFiniteSet(Claimants')
    BY <1>1, NumbersForAll, FS_Subset
  <1> QED
    BY <1>1, <1>2, <1>3, FS_Subset, FS_CardinalityType

\* A branch is claimed past all names, or found taken.
LEMMA NamesAreInOrder ==
  ASSUME IInv, [Next]_vars
  PROVE  NamesInOrder'
  <1> DEFINE Reaches(r) == http'[r].pc = "claim" =>
                 http'[r].branch >= 1 /\ 1 .. (http'[r].branch - 1) \subseteq refs'
             Counted == \E k \in 2 .. 2 + Cardinality(Claimants') : refs' = 1 .. k
  <1>1. \A r \in Requests : http[r].pc = "claim" =>
            http[r].branch >= 1 /\ 1 .. (http[r].branch - 1) \subseteq refs
    BY DEF IInv, NamesInOrder
  <1>2. PICK k \in Nat : refs = 1 .. k /\ 2 <= k /\ k <= 2 + Cardinality(Claimants)
    BY NamesAreFirst
  <1>3. /\ Cardinality(Claimants) \in Nat /\ Cardinality(Claimants') \in Nat
        /\ Cardinality(Claimants) <= Cardinality(Claimants')
    BY ClaimsStand, NamesAreFirst
  <1>4. refs' = refs => Counted
    BY <1>2, <1>3
  <1>5. refs \subseteq refs' /\ http' \in [Requests -> Known]
    BY WorldGrows DEF NamesGrow
  <1>6. \A q \in Requests : http'[q] = http[q] => Reaches(q)
    BY <1>1, <1>5
  <1>7. ASSUME NEW r \in Requests, Predict(r)
        PROVE  Reaches(r)
    <2>1. Len(pulls) \in Nat /\ Len(pulls) <= k - 1
      BY <1>2, Typed, HeadsAreNames DEF IInv, NamesAreOwned
    <2>2. http'[r].branch = Len(pulls) + 1 /\ refs' = refs
      BY <1>7, PredictDoes, Frames DEF NamesStay
    <2> QED
      BY <1>2, <2>1, <2>2
  <1>8. ASSUME NEW r \in Requests, ClaimBranch(r)
        PROVE  Counted /\ Reaches(r)
    <2> DEFINE name == http[r].branch
    <2>a. http[r].pc = "claim"
      BY <1>8, ClaimBranchDoes
    <2>b. name \in Nat
      BY Typed DEF Known
    <2>1. /\ http[r].pc = "claim" /\ name >= 1 /\ 1 .. (name - 1) \subseteq 1 .. k /\ name \in Nat
      BY <1>1, <1>2, <2>a, <2>b
    <2>2. CASE /\ name \notin refs /\ refs' = refs \cup {name}
               /\ http'[r].pc = "pull" /\ KeepsForm(r)
      <3>1. name = k + 1
        <4>1. name \notin 1 .. k
          BY <1>2, <2>2
        <4>2. k + 1 \notin 1 .. (name - 1)
          BY <1>2, <2>1
        <4> QED
          BY <1>2, <2>1, <4>1, <4>2
      <3>2. refs' = 1 .. k + 1
        BY <1>2, <2>2, <3>1
      <3>3. Claimants' = Claimants \cup {r} /\ r \notin Claimants
        <4>1. http[r].opens
          BY <2>1 DEF IInv, RequestsFit, Opening
        <4>2. \A q \in Requests \ {r} : q \in Claimants' <=> q \in Claimants
          BY <1>8, ClaimBranchDoes DEF Alone, Claimants
        <4>3. r \in Claimants' /\ r \notin Claimants
          BY <2>1, <2>2, <4>1 DEF Claimants, KeepsForm
        <4> QED
          BY <4>2, <4>3, ClaimsStand DEF Claimants
      <3>4. Cardinality(Claimants') = Cardinality(Claimants) + 1
        BY <3>3, NamesAreFirst, FS_AddElement
      <3> QED
        BY <1>2, <1>3, <2>2, <3>2, <3>4
    <2>3. CASE name \in refs /\ http'[r].branch = name + 1 /\ refs' = refs
      BY <1>2, <1>4, <2>1, <2>3
    <2>4. CASE http'[r].pc = "over" /\ refs' = refs
      BY <1>4, <2>4
    <2>5. IsOver(r, 500) => http'[r].pc = "over"
      BY DEF IsOver
    <2> QED
      BY <1>8, <2>2, <2>3, <2>4, <2>5, ClaimBranchDoes
  <1>9. ASSUME NEW q \in Requests
        PROVE  Reaches(q)
    <2>1. http'[q] = http[q] \/ http'[q].pc # "claim" \/ Predict(q) \/ ClaimBranch(q)
      BY WhoMoves, Opens, Begins, Closes DEF ActsOpening, ActsStarting, ActsEnding
    <2> HIDE DEF Reaches
    <2>2. http'[q].pc # "claim" => Reaches(q)
      BY DEF Reaches
    <2> QED
      BY <1>6, <1>7, <1>8, <2>1, <2>2
  <1>10. Counted
    BY <1>4, <1>8, WhoChanges
  <1> QED
    BY <1>9, <1>10 DEF NamesInOrder

\* A name that was free when it was claimed is nobody else's.
LEMMA NamesStayOwned ==
  ASSUME IInv, [Next]_vars
  PROVE  NamesAreOwned'
  <1>1. NamesAreOwned /\ 2 \in refs
    BY NamesAreFirst DEF IInv
  <1>2. \A c \in DOMAIN pulls : pulls[c] \in refs
    BY Typed
  <1>3. refs \subseteq refs'
    BY WorldGrows DEF NamesGrow
  <1>4. ASSUME NEW q \in Requests
        PROVE  http'[q] = http[q] \/ http'[q].pc # "pull" \/ ClaimBranch(q)
    BY WhoMoves, Opens, Begins, Closes DEF ActsOpening, ActsStarting, ActsEnding
  <1>5. CASE pulls' = pulls /\ ~\E r \in Requests : ClaimBranch(r)
    BY <1>1, <1>3, <1>4, <1>5 DEF NamesAreOwned
  <1>6. ASSUME NEW r \in Requests, ClaimBranch(r)
        PROVE  NamesAreOwned'
    <2>1. pulls' = pulls /\ \A q \in Requests \ {r} : http'[q] = http[q]
      BY <1>6, Frames, ClaimBranchDoes DEF Alone
    <2>2. http'[r].pc = "pull" => /\ http'[r].branch = http[r].branch
                                  /\ http[r].branch \notin refs /\ http[r].branch \in refs'
      <3>1. \A status : IsOver(r, status) => http'[r].pc = "over"
        BY DEF IsOver
      <3> QED
        BY <1>6, <3>1, ClaimBranchDoes
    <2> QED
      BY <1>1, <1>2, <1>3, <2>1, <2>2 DEF NamesAreOwned
  <1>7. ASSUME NEW r \in Requests, OpenConversation(r)
        PROVE  NamesAreOwned'
    <2>1. /\ refs' = refs /\ \A q \in Requests \ {r} : http'[q] = http[q]
          /\ http[r].pc = "pull" /\ http'[r].pc = "policy"
      BY <1>7, Frames, OpenConversationDoes DEF Alone
    <2> DEFINE n == Len(pulls) + 1
    <2>2. /\ DOMAIN pulls' = (DOMAIN pulls) \cup {n} /\ n \notin DOMAIN pulls
          /\ pulls'[n] = http[r].branch
          /\ \A c \in DOMAIN pulls : pulls'[c] = pulls[c]
      <3>1. /\ DOMAIN pulls' = 1 .. n /\ DOMAIN pulls = 1 .. Len(pulls) /\ Len(pulls) \in Nat
            /\ pulls'[n] = http[r].branch /\ \A c \in DOMAIN pulls : pulls'[c] = pulls[c]
        BY <1>7, Typed, OpenConversationDoes
      <3>2. 1 .. n = (1 .. Len(pulls)) \cup {n} /\ n \notin 1 .. Len(pulls)
        BY <3>1
      <3> QED
        BY <3>1, <3>2
    <2> HIDE DEF n
    <2> QED
      BY <1>1, <2>1, <2>2 DEF NamesAreOwned
  <1> QED
    BY <1>5, <1>6, <1>7, WhoChanges

LEMMA RequestsStayFit ==
  ASSUME IInv, [Next]_vars
  PROVE  RequestsFit'
  <1> DEFINE Fits(q) ==
          /\ http'[q].pc = "idle" => ~http'[q].opens /\ http'[q].answer = 0
          /\ http'[q].pc \in Opening => http'[q].opens /\ http'[q].postedTo = 0
          /\ http'[q].pc \in Entered => http'[q].conversation \in DOMAIN pulls'
          /\ http'[q].pc \in {"words", "lock"} =>
                http'[q].branch = pulls'[http'[q].conversation]
  <1>1. /\ DOMAIN pulls \subseteq DOMAIN pulls' /\ \A c \in DOMAIN pulls : pulls'[c] = pulls[c]
        /\ RequestsFit
    BY WorldGrows DEF NamesGrow, IInv
  <1>2. ASSUME NEW q \in Requests, http'[q] = http[q]
        PROVE  Fits(q)
    BY <1>1, <1>2 DEF RequestsFit, Entered
  <1>3. ASSUME NEW q \in Requests, http'[q].pc = "over"
        PROVE  Fits(q)
    BY <1>3 DEF Entered, Opening
  <1>4. ASSUME NEW q \in Requests, NEW pc \in Entered \ {"words", "lock"}, Moves(q, pc),
               http[q].pc \in Entered
        PROVE  Fits(q)
    BY <1>1, <1>4 DEF Moves, KeepsPlace, Entered, Opening, RequestsFit
  <1> USE DEF Opening, Entered, KeepsForm, KeepsPlace
  <1>5. ASSUME NEW q \in Requests, ActsOpening(q), http'[q].pc # "over"
        PROVE  Fits(q)
    <2>1. CASE Post(q)
      BY <1>1, <1>5, <2>1, PostDoes
    <2>2. CASE InspectLock(q)
      <3>1. http[q].pc = "inspect" /\ Moves(q, "predict")
        BY <1>5, <2>2, InspectLockDoes DEF IsOver
      <3> QED
        BY <1>1, <3>1 DEF RequestsFit, Moves
    <2>3. CASE OpeningFails(q)
      BY <1>5, <2>3, Opens
    <2>4. CASE Predict(q)
      BY <1>1, <2>4, PredictDoes DEF RequestsFit
    <2>5. CASE ClaimBranch(q)
      BY <1>1, <1>5, <2>5, ClaimBranchDoes DEF RequestsFit, IsOver
    <2>6. CASE OpenConversation(q)
      BY <2>6, OpenConversationDoes, Typed
    <2> QED
      BY <1>5, <2>1, <2>2, <2>3, <2>4, <2>5, <2>6 DEF ActsOpening
  <1>6. ASSUME NEW q \in Requests, ActsStarting(q), http'[q].pc # "over"
        PROVE  Fits(q)
    <2>1. CASE ReadPolicy(q)
      BY <1>1, <2>1, ReadPolicyDoes DEF RequestsFit
    <2>2. CASE PolicyArrives(q)
      <3>1. StartFailed(q) => Moves(q, "refusal")
        BY <1>6, <2>2, StartFailedDoes DEF IsOver
      <3>2. Moves(q, "refusal") => Fits(q)
        BY <1>4, <2>2, Begins
      <3>3. http'[q].pc = "thread" /\ KeepsPlace(q) => Fits(q)
        BY <1>1, <2>2, Begins DEF RequestsFit
      <3> QED
        BY <2>2, <3>1, <3>2, <3>3, PolicyArrivesDoes
    <2>3. CASE ReadThread(q)
      BY <1>1, <2>3, ReadThreadDoes DEF RequestsFit
    <2>4. CASE WriteWords(q)
      BY <1>1, <2>4, WriteWordsDoes DEF RequestsFit, Moves
    <2>5. CASE StartFails(q) \/ TurnedAway(q)
      <3>1. Moves(q, "refusal") /\ http[q].pc \in Entered
        BY <1>6, <2>5, StartFailsDoes, TurnedAwayDoes DEF IsOver
      <3> QED
        BY <1>4, <3>1
    <2>6. CASE Acquire(q)
      BY <1>1, <2>6, AcquireDoes DEF RequestsFit
    <2> QED
      BY <1>6, <2>1, <2>2, <2>3, <2>4, <2>5, <2>6 DEF ActsStarting
  <1>7. ASSUME NEW q \in Requests, ActsEnding(q), http'[q].pc # "over"
        PROVE  Fits(q)
    <2>1. CASE FileRecord(q) \/ Notify(q)
      <3>1. http[q].pc \in Entered /\ \E pc \in {"marking", "mailing"} : Moves(q, pc)
        BY <1>7, <2>1, FileRecordDoes, NotifyDoes DEF IsOver
      <3> QED
        BY <1>4, <3>1
    <2>2. CASE FinishRequest /\ q = order.request
      BY <1>1, <2>2, FinishRequestDoes DEF RequestsFit
    <2>3. CASE RecordRefusal(q) \/ FilingFails(q) \/ SendMail(q)
      BY <1>7, <2>3, Closes
    <2> QED
      BY <1>7, <2>1, <2>2, <2>3 DEF ActsEnding
  <1>8. \A q \in Requests : Fits(q)
    BY <1>2, <1>3, <1>5, <1>6, <1>7, WhoMoves
  <1> QED
    BY <1>8 DEF RequestsFit

LEMMA VersionsStayFit ==
  ASSUME IInv, [Next]_vars
  PROVE  VersionsFit'
  <1> DEFINE Fits(q) ==
          /\ http'[q].pc \in Unfinished => http'[q].postedAt \in 1 .. version'
          /\ http'[q].pc = "settings" /\ http'[q].reading # 0 =>
                http'[q].reading \in http'[q].postedAt .. version'
          /\ http'[q].pc \in {"thread", "words", "lock"} =>
                /\ http'[q].settings \in 1 .. version'
                /\ http'[q].settings >= http'[q].postedAt \/ http'[q].stale
  <1>1. /\ version \in Nat \ {0} /\ version' \in Nat \ {0} /\ version <= version'
        /\ current \in Nat /\ VersionsFit
    BY WorldGrows, Typed DEF IInv
  <1>2. \A q \in Requests : /\ http[q].postedAt \in Nat /\ http[q].settings \in Nat
                            /\ http[q].reading \in Nat
    BY Typed DEF Known
  <1>3. current' <= version'
    <2>1. CASE current' = current
      BY <1>1, <2>1 DEF VersionsFit
    <2>2. ASSUME NEW r \in Requests, PolicyArrives(r), current' # current
          PROVE  current' <= version'
      <3>1. current' = http[r].reading /\ http[r].reading # 0 /\ http[r].pc = "settings"
        BY <2>2, PolicyArrivesDoes
      <3> QED
        BY <1>1, <1>2, <3>1 DEF VersionsFit
    <2> QED
      BY <2>1, <2>2, WhoChanges
  <1>4. ASSUME NEW q \in Requests, http'[q] = http[q]
        PROVE  Fits(q)
    BY <1>1, <1>2, <1>4 DEF VersionsFit
  <1>5. ASSUME NEW q \in Requests, http'[q].pc \notin Unfinished
        PROVE  Fits(q)
    BY <1>5 DEF Unfinished
  <1>6. ASSUME NEW q \in Requests, http[q].pc \in Unfinished, KeepsForm(q),
               http'[q].pc \in Opening \cup {"policy"}
        PROVE  Fits(q)
    BY <1>1, <1>2, <1>6 DEF VersionsFit, KeepsForm, Opening
  <1>7. ASSUME NEW q \in Requests, http[q].pc \in {"thread", "words"}, KeepsForm(q),
               KeepsSettings(q), http'[q].pc \in {"words", "lock"}
        PROVE  Fits(q)
    BY <1>1, <1>2, <1>7 DEF VersionsFit, KeepsForm, KeepsSettings, Unfinished
  <1> USE DEF Opening
  <1>8. ASSUME NEW q \in Requests, ActsOpening(q), http'[q].pc \in Unfinished
        PROVE  Fits(q)
    <2>1. CASE Post(q)
      <3>1. http'[q].pc \in {"inspect", "policy"} /\ http'[q].postedAt = version
        BY <1>8, <2>1, PostDoes DEF Unfinished
      <3> QED
        BY <1>1, <3>1
    <2>2. CASE ~Post(q)
      <3>1. http[q].pc \in Unfinished /\ http'[q].pc \in Opening \cup {"policy"}
        BY <1>8, <2>2, Opens DEF ActsOpening, Unfinished
      <3>2. KeepsForm(q)
        <4>1. http'[q].pc # "over"
          BY <1>8 DEF Unfinished
        <4>2. InspectLock(q) => KeepsForm(q)
          BY <4>1, InspectLockDoes DEF Moves, IsOver
        <4>3. Predict(q) \/ OpenConversation(q) => KeepsForm(q)
          BY PredictDoes, OpenConversationDoes
        <4>4. ClaimBranch(q) => KeepsForm(q)
          BY <4>1, ClaimBranchDoes DEF IsOver
        <4> QED
          BY <1>8, <2>2, <4>1, <4>2, <4>3, <4>4, Opens DEF ActsOpening
      <3> QED
        BY <1>6, <3>1, <3>2
    <2> QED
      BY <2>1, <2>2
  <1>9. ASSUME NEW q \in Requests, ActsStarting(q), http'[q].pc \in Unfinished
        PROVE  Fits(q)
    <2>1. CASE ReadPolicy(q)
      <3>1. /\ http[q].pc = "policy" /\ http'[q].pc = "settings" /\ http'[q].reading \in {0, version}
            /\ http'[q].postedAt = http[q].postedAt
        BY <2>1, ReadPolicyDoes DEF KeepsForm
      <3> QED
        BY <1>1, <1>2, <3>1 DEF VersionsFit, Unfinished
    <2>2. CASE PolicyArrives(q)
      <3>1. http'[q].pc = "thread" /\ http[q].pc = "settings"
        BY <1>9, <2>2, Begins DEF Unfinished
      <3>2. ~StartFailed(q)
        BY <3>1, StartFailedDoes DEF Moves, IsOver
      <3>3. /\ http'[q].postedAt = http[q].postedAt
            /\ \/ http[q].reading # 0 /\ http'[q].settings = http[q].reading
               \/ current # 0 /\ http'[q].settings = current /\ http'[q].stale
        BY <2>2, <3>2, PolicyArrivesDoes DEF KeepsForm
      <3> QED
        BY <1>1, <1>2, <3>1, <3>3 DEF VersionsFit, Unfinished
    <2>3. CASE ReadThread(q)
      BY <1>7, <2>3, ReadThreadDoes
    <2>4. CASE WriteWords(q)
      BY <1>7, <2>4, WriteWordsDoes DEF Moves
    <2> QED
      BY <1>9, <2>1, <2>2, <2>3, <2>4, Begins DEF ActsStarting, Unfinished
  <1>10. ASSUME NEW q \in Requests, ActsEnding(q)
         PROVE  http'[q].pc \notin Unfinished
    BY <1>10, Closes DEF ActsEnding, Unfinished
  <1>11. \A q \in Requests : Fits(q)
    BY <1>4, <1>5, <1>8, <1>9, <1>10, WhoMoves
  <1> QED
    BY <1>3, <1>11 DEF VersionsFit

\* work had, or what the work is done with.
LEMMA StashOfOpenings ==
  ASSUME IInv, NEW r \in Requests, ActsOpening(r)
  PROVE  /\ \A q \in Requests \ {r} : q \in stash' <=> q \in stash
         /\ stash' \subseteq stash \cup {r}
         /\ ~Post(r) /\ http'[r].pc = "over" => r \notin stash'
         /\ ~Post(r) /\ http'[r].pc # "over" => stash' = stash /\ KeepsForm(r)
  <1>1. CASE Post(r)
    BY <1>1, PostDoes
  <1>2. CASE InspectLock(r)
    <2>1. http[r].pc = "inspect"
      BY <1>2, Opens
    <2>2. CASE Moves(r, "predict") /\ UNCHANGED stash
      BY <1>2, <2>1, <2>2 DEF Moves
    <2>3. CASE IsOver(r, 409) /\ stash' = stash \ {r}
      BY <1>2, <2>1, <2>3 DEF IsOver
    <2> QED
      BY <1>2, <2>2, <2>3, InspectLockDoes
  <1>3. CASE OpeningFails(r)
    <2>1. stash' = stash \ {r} /\ http'[r].pc = "over"
      BY <1>3, Opens, OpeningFailsDoes
    <2> QED
      BY <1>3, <2>1, Opens DEF Opening
  <1>4. CASE Predict(r) \/ OpenConversation(r)
    BY <1>4, PredictDoes, OpenConversationDoes, Frames
  <1>5. CASE ClaimBranch(r)
    <2>1. http[r].pc = "claim"
      BY <1>5, Opens
    <2>2. CASE IsOver(r, 500) /\ stash' = stash \ {r}
      BY <1>5, <2>1, <2>2, Opens DEF IsOver
    <2>3. CASE http'[r].pc # "over" /\ KeepsForm(r) /\ stash' = stash
      BY <1>5, <2>1, <2>3
    <2> QED
      BY <1>5, <2>2, <2>3, ClaimBranchDoes
  <1> QED
    BY <1>1, <1>2, <1>3, <1>4, <1>5, Opens DEF ActsOpening, Opening

LEMMA StashOfStarts ==
  ASSUME IInv, NEW r \in Requests, ActsStarting(r)
  PROVE  /\ \A q \in Requests \ {r} : q \in stash' <=> q \in stash
         /\ stash' \subseteq stash
         /\ http'[r].pc \in {"refusal", "over"} => r \notin stash'
         /\ http'[r].pc \in Unfinished => stash' = stash /\ KeepsForm(r)
         /\ Acquire(r) => stash' = stash
  <1>1. CASE ReadPolicy(r) \/ ReadThread(r)
    BY <1>1, Begins, ReadPolicyDoes, ReadThreadDoes, Frames
  <1>2. CASE PolicyArrives(r)
    <2>1. ASSUME StartFailed(r)
          PROVE  stash' = stash \ {r} /\ http'[r].pc \notin Unfinished
      <3>1. Moves(r, "refusal") => http'[r].pc = "refusal"
        BY DEF Moves
      <3>2. IsOver(r, 500) => http'[r].pc = "over"
        BY DEF IsOver
      <3> QED
        <4>1. stash' = stash \ {r} /\ (Moves(r, "refusal") \/ IsOver(r, 500))
          BY <2>1, StartFailedDoes
        <4>2. http'[r].pc \in {"refusal", "over"}
          BY <3>1, <3>2, <4>1
        <4> QED
          BY <4>1, <4>2 DEF Unfinished, Opening
    <2> QED
      BY <1>2, <2>1, PolicyArrivesDoes, Begins DEF Unfinished, Opening
  <1>3. CASE WriteWords(r) \/ Acquire(r)
    <2>1. stash' = stash
      BY <1>3, Frames
    <2>2. WriteWords(r) => KeepsForm(r)
      BY WriteWordsDoes DEF Moves
    <2> QED
      BY <1>3, <2>1, <2>2, Begins DEF Unfinished, Opening
  <1>4. CASE StartFails(r) \/ TurnedAway(r)
    <2>1. stash' = stash \ {r} /\ http'[r].pc \in {"refusal", "over"}
      BY <1>4, Begins, StartFailsDoes, TurnedAwayDoes
    <2> QED
      BY <1>4, <2>1, Begins DEF Unfinished, Opening
  <1> QED
    BY <1>1, <1>2, <1>3, <1>4 DEF ActsStarting

LEMMA StashOfEndings ==
  ASSUME IInv, NEW r \in Requests, ActsEnding(r)
  PROVE  /\ stash' = stash /\ order' = order
         /\ http[r].pc \in {"refusal", "running", "filing", "marking", "mailing"}
         /\ http'[r].answer = http[r].answer \/ (order # None /\ order.request = r)
  <1>1. CASE RecordRefusal(r) \/ FilingFails(r) \/ SendMail(r)
    BY <1>1, Closes, Frames, RecordRefusalDoes, FilingFailsDoes, SendMailDoes
    DEF IsOver, IsSilent, BenchStays
  <1>2. CASE FileRecord(r) \/ Notify(r)
    BY <1>2, Closes, Frames, FileRecordDoes, NotifyDoes DEF IsOver, Moves, KeepsEnd, BenchStays
  <1>3. CASE FinishRequest /\ r = order.request
    BY <1>3, Closes, OtherFrames, FinishRequestDoes
  <1> QED
    BY <1>1, <1>2, <1>3 DEF ActsEnding

LEMMA StashOfOthers ==
  ASSUME IInv, AtWork \/ CleanUpRequest \/ EditPolicy \/ UNCHANGED vars
  PROVE  /\ http' = http
         /\ \/ stash' = stash /\ order' = order
            \/ order # None /\ order' = None /\ stash' = stash \ {order.request}
  <1>1. step = "discard" => order # None
    BY DEF IInv, TypeOK, BenchTypeOK
  <1> QED
    BY <1>1, OtherFrames, WorkKeepsBench DEF BenchStays, IInv

LEMMA StashStaysFit ==
  ASSUME IInv, [Next]_vars
  PROVE  StashFits' /\ StashLivesAsLongAsItsRequest' /\ stash' \subseteq Requests
  <1> DEFINE Has(q) == http'[q].pc \in Unfinished /\ http'[q].uploads > 0 => q \in stash'
             Lives(q) == \/ http'[q].pc \in Unfinished
                         \/ order' # None /\ order'.request = q
                         \/ http'[q].answer \in {400, Crash}
             Worked == order' # None /\ order'.uploads > 0 => order'.request \in stash'
  <1>1. /\ stash \subseteq Requests /\ StashFits /\ StashLivesAsLongAsItsRequest
        /\ order # None => order.request \in Requests /\ http[order.request].pc \in Begun
    BY DEF IInv, TypeOK, OrderIsRequests
  <1>2. ASSUME NEW q \in Requests, http'[q] = http[q]
        PROVE  /\ q \in stash /\ q \in stash' => Has(q)
               /\ q \in stash' /\ order' = order /\ q \in stash => Lives(q)
    BY <1>1, <1>2 DEF StashLivesAsLongAsItsRequest
  <1>3. ASSUME NEW r \in Requests, ActsOpening(r)
        PROVE  /\ Worked /\ stash' \subseteq Requests
               /\ \A q \in Requests : Has(q) /\ (q \in stash' => Lives(q))
    <2>1. /\ order' = order /\ http[r].pc \in {"idle"} \cup Opening
          /\ \A q \in Requests \ {r} : http'[q] = http[q]
      BY <1>3, Opens, Frames, ActorsAdvance DEF ActsOpening, Opening, Advances, Alone, BenchStays
    <2>2. \A q \in Requests \ {r} : Has(q) /\ (q \in stash' => Lives(q))
      BY <1>1, <1>3, <2>1, StashOfOpenings DEF StashFits, StashLivesAsLongAsItsRequest
    <2>3. Worked
      BY <1>1, <1>3, <2>1, StashOfOpenings DEF StashLivesAsLongAsItsRequest, Begun, Opening
    <2>4. CASE Post(r)
      <3>1. /\ http[r].pc = "idle" /\ http[r].answer = 0
            /\ order # None => order.request # r
        BY <1>1, <2>4, Opens DEF IInv, RequestsFit, Begun
      <3>2. r \notin stash
        BY <1>1, <3>1 DEF StashLivesAsLongAsItsRequest, Unfinished, Opening, Crash
      <3>3. /\ http'[r].pc \in {"inspect", "policy", "over"}
            /\ http'[r].pc # "over" => (http'[r].uploads > 0 => r \in stash')
            /\ http'[r].pc = "over" => (r \in stash' => http'[r].answer \in {400, Crash})
        BY <2>4, <3>2, PostDoes
      <3> QED
        BY <1>1, <1>3, <2>2, <2>3, <3>3, StashOfOpenings DEF Unfinished, Opening
    <2>5. CASE ~Post(r) /\ http'[r].pc = "over"
      <3>1. r \notin stash'
        BY <1>3, <2>5, StashOfOpenings
      <3> QED
        BY <1>1, <1>3, <2>2, <2>3, <2>5, <3>1, StashOfOpenings DEF Unfinished, Opening
    <2>6. CASE ~Post(r) /\ http'[r].pc # "over"
      <3>1. stash' = stash /\ KeepsForm(r)
        BY <1>3, <2>6, StashOfOpenings
      <3>2. http[r].pc \in Unfinished /\ http'[r].pc \in Unfinished
        BY <1>3, <2>6, Opens DEF ActsOpening, Unfinished, Opening
      <3> QED
        BY <1>1, <2>2, <2>3, <3>1, <3>2 DEF StashFits, KeepsForm
    <2> QED
      BY <2>4, <2>5, <2>6
  <1>4. ASSUME NEW r \in Requests, ActsStarting(r)
        PROVE  /\ Worked /\ stash' \subseteq Requests
               /\ \A q \in Requests : Has(q) /\ (q \in stash' => Lives(q))
    <2>1. http[r].pc \in Unfinished /\ \A q \in Requests \ {r} : http'[q] = http[q]
      BY <1>4, Begins, ActorsAdvance DEF ActsStarting, Unfinished, Advances, Alone
    <2>2. order # None => order.request # r
      BY <1>1, <2>1 DEF Begun, Unfinished, Opening
    <2>3. CASE Acquire(r)
      <3>1. /\ order = None /\ order' = OrderOf(r) /\ stash' = stash /\ http[r].pc = "lock"
            /\ http'[r].pc = "running"
        BY <1>4, <2>3, AcquireDoes, StashOfStarts DEF IInv, TypeOK, BenchTypeOK
      <3>2. order'.request = r /\ order'.uploads = http[r].uploads /\ order' # None
        BY <3>1, OrdersAreTyped
      <3> QED
        BY <1>1, <2>1, <3>1, <3>2
        DEF StashFits, StashLivesAsLongAsItsRequest, Unfinished, Opening
    <2>4. CASE ~Acquire(r)
      <3>1. order' = order
        BY <1>4, <2>4, Frames DEF ActsStarting, BenchStays
      <3>2. \A q \in Requests \ {r} : Has(q) /\ (q \in stash' => Lives(q))
        BY <1>1, <1>4, <2>1, <3>1, StashOfStarts DEF StashFits, StashLivesAsLongAsItsRequest
      <3>3. Worked /\ stash' \subseteq Requests
        BY <1>1, <1>4, <2>2, <3>1, StashOfStarts DEF StashLivesAsLongAsItsRequest
      <3>4. http'[r].pc \in Unfinished \/ http'[r].pc \in {"refusal", "over"}
        BY <1>4, <2>4, Begins DEF ActsStarting, Unfinished
      <3>5. Has(r) /\ (r \in stash' => Lives(r))
        <4>1. CASE http'[r].pc \in Unfinished
          BY <1>1, <1>4, <2>1, <4>1, StashOfStarts DEF StashFits, KeepsForm
        <4>2. CASE http'[r].pc \in {"refusal", "over"}
          BY <1>4, <4>2, StashOfStarts DEF Unfinished, Opening
        <4> QED
          BY <3>4, <4>1, <4>2
      <3> QED
        BY <3>2, <3>3, <3>5
    <2> QED
      BY <2>3, <2>4
  <1>5. ASSUME NEW r \in Requests, ActsEnding(r)
        PROVE  /\ Worked /\ stash' \subseteq Requests
               /\ \A q \in Requests : Has(q) /\ (q \in stash' => Lives(q))
    <2>1. stash' = stash /\ order' = order /\ http[r].pc \notin Unfinished
      BY <1>5, StashOfEndings DEF Unfinished, Opening
    <2>2. http'[r].pc \notin Unfinished /\ \A q \in Requests \ {r} : http'[q] = http[q]
      BY <1>5, Closes, ActorsAdvance DEF ActsEnding, Unfinished, Opening, Advances, Alone
    <2>3. \A q \in Requests \ {r} : Has(q) /\ (q \in stash' => Lives(q))
      BY <1>1, <2>1, <2>2 DEF StashFits, StashLivesAsLongAsItsRequest
    <2>4. Has(r) /\ (r \in stash' => Lives(r))
      BY <1>1, <1>5, <2>1, <2>2, StashOfEndings DEF StashLivesAsLongAsItsRequest
    <2> QED
      BY <1>1, <2>1, <2>3, <2>4 DEF StashLivesAsLongAsItsRequest
  <1>6. ASSUME AtWork \/ CleanUpRequest \/ EditPolicy \/ UNCHANGED vars
        PROVE  /\ Worked /\ stash' \subseteq Requests
               /\ \A q \in Requests : Has(q) /\ (q \in stash' => Lives(q))
    <2>1. CASE stash' = stash /\ order' = order
      BY <1>1, <1>6, <2>1, StashOfOthers DEF StashFits, StashLivesAsLongAsItsRequest
    <2>2. CASE order # None /\ order' = None /\ stash' = stash \ {order.request}
      BY <1>1, <1>6, <2>2, StashOfOthers
      DEF StashFits, StashLivesAsLongAsItsRequest, Begun, Unfinished, Opening
    <2> QED
      BY <1>6, <2>1, <2>2, StashOfOthers
  <1>7. FinishRequest => \E r \in Requests : ActsEnding(r)
    BY FinishRequestDoes DEF ActsEnding
  <1>8. Worked /\ stash' \subseteq Requests /\ \A q \in Requests : Has(q) /\ (q \in stash' => Lives(q))
    <2> HIDE DEF Has, Lives, Worked
    <2> QED
      BY <1>3, <1>4, <1>5, <1>6, <1>7, SomeoneActs
  <1> QED
    BY <1>8 DEF StashFits, StashLivesAsLongAsItsRequest

LEMMA RunningIsAtWork ==
  ASSUME IInv, [Next]_vars, NEW q \in Requests
  PROVE  http'[q].pc = "running" <=> order' # None /\ order'.request = q /\ step' # "discard"
  <1>1. /\ http[q].pc = "running" <=> order # None /\ order.request = q /\ step # "discard"
        /\ step = "free" <=> order = None
    BY DEF IInv, TypeOK, BenchTypeOK
  <1>2. CASE AtWork
    BY <1>1, <1>2, OtherFrames, WorkKeepsBench, WorkDiscardsNothing DEF IInv
  <1>3. CASE CleanUpRequest
    BY <1>1, <1>3, OtherFrames
  <1>4. CASE EditPolicy \/ UNCHANGED vars
    BY <1>1, <1>4, OtherFrames DEF BenchStays
  <1>5. CASE FinishRequest
    <2>1. order' = order /\ step' = "discard"
      BY <1>5, FinishRequestDoes
    <2>2. q # order.request => http'[q] = http[q]
      BY <1>5, FinishRequestDoes DEF Alone
    <2>3. q = order.request => http'[q].pc = "filing"
      BY <1>5, FinishRequestDoes
    <2>4. q # order.request => http[q].pc # "running"
      BY <1>1
    <2> QED
      BY <2>1, <2>2, <2>3, <2>4
  <1>6. ASSUME NEW r \in Requests, Acquire(r)
        PROVE  http'[q].pc = "running" <=> order' # None /\ order'.request = q /\ step' # "discard"
    <2>1. /\ http[r].pc = "lock" /\ step = "free" /\ order' = OrderOf(r)
          /\ http'[r].pc = "running" /\ (q # r => http'[q] = http[q])
      BY <1>6, AcquireDoes DEF Alone
    <2>2. step' = "prepare"
      BY <1>6 DEF Acquire, Begin
    <2>3. order'.request = r /\ order' # None
      BY <2>1, OrdersAreTyped
    <2> QED
      BY <1>1, <2>1, <2>2, <2>3
  <1>7. ASSUME NEW r \in Requests, ActsOpening(r) \/ ActsStarting(r) \/ ActsEnding(r),
               ~Acquire(r), ~FinishRequest
        PROVE  http'[q].pc = "running" <=> order' # None /\ order'.request = q /\ step' # "discard"
    <2>1. BenchStays
      BY <1>7, Frames DEF ActsOpening, ActsStarting, ActsEnding
    <2>2. http[r].pc # "running" /\ http'[r].pc # "running"
      BY <1>7, Opens, Begins, Closes DEF ActsOpening, ActsStarting, ActsEnding, Opening
    <2>3. q # r => http'[q] = http[q]
      BY <1>7, ActorsAdvance DEF Advances, Alone
    <2> QED
      BY <1>1, <2>1, <2>2, <2>3 DEF BenchStays
  <1> QED
    BY <1>2, <1>3, <1>4, <1>5, <1>6, <1>7, SomeoneActs

LEMMA TypesAreKept ==
  ASSUME IInv, [Next]_vars
  PROVE  TypeOK'
  <1>1. /\ BenchTypeOK' /\ order' \in {None} \cup Orders
    BY BenchIsKept DEF BenchInv
  <1>2. /\ version' \in DOMAIN PolicyFiles /\ version' \in Nat
        /\ http' \in [Requests -> Known]
        /\ thread' \in [Conversations -> Seq(Comments)]
    BY WorldGrows, ConversationsConstants
  <1>3. current' \in {0} \cup DOMAIN PolicyFiles
    <2>1. current' <= version'
      BY VersionsStayFit DEF VersionsFit
    <2>2. \A r \in Requests : http[r].reading \in Nat
      BY Typed DEF Known
    <2>3. current' \in Nat
      BY <2>2, Typed, WhoChanges, PolicyArrivesDoes
    <2> QED
      BY <1>2, <2>1, <2>3, ConversationsConstants
  <1>4. pulls' \in Seq(refs')
    BY WorldGrows DEF NamesGrow
  <1>5. IsFiniteSet(Requests) /\ Cardinality(Requests) \in Nat
    BY NumbersForAll, FS_CardinalityType
  <1>6. Cardinality(Claimants') \in Nat /\ Cardinality(Claimants') <= Cardinality(Requests)
    BY <1>5, ClaimsStand, FS_Subset
  <1>7. PICK k \in Nat : refs' = 1 .. k /\ 2 <= k /\ k <= 2 + Cardinality(Requests)
    BY <1>5, <1>6, NamesAreInOrder DEF NamesInOrder
  <1>8. refs' \subseteq Branches
    BY <1>5, <1>7, NumbersForAll
  <1>9. DOMAIN pulls' \subseteq Conversations
    <2>1. Len(pulls') \in Nat /\ Len(pulls') <= k - 1
      BY <1>4, <1>7, NamesStayOwned, HeadsAreNames DEF NamesAreOwned
    <2>2. DOMAIN pulls' = 1 .. Len(pulls')
      BY <1>4, LenProperties
    <2> QED
      BY <1>5, <1>7, <2>1, <2>2, NumbersForAll
  <1>10. stash' \subseteq Requests
    BY StashStaysFit
  <1>11. mailed' \subseteq Requests
    <2>1. mailed \subseteq Requests
      BY DEF IInv, TypeOK
    <2>2. \A r \in Requests : SendMail(r) => mailed' = mailed \cup {r}
      BY SendMailDoes
    <2> QED
      BY <2>1, <2>2, WhoChanges
  <1>12. \A q \in Requests :
            http'[q].pc = "running" <=> order' # None /\ order'.request = q /\ step' # "discard"
    BY RunningIsAtWork
  <1> QED
    BY <1>1, <1>2, <1>3, <1>4, <1>8, <1>9, <1>10, <1>11, <1>12 DEF TypeOK

\* What the first page tells of is what its comments have refused.
LEMMA PagesTell ==
  ASSUME TypeOK, NEW c \in Conversations, NEW n \in Nat, n <= Len(thread[c])
  PROVE  Tells(CollectRefusedPaths(ListComments(c)), thread[c], n)
  <1> DEFINE page == ListComments(c)
             s == thread[c]
  <1>1. /\ Len(s) \in Nat /\ DOMAIN s = 1 .. Len(s)
        /\ \A i \in DOMAIN page : i \in DOMAIN s /\ i <= PageSize /\ page[i] = s[i]
        /\ \A i \in DOMAIN s : i <= PageSize => i \in DOMAIN page
    BY PagesAreSequences
  <1>2. CollectRefusedPaths(page) = {page[i].path : i \in {j \in DOMAIN page : Refuses(page[j])}}
    BY DEF CollectRefusedPaths, RecordsIn, HasRecord, Refuses
  <1> HIDE DEF page, s
  <1>3. CollectRefusedPaths(page) = RefusedBy(s, PageSize)
    BY <1>1, <1>2 DEF RefusedBy
  <1> DEFINE m == IF n < PageSize THEN n ELSE PageSize
  <1>4. m <= PageSize /\ m \in Nat /\ PageSize \in Nat
    BY ConversationsConstants
  <1> HIDE DEF m
  <1>5. RefusedBy(s, m) \subseteq RefusedBy(s, PageSize)
    BY <1>1, <1>4 DEF RefusedBy
  <1> QED
    BY <1>3, <1>5 DEF Tells, m, s, page

LEMMA RefusalsStayFit ==
  ASSUME IInv, [Next]_vars
  PROVE  RefusalsFit'
  <1> DEFINE Posted(q) == http'[q].pc \in Entered =>
                              http'[q].postedTo <= Len(thread'[http'[q].conversation])
             Told(q) == http'[q].pc \in {"words", "lock"} =>
                 Tells(http'[q].refused, thread'[http'[q].conversation], http'[q].postedTo)
  <1>1. /\ RefusalsFit /\ TypeOK
        /\ \A q \in Requests : http[q].pc \in Entered => http[q].conversation \in Conversations
    BY Typed DEF IInv, RequestsFit
  <1>2. \A c \in Conversations :
            /\ Len(thread[c]) \in Nat /\ Len(thread'[c]) \in Nat /\ Len(thread[c]) <= Len(thread'[c])
            /\ thread[c] \in Seq(Comments) /\ thread'[c] \in Seq(Comments)
            /\ Grows(thread[c], thread'[c])
    BY <1>1, WorldGrows, LenProperties DEF TypeOK, ThreadsGrow, Grows
  <1>3. \A q \in Requests : http[q].postedTo \in Nat
    BY Typed DEF Known
  <1>4. ASSUME NEW q \in Requests, http[q].pc \in Entered,
               http'[q].conversation = http[q].conversation,
               http'[q].postedTo \in {http[q].postedTo, 0}
        PROVE  Posted(q)
    BY <1>1, <1>2, <1>3, <1>4 DEF RefusalsFit
  <1>5. ASSUME NEW q \in Requests, http[q].pc \in {"words", "lock"},
               http'[q].conversation = http[q].conversation,
               http'[q].postedTo = http[q].postedTo, http'[q].refused = http[q].refused
        PROVE  Told(q)
    BY <1>1, <1>2, <1>3, <1>5, TellsOn DEF RefusalsFit, Entered
  <1>6. ASSUME NEW q \in Requests, http'[q] = http[q]
        PROVE  Posted(q) /\ Told(q)
    <2>1. http[q].pc \in Entered => Posted(q)
      BY <1>4, <1>6
    <2>2. http[q].pc \in {"words", "lock"} => Told(q)
      BY <1>5, <1>6
    <2> QED
      BY <1>6, <2>1, <2>2
  <1>7. ASSUME NEW q \in Requests, ActsOpening(q)
        PROVE  Posted(q) /\ Told(q)
    <2>1. thread' = thread
      BY <1>7, Frames DEF ActsOpening
    <2>2. http'[q].pc \notin {"words", "lock"}
      BY <1>7, Opens DEF ActsOpening
    <2>3. CASE Post(q)
      <3>1. /\ http'[q].pc \in {"inspect", "policy", "over"}
            /\ http'[q].pc = "policy" => /\ http'[q].conversation \in Conversations
                                         /\ http'[q].postedTo = Len(thread[http'[q].conversation])
        BY <2>3, PostDoes, Typed
      <3> QED
        BY <1>2, <2>1, <2>2, <3>1 DEF Entered
    <2>4. CASE OpenConversation(q)
      <3>1. http'[q].postedTo = 0
        BY <2>4, OpenConversationDoes DEF KeepsForm, IInv, RequestsFit, Opening
      <3>2. http'[q].conversation \in Conversations
        <4>1. http'[q].conversation \in DOMAIN pulls'
          BY <2>4, Opens, RequestsStayFit DEF RequestsFit, Entered
        <4> QED
          BY <4>1, TypesAreKept DEF TypeOK
      <3> QED
        BY <1>2, <2>2, <3>1, <3>2
    <2>5. CASE ~Post(q) /\ ~OpenConversation(q)
      BY <1>7, <2>2, <2>5, Opens DEF ActsOpening, Entered
    <2> QED
      BY <2>3, <2>4, <2>5
  <1>8. ASSUME NEW q \in Requests, ActsStarting(q) \/ ActsEnding(q)
        PROVE  Posted(q)
    <2>1. http[q].pc \in Entered
      BY <1>8, Begins, Closes DEF ActsStarting, ActsEnding, Entered
    <2>2. /\ http'[q].conversation = http[q].conversation
          /\ http'[q].postedTo \in {http[q].postedTo, 0}
      BY <1>8, <2>1, ActorsAdvance DEF Advances, Entered
    <2> QED
      BY <1>4, <2>1, <2>2
  <1>9. ASSUME NEW q \in Requests, ActsStarting(q) \/ ActsEnding(q)
        PROVE  Told(q)
    <2>1. CASE ReadThread(q)
      <3> DEFINE c == http[q].conversation
      <3>1. /\ c \in Conversations /\ thread' = thread /\ http'[q].conversation = c
            /\ http'[q].postedTo = http[q].postedTo
            /\ http'[q].refused = CollectRefusedPaths(ListComments(c))
        BY <1>1, <2>1, Begins, Frames, ReadThreadDoes DEF Entered, KeepsForm
      <3>2. http[q].postedTo <= Len(thread[c])
        BY <1>1, <2>1, Begins DEF RefusalsFit, Entered
      <3> QED
        BY <1>1, <1>3, <3>1, <3>2, PagesTell
    <2>2. CASE WriteWords(q)
      BY <1>5, <2>2, WriteWordsDoes DEF Moves, KeepsForm, KeepsPlace, KeepsTold
    <2>3. CASE ~ReadThread(q) /\ ~WriteWords(q)
      BY <1>9, <2>3, Begins, Closes DEF ActsStarting, ActsEnding
    <2> QED
      BY <2>1, <2>2, <2>3
  <1>10. \A q \in Requests : Posted(q) /\ Told(q)
    <2> HIDE DEF Posted, Told
    <2> QED
      BY <1>6, <1>7, <1>8, <1>9, WhoMoves
  <1> QED
    BY <1>10 DEF RefusalsFit

LEMMA OrderStaysRequests ==
  ASSUME IInv, [Next]_vars
  PROVE  OrderIsRequests'
  <1>1. /\ OrderIsRequests /\ TypeOK
        /\ DOMAIN pulls \subseteq DOMAIN pulls' /\ DOMAIN pulls \subseteq Conversations
        /\ \A c \in DOMAIN pulls : pulls'[c] = pulls[c]
    BY WorldGrows DEF IInv, TypeOK, NamesGrow
  <1>2. \A c \in Conversations :
            /\ thread[c] \in Seq(Comments) /\ thread'[c] \in Seq(Comments)
            /\ Grows(thread[c], thread'[c])
    BY <1>1, WorldGrows DEF TypeOK, ThreadsGrow
  <1>3. \A q \in Requests : http[q].postedTo \in Nat
    BY Typed DEF Known
  <1>4. CASE order' = order /\ order # None
    <2> DEFINE r == order.request
               c == order.conversation
    <2>1. /\ r \in Requests /\ http[r].pc \in Begun /\ c = http[r].conversation
          /\ c \in DOMAIN pulls /\ order.branch = pulls[c]
          /\ Tells(order.refused, thread[c], http[r].postedTo)
      BY <1>1, <1>4 DEF OrderIsRequests
    <2>2. /\ http'[r].pc \in Begun /\ http'[r].conversation = c
          /\ http'[r].postedTo \in {http[r].postedTo, 0}
      <3>1. CASE http'[r] = http[r]
        BY <2>1, <3>1
      <3>2. CASE Advances(r)
        BY <2>1, <3>2 DEF Advances, Begun
      <3> QED
        BY <2>1, <3>1, <3>2, WhoMoves, ActorsAdvance
    <2>3. Tells(order.refused, thread'[c], http'[r].postedTo)
      BY <1>1, <1>2, <1>3, <2>1, <2>2, TellsOn
    <2> QED
      BY <1>1, <1>4, <2>1, <2>2, <2>3 DEF OrderIsRequests
  <1>5. CASE order' = None
    BY <1>5 DEF OrderIsRequests
  <1>6. ASSUME NEW r \in Requests, Acquire(r)
        PROVE  OrderIsRequests'
    <2>1. /\ http[r].pc = "lock" /\ order' = OrderOf(r) /\ http'[r].pc = "running"
          /\ http'[r].conversation = http[r].conversation /\ http'[r].postedTo = http[r].postedTo
          /\ thread' = thread /\ pulls' = pulls
      BY <1>6, AcquireDoes, Frames DEF NamesStay
    <2>2. /\ order'.request = r /\ order'.conversation = http[r].conversation
          /\ order'.branch = pulls[http[r].conversation] /\ order'.refused = http[r].refused
      BY <2>1, OrdersAreTyped
    <2>3. /\ http[r].conversation \in DOMAIN pulls
          /\ Tells(http[r].refused, thread[http[r].conversation], http[r].postedTo)
      BY <2>1 DEF IInv, RequestsFit, RefusalsFit, Entered
    <2> QED
      BY <2>1, <2>2, <2>3 DEF OrderIsRequests, Begun
  <1> QED
    BY <1>4, <1>5, <1>6, WhoChanges, OtherFrames

\* A comment is written by a request, in its own conversation: its words, or its
\* ending, which it writes once.
Writes(r, c, m) ==
    /\ WriteWords(r) \/ RecordRefusal(r) \/ FileRecord(r)
    /\ c = http[r].conversation /\ c \in Conversations /\ m.request = r
    /\ Appends(c, m) /\ http[r].pc \notin Closed
    /\ http'[r].conversation = c /\ http'[r].pc \in Spoken
    /\ m.kind = "record" => http'[r].pc \in Closed

LEMMA WhoWrites ==
  ASSUME IInv, [Next]_vars
  PROVE  \/ ThreadsGrow /\ NobodyWrites
         \/ \E r \in Requests, m \in Comments : Writes(r, http[r].conversation, m)
  <1>1. TypeOK /\ \A q \in Requests : http[q].pc \in Entered => http[q].conversation \in Conversations
    BY Typed DEF IInv, RequestsFit
  <1>2. thread' = thread => ThreadsGrow /\ NobodyWrites
    BY <1>1, KeptThreadsGrow
  <1>3. ASSUME NEW r \in Requests, ActsOpening(r)
        PROVE  thread' = thread
    BY <1>3, Frames DEF ActsOpening
  <1>4. CASE FinishRequest \/ AtWork \/ CleanUpRequest \/ EditPolicy \/ UNCHANGED vars
    BY <1>2, <1>4, OtherFrames
  <1>5. ASSUME NEW r \in Requests, WriteWords(r)
        PROVE  Writes(r, http[r].conversation, Words(r)) /\ Words(r) \in Comments
    <2>1. /\ http[r].pc = "words" /\ http'[r].pc = "lock" /\ Words(r) \in Comments
          /\ Appends(http[r].conversation, Words(r)) /\ http'[r].conversation = http[r].conversation
      BY <1>5, WriteWordsDoes DEF Moves, KeepsPlace
    <2>2. Words(r).request = r /\ Words(r).kind = "words"
      BY DEF Words
    <2> QED
      BY <1>1, <1>5, <2>1, <2>2 DEF Writes, Entered, Closed, Spoken
  <1>6. ASSUME NEW r \in Requests, RecordRefusal(r), ~(ThreadsGrow /\ NobodyWrites)
        PROVE  \E m \in Comments : Writes(r, http[r].conversation, m)
    <2>1. PICK m \in Comments : EndsIt(m, r) /\ Appends(http[r].conversation, m)
      BY <1>2, <1>6, RecordRefusalDoes
    <2>2. /\ http[r].pc = "refusal" /\ http'[r].pc = "over"
          /\ http'[r].conversation = http[r].conversation
      BY <1>6, Closes, EndingsAdvance DEF Advances
    <2> QED
      BY <1>1, <1>6, <2>1, <2>2 DEF Writes, EndsIt, Entered, Closed, Spoken, Begun
  <1>7. ASSUME NEW r \in Requests, FileRecord(r)
        PROVE  Writes(r, http[r].conversation, http[r].due) /\ http[r].due \in Comments
    <2>1. /\ http[r].pc = "filing" /\ http'[r].pc \in {"marking", "over"}
          /\ http'[r].conversation = http[r].conversation
      BY <1>7, Closes, EndingsAdvance DEF Advances
    <2>2. http[r].due \in Comments /\ Appends(http[r].conversation, http[r].due)
      BY <1>7, FileRecordDoes
    <2>3. http[r].due.request = r
      BY <2>1 DEF IInv, EndingsFit, EndsIt
    <2> QED
      BY <1>1, <1>7, <2>1, <2>2, <2>3 DEF Writes, Entered, Closed, Spoken, Begun
  <1>8. ASSUME NEW r \in Requests, Notify(r)
        PROVE  ThreadsGrow /\ NobodyWrites
    BY <1>1, <1>2, <1>8, NotifyDoes, MarkedThreadsGrow DEF Entered
  <1>9. ASSUME NEW r \in Requests, ActsStarting(r), ~WriteWords(r)
        PROVE  thread' = thread
    BY <1>9, Frames DEF ActsStarting
  <1>10. ASSUME NEW r \in Requests, FilingFails(r) \/ SendMail(r)
         PROVE  thread' = thread
    BY <1>10, Frames
  <1> QED
    BY <1>2, <1>3, <1>4, <1>5, <1>6, <1>7, <1>8, <1>9, <1>10, SomeoneActs DEF ActsEnding

\* A comment that is there was there, or is the one just written.
LEMMA CommentsAreOldOrNew ==
  ASSUME IInv, [Next]_vars, NEW c \in Conversations, NEW i \in DOMAIN thread'[c]
  PROVE  \/ /\ i \in DOMAIN thread[c] /\ Same(thread[c][i], thread'[c][i])
         \/ /\ i \notin DOMAIN thread[c]
            /\ \E r \in Requests, m \in Comments : Writes(r, c, m) /\ thread'[c][i] = m
  <1>1. TypeOK /\ thread' \in [Conversations -> Seq(Comments)]
    BY WorldGrows DEF IInv
  <1>2. i \in Nat
    BY <1>1, LenProperties
  <1>3. i \in DOMAIN thread[c] => Same(thread[c][i], thread'[c][i])
    BY WorldGrows DEF ThreadsGrow, Grows
  <1>4. CASE ThreadsGrow /\ NobodyWrites
    BY <1>3, <1>4 DEF NobodyWrites
  <1>5. ASSUME NEW r \in Requests, NEW m \in Comments, Writes(r, http[r].conversation, m),
               i \notin DOMAIN thread[c]
        PROVE  Writes(r, c, m) /\ thread'[c][i] = m
    <2>1. Appends(http[r].conversation, m) /\ http[r].conversation \in Conversations
      BY <1>5 DEF Writes
    <2>2. c = http[r].conversation /\ thread'[c][i] = m
      BY <1>1, <1>2, <1>5, <2>1, AppendedThreadsGrow
    <2> QED
      BY <1>5, <2>2
  <1> QED
    BY <1>3, <1>4, <1>5, WhoWrites

LEMMA CommentsStayFit ==
  ASSUME IInv, [Next]_vars
  PROVE  CommentsFit'
  <1> SUFFICES ASSUME NEW c \in Conversations, NEW i \in DOMAIN thread'[c]
               PROVE  LET r == thread'[c][i].request
                      IN  /\ http'[r].conversation = c /\ http'[r].pc \in Spoken
                          /\ thread'[c][i].kind = "record" => http'[r].pc \in Closed
    BY DEF CommentsFit
  <1>1. CASE i \in DOMAIN thread[c] /\ Same(thread[c][i], thread'[c][i])
    <2> DEFINE r == thread[c][i].request
    <2>1. /\ http[r].conversation = c /\ http[r].pc \in Spoken
          /\ thread[c][i].kind = "record" => http[r].pc \in Closed
      BY <1>1 DEF IInv, CommentsFit
    <2>2. r \in Requests
      BY <1>1, PagesAreSequences DEF IInv, Comments
    <2>3. thread'[c][i].request = r /\ thread'[c][i].kind = thread[c][i].kind
      BY <1>1 DEF Same
    <2> HIDE DEF r
    <2>4. CASE http'[r] = http[r]
      BY <2>1, <2>3, <2>4
    <2>5. CASE Advances(r)
      BY <2>1, <2>3, <2>5 DEF Advances, Spoken, Begun
    <2> QED
      BY <2>2, <2>4, <2>5, WhoMoves, ActorsAdvance
  <1>2. CASE \E r \in Requests, m \in Comments : Writes(r, c, m) /\ thread'[c][i] = m
    BY <1>2 DEF Writes
  <1> QED
    BY <1>1, <1>2, CommentsAreOldOrNew

\* Nobody whose ending is written writes again.
LEMMA EndedStaysEnded ==
  ASSUME IInv, [Next]_vars, NEW r \in Requests, NEW c \in Conversations, http[r].pc \in Closed
  PROVE  /\ IsEnded(r, thread[c]) => IsEnded(r, thread'[c])
         /\ IsMarked(r, thread[c]) => IsMarked(r, thread'[c])
  <1>1. Grows(thread[c], thread'[c])
    BY WorldGrows DEF ThreadsGrow
  <1>2. \A i \in DOMAIN thread'[c] \ DOMAIN thread[c] : thread'[c][i].request # r
    BY CommentsAreOldOrNew DEF Writes
  <1> QED
    BY <1>1, <1>2, EndedOn, MarkedOn

\* The first ending of a request comes after all it has said.
LEMMA EndingEnds ==
  ASSUME IInv, [Next]_vars, NEW r \in Requests, NEW m \in Comments,
         Writes(r, http[r].conversation, m), EndsIt(m, r), ReadsBack(m)
  PROVE  IsEnded(r, thread'[http[r].conversation])
  <1> DEFINE c == http[r].conversation
             n == Len(thread[c]) + 1
  <1>1. /\ TypeOK /\ thread' \in [Conversations -> Seq(Comments)] /\ c \in Conversations
        /\ Appends(c, m) /\ http[r].pc \notin Closed
    BY WorldGrows DEF IInv, Writes
  <1> HIDE DEF c
  <1>2. /\ Len(thread[c]) \in Nat /\ DOMAIN thread[c] = 1 .. Len(thread[c])
        /\ \A i \in DOMAIN thread[c] : thread[c][i] \in Comments
    BY <1>1, PagesAreSequences
  <1>3. n \in DOMAIN thread'[c] /\ thread'[c][n] = m
    BY <1>1, AppendedThreadsGrow DEF Appends
  <1>a. ASSUME NEW i \in DOMAIN thread'[c]
        PROVE  i \in DOMAIN thread[c] \/ i = n
    <2>1. i \in Nat
      <3> DEFINE s == thread'[c]
      <3>1. s \in Seq(Comments)
        BY <1>1
      <3>2. DOMAIN s = 1 .. Len(s) /\ Len(s) \in Nat
        BY <3>1, LenProperties
      <3> QED
        BY <3>2
    <2> QED
      BY <1>1, <2>1, AppendedThreadsGrow
  <1>4. ASSUME NEW i \in DOMAIN thread'[c], thread'[c][i].request = r
        PROVE  i = n \/ (i < n /\ thread'[c][i].kind = "words")
    <2>1. CASE i \in DOMAIN thread[c]
      <3>1. thread'[c][i] = thread[c][i]
        BY <1>1, <2>1 DEF Appends
      <3>2. thread[c][i].kind # "record"
        BY <1>1, <1>4, <2>1, <3>1 DEF IInv, CommentsFit
      <3> QED
        BY <1>2, <2>1, <3>1, <3>2 DEF Comments
    <2>2. CASE i \notin DOMAIN thread[c]
      BY <1>a, <2>2
    <2> QED
      BY <2>1, <2>2
  <1> HIDE DEF n, c
  <1> QED
    BY <1>3, <1>4 DEF IsEnded, c

LEMMA EndingsStayFit ==
  ASSUME IInv, [Next]_vars
  PROVE  EndingsFit'
  <1> DEFINE Due(q) == http'[q].pc = "filing" =>
                 /\ http'[q].due \in Comments /\ EndsIt(http'[q].due, q)
                 /\ ReadsBack(http'[q].due)
             Owes(q) == \/ http'[q].pc \in {"marking", "mailing"}
                        \/ http'[q].pc = "over" /\ http'[q].answer \in {201, 202} /\ ~http'[q].silent
             Ended(q) == /\ http'[q].conversation \in Conversations
                         /\ IsEnded(q, thread'[http'[q].conversation])
             Marked(q) == /\ http'[q].conversation \in Conversations
                          /\ IsMarked(q, thread'[http'[q].conversation])
             Mailed(q) == /\ q \in mailed' => http'[q].pc = "over"
                          /\ http'[q].pc = "mailing" \/ q \in mailed' => Marked(q)
             Fits(q) == Due(q) /\ (Owes(q) => Ended(q)) /\ Mailed(q)
  <1>1. EndingsFit /\ \A q \in Requests : http[q].pc \in Entered => http[q].conversation \in Conversations
    BY Typed DEF IInv, RequestsFit
  <1>2. ASSUME NEW q \in Requests, q \in mailed' /\ q \notin mailed
        PROVE  SendMail(q)
    BY <1>2, WhoChanges, SendMailDoes
  <1>3. ASSUME NEW q \in Requests, http'[q] = http[q]
        PROVE  Fits(q)
    <2>1. q \in mailed' => q \in mailed
      <3>1. SendMail(q) => http'[q].pc # http[q].pc
        BY Closes
      <3> QED
        BY <1>2, <1>3, <3>1
    <2>2. Due(q)
      BY <1>1, <1>3 DEF EndingsFit
    <2>3. Owes(q) => Ended(q)
      BY <1>1, <1>3, EndedStaysEnded DEF EndingsFit, Closed
    <2>4. Mailed(q)
      BY <1>1, <1>3, <2>1, EndedStaysEnded DEF EndingsFit, Closed
    <2> QED
      BY <2>2, <2>3, <2>4
  <1>4. ASSUME NEW q \in Requests, http[q].pc # "over", ~SendMail(q)
        PROVE  q \notin mailed'
    BY <1>1, <1>2, <1>4 DEF EndingsFit
  <1>5. ASSUME NEW q \in Requests, ActsOpening(q) \/ ActsStarting(q)
        PROVE  Fits(q)
    <2>1. http[q].pc # "over" /\ ~SendMail(q)
      BY <1>5, Opens, Begins, Closes DEF ActsOpening, ActsStarting, Opening
    <2>2. http'[q].pc \notin {"filing", "marking", "mailing"}
      BY <1>5, Opens, Begins DEF ActsOpening, ActsStarting
    <2>3. http'[q].pc = "over" => http'[q].answer \notin {201, 202}
      <3> DEFINE Unpromised == http'[q].pc = "over" => http'[q].answer \notin {201, 202}
      <3>1. http'[q].pc # "over" => Unpromised
        OBVIOUS
      <3>2. Moves(q, "predict") \/ Moves(q, "refusal") => Unpromised
        BY DEF Moves
      <3>3. IsOver(q, 409) => Unpromised
        BY DEF IsOver
      <3>4. IsOver(q, 500) => Unpromised
        BY DEF IsOver
      <3>5. Post(q) => Unpromised
        BY PostDoes DEF Crash
      <3> HIDE DEF Unpromised
      <3>6. InspectLock(q) => Unpromised
        <4>1. InspectLock(q) => Moves(q, "predict") \/ IsOver(q, 409)
          BY InspectLockDoes
        <4> QED
          BY <3>2, <3>3, <4>1
      <3>7. OpeningFails(q) => Unpromised
        <4> SUFFICES ASSUME OpeningFails(q)
                     PROVE  Unpromised
          OBVIOUS
        <4>1. PICK status \in {500, 502} : IsOver(q, status)
          BY OpeningFailsDoes
        <4>2. http'[q].answer = status
          BY <4>1 DEF IsOver
        <4> QED
          BY <4>2 DEF Unpromised
      <3>8. ClaimBranch(q) => Unpromised
        <4>1. ClaimBranch(q) => http'[q].pc \in {"claim", "pull"} \/ IsOver(q, 500)
          BY ClaimBranchDoes
        <4> QED
          BY <3>1, <3>4, <4>1
      <3>9. StartFailed(q) => Unpromised
        BY <3>2, <3>4, StartFailedDoes
      <3>10. TurnedAway(q) => Unpromised
        <4>1. TurnedAway(q) => Moves(q, "refusal") \/ IsOver(q, 409)
          BY TurnedAwayDoes
        <4> QED
          BY <3>2, <3>3, <4>1
      <3>11. PolicyArrives(q) => Unpromised
        <4>1. PolicyArrives(q) => http'[q].pc = "thread" \/ StartFailed(q)
          BY PolicyArrivesDoes
        <4> QED
          BY <3>1, <3>9, <4>1
      <3>12. StartFails(q) => StartFailed(q)
        BY DEF StartFails
      <3>13. /\ ActsOpening(q) => Unpromised
             /\ ActsStarting(q) => Unpromised
        BY <3>1, <3>5, <3>6, <3>7, <3>8, <3>9, <3>10, <3>11, <3>12, Opens, Begins
           DEF ActsOpening, ActsStarting
      <3> QED
        BY <1>5, <3>13 DEF Unpromised
    <2> QED
      BY <1>4, <2>1, <2>2, <2>3
  <1>6. ASSUME NEW q \in Requests, ActsEnding(q)
        PROVE  Fits(q)
    <2>1. Advances(q) /\ http'[q].conversation = http[q].conversation /\ http[q].pc # "over"
      BY <1>6, Closes, EndingsAdvance DEF ActsEnding, Advances
    <2>2. http[q].conversation \in Conversations
      BY <1>1, <1>6, Closes DEF ActsEnding, Entered
    <2>3. CASE RecordRefusal(q)
      <3>1. http[q].pc = "refusal" /\ http'[q].pc = "over" /\ q \notin mailed'
        BY <1>4, <2>1, <2>3, Closes
      <3>2. http'[q].silent \/ Ended(q)
        <4>1. CASE IsSilent(q, http[q].answer)
          BY <4>1 DEF IsSilent
        <4>2. ASSUME NEW m \in Comments, EndsIt(m, q), ReadsBack(m), Appends(http[q].conversation, m)
              PROVE  Ended(q)
          <5>1. Writes(q, http[q].conversation, m)
            BY <2>1, <2>2, <2>3, <3>1, <4>2 DEF Writes, EndsIt, Closed, Spoken, Begun
          <5> QED
            BY <2>1, <2>2, <4>2, <5>1, EndingEnds
        <4> QED
          BY <2>3, <4>1, <4>2, RecordRefusalDoes
      <3> QED
        BY <3>1, <3>2
    <2>4. CASE FileRecord(q)
      <3>1. http[q].pc = "filing" /\ http'[q].pc \in {"marking", "over"} /\ q \notin mailed'
        BY <1>4, <2>1, <2>4, Closes
      <3>2. /\ http[q].due \in Comments /\ EndsIt(http[q].due, q) /\ ReadsBack(http[q].due)
            /\ Appends(http[q].conversation, http[q].due)
        BY <1>1, <2>4, <3>1, FileRecordDoes DEF EndingsFit
      <3>3. Writes(q, http[q].conversation, http[q].due)
        BY <2>1, <2>2, <2>4, <3>1, <3>2 DEF Writes, EndsIt, Closed, Spoken, Begun
      <3>4. Ended(q)
        BY <2>1, <2>2, <3>2, <3>3, EndingEnds
      <3> QED
        BY <3>1, <3>4
    <2>5. CASE FilingFails(q)
      <3>1. http'[q].pc = "over" /\ http'[q].silent /\ q \notin mailed'
        BY <1>4, <2>1, <2>5, FilingFailsDoes, Closes DEF IsSilent
      <3> QED
        BY <3>1
    <2>6. CASE Notify(q)
      <3>1. http[q].pc = "marking" /\ http'[q].pc \in {"mailing", "over"} /\ q \notin mailed'
        BY <1>4, <2>1, <2>6, Closes
      <3>2. Ended(q)
        BY <1>1, <2>1, <2>2, <3>1, EndedStaysEnded DEF EndingsFit, Closed
      <3>3. http'[q].pc = "mailing" => Marked(q)
        <4> SUFFICES ASSUME http'[q].pc = "mailing"
                     PROVE  Marked(q)
          OBVIOUS
        <4> DEFINE c == http[q].conversation
        <4>1. PICK j \in DOMAIN thread[c] :
                  /\ EndsIt(thread[c][j], q) /\ Marks(c, j)
                  /\ thread' \in [Conversations -> Seq(Comments)]
          BY <2>6, NotifyDoes DEF IsOver
        <4>2. TypeOK
          BY DEF IInv
        <4>3. j \in DOMAIN thread'[c] /\ thread'[c][j].notified
          BY <2>2, <4>1, <4>2, MarkedThreadsGrow
        <4>4. EndsIt(thread'[c][j], q)
          BY <4>1 DEF Marks, EndsIt
        <4> QED
          BY <2>1, <2>2, <4>3, <4>4 DEF IsMarked
      <3> QED
        BY <3>1, <3>2, <3>3
    <2>7. CASE SendMail(q)
      <3>1. http[q].pc = "mailing" /\ http'[q].pc = "over"
        BY <2>7, Closes
      <3>2. Ended(q)
        BY <1>1, <2>1, <2>2, <3>1, EndedStaysEnded DEF EndingsFit, Closed
      <3>3. Marked(q)
        BY <1>1, <2>1, <2>2, <3>1, EndedStaysEnded DEF EndingsFit, Closed
      <3> QED
        BY <3>1, <3>2, <3>3
    <2>8. CASE FinishRequest /\ q = order.request
      <3>1. /\ http'[q].pc = "filing" /\ Due(q) /\ q \notin mailed'
        BY <1>4, <2>1, <2>8, FinishRequestDoes, Closes
      <3> QED
        BY <3>1
    <2> QED
      BY <1>6, <2>3, <2>4, <2>5, <2>6, <2>7, <2>8 DEF ActsEnding
  <1>7. \A q \in Requests : Fits(q)
    <2> HIDE DEF Fits
    <2> QED
      BY <1>3, <1>5, <1>6, WhoMoves
  <1> QED
    BY <1>7 DEF EndingsFit


-------------------------------------------------------------------------------
(* The invariant of every behaviour *)

LEMMA InitFits ==
  ASSUME Init
  PROVE  IInv
  <1>1. Idle \in Known /\ Idle.pc = "idle" /\ ~Idle.opens /\ Idle.answer = 0
    BY IdleIsKnown DEF Idle
  <1>2. \A r \in Requests : http[r] = Idle
    BY DEF Init
  <1> HIDE DEF Idle
  <1>3. \A r \in Requests : http[r].pc = "idle" /\ ~http[r].opens /\ http[r].answer = 0
    BY <1>1, <1>2
  <1>4. order = None /\ prompt = None /\ stash = {} /\ mailed = {} /\ version = 1 /\ current = 0
    BY DEF Init, InitBench
  <1>5. IsFiniteSet(Requests) /\ Cardinality(Requests) \in Nat
    BY NumbersForAll, FS_CardinalityType
  <1>6. /\ pulls = <<1>> /\ refs = {1, 2} /\ DOMAIN pulls = {1} /\ pulls[1] = 1
        /\ 1 \in Conversations /\ refs \subseteq Branches
    BY <1>5, NumbersForAll DEF Init
  <1>7. BenchInv
    <2>1. branch \in [Branches -> Trees] /\ kept = [c \in Conversations |-> None]
      BY DEF Init, Trees, Content
    <2> QED
      BY <2>1, BenchAtFirst DEF Init
  <1>8. /\ \A c \in Conversations : thread[c] = <<>>
        /\ thread \in [Conversations -> Seq(Comments)]
    BY DEF Init
  <1>9. TypeOK
    <2>1. http \in [Requests -> Known]
      BY <1>1 DEF Init
    <2>2. version \in DOMAIN PolicyFiles /\ current \in {0} \cup DOMAIN PolicyFiles
      BY <1>4, ConversationsConstants
    <2>3. pulls \in Seq(refs)
      BY <1>6
    <2> QED
      BY <1>3, <1>4, <1>6, <1>7, <1>8, <2>1, <2>2, <2>3 DEF TypeOK, BenchInv
  <1>10. NamesInOrder
    <2>1. Claimants = {}
      BY <1>3 DEF Claimants
    <2>2. 2 \in 2 .. 2 + Cardinality(Claimants)
      BY <2>1, FS_EmptySet
    <2>3. refs = 1 .. 2
      BY <1>6
    <2> QED
      BY <1>3, <2>2, <2>3 DEF NamesInOrder
  <1>11. NamesAreOwned
    BY <1>3, <1>6 DEF NamesAreOwned
  <1>12. RequestsFit
    BY <1>3 DEF RequestsFit, Opening, Entered
  <1>13. VersionsFit
    BY <1>3, <1>4 DEF VersionsFit, Unfinished, Opening
  <1>14. StashFits /\ StashLivesAsLongAsItsRequest
    BY <1>3, <1>4 DEF StashFits, StashLivesAsLongAsItsRequest, Unfinished, Opening
  <1>15. RefusalsFit /\ OrderIsRequests
    BY <1>3, <1>4 DEF RefusalsFit, OrderIsRequests, Entered
  <1>16. CommentsFit
    BY <1>8 DEF CommentsFit
  <1>17. EndingsFit
    BY <1>3, <1>4 DEF EndingsFit
  <1> QED
    BY <1>7, <1>9, <1>10, <1>11, <1>12, <1>13, <1>14, <1>15, <1>16, <1>17 DEF IInv

LEMMA IInvIsKept ==
  ASSUME IInv, [Next]_vars
  PROVE  IInv'
  <1>1. TypeOK' /\ BenchInv'
    BY TypesAreKept, BenchIsKept
  <1>2. NamesInOrder' /\ NamesAreOwned' /\ RequestsFit' /\ VersionsFit'
    BY NamesAreInOrder, NamesStayOwned, RequestsStayFit, VersionsStayFit
  <1>3. StashFits' /\ StashLivesAsLongAsItsRequest'
    BY StashStaysFit
  <1>4. RefusalsFit' /\ OrderIsRequests' /\ CommentsFit' /\ EndingsFit'
    BY RefusalsStayFit, OrderStaysRequests, CommentsStayFit, EndingsStayFit
  <1> QED
    BY <1>1, <1>2, <1>3, <1>4 DEF IInv

LEMMA Inductive ==
  Spec => []IInv
  BY InitFits, IInvIsKept, PTL DEF Spec

-------------------------------------------------------------------------------
(* The theorems *)

\* The state keeps its shape: what the host holds, where each request is, and that
\* the request at work is the one the bench has an order of (run.ts beginRequest).
THEOREM TypeCorrect == Spec => []TypeOK
  <1>1. IInv => TypeOK
    BY DEF IInv
  <1> QED
    BY <1>1, Inductive, PTL

\* Conversations share no branch, no comment and no worker, whatever names were
\* predicted for them at the same time (conversations.ts claimConversationBranch;
\* start-request.ts, which takes the branch from the pull request's head).
THEOREM ApartForGood == Spec => []ConversationsAreApart
  <1>1. IInv => ConversationsAreApart
    BY DEF IInv, NamesAreOwned, CommentsFit, OrderIsRequests, ConversationsAreApart
  <1> QED
    BY <1>1, Inductive, PTL

\* Attachments are removed by whoever ends a request, neither before the work is
\* done with them nor never (attachments.ts discardAttachments and its callers),
\* but for the two endings of the form itself that the property names.
THEOREM StashIsCleared == Spec => []StashLivesAsLongAsItsRequest
  <1>1. ASSUME IInv
        PROVE  StashLivesAsLongAsItsRequest
    BY <1>1 DEF IInv
  <1> QED
    BY <1>1, Inductive, PTL

\* Who was promised a change finds its one ending in the conversation, after the
\* words that asked for it, and no mail is sent of an ending that is not marked
\* there (start-request.ts startDetached; run.ts finish; email.ts notifyOnce).
THEOREM EveryTurnEnds == Spec => []EveryTurnIsAnswered
  <1> DEFINE Ending(r, j) ==
          /\ j \in DOMAIN thread[http[r].conversation]
          /\ thread[http[r].conversation][j].request = r
          /\ thread[http[r].conversation][j].kind = "record"
  <1>1. ASSUME IInv, NEW r \in Requests, IsEnded(r, thread[http[r].conversation])
        PROVE  LET comments == thread[http[r].conversation]
                   words == {i \in DOMAIN comments :
                                comments[i].request = r /\ comments[i].kind = "words"}
                   endings == {i \in DOMAIN comments :
                                comments[i].request = r /\ comments[i].kind = "record"}
               IN  /\ Cardinality(endings) = 1
                   /\ \A i \in words, j \in endings : i < j
                   /\ \A j \in endings :
                        \/ comments[j].readable
                        \/ comments[j].outcome = "blocked" /\ comments[j].path = "none"
    <2> DEFINE comments == thread[http[r].conversation]
               words == {i \in DOMAIN comments :
                            comments[i].request = r /\ comments[i].kind = "words"}
               endings == {i \in DOMAIN comments :
                            comments[i].request = r /\ comments[i].kind = "record"}
    <2>1. PICK j \in DOMAIN comments :
              /\ EndsIt(comments[j], r) /\ ReadsBack(comments[j])
              /\ \A i \in DOMAIN comments : comments[i].request = r =>
                    i = j \/ (i < j /\ comments[i].kind = "words")
      BY <1>1 DEF IsEnded
    <2>2. endings = {j}
      BY <2>1 DEF EndsIt
    <2>3. Cardinality(endings) = 1
      BY <2>2, FS_Singleton
    <2>4. \A i \in words : i < j
      BY <2>1 DEF EndsIt
    <2> HIDE DEF comments, words, endings
    <2>5. \/ comments[j].readable
          \/ comments[j].outcome = "blocked" /\ comments[j].path = "none"
      BY <2>1 DEF ReadsBack
    <2>6. /\ Cardinality(endings) = 1
          /\ \A i \in words, l \in endings : i < l
          /\ \A l \in endings :
                \/ comments[l].readable
                \/ comments[l].outcome = "blocked" /\ comments[l].path = "none"
      BY <2>2, <2>3, <2>4, <2>5
    <2> QED
      BY <2>6 DEF comments, words, endings
  <1>2. ASSUME IInv, NEW r \in Requests, r \in mailed
        PROVE  \E j \in DOMAIN thread[http[r].conversation] :
                  /\ thread[http[r].conversation][j].request = r
                  /\ thread[http[r].conversation][j].kind = "record"
                  /\ thread[http[r].conversation][j].notified
    BY <1>2 DEF IInv, EndingsFit, IsMarked, EndsIt
  <1>3. ASSUME IInv, NEW r \in Requests, http[r].pc = "over",
               http[r].answer \in {201, 202}, ~http[r].silent
        PROVE  IsEnded(r, thread[http[r].conversation])
    <2>1. EndingsFit
      BY <1>3, Zenon DEF IInv
    <2> QED
      BY <1>3, <2>1 DEF EndingsFit
  <1>4. IInv => EveryTurnIsAnswered
    BY <1>1, <1>2, <1>3 DEF EveryTurnIsAnswered
  <1> QED
    BY <1>4, Inductive, PTL

\* The prompt names every path refused in this conversation that its first page of
\* comments shows, and none of another's (conversations.ts collectRefusedPaths).
THEOREM AgentIsTold == Spec => []AgentIsToldTheRefusals
  <1>1. ASSUME IInv, prompt # None
        PROVE  /\ order # None /\ prompt.told.refused = order.refused
               /\ Tells(order.refused, thread[order.conversation], http[order.request].postedTo)
    BY <1>1 DEF IInv, BenchInv, PromptIsOfOrder, OrderIsRequests
  <1>2. IInv => AgentIsToldTheRefusals
    BY <1>1 DEF AgentIsToldTheRefusals, Tells, RefusedBy, Refuses
  <1> QED
    BY <1>2, Inductive, PTL

\* However the reads of several requests overlap in the configuration cache, none
\* starts under a policy older than its form unless its own read failed (cache.ts
\* ensureFresh; start-request.ts).
THEOREM PolicyIsFresh == Spec => PolicyIsOfItsDay
  <1> DEFINE Governs ==
          order = None /\ order' # None =>
              LET asked == http[order'.request]
              IN  \/ \E v \in asked.postedAt .. version :
                          order'.policy = ParsePolicy(PolicyFiles[v])
                  \/ asked.stale /\ order'.policy \in
                         {ParsePolicy(PolicyFiles[v]) : v \in 1 .. version}
  <1>1. ASSUME IInv, [Next]_vars
        PROVE  Governs
    <2>1. SUFFICES ASSUME order = None, order' # None
                   PROVE  Governs
      OBVIOUS
    <2>2. PICK r \in Requests : Acquire(r)
      BY <1>1, <2>1, WhoChanges, OtherFrames
    <2>3. http[r].pc = "lock" /\ order' = OrderOf(r)
      BY <1>1, <2>2, AcquireDoes
    <2>4. /\ order'.request = r
          /\ order'.policy = ParsePolicy(PolicyFiles[http[r].settings])
      BY <1>1, <2>3, OrdersAreTyped
    <2>5. /\ http[r].settings \in 1 .. version
          /\ http[r].settings >= http[r].postedAt \/ http[r].stale
      BY <1>1, <2>3 DEF IInv, VersionsFit
    <2>6. http[r].postedAt \in Nat /\ version \in Nat
      BY <1>1, Typed DEF Known
    <2>7. CASE http[r].settings >= http[r].postedAt
      <3>1. http[r].settings \in http[r].postedAt .. version
        BY <2>5, <2>6, <2>7
      <3> QED
        BY <2>4, <3>1
    <2>8. CASE http[r].stale
      BY <2>4, <2>5, <2>8
    <2> QED
      BY <2>5, <2>7, <2>8
  <1>2. IInv /\ [Next]_vars => [Governs]_vars
    BY <1>1
  <1> QED
    BY <1>2, Inductive, PTL DEF Spec, PolicyIsOfItsDay

\* A push changes the branch of the request at work alone, by what its policy
\* permits, and work kept for later is kept for its conversation and permitted too,
\* unless the agent's container outlived its removal (run.ts judge, publishBranch,
\* keepInterruptedWork; policy/gate.ts).
THEOREM OnlyTheJudgedLeave == Spec => OnlyTheJudgedLeaves
  <1>1. IInv /\ [Next]_vars => [JudgedLeaves]_benchVars
    BY BenchIsKept
  <1> QED
    BY <1>1, Inductive, PTL DEF Spec, OnlyTheJudgedLeaves
=================================================================================
