---------------------------- MODULE Progress_proofs ----------------------------
(***************************************************************************)
(* Proofs about Progress, for any requests of a conversation, histories    *)
(* and pages of any size, and any number of dropped connections: a page    *)
(* that has read everything says what the server says.                     *)
(***************************************************************************)
EXTENDS Progress, FiniteSetTheorems, SequenceTheorems, WellFoundedInduction, TLAPS

-------------------------------------------------------------------------------
(* What the variables are *)

Trails    == Seq(Stages)
Told      == Terminal \cup {"none"}
Records   == [about : Requests, outcome : Terminal, stages : Trails]
BusEvents == ({"stage"} \X Stages) \cup {<<"output">>} \cup ({"done"} \X Terminal)
Events    == BusEvents \cup ({"request"} \X Requests \X BOOLEAN) \cup ({"sync"} \X BOOLEAN)
Pages     == [request : Requests \cup {None}, live : BOOLEAN, trail : Trails,
              outcome : Told, inFlight : BOOLEAN, synced : BOOLEAN]
Readers   == [page : Pages, pending : BOOLEAN, due : BOOLEAN]
Shown     == [state : {"not_previewed", "ready", "published", "undone"}, busy : BOOLEAN]

RequestTypes ==
    /\ passed \in [Requests -> Trails]
    /\ begun \subseteq Requests /\ IsFiniteSet(begun)
    /\ ended \subseteq begun /\ lost \subseteq begun /\ released \subseteq begun
BusTypes ==
    /\ active \in Requests \cup {None}
    /\ history \in [Requests -> Seq(BusEvents)]
    /\ thread \in Seq(Comments) /\ merged \in BOOLEAN
RouteTypes ==
    /\ link \in {"unopened", "down", "replaying", "read", "inspecting", "open"}
    /\ snapshot \in Seq(Records) /\ queued \in Seq(Requests)
    /\ followed \in Requests \cup {None}
    /\ wire \in Seq(Events) /\ drops \in 0..MaxDrops
BrowserTypes ==
    /\ page \in Pages /\ shown \in Shown
    /\ pending \in BOOLEAN /\ asking \in BOOLEAN /\ due \in BOOLEAN
    /\ post \in {"idle", "sent", "accepted", "refused"}
TypesOK == RequestTypes /\ BusTypes /\ RouteTypes /\ BrowserTypes

-------------------------------------------------------------------------------
(* The server *)

IsPublication(r) == KindOf[r] # "change"
Recorded(r) == \E i \in DOMAIN thread : thread[i].about = r /\ IsRecord(thread[i])
RecordedAs(r, outcome) ==
    \E i \in DOMAIN thread : thread[i].about = r /\ thread[i].outcome = outcome

\* Where each request stands, and what it leaves: who has ended is at an ending, and if it
\* is a change that ending is recorded in the thread.
RequestFits(r) ==
    /\ r \notin begun => passed[r] = <<>> /\ history[r] = <<>>
    /\ IsPublication(r) /\ r \in begun =>
          At(r) \in {"gating", "pushing", "building", "succeeded", "failed"}
    /\ ~IsPublication(r) /\ Recorded(r) => r \in lost \/ (Finished(r) /\ RecordedAs(r, At(r)))
    /\ r \in ended => Finished(r) /\ (~IsPublication(r) => RecordedAs(r, At(r)))
RequestsFit == \A r \in Requests : RequestFits(r)

\* A publication that is told of in the conversation has merged.
PublicationsMerged == \A i \in DOMAIN thread : IsPublication(thread[i].about) => merged

\* What the route has read are records of the thread, and say what those say.
SnapshotFits == \A i \in DOMAIN snapshot : RecordedAs(snapshot[i].about, snapshot[i].outcome)

-------------------------------------------------------------------------------
(* The route *)

\* The newest request announced to this connection is the active one, or it has ended.
Newest(r) == IF active = None THEN r \in ended ELSE active = r

LinkFits ==
    /\ active # None => active \in begun \ ended
    /\ queued # <<>> => Newest(Last(queued))
    /\ link \in {"unopened", "down", "open"} => queued = <<>>
    /\ link # "open" => followed = None
    /\ link \notin {"inspecting", "open"} => wire = <<>>
    /\ link = "inspecting" /\ queued = <<>> => active = None
    /\ link = "open" => IF followed = None THEN active = None ELSE Newest(followed)

-------------------------------------------------------------------------------
(* The page, as it is once it has read what is on the wire *)

Ahead == ReadAll(Now, wire)

\* It shows r, these stages of it, and how it ended if it did.
Tells(state, r, trail, outcome) ==
    /\ state.request = r /\ state.live
    /\ state.trail = trail /\ state.outcome = outcome
    /\ state.inFlight <=> outcome = "none"

\* It shows r as r is.
Outcome(r) == IF r \in ended THEN At(r) ELSE "none"
Shows(state, r) == Tells(state, r, passed[r], Outcome(r))

\* A page that turns to r.
Turned(r, synced, wait, refresh) ==
    [page |-> [request |-> r, live |-> TRUE, trail |-> <<>>, outcome |-> "none",
               inFlight |-> TRUE, synced |-> synced],
     pending |-> wait, due |-> refresh]

\* Whoever turns to r and reads its history knows r as it is, and reads the conversation
\* again if r has ended.
HistoryTells(r) ==
    \A synced, wait, refresh \in BOOLEAN :
        LET after == ReadAll(Turned(r, synced, wait, refresh), history[r])
        IN  Shows(after.page, r) /\ (r \in ended => after.due)

Announced == ({active, followed} \cup ToSet(queued)) \ {None}
HistoriesTell == \A r \in Announced : r \in begun /\ HistoryTells(r)

\* What it follows is shown, and nothing is in flight when it follows nothing.
FollowsWell ==
    link = "open" =>
        /\ followed = None => ~Ahead.page.inFlight
        /\ \A r \in Requests : followed = r => Shows(Ahead.page, r)

\* An ending it shows is the ending of a request, and the recorded one if that is a change.
EndingIsTold(state) ==
    /\ state.live => state.request # None
    /\ state.outcome # "none" =>
          /\ state.request # None
          /\ ~IsPublication(state.request) => RecordedAs(state.request, state.outcome)
EndingsAreTold == EndingIsTold(page) /\ EndingIsTold(Ahead.page)

\* Of the request it follows to its end it offers what the server would, or is about to
\* read the conversation again.
OfferFits ==
    /\ link = "open" /\ followed # None /\ followed \in ended
    /\ Last(thread).about = followed /\ MergeIsRecorded
    => Ahead.due \/ shown.state = PublishState(RecordsIn(thread), merged)

IInv ==
    /\ TypesOK /\ RequestsFit /\ PublicationsMerged /\ SnapshotFits
    /\ LinkFits /\ HistoriesTell /\ FollowsWell /\ EndingsAreTold /\ OfferFits

-------------------------------------------------------------------------------
(* Folds, and induction over the places of a sequence *)

\* What holds at 0 and passes from each place to the next holds up to n.
LEMMA StepByStep ==
  ASSUME NEW n \in Nat, NEW T, 0 \in T, \A i \in 1..n : i - 1 \in T => i \in T
  PROVE  \A i \in 0..n : i \in T
  <1> DEFINE R == OpToRel(<, Nat)
             F == {i \in 0..n : i \notin T}
  <1>1. IsWellFoundedOn(R, Nat)
    BY NatLessThanWellFounded
  <1>2. \A i, j \in Nat : <<i, j>> \in R <=> i < j
    BY DEF OpToRel
  <1> HIDE DEF R
  <1>3. SUFFICES ASSUME F # {} PROVE FALSE
    OBVIOUS
  <1>4. F \in SUBSET Nat
    OBVIOUS
  <1>5. \E i \in F : \A j \in F : ~ (<<j, i>> \in R)
    BY <1>1, <1>3, <1>4, WFMin
  <1>6. PICK i \in F : \A j \in F : ~ (<<j, i>> \in R)
    BY <1>5
  <1>7. i \in 1..n /\ i - 1 \in 0..n
    BY <1>6
  <1>8. i - 1 \in F
    BY <1>6, <1>7
  <1>9. i \in Nat /\ i - 1 \in Nat /\ i - 1 < i
    BY <1>7
  <1> HIDE DEF F
  <1>10. <<i - 1, i>> \in R
    BY <1>2, <1>9
  <1> QED
    BY <1>6, <1>8, <1>10

\* The states that steps lead through, one after the other.
IsRun(run, S, base, n, step) ==
    /\ n \in Nat /\ run \in [0..n -> S] /\ run[0] = base
    /\ \A i \in 1..n : run[i] = step[i][run[i - 1]]

\* However a list of steps is chosen, there is a sequence of states that takes them.
LEMMA RunExists ==
  ASSUME NEW S, NEW base \in S, NEW n \in Nat, NEW step \in [1..n -> [S -> S]]
  PROVE  \E run : IsRun(run, S, base, n, step)
  <1> DEFINE T == {m \in 0..n : \E run : IsRun(run, S, base, m, step)}
  <1>1. 0 \in T
    <2> DEFINE run == [i \in 0..0 |-> base]
    <2>1. IsRun(run, S, base, 0, step)
      BY DEF IsRun
    <2> QED
      BY <2>1
  <1>2. ASSUME NEW m \in 1..n, m - 1 \in T PROVE m \in T
    <2>1. PICK run : IsRun(run, S, base, m - 1, step)
      BY <1>2
    <2> DEFINE longer == [i \in 0..m |-> IF i = m THEN step[m][run[m - 1]] ELSE run[i]]
    <2>2. step[m][run[m - 1]] \in S
      <3>1. run[m - 1] \in S /\ step[m] \in [S -> S]
        BY <2>1 DEF IsRun
      <3> QED
        BY <3>1
    <2>3. longer \in [0..m -> S]
      BY <2>1, <2>2 DEF IsRun
    <2>4. longer[0] = base
      BY <2>1 DEF IsRun
    <2>5. ASSUME NEW i \in 1..m PROVE longer[i] = step[i][longer[i - 1]]
      <3>1. CASE i = m
        BY <3>1
      <3>2. CASE i # m
        BY <2>1, <3>2 DEF IsRun
      <3> QED
        BY <3>1, <3>2
    <2>6. IsRun(longer, S, base, m, step)
      <3> HIDE DEF longer
      <3> QED
        BY <2>3, <2>4, <2>5 DEF IsRun
    <2> QED
      BY <2>3, <2>6
  <1> HIDE DEF T
  <1>3. \A i \in 0..n : i \in T
    BY <1>1, <1>2, StepByStep
  <1>4. n \in T
    BY <1>3
  <1> QED
    BY <1>4 DEF T

\* There is one: nothing else takes these steps from S to S.
TakesSteps(f, S, base, n, step) ==
    f[0] = base /\ \A i \in 1..n : f[i - 1] \in S => f[i] = step[i][f[i - 1]]

\* Such a sequence of states is the only one.
LEMMA RunIsUnique ==
  ASSUME NEW S, NEW base, NEW n, NEW step, NEW run, NEW other,
         IsRun(run, S, base, n, step), TakesSteps(other, S, base, n, step)
  PROVE  \A i \in 0..n : other[i] = run[i]
  <1> DEFINE T == {i \in 0..n : other[i] = run[i]}
  <1>0. n \in Nat
    BY DEF IsRun
  <1>1. 0 \in T
    BY DEF IsRun, TakesSteps
  <1>2. ASSUME NEW i \in 1..n, i - 1 \in T PROVE i \in T
    BY <1>2 DEF IsRun, TakesSteps
  <1>3. \A i \in 0..n : i \in T
    <2> HIDE DEF T
    <2> QED
      BY <1>0, <1>1, <1>2, StepByStep
  <1> QED
    BY <1>3

\* Reading the events of s one after the other, and never leaving X.
StaysIn(X, E) == \A x \in X, e \in E : Read(x, e) \in X
IsReading(run, X, base, s) ==
    /\ run \in [0..Len(s) -> X] /\ run[0] = base
    /\ \A i \in 1..Len(s) : run[i] = Read(run[i - 1], s[i])
    /\ ReadAll(base, s) = run[Len(s)]

\* Reading, as a fold over the events, goes through such a run.
LEMMA ReadRuns ==
  ASSUME NEW X, NEW E, StaysIn(X, E), NEW base \in X, NEW s \in Seq(E)
  PROVE  \E run : IsReading(run, X, base, s)
  <1> DEFINE n == Len(s)
             step == [i \in 1..n |-> [x \in X |-> Read(x, s[i])]]
             Eq(f) == f = [i \in 0..n |-> IF i = 0 THEN base
                             ELSE CHOOSE y \in {Read(x, s[i]) : x \in {f[i - 1]}} : TRUE]
             upTo == CHOOSE f : Eq(f)
  <1>1. n \in Nat /\ \A i \in 1..n : s[i] \in E
    OBVIOUS
  <1>2. step \in [1..n -> [X -> X]]
    BY <1>1 DEF StaysIn
  <1>3. PICK run : IsRun(run, X, base, n, step)
    <2> HIDE DEF step, n
    <2> QED
      BY <1>1, <1>2, RunExists
  <1>4. \A i \in 1..n : run[i - 1] \in X /\ run[i] = Read(run[i - 1], s[i])
    <2> SUFFICES ASSUME NEW i \in 1..n PROVE run[i - 1] \in X /\ run[i] = Read(run[i - 1], s[i])
      OBVIOUS
    <2>1. run[i - 1] \in X
      BY <1>3 DEF IsRun
    <2> QED
      BY <1>3, <2>1 DEF IsRun
  <1>5. \A f : \A i \in 1..n : (CHOOSE y \in {Read(x, s[i]) : x \in {f[i - 1]}} : TRUE) = Read(f[i - 1], s[i])
    OBVIOUS
  <1>6. Eq(run)
    BY <1>3, <1>4, <1>5, <1>1 DEF IsRun
  <1>7. Eq(upTo)
    BY <1>6
  <1>8. upTo[0] = base /\ \A i \in 1..n : upTo[i] = Read(upTo[i - 1], s[i])
    <2> HIDE DEF upTo
    <2> QED
      BY <1>1, <1>5, <1>7
  <1>9. \A i \in 1..n : upTo[i - 1] \in X => upTo[i] = step[i][upTo[i - 1]]
    <2> HIDE DEF upTo
    <2> QED
      BY <1>8
  <1>10. upTo[n] = run[n]
    <2> HIDE DEF upTo, step, n
    <2>1. \A i \in 0..n : upTo[i] = run[i]
      <3>1. TakesSteps(upTo, X, base, n, step)
        BY <1>8, <1>9 DEF TakesSteps
      <3> QED
        BY <1>3, <3>1, RunIsUnique
    <2> QED
      BY <1>1, <2>1
  <1>11. ReadAll(base, s) = upTo[n]
    BY DEF ReadAll, Folded
  <1> QED
    BY <1>3, <1>4, <1>10, <1>11 DEF IsRun, IsReading

-------------------------------------------------------------------------------
(* What an event does to the page *)

\* The trail of a page, extended by a stage, is one.
LEMMA ExtendedFits ==
  ASSUME NEW trail \in Trails, NEW s \in Stages
  PROVE  Extended(trail, s) \in Trails
  <1>1. Append(trail, s) \in Trails
    BY AppendProperties DEF Trails
  <1> QED
    BY <1>1 DEF Extended

\* What comes down the wire is one of five.
LEMMA EventCases ==
  ASSUME NEW e \in Events
  PROVE  \/ e[1] = "stage" /\ e[2] \in Stages
         \/ e = <<"output">> /\ e[1] = "output"
         \/ e[1] = "done" /\ e[2] \in Terminal
         \/ e[1] = "request" /\ e[2] \in Requests /\ e[3] \in BOOLEAN
         \/ e[1] = "sync" /\ e[2] \in BOOLEAN
  BY DEF Events, BusEvents

\* The reducer makes pages of pages.
LEMMA ApplyFits ==
  ASSUME NEW state \in Pages, NEW e \in Events
  PROVE  Apply(state, e) \in Pages
  <1>1. CASE e[1] = "stage" /\ e[2] \in Stages
    <2>1. Extended(state.trail, e[2]) \in Trails
      BY <1>1, ExtendedFits DEF Pages
    <2> QED
      BY <1>1, <2>1 DEF Apply, ApplyStage, Pages
  <1>2. CASE e[1] = "output"
    BY <1>2 DEF Apply
  <1>3. CASE e[1] = "done" /\ e[2] \in Terminal
    <2>0. e[2] \in Stages
      BY <1>3 DEF Stages
    <2>1. Extended(state.trail, e[2]) \in Trails
      BY <2>0, ExtendedFits DEF Pages
    <2> QED
      BY <1>3, <2>1 DEF Apply, ApplyDone, Pages, Told
  <1>4. CASE e[1] = "request" /\ e[2] \in Requests /\ e[3] \in BOOLEAN
    <2>1. <<>> \in Trails
      BY EmptySeq DEF Trails
    <2> QED
      BY <1>4, <2>1 DEF Apply, ApplyRequest, Pages, Told
  <1>5. CASE e[1] = "sync" /\ e[2] \in BOOLEAN
    BY <1>5 DEF Apply, ApplySync, Pages
  <1> QED
    BY <1>1, <1>2, <1>3, <1>4, <1>5, EventCases

\* Effects, field by field.
LEMMA EffectsFit ==
  ASSUME NEW x \in Readers, NEW state \in Pages
  PROVE  /\ Effects(x, state) \in Readers
         /\ Effects(x, state).page = state
         /\ x.due => Effects(x, state).due
         /\ state.outcome = "none" => Effects(x, state).due = x.due
         /\ state.live /\ state.request # None /\ state.outcome # "none"
              /\ state.outcome # x.page.outcome => Effects(x, state).due
         /\ \A y \in Readers : y.page = x.page /\ (x.due => y.due) =>
              (Effects(x, state).due => Effects(y, state).due)
  <1> DEFINE Ends(z) == /\ LiveRequest(state) # None
                        /\ state.outcome # "none"
                        /\ \/ LiveRequest(state) # LiveRequest(z.page)
                           \/ state.outcome # z.page.outcome
             waits(z) == z.pending /\ LiveRequest(state) \in {None, LiveRequest(z.page)}
  <1>1. \A z \in Readers :
          Effects(z, state) = [page |-> state, pending |-> waits(z), due |-> z.due \/ Ends(z)]
    BY DEF Effects
  <1>2. \A z \in Readers : waits(z) \in BOOLEAN /\ (z.due \/ Ends(z)) \in BOOLEAN
    OBVIOUS
  <1>3. \A z \in Readers : Effects(z, state) \in Readers
    <2> HIDE DEF waits, Ends
    <2> SUFFICES ASSUME NEW z \in Readers PROVE Effects(z, state) \in Readers
      OBVIOUS
    <2>1. \A p, d \in BOOLEAN : [page |-> state, pending |-> p, due |-> d] \in Readers
      BY DEF Readers
    <2> QED
      BY <1>1, <1>2, <2>1
  <1>4. \A z \in Readers : Effects(z, state).page = state /\ Effects(z, state).due = (z.due \/ Ends(z))
    <2> HIDE DEF waits, Ends
    <2> QED
      BY <1>1
  <1>5. x.due \in BOOLEAN
    BY DEF Readers
  <1>6. state.live /\ state.request # None => LiveRequest(state) # None
    BY DEF LiveRequest
  <1>7. \A y \in Readers : y.page = x.page => (Ends(x) => Ends(y))
    OBVIOUS
  <1>8. /\ x.due => Effects(x, state).due
        /\ \A y \in Readers : y.page = x.page /\ (x.due => y.due) =>
              (Effects(x, state).due => Effects(y, state).due)
    <2> HIDE DEF Ends
    <2> QED
      BY <1>4, <1>7
  <1>9. state.outcome = "none" => Effects(x, state).due = x.due
    BY <1>4, <1>5
  <1>10. state.live /\ state.request # None /\ state.outcome # "none"
              /\ state.outcome # x.page.outcome => Effects(x, state).due
    BY <1>4, <1>6
  <1> QED
    BY <1>3, <1>4, <1>8, <1>9, <1>10

\* What the component does with an event: its page is the reducer's, and a refresh that
\* is due stays due.
LEMMA ReadFits ==
  ASSUME NEW x \in Readers, NEW e \in Events
  PROVE  /\ Read(x, e) \in Readers
         /\ Read(x, e).page = Apply(x.page, e)
         /\ x.due => Read(x, e).due
  <1>1. x.page \in Pages
    BY DEF Readers
  <1>2. Apply(x.page, e) \in Pages
    BY <1>1, ApplyFits
  <1> QED
    BY <1>2, EffectsFit DEF Read

\* An output changes nothing.
LEMMA ReadOutput ==
  ASSUME NEW x \in Readers
  PROVE  Read(x, <<"output">>) = x
  <1>1. Apply(x.page, <<"output">>) = x.page
    BY DEF Apply
  <1>2. Effects(x, x.page) = x
    <2>1. LiveRequest(x.page) \in {None, LiveRequest(x.page)} /\ x.due \in BOOLEAN /\ x.pending \in BOOLEAN
      BY DEF Readers
    <2>2. x = [page |-> x.page, pending |-> x.pending, due |-> x.due]
      BY DEF Readers
    <2> QED
      BY <2>1, <2>2 DEF Effects
  <1> QED
    BY <1>1, <1>2 DEF Read

\* A page that is told of a request turns to it.
LEMMA ReadRequest ==
  ASSUME NEW x \in Readers, NEW r \in Requests
  PROVE  \E wait \in BOOLEAN : Read(x, <<"request", r, TRUE>>) = Turned(r, x.page.synced, wait, x.due)
  <1> DEFINE state == Apply(x.page, <<"request", r, TRUE>>)
  <1>1. x.page \in Pages
    BY DEF Readers
  <1>2. state = [request |-> r, live |-> TRUE, trail |-> <<>>, outcome |-> "none",
                 inFlight |-> TRUE, synced |-> x.page.synced]
    BY <1>1 DEF Apply, ApplyRequest, Pages
  <1>3. state \in Pages
    <2>1. <<>> \in Trails
      BY EmptySeq DEF Trails
    <2>2. x.page.synced \in BOOLEAN
      BY <1>1 DEF Pages
    <2>3. \A synced \in BOOLEAN :
            [request |-> r, live |-> TRUE, trail |-> <<>>, outcome |-> "none",
             inFlight |-> TRUE, synced |-> synced] \in Pages
      BY <2>1 DEF Pages, Told
    <2> QED
      BY <1>2, <2>2, <2>3
  <1> HIDE DEF state
  <1>4. Effects(x, state) \in Readers /\ Effects(x, state).page = state /\ Effects(x, state).due = x.due
    BY <1>2, <1>3, EffectsFit
  <1>5. Effects(x, state) = [page |-> state, pending |-> Effects(x, state).pending, due |-> x.due]
    BY <1>4 DEF Readers
  <1>6. Effects(x, state).pending \in BOOLEAN
    BY <1>4 DEF Readers
  <1>7. Effects(x, state) = Turned(r, x.page.synced, Effects(x, state).pending, x.due)
    BY <1>2, <1>5 DEF Turned
  <1> QED
    BY <1>6, <1>7 DEF Read, state

\* The summary after a replay: what is in flight, unless an ending was read already.
LEMMA ReadSync ==
  ASSUME NEW x \in Readers, NEW b \in BOOLEAN
  PROVE  /\ Read(x, <<"sync", b>>) \in Readers
         /\ Read(x, <<"sync", b>>).page = [x.page EXCEPT !.synced = TRUE,
                                           !.inFlight = b /\ x.page.outcome = "none"]
         /\ x.due => Read(x, <<"sync", b>>).due
  <1>1. <<"sync", b>> \in Events
    BY DEF Events
  <1>2. Apply(x.page, <<"sync", b>>) = [x.page EXCEPT !.synced = TRUE,
                                        !.inFlight = b /\ x.page.outcome = "none"]
    BY DEF Apply, ApplySync
  <1> QED
    BY <1>1, <1>2, ReadFits

\* Readers stay readers.
LEMMA ReadersRead ==
  ASSUME NEW x \in Readers, NEW s \in Seq(Events)
  PROVE  \E run : IsReading(run, Readers, x, s)
  <1>1. StaysIn(Readers, Events)
    BY ReadFits DEF StaysIn
  <1> QED
    BY <1>1, ReadRuns

\* Readers stay readers, as a fact about the fold.
LEMMA ReadStays ==
  ASSUME NEW x \in Readers, NEW s \in Seq(Events)
  PROVE  ReadAll(x, s) \in Readers
  <1>1. PICK run : IsReading(run, Readers, x, s)
    BY ReadersRead
  <1>2. Len(s) \in 0..Len(s)
    OBVIOUS
  <1> QED
    BY <1>1, <1>2 DEF IsReading

\* Parts of sequences are sequences, and are joined in any order.
LEMMA PartsOfSeq ==
  ASSUME NEW S, NEW s \in Seq(S), NEW k \in 1..Len(s)
  PROVE  SubSeq(s, 1, k - 1) \in Seq(S) /\ SubSeq(s, k + 1, Len(s)) \in Seq(S)
  <1>1. SubSeq(s, 1, k - 1) \in Seq(S)
    OBVIOUS
  <1>2. SubSeq(s, k + 1, Len(s)) \in Seq(S)
    OBVIOUS
  <1> QED
    BY <1>1, <1>2

LEMMA JoinsAnyHow ==
  ASSUME NEW a \in Seq(Events), NEW b \in Seq(Events), NEW c \in Seq(Events)
  PROVE  (a \o b) \o c = a \o (b \o c)
  BY ConcatAssociative

\* Nothing to read changes nothing.
LEMMA ReadNone ==
  ASSUME NEW x \in Readers
  PROVE  ReadAll(x, <<>>) = x
  <1>1. <<>> \in Seq(Events) /\ Len(<<>>) = 0
    BY EmptySeq
  <1>2. PICK run : IsReading(run, Readers, x, <<>>)
    BY <1>1, ReadersRead
  <1> QED
    BY <1>1, <1>2 DEF IsReading

\* Whoever reads two parts one after the other has read the whole.
LEMMA ReadJoins ==
  ASSUME NEW x \in Readers, NEW s \in Seq(Events), NEW t \in Seq(Events)
  PROVE  ReadAll(x, s \o t) = ReadAll(ReadAll(x, s), t)
  <1> DEFINE m == Len(s)
             n == Len(t)
             u == s \o t
             step == [i \in 1..m + n |-> [y \in Readers |-> Read(y, u[i])]]
  <1>2. /\ u \in Seq(Events) /\ Len(u) = m + n /\ m \in Nat /\ n \in Nat
        /\ \A i \in 1..m : u[i] = s[i]
        /\ \A i \in 1..n : u[m + i] = t[i]
    BY ConcatProperties
  <1>a. PICK run1 : IsReading(run1, Readers, x, u)
    BY <1>2, ReadersRead
  <1>b. PICK run2 : IsReading(run2, Readers, x, s)
    BY ReadersRead
  <1>5. ReadAll(x, s) \in Readers
    BY ReadStays
  <1>c. PICK run3 : IsReading(run3, Readers, ReadAll(x, s), t)
    BY <1>5, ReadersRead
  <1>3. /\ run1[0] = x /\ \A i \in 1..m + n : run1[i] = Read(run1[i - 1], u[i])
        /\ ReadAll(x, u) = run1[m + n]
    BY <1>2, <1>a DEF IsReading
  <1>4. /\ run2[0] = x /\ \A i \in 1..m : run2[i] = Read(run2[i - 1], s[i])
        /\ ReadAll(x, s) = run2[m]
    BY <1>b DEF IsReading
  <1>6. /\ run3[0] = run2[m] /\ \A i \in 1..n : run3[i] = Read(run3[i - 1], t[i])
        /\ ReadAll(ReadAll(x, s), t) = run3[n]
    BY <1>4, <1>c DEF IsReading
  <1> HIDE DEF u, m, n
  <1>7. \A i \in 0..m : run1[i] = run2[i]
    <2> DEFINE T == {i \in 0..m : run1[i] = run2[i]}
    <2>1. 0 \in T
      BY <1>2, <1>3, <1>4
    <2>2. ASSUME NEW i \in 1..m, i - 1 \in T PROVE i \in T
      <3>1. i \in 1..m + n /\ u[i] = s[i]
        BY <1>2
      <3> QED
        BY <1>2, <1>3, <1>4, <2>2, <3>1
    <2>3. \A i \in 0..m : i \in T
      <3> HIDE DEF T
      <3> QED
        BY <1>2, <2>1, <2>2, StepByStep
    <2> QED
      BY <2>3
  <1>8. \A i \in 0..n : run1[m + i] = run3[i]
    <2> DEFINE T == {i \in 0..n : run1[m + i] = run3[i]}
    <2>1. 0 \in T
      <3>1. 0 \in 0..n /\ m + 0 = m /\ m \in 0..m
        BY <1>2
      <3> QED
        BY <1>6, <1>7, <3>1
    <2>2. ASSUME NEW i \in 1..n, i - 1 \in T PROVE i \in T
      <3>1. m + i \in 1..m + n /\ u[m + i] = t[i] /\ (m + i) - 1 = m + (i - 1)
        BY <1>2
      <3>2. run1[m + i] = Read(run1[m + (i - 1)], t[i])
        BY <1>3, <3>1
      <3>3. run1[m + (i - 1)] = run3[i - 1]
        BY <2>2
      <3> QED
        BY <1>6, <3>2, <3>3
    <2>3. \A i \in 0..n : i \in T
      <3> HIDE DEF T
      <3> QED
        BY <1>2, <2>1, <2>2, StepByStep
    <2> QED
      BY <2>3
  <1>9. run1[m + n] = run3[n]
    <2>1. n \in 0..n
      BY <1>2
    <2> QED
      BY <1>8, <2>1, Zenon
  <1> QED
    BY <1>3, <1>4, <1>6, <1>9 DEF u

\* One event is read as the reducer reads it.
LEMMA ReadOne ==
  ASSUME NEW x \in Readers, NEW e \in Events
  PROVE  ReadAll(x, <<e>>) = Read(x, e)
  <1>1. <<e>> \in Seq(Events) /\ Len(<<e>>) = 1 /\ <<e>>[1] = e
    OBVIOUS
  <1>2. PICK run : IsReading(run, Readers, x, <<e>>)
    BY <1>1, ReadersRead
  <1>3. run[1] = Read(run[1 - 1], <<e>>[1]) /\ run[0] = x /\ ReadAll(x, <<e>>) = run[1]
    BY <1>1, <1>2 DEF IsReading
  <1> QED
    BY <1>1, <1>3

\* What has been read again later is read in the same way: the page comes from the page
\* before alone, and nothing takes back that the conversation is to be read again.
LEMMA ReadAgrees ==
  ASSUME NEW x \in Readers, NEW y \in Readers, x.page = y.page, x.due => y.due,
         NEW s \in Seq(Events)
  PROVE  /\ ReadAll(x, s).page = ReadAll(y, s).page
         /\ ReadAll(x, s).due => ReadAll(y, s).due
  <1> DEFINE n == Len(s)
  <1>0. n \in Nat /\ \A i \in 1..n : s[i] \in Events
    OBVIOUS
  <1>2. PICK one : IsReading(one, Readers, x, s)
    BY ReadersRead
  <1>3. PICK two : IsReading(two, Readers, y, s)
    BY ReadersRead
  <1> HIDE DEF n
  <1> DEFINE T == {i \in 0..n : one[i].page = two[i].page /\ (one[i].due => two[i].due)}
  <1>4. 0 \in T
    BY <1>0, <1>2, <1>3 DEF IsReading
  <1>5. ASSUME NEW i \in 1..n, i - 1 \in T PROVE i \in T
    <2>1. /\ one[i - 1] \in Readers /\ two[i - 1] \in Readers /\ s[i] \in Events
          /\ one[i - 1].page \in Pages
          /\ one[i - 1].page = two[i - 1].page /\ (one[i - 1].due => two[i - 1].due)
      BY <1>0, <1>2, <1>3, <1>5 DEF Readers, IsReading, n
    <2> DEFINE state == Apply(one[i - 1].page, s[i])
    <2>2. state \in Pages
      BY <2>1, ApplyFits
    <2>3. one[i] = Effects(one[i - 1], state) /\ two[i] = Effects(two[i - 1], state)
      BY <1>2, <1>3, <2>1 DEF Read, IsReading, n
    <2> HIDE DEF state
    <2>4. /\ Effects(one[i - 1], state).page = state
          /\ \A z \in Readers : z.page = one[i - 1].page /\ (one[i - 1].due => z.due) =>
                (Effects(one[i - 1], state).due => Effects(z, state).due)
      BY <2>1, <2>2, EffectsFit
    <2>5. Effects(two[i - 1], state).page = state
      BY <2>1, <2>2, EffectsFit
    <2>6. one[i].due => two[i].due
      BY <2>1, <2>3, <2>4
    <2> QED
      BY <2>3, <2>4, <2>5, <2>6
  <1>6. \A i \in 0..n : i \in T
    <2> HIDE DEF T
    <2> QED
      BY <1>0, <1>4, <1>5, StepByStep
  <1>7. n \in T
    BY <1>0, <1>6
  <1> QED
    BY <1>2, <1>3, <1>7 DEF IsReading, n

-------------------------------------------------------------------------------
(* What a history that loses its oldest outputs still tells *)

\* Numbers that are not none have a least one.
LEMMA HasLeast ==
  ASSUME NEW F \in SUBSET Nat, F # {}
  PROVE  \E i \in F : \A j \in F : i <= j
  <1> DEFINE R == OpToRel(<, Nat)
  <1>1. IsWellFoundedOn(R, Nat)
    BY NatLessThanWellFounded
  <1>2. \A i, j \in Nat : <<i, j>> \in R <=> i < j
    BY DEF OpToRel
  <1> HIDE DEF R
  <1>3. PICK i \in F : \A j \in F : ~ (<<j, i>> \in R)
    BY <1>1, WFMin
  <1>4. ASSUME NEW j \in F PROVE i <= j
    <2>1. i \in Nat /\ j \in Nat /\ ~(j < i)
      BY <1>2, <1>3
    <2> QED
      BY <2>1
  <1> QED
    BY <1>4

\* Somebody may read.
LEMMA SomeReader == \E x : x \in Readers
  <1>1. [request |-> None, live |-> FALSE, trail |-> <<>>, outcome |-> "none",
         inFlight |-> FALSE, synced |-> FALSE] \in Pages
    <2>1. <<>> \in Trails
      BY EmptySeq DEF Trails
    <2> QED
      BY <2>1 DEF Pages, Told
  <1>2. \A p \in Pages : [page |-> p, pending |-> FALSE, due |-> FALSE] \in Readers
    BY DEF Readers
  <1> QED
    BY <1>1, <1>2

\* A history that takes one more event, and drops an output to have room for it, tells
\* a reader what all of them would have told.
LEMMA AppendedReads ==
  ASSUME NEW x \in Readers, NEW h \in Seq(BusEvents), NEW e \in BusEvents
  PROVE  /\ Appended(h, e) \in Seq(BusEvents)
         /\ ReadAll(x, Appended(h, e)) = Read(ReadAll(x, h), e)
  <1> DEFINE all == Append(h, e)
             outputs == {i \in DOMAIN all : IsOutput(all[i])}
  <1>1. BusEvents \subseteq Events /\ Seq(BusEvents) \subseteq Seq(Events)
    BY DEF Events
  <1>2. all \in Seq(BusEvents) /\ all = h \o <<e>> /\ <<e>> \in Seq(Events)
    BY <1>1
  <1>3. ReadAll(x, all) = Read(ReadAll(x, h), e)
    <2>1. h \in Seq(Events) /\ e \in Events
      BY <1>1
    <2>2. ReadAll(x, h) \in Readers
      BY <2>1, ReadStays
    <2>3. ReadAll(x, h \o <<e>>) = ReadAll(ReadAll(x, h), <<e>>)
      BY <1>2, <2>1, ReadJoins
    <2> QED
      BY <1>2, <2>1, <2>2, <2>3, ReadOne
  <1>4. CASE Len(all) <= MaxHistory \/ outputs = {}
    BY <1>2, <1>3, <1>4 DEF Appended
  <1>5. CASE ~(Len(all) <= MaxHistory \/ outputs = {})
    <2> DEFINE k == CHOOSE i \in outputs : \A j \in outputs : i <= j
               before == SubSeq(all, 1, k - 1)
               after == SubSeq(all, k + 1, Len(all))
    <2>1. k \in outputs
      <3>1. outputs \in SUBSET Nat
        BY <1>2
      <3>2. \E i \in outputs : \A j \in outputs : i <= j
        BY <1>5, <3>1, HasLeast
      <3> QED
        BY <3>2
    <2>2. Appended(h, e) = before \o after
      BY <1>5, Zenon DEF Appended, RemoveAt
    <2> HIDE DEF k, before, after
    <2>3. k \in 1..Len(all) /\ all[k] \in BusEvents /\ IsOutput(all[k])
      BY <1>2, <2>1
    <2>4. all[k] = <<"output">>
      BY <2>3, EventCases, <1>1 DEF IsOutput
    <2>5. before \in Seq(BusEvents) /\ after \in Seq(BusEvents)
      <3> HIDE DEF all
      <3>1. all \in Seq(BusEvents) /\ k \in 1..Len(all)
        BY <1>2, <2>3, Zenon
      <3>2. SubSeq(all, 1, k - 1) \in Seq(BusEvents) /\ SubSeq(all, k + 1, Len(all)) \in Seq(BusEvents)
        BY <3>1, PartsOfSeq, Zenon
      <3> QED
        BY <3>2, Zenon DEF before, after
    <2>6. all = (before \o << <<"output">> >>) \o after
      <3> HIDE DEF all
      <3>1. 1 \in 1..Len(all) /\ k \in 1..Len(all) /\ Len(all) \in k..Len(all)
            /\ 1 \in 1..Len(all) + 1 /\ k \in 1 - 1..Len(all)
        BY <1>2, <2>3
      <3>2. SubSeq(all, 1, k) = before \o << all[k] >>
        BY <1>2, <2>3, <3>1, SubSeqRecursiveSecond DEF before
      <3>3. SubSeq(all, 1, k) \o after = SubSeq(all, 1, Len(all))
        BY <1>2, <3>1, ConcatAdjacentSubSeq DEF after
      <3>4. SubSeq(all, 1, Len(all)) = all
        BY <1>2, SubSeqFull
      <3> QED
        BY <2>4, <3>2, <3>3, <3>4, Zenon
    <2>7. <<"output">> \in Events /\ << <<"output">> >> \in Seq(Events)
      BY DEF Events, BusEvents
    <2>8. ReadAll(x, all) = ReadAll(ReadAll(x, before), after)
      <3>1. before \o << <<"output">> >> \in Seq(Events)
        BY <1>1, <2>5, <2>7
      <3>2. ReadAll(x, all) = ReadAll(ReadAll(x, before \o << <<"output">> >>), after)
        <4>1. ReadAll(x, (before \o << <<"output">> >>) \o after)
                = ReadAll(ReadAll(x, before \o << <<"output">> >>), after)
          BY <1>1, <2>5, <3>1, ReadJoins
        <4> QED
          BY <2>6, <4>1
      <3>3. ReadAll(x, before \o << <<"output">> >>) = ReadAll(ReadAll(x, before), << <<"output">> >>)
        BY <1>1, <2>5, <2>7, ReadJoins
      <3>4. ReadAll(x, before) \in Readers
        BY <1>1, <2>5, ReadStays
      <3>5. ReadAll(ReadAll(x, before), << <<"output">> >>) = ReadAll(x, before)
        BY <2>7, <3>4, ReadOne, ReadOutput
      <3> QED
        BY <3>2, <3>3, <3>5
    <2>9. ReadAll(x, before \o after) = ReadAll(x, all)
      BY <1>1, <2>5, <2>8, ReadJoins
    <2>10. before \o after \in Seq(BusEvents)
      BY <2>5
    <2> QED
      BY <1>3, <2>2, <2>9, <2>10
  <1> QED
    BY <1>4, <1>5

\* Keeping the events of s one after the other.
KeepsIn(X, E) == \A x \in X, e \in E : Appended(x, e) \in X
IsKeeping(run, X, base, s) ==
    /\ run \in [0..Len(s) -> X] /\ run[0] = base
    /\ \A i \in 1..Len(s) : run[i] = Appended(run[i - 1], s[i])
    /\ Kept(base, s) = run[Len(s)]

\* Keeping, as a fold over the events, goes through a run.
LEMMA KeptRuns ==
  ASSUME NEW X, NEW E, KeepsIn(X, E), NEW base \in X, NEW s \in Seq(E)
  PROVE  \E run : IsKeeping(run, X, base, s)
  <1> DEFINE n == Len(s)
             step == [i \in 1..n |-> [x \in X |-> Appended(x, s[i])]]
             Eq(f) == f = [i \in 0..n |-> IF i = 0 THEN base
                             ELSE CHOOSE y \in {Appended(x, s[i]) : x \in {f[i - 1]}} : TRUE]
             upTo == CHOOSE f : Eq(f)
  <1>1. n \in Nat /\ \A i \in 1..n : s[i] \in E
    OBVIOUS
  <1>2. step \in [1..n -> [X -> X]]
    BY <1>1 DEF KeepsIn
  <1>3. PICK run : IsRun(run, X, base, n, step)
    <2> HIDE DEF step, n
    <2> QED
      BY <1>1, <1>2, RunExists
  <1>4. \A i \in 1..n : run[i - 1] \in X /\ run[i] = Appended(run[i - 1], s[i])
    <2> SUFFICES ASSUME NEW i \in 1..n PROVE run[i - 1] \in X /\ run[i] = Appended(run[i - 1], s[i])
      OBVIOUS
    <2>1. run[i - 1] \in X
      BY <1>3 DEF IsRun
    <2> QED
      BY <1>3, <2>1 DEF IsRun
  <1>5. \A f : \A i \in 1..n : (CHOOSE y \in {Appended(x, s[i]) : x \in {f[i - 1]}} : TRUE) = Appended(f[i - 1], s[i])
    OBVIOUS
  <1>6. Eq(run)
    BY <1>3, <1>4, <1>5, <1>1 DEF IsRun
  <1>7. Eq(upTo)
    BY <1>6
  <1>8. upTo[0] = base /\ \A i \in 1..n : upTo[i] = Appended(upTo[i - 1], s[i])
    <2> HIDE DEF upTo
    <2> QED
      BY <1>1, <1>5, <1>7
  <1>9. \A i \in 1..n : upTo[i - 1] \in X => upTo[i] = step[i][upTo[i - 1]]
    <2> HIDE DEF upTo
    <2> QED
      BY <1>8
  <1>10. upTo[n] = run[n]
    <2> HIDE DEF upTo, step, n
    <2>1. \A i \in 0..n : upTo[i] = run[i]
      <3>1. TakesSteps(upTo, X, base, n, step)
        BY <1>8, <1>9 DEF TakesSteps
      <3> QED
        BY <1>3, <3>1, RunIsUnique
    <2> QED
      BY <1>1, <2>1
  <1>11. Kept(base, s) = upTo[n]
    BY DEF Kept, Folded
  <1> QED
    BY <1>3, <1>4, <1>10, <1>11 DEF IsRun, IsKeeping


\* Who reads what was kept has read the history and then the events.
LEMMA KeptReads ==
  ASSUME NEW h \in Seq(BusEvents), NEW s \in Seq(BusEvents)
  PROVE  /\ Kept(h, s) \in Seq(BusEvents)
         /\ \A x \in Readers : ReadAll(x, Kept(h, s)) = ReadAll(ReadAll(x, h), s)
  <1> DEFINE n == Len(s)
  <1>0. n \in Nat /\ n \in 0..n /\ \A i \in 1..n : s[i] \in BusEvents
    OBVIOUS
  <1>1. Seq(BusEvents) \subseteq Seq(Events)
    BY DEF Events
  <1>2. PICK kept : IsKeeping(kept, Seq(BusEvents), h, s)
    <2>1. KeepsIn(Seq(BusEvents), BusEvents)
      BY AppendedReads, SomeReader DEF KeepsIn
    <2> QED
      BY <2>1, KeptRuns
  <1>3. Kept(h, s) = kept[n] /\ Kept(h, s) \in Seq(BusEvents)
    BY <1>0, <1>2 DEF IsKeeping
  <1>4. ASSUME NEW x \in Readers PROVE ReadAll(x, Kept(h, s)) = ReadAll(ReadAll(x, h), s)
    <2>1. ReadAll(x, h) \in Readers
      BY <1>1, ReadStays
    <2>2. PICK run : IsReading(run, Readers, ReadAll(x, h), s)
      BY <1>1, <2>1, ReadersRead
    <2> DEFINE T == {i \in 0..n : ReadAll(x, kept[i]) = run[i]}
    <2>3. 0 \in T
      BY <1>0, <1>2, <2>2 DEF IsKeeping, IsReading
    <2>4. ASSUME NEW i \in 1..n, i - 1 \in T PROVE i \in T
      <3>1. /\ kept[i - 1] \in Seq(BusEvents) /\ s[i] \in BusEvents
            /\ kept[i] = Appended(kept[i - 1], s[i])
        BY <1>0, <1>2, <2>4 DEF IsKeeping
      <3>2. ReadAll(x, kept[i]) = Read(ReadAll(x, kept[i - 1]), s[i])
        BY <3>1, AppendedReads
      <3>3. run[i] = Read(run[i - 1], s[i])
        BY <2>2 DEF IsReading
      <3> QED
        BY <2>4, <3>2, <3>3
    <2>5. \A i \in 0..n : i \in T
      <3> HIDE DEF T, n
      <3> QED
        BY <1>0, <2>3, <2>4, StepByStep
    <2>6. n \in T
      BY <1>0, <2>5
    <2> QED
      BY <1>3, <2>2, <2>6 DEF IsReading
  <1> QED
    BY <1>3, <1>4

-------------------------------------------------------------------------------
(* What a page shows of a request while it reads on *)

\* Whoever is told this much of r and reads these events is told that much of it, and
\* reads the conversation again if it has ended.
Continues(r, trail, outcome, events, longer, ending) ==
    \A x \in Readers : Tells(x.page, r, trail, outcome) =>
        /\ Tells(ReadAll(x, events).page, r, longer, ending)
        /\ ending # "none" => ReadAll(x, events).due

\* Sequences of two.
LEMMA AppendToOne ==
  ASSUME NEW S, NEW e \in S, NEW f \in S
  PROVE  Append(<<e>>, f) = <<e, f>>
  <1> DEFINE s == Append(<<e>>, f)
             t == <<e, f>>
  <1>1. <<e>> \in Seq(S) /\ Len(<<e>>) = 1 /\ <<e>>[1] = e
    OBVIOUS
  <1>2. s \in Seq(S) /\ Len(s) = 2 /\ s[1] = e /\ s[2] = f
    BY <1>1, AppendProperties
  <1>3. t \in Seq(S) /\ Len(t) = 2 /\ t[1] = e /\ t[2] = f
    OBVIOUS
  <1> HIDE DEF s, t
  <1>4. \A i \in 1..Len(s) : s[i] = t[i]
    BY <1>2, <1>3
  <1>5. s = t
    BY <1>2, <1>3, <1>4, SeqEqual
  <1> QED
    BY <1>5 DEF s, t

\* Two events are read one after the other.
LEMMA ReadTwo ==
  ASSUME NEW x \in Readers, NEW e \in Events, NEW f \in Events
  PROVE  ReadAll(x, <<e, f>>) = Read(Read(x, e), f)
  <1>1. <<e>> \in Seq(Events) /\ <<f>> \in Seq(Events) /\ <<e, f>> \in Seq(Events)
    OBVIOUS
  <1>4. <<e, f>> = <<e>> \o <<f>>
    <2>1. Append(<<e>>, f) = <<e>> \o <<f>>
      BY <1>1, AppendIsConcat
    <2>2. Append(<<e>>, f) = <<e, f>>
      BY AppendToOne
    <2> QED
      BY <2>1, <2>2
  <1>2. ReadAll(x, <<e>> \o <<f>>) = ReadAll(ReadAll(x, <<e>>), <<f>>)
    BY <1>1, ReadJoins
  <1>3. ReadAll(x, <<e>>) = Read(x, e) /\ Read(x, e) \in Readers
    BY ReadOne, ReadFits
  <1> QED
    BY <1>1, <1>2, <1>3, <1>4, ReadOne

\* A new stage extends the trail that is shown.
LEMMA ReadStage ==
  ASSUME NEW x \in Readers, NEW r \in Requests, NEW trail \in Trails, NEW s \in Stages,
         trail = <<>> \/ Last(trail) # s, Tells(x.page, r, trail, "none")
  PROVE  Tells(Read(x, <<"stage", s>>).page, r, Append(trail, s), "none")
  <1>1. <<"stage", s>> \in Events
    BY DEF Events, BusEvents
  <1>2. Read(x, <<"stage", s>>).page = Apply(x.page, <<"stage", s>>)
    BY <1>1, ReadFits
  <1>3. Apply(x.page, <<"stage", s>>) = [x.page EXCEPT !.trail = Extended(@, s)]
    BY DEF Apply, ApplyStage
  <1>4. x.page \in Pages
    BY DEF Readers
  <1>5. Extended(x.page.trail, s) = Append(trail, s)
    BY DEF Extended, Tells
  <1> DEFINE before == x.page
             more == Extended(before.trail, s)
             after == [before EXCEPT !.trail = more]
  <1>6. before \in Pages /\ Tells(before, r, trail, "none")
    BY <1>4
  <1>7. Read(x, <<"stage", s>>).page = after /\ more = Append(trail, s)
    BY <1>2, <1>3, <1>5, Zenon
  <1> HIDE DEF before, more
  <1>8. /\ after.request = before.request /\ after.live = before.live /\ after.trail = more
        /\ after.outcome = before.outcome /\ after.inFlight = before.inFlight
    BY <1>6 DEF Pages
  <1> HIDE DEF after
  <1>9. Tells(after, r, more, "none")
    BY <1>6, <1>8, Zenon DEF Tells
  <1> QED
    BY <1>7, <1>9, Zenon

\* An ending is shown, and the conversation is read again.
LEMMA ReadDone ==
  ASSUME NEW x \in Readers, NEW r \in Requests, NEW trail \in Trails, NEW o \in Terminal,
         trail # <<>>, Last(trail) = o, Tells(x.page, r, trail, "none")
  PROVE  /\ Tells(Read(x, <<"done", o>>).page, r, trail, o)
         /\ Read(x, <<"done", o>>).due
  <1>1. <<"done", o>> \in Events /\ o # "none" /\ r # None
    BY NoneIsNoRequest DEF Events, BusEvents, Terminal
  <1> DEFINE state == Apply(x.page, <<"done", o>>)
  <1>2. state = [x.page EXCEPT !.trail = Extended(@, o), !.outcome = o, !.inFlight = FALSE]
    BY DEF Apply, ApplyDone
  <1>3. x.page \in Pages
    BY DEF Readers
  <1>4. Extended(x.page.trail, o) = trail
    BY DEF Extended, Tells
  <1>5. state \in Pages
    BY <1>1, <1>3, ApplyFits
  <1>6. Tells(state, r, trail, o) /\ state.live /\ state.request = r /\ state.outcome = o
    BY <1>1, <1>2, <1>3, <1>4 DEF Tells, Pages
  <1> HIDE DEF state
  <1>7. x.page.outcome = "none"
    BY DEF Tells
  <1>8. Effects(x, state).page = state /\ Effects(x, state).due
    <2>1. state.live /\ state.request # None /\ state.outcome # "none" /\ state.outcome # x.page.outcome
      BY <1>1, <1>6, <1>7
    <2> QED
      BY <1>5, <2>1, EffectsFit
  <1>9. Read(x, <<"done", o>>) = Effects(x, state)
    BY DEF Read, state
  <1> QED
    BY <1>6, <1>8, <1>9

\* A stage, with or without output after it; an ending; the last stage and the ending.
LEMMA StageContinues ==
  ASSUME NEW r \in Requests, NEW trail \in Trails, NEW s \in Stages,
         trail = <<>> \/ Last(trail) # s
  PROVE  /\ Continues(r, trail, "none", <<Stage(s)>>, Append(trail, s), "none")
         /\ Continues(r, trail, "none", <<Stage(s), <<"output">> >>, Append(trail, s), "none")
  <1> SUFFICES ASSUME NEW x \in Readers, Tells(x.page, r, trail, "none")
               PROVE  /\ Tells(ReadAll(x, <<Stage(s)>>).page, r, Append(trail, s), "none")
                      /\ Tells(ReadAll(x, <<Stage(s), <<"output">> >>).page, r, Append(trail, s), "none")
    BY DEF Continues
  <1>1. Stage(s) \in Events /\ <<"output">> \in Events
    BY DEF Events, BusEvents, Stage
  <1>2. Tells(Read(x, Stage(s)).page, r, Append(trail, s), "none")
    BY ReadStage DEF Stage
  <1>3. Read(x, Stage(s)) \in Readers
    BY <1>1, ReadFits
  <1>4. ReadAll(x, <<Stage(s)>>) = Read(x, Stage(s))
    BY <1>1, ReadOne
  <1>5. ReadAll(x, <<Stage(s), <<"output">> >>) = Read(x, Stage(s))
    BY <1>1, <1>3, ReadTwo, ReadOutput
  <1> QED
    BY <1>2, <1>4, <1>5

\* The ending of a request whose last stage was told before.
LEMMA DoneContinues ==
  ASSUME NEW r \in Requests, NEW trail \in Trails, NEW o \in Terminal,
         trail # <<>>, Last(trail) = o
  PROVE  Continues(r, trail, "none", <<Done(o)>>, trail, o)
  <1> SUFFICES ASSUME NEW x \in Readers, Tells(x.page, r, trail, "none")
               PROVE  /\ Tells(ReadAll(x, <<Done(o)>>).page, r, trail, o)
                      /\ ReadAll(x, <<Done(o)>>).due
    BY DEF Continues
  <1>1. Done(o) \in Events
    BY DEF Events, BusEvents, Done
  <1>2. ReadAll(x, <<Done(o)>>) = Read(x, Done(o))
    BY <1>1, ReadOne
  <1> QED
    BY <1>2, ReadDone DEF Done

\* The last stage of a request and its ending in one.
LEMMA EndContinues ==
  ASSUME NEW r \in Requests, NEW trail \in Trails, NEW o \in Terminal,
         trail = <<>> \/ Last(trail) # o
  PROVE  Continues(r, trail, "none", <<Stage(o), Done(o)>>, Append(trail, o), o)
  <1> SUFFICES ASSUME NEW x \in Readers, Tells(x.page, r, trail, "none")
               PROVE  /\ Tells(ReadAll(x, <<Stage(o), Done(o)>>).page, r, Append(trail, o), o)
                      /\ ReadAll(x, <<Stage(o), Done(o)>>).due
    BY DEF Continues
  <1>1. Stage(o) \in Events /\ Done(o) \in Events /\ o \in Stages
    BY DEF Events, BusEvents, Done, Stage, Stages
  <1>2. ReadAll(x, <<Stage(o), Done(o)>>) = Read(Read(x, Stage(o)), Done(o))
    BY <1>1, ReadTwo
  <1>3. Read(x, Stage(o)) \in Readers /\ Tells(Read(x, Stage(o)).page, r, Append(trail, o), "none")
    BY <1>1, ReadFits, ReadStage DEF Stage
  <1>4. Append(trail, o) \in Trails /\ Append(trail, o) # <<>> /\ Last(Append(trail, o)) = o
    BY <1>1, AppendProperties DEF Trails, Last
  <1> QED
    BY <1>2, <1>3, <1>4, ReadDone DEF Done

\* A publication starts with two stages.
LEMMA StartContinues ==
  ASSUME NEW r \in Requests
  PROVE  Continues(r, <<>>, "none", <<Stage("starting"), Stage("gating")>>,
                   <<"starting", "gating">>, "none")
  <1> SUFFICES ASSUME NEW x \in Readers, Tells(x.page, r, <<>>, "none")
               PROVE  Tells(ReadAll(x, <<Stage("starting"), Stage("gating")>>).page, r,
                            <<"starting", "gating">>, "none")
    BY DEF Continues
  <1>1. /\ Stage("starting") \in Events /\ Stage("gating") \in Events
        /\ "starting" \in Stages /\ "gating" \in Stages
    BY DEF Events, BusEvents, Stage, Stages
  <1>2. /\ <<>> \in Trails /\ <<"starting">> \in Trails
        /\ Append(<<>>, "starting") = <<"starting">>
        /\ Append(<<"starting">>, "gating") = <<"starting", "gating">>
        /\ Last(<<"starting">>) = "starting" /\ "starting" # "gating"
    <2>1. <<>> \in Trails /\ <<"starting">> \in Trails
      BY <1>1 DEF Trails
    <2>2. Append(<<>>, "starting") = <<"starting">>
      OBVIOUS
    <2>3. Append(<<"starting">>, "gating") = <<"starting", "gating">>
      BY <1>1, AppendToOne
    <2>4. Last(<<"starting">>) = "starting"
      BY DEF Last
    <2> QED
      BY <2>1, <2>2, <2>3, <2>4
  <1>3. ReadAll(x, <<Stage("starting"), Stage("gating")>>) = Read(Read(x, Stage("starting")), Stage("gating"))
    BY <1>1, ReadTwo
  <1> DEFINE y == Read(x, Stage("starting"))
  <1>4. y \in Readers /\ Tells(y.page, r, <<"starting">>, "none")
    <2>1. Tells(y.page, r, Append(<<>>, "starting"), "none")
      BY <1>1, <1>2, ReadStage DEF Stage
    <2> QED
      BY <1>1, <1>2, <2>1, ReadFits
  <1> HIDE DEF y
  <1>5. Tells(Read(y, Stage("gating")).page, r, Append(<<"starting">>, "gating"), "none")
    BY <1>1, <1>2, <1>4, ReadStage DEF Stage
  <1> QED
    BY <1>2, <1>3, <1>5 DEF y

-------------------------------------------------------------------------------
(* What a request that runs publishes *)

\* Whatever r publishes, whoever has been told of it so far is told how it goes on.
PublishStep(r, events) ==
    /\ r \in Running /\ events \in Seq(BusEvents)
    /\ Publish(r, events)
    /\ \E trail \in Trails : passed' = [passed EXCEPT ![r] = trail]
    /\ ended' \in {ended, ended \cup {r}}
    /\ r \in ended' <=> \E i \in DOMAIN events : events[i][1] = "done"
    /\ r \in ended' => Finished(r)'
    /\ Continues(r, passed[r], "none", events, passed'[r], Outcome(r)')
    /\ UNCHANGED <<begun, lost, released, route, drops, browser>>

\* Who turns to a request shows it with no stage yet.
LEMMA TurnedFits ==
  ASSUME NEW r \in Requests, NEW synced \in BOOLEAN, NEW wait \in BOOLEAN, NEW refresh \in BOOLEAN
  PROVE  /\ Turned(r, synced, wait, refresh) \in Readers
         /\ Tells(Turned(r, synced, wait, refresh).page, r, <<>>, "none")
  <1>1. <<>> \in Trails
    BY EmptySeq DEF Trails
  <1>2. [request |-> r, live |-> TRUE, trail |-> <<>>, outcome |-> "none",
         inFlight |-> TRUE, synced |-> synced] \in Pages
    BY <1>1 DEF Pages, Told
  <1> QED
    BY <1>2 DEF Readers, Turned, Tells

\* A publish keeps what histories tell and what the follower will have read: bus and wire
\* get the same events.
LEMMA PublishTells ==
  ASSUME TypesOK, LinkFits, HistoriesTell, FollowsWell,
         NEW r \in Requests, NEW events, PublishStep(r, events)
  PROVE  /\ BusEvents \subseteq Events
         /\ active' \in Requests \cup {None} /\ history' \in [Requests -> Seq(BusEvents)]
         /\ wire' \in Seq(Events)
         /\ \A q \in Requests : q # r => passed'[q] = passed[q] /\ history'[q] = history[q]
                                         /\ (q \in ended' <=> q \in ended)
         /\ LinkFits' /\ HistoriesTell' /\ FollowsWell'
         /\ link = "open" /\ followed = r => (r \in ended' => Ahead'.due)
         /\ ~Subscribed(r) => Ahead' = Ahead
  <1>0. BusEvents \subseteq Events /\ Seq(BusEvents) \subseteq Seq(Events)
    BY DEF Events
  <1>1. /\ passed \in [Requests -> Trails] /\ history \in [Requests -> Seq(BusEvents)]
        /\ wire \in Seq(Events) /\ events \in Seq(BusEvents) /\ events \in Seq(Events)
        /\ active \in Requests \cup {None} /\ followed \in Requests \cup {None}
        /\ r \notin ended /\ None \notin Requests
    BY <1>0, NoneIsNoRequest DEF TypesOK, RequestTypes, BusTypes, RouteTypes, PublishStep, Running
  <1>2. Now \in Readers
    BY DEF TypesOK, BrowserTypes, Now, Readers
  <1>3. Ahead \in Readers
    BY <1>1, <1>2, ReadStays DEF Ahead
  <1>4. Kept(history[r], events) \in Seq(BusEvents)
    BY <1>1, KeptReads
  <1>5. history' = [history EXCEPT ![r] = Kept(@, events)]
    BY DEF PublishStep, Publish
  <1>6. history' \in [Requests -> Seq(BusEvents)] /\ history'[r] = Kept(history[r], events)
    BY <1>1, <1>4, <1>5
  <1>7. active' \in Requests \cup {None}
    BY <1>1 DEF PublishStep, Publish
  <1>8. wire' = IF Subscribed(r) THEN wire \o events ELSE wire
    BY DEF PublishStep, Publish
  <1>9. wire' \in Seq(Events)
    BY <1>1, <1>8
  <1>10. \A q \in Requests : q # r => /\ passed'[q] = passed[q] /\ history'[q] = history[q]
                                      /\ (q \in ended' <=> q \in ended)
    BY <1>1, <1>5 DEF PublishStep
  <1>11. \A q \in Requests : q # r => Outcome(q)' = Outcome(q)
    BY <1>10 DEF Outcome, At
  <1>12. Outcome(r) = "none" /\ (r \in ended' => Outcome(r)' # "none")
    BY <1>1 DEF PublishStep, Outcome, Finished, Terminal
  <1>13. ASSUME NEW x \in Readers, Tells(x.page, r, passed[r], "none")
         PROVE  /\ Tells(ReadAll(x, events).page, r, passed'[r], Outcome(r)')
                /\ r \in ended' => ReadAll(x, events).due
    BY <1>12, <1>13 DEF PublishStep, Continues
  <1>14. Now' = Now /\ UNCHANGED <<link, snapshot, queued, followed, begun>>
    BY DEF PublishStep, Now, browser, route
  <1>15. ~Subscribed(r) => Ahead' = Ahead
    BY <1>8, <1>14 DEF Ahead
  <1>16. Subscribed(r) => Ahead' = ReadAll(Ahead, events)
    <2>1. ReadAll(Now, wire \o events) = ReadAll(ReadAll(Now, wire), events)
      BY <1>1, <1>2, ReadJoins
    <2> QED
      BY <1>8, <1>14, <2>1 DEF Ahead
  <1>17. HistoriesTell'
    <2>1. SUFFICES ASSUME NEW q \in Announced' PROVE q \in begun' /\ HistoryTells(q)'
      BY DEF HistoriesTell
    <2>2. q \in Announced /\ q \in Requests
      <3>1. active' \in {active, None}
        BY DEF PublishStep, Publish
      <3>2. queued' = queued /\ followed' = followed
        BY <1>14
      <3>3. Announced' \subseteq Announced
        BY <3>1, <3>2 DEF Announced
      <3>4. queued \in Seq(Requests)
        BY DEF TypesOK, RouteTypes
      <3>5. Announced \subseteq Requests
        BY <1>1, <3>4 DEF Announced, ToSet
      <3> QED
        BY <3>3, <3>5
    <2>3. q \in begun' /\ HistoryTells(q)
      BY <1>14, <2>2 DEF HistoriesTell
    <2>4. CASE q # r
      BY <1>10, <1>11, <2>2, <2>3, <2>4 DEF HistoryTells, Shows
    <2>5. CASE q = r
      <3>0. Outcome(q)' = Outcome(r)'
        BY <2>5 DEF Outcome, At
      <3>1. SUFFICES ASSUME NEW synced \in BOOLEAN, NEW wait \in BOOLEAN, NEW refresh \in BOOLEAN
                     PROVE LET after == ReadAll(Turned(r, synced, wait, refresh), history'[r])
                           IN  /\ Tells(after.page, r, passed'[r], Outcome(r)')
                               /\ r \in ended' => after.due
        BY <2>3, <2>5, <3>0 DEF HistoryTells, Shows
      <3> DEFINE x == Turned(r, synced, wait, refresh)
                 y == ReadAll(x, history[r])
      <3>2. x \in Readers
        BY TurnedFits
      <3>3. y \in Readers
        BY <1>0, <1>1, <3>2, ReadStays
      <3>4. Tells(y.page, r, passed[r], "none")
        BY <1>12, <2>3, <2>5 DEF HistoryTells, Shows
      <3>5. ReadAll(x, history'[r]) = ReadAll(y, events)
        BY <1>1, <1>6, <3>2, KeptReads
      <3> HIDE DEF x, y
      <3> QED
        BY <1>13, <3>3, <3>4, <3>5 DEF x
    <2> QED
      BY <2>4, <2>5
  <1>18. FollowsWell' /\ (link = "open" /\ followed = r => (r \in ended' => Ahead'.due))
    <2>1. CASE link = "open" /\ followed = r
      <3>1. Subscribed(r)
        BY <2>1 DEF Subscribed
      <3>2. Tells(Ahead.page, r, passed[r], "none")
        BY <1>12, <2>1 DEF FollowsWell, Shows
      <3>3. Tells(Ahead'.page, r, passed'[r], Outcome(r)') /\ (r \in ended' => Ahead'.due)
        BY <1>3, <1>13, <1>16, <3>1, <3>2
      <3>4. followed' = r /\ r # None
        BY <1>1, <1>14, <2>1
      <3> QED
        BY <2>1, <3>3, <3>4 DEF FollowsWell, Shows
    <2>2. CASE ~(link = "open" /\ followed = r)
      <3>1. Ahead' = Ahead
        BY <1>15, <2>2 DEF Subscribed
      <3> QED
        BY <1>10, <1>11, <1>14, <2>2, <3>1 DEF FollowsWell, Shows
    <2> QED
      BY <2>1, <2>2
  <1>19. LinkFits'
    <2>1. active' = IF active = r /\ r \in ended' THEN None ELSE active
      BY DEF PublishStep, Publish
    <2>2. wire # wire' => link = "open"
      BY <1>8 DEF Subscribed
    <2>3. ended' \in {ended, ended \cup {r}}
      BY DEF PublishStep
    <2>4. \A q : Newest(q) => Newest(q)'
      BY <1>1, <2>1, <2>3 DEF Newest, LinkFits
    <2>5. active' # None => active' \in begun' \ ended'
      BY <1>1, <1>14, <2>1, <2>3 DEF LinkFits
    <2>6. active = None => active' = None
      BY <2>1
    <2> QED
      BY <1>14, <2>2, <2>4, <2>5, <2>6 DEF LinkFits, Newest
  <1> QED
    BY <1>0, <1>6, <1>7, <1>9, <1>10, <1>15, <1>17, <1>18, <1>19

-------------------------------------------------------------------------------
(* What is announced *)

\* A new request is announced, with the first stages of a publication.
AnnounceStep(r, events) ==
    /\ r \in Requests \ begun /\ events \in Seq(BusEvents)
    /\ Announce(r, events)
    /\ \E trail \in Trails : passed' = [passed EXCEPT ![r] = trail]
    /\ Continues(r, <<>>, "none", events, passed'[r], "none")
    /\ begun' = begun \cup {r}
    /\ due => due'
    /\ UNCHANGED <<ended, page, pending>>

\* What the page is and what it will be are readers.
LEMMA NowFits ==
  ASSUME TypesOK
  PROVE  Now \in Readers /\ Ahead \in Readers
  <1>1. Now \in Readers
    BY DEF TypesOK, BrowserTypes, Now, Readers
  <1> QED
    BY <1>1, ReadStays DEF Ahead, TypesOK, RouteTypes

\* Whoever turns to r, and reads its history, knows r.
LEMMA TurnedTo ==
  ASSUME TypesOK, NEW x \in Readers, NEW r \in Requests
  PROVE  LET turned == ReadAll(x, << <<"request", r, TRUE>> >> \o history[r])
         IN  /\ turned \in Readers
             /\ HistoryTells(r) => Shows(turned.page, r) /\ (r \in ended => turned.due)
             /\ history[r] = <<>> => Tells(turned.page, r, <<>>, "none")
  <1> DEFINE e == <<"request", r, TRUE>>
  <1>1. e \in Events /\ <<e>> \in Seq(Events)
    <2>1. e \in Events
      BY DEF Events
    <2> HIDE DEF e
    <2> QED
      BY <2>1
  <1>2. history[r] \in Seq(Events)
    BY DEF TypesOK, BusTypes, Events
  <1>3. x.page.synced \in BOOLEAN /\ x.due \in BOOLEAN
    BY DEF Readers, Pages
  <1>4. PICK wait \in BOOLEAN : Read(x, e) = Turned(r, x.page.synced, wait, x.due)
    BY ReadRequest
  <1> DEFINE t == Turned(r, x.page.synced, wait, x.due)
  <1>5. ReadAll(x, <<e>>) = t
    BY <1>1, <1>4, ReadOne
  <1>6. t \in Readers /\ Tells(t.page, r, <<>>, "none")
    BY <1>3, TurnedFits
  <1> HIDE DEF e
  <1>7. ReadAll(x, <<e>> \o history[r]) = ReadAll(t, history[r])
    <2> DEFINE one == <<e>>
               rest == history[r]
    <2>1. one \in Seq(Events) /\ rest \in Seq(Events) /\ ReadAll(x, one) = t
      BY <1>1, <1>2, <1>5, Zenon
    <2> HIDE DEF one, rest, t
    <2>2. ReadAll(x, one \o rest) = ReadAll(t, rest)
      BY <2>1, ReadJoins, Zenon
    <2> QED
      BY <2>2, Zenon DEF one, rest
  <1>8. ReadAll(t, history[r]) \in Readers
    BY <1>2, <1>6, ReadStays
  <1>9. HistoryTells(r) => LET after == ReadAll(t, history[r])
                           IN  Shows(after.page, r) /\ (r \in ended => after.due)
    BY <1>3 DEF HistoryTells
  <1>10. history[r] = <<>> => ReadAll(t, history[r]) = t
    BY <1>6, ReadNone
  <1> QED
    BY <1>6, <1>7, <1>8, <1>9, <1>10 DEF e

\* An announcement keeps what histories tell; who follows turns to the new request, who
\* replays has it among the announcements kept back.
LEMMA AnnounceTells ==
  ASSUME TypesOK, RequestsFit, LinkFits, HistoriesTell, FollowsWell,
         NEW r, NEW events, AnnounceStep(r, events), due' \in BOOLEAN
  PROVE  /\ active' = r /\ history' \in [Requests -> Seq(BusEvents)]
         /\ wire' \in Seq(Events) /\ queued' \in Seq(Requests)
         /\ link' = link /\ snapshot' = snapshot
         /\ followed' \in Requests \cup {None}
         /\ link = "open" => followed' = r
         /\ \A q \in Requests : q # r => passed'[q] = passed[q] /\ history'[q] = history[q]
         /\ LinkFits' /\ HistoriesTell' /\ FollowsWell'
         /\ link # "open" => Ahead'.page = Ahead.page
  <1>0. BusEvents \subseteq Events /\ Seq(BusEvents) \subseteq Seq(Events)
    BY DEF Events
  <1>1. /\ passed \in [Requests -> Trails] /\ history \in [Requests -> Seq(BusEvents)]
        /\ wire \in Seq(Events) /\ events \in Seq(BusEvents) /\ events \in Seq(Events)
        /\ active \in Requests \cup {None} /\ followed \in Requests \cup {None}
        /\ queued \in Seq(Requests)
        /\ r \in Requests /\ r \notin begun /\ r \notin ended /\ None \notin Requests
    BY <1>0, NoneIsNoRequest DEF TypesOK, RequestTypes, BusTypes, RouteTypes, AnnounceStep
  <1>2. history[r] = <<>> /\ passed[r] = <<>>
    BY <1>1 DEF RequestsFit, RequestFits
  <1>3. Now \in Readers /\ Ahead \in Readers
    BY NowFits
  <1>4. Now' \in Readers /\ Now'.page = Now.page /\ (Now.due => Now'.due)
    <2>1. page' = page /\ pending' = pending /\ (due => due')
      BY DEF AnnounceStep
    <2> QED
      BY <2>1 DEF TypesOK, BrowserTypes, Now, Readers
  <1>5. followed # r
    BY <1>1 DEF HistoriesTell, Announced
  <1> DEFINE req == << <<"request", r, TRUE>> >>
  <1>6. /\ link' = link /\ snapshot' = snapshot /\ active' = r
        /\ history' = [history EXCEPT ![r] = Kept(@, events)]
        /\ followed' = IF link = "open" THEN r ELSE followed
        /\ queued' = IF link \in {"replaying", "read", "inspecting"} THEN Append(queued, r) ELSE queued
        /\ begun' = begun \cup {r} /\ ended' = ended
    BY <1>5 DEF AnnounceStep, Announce, Follow
  <1>7. req \in Seq(Events)
    <2>1. <<"request", r, TRUE>> \in Events
      BY <1>1 DEF Events
    <2> QED
      BY <2>1
  <1>8. wire' = IF link = "open" THEN wire \o req \o events ELSE wire
    <2>1. wire' = IF link = "open" THEN wire \o (<<>> \o req \o history[r]) \o events ELSE wire
      BY <1>5 DEF AnnounceStep, Announce, Follow
    <2> HIDE DEF req
    <2>2. <<>> \o req \o history[r] = req
      BY <1>2, <1>7, ConcatEmptySeq
    <2> QED
      BY <2>1, <2>2
  <1>9. wire' \in Seq(Events) /\ queued' \in Seq(Requests)
    <2> HIDE DEF req
    <2> QED
      BY <1>1, <1>6, <1>7, <1>8
  <1>10. Kept(history[r], events) \in Seq(BusEvents)
    BY <1>1, KeptReads
  <1>11. history' \in [Requests -> Seq(BusEvents)] /\ history'[r] = Kept(<<>>, events)
    BY <1>1, <1>2, <1>6, <1>10
  <1>12. /\ \A q \in Requests : q # r => passed'[q] = passed[q] /\ history'[q] = history[q]
         /\ \A q \in Requests : q # r => Outcome(q)' = Outcome(q)
         /\ Outcome(r)' = "none"
    <2>1. \A q \in Requests : q # r => passed'[q] = passed[q] /\ history'[q] = history[q]
      BY <1>1, <1>6 DEF AnnounceStep
    <2> QED
      BY <1>1, <1>6, <2>1 DEF Outcome, At
  <1>13. \A x \in Readers : Tells(x.page, r, <<>>, "none")
                               => Tells(ReadAll(x, events).page, r, passed'[r], "none")
    BY DEF AnnounceStep, Continues
  <1>14. link # "open" => Ahead'.page = Ahead.page
    <2>1. ReadAll(Now', wire).page = ReadAll(Now, wire).page
      BY <1>1, <1>3, <1>4, ReadAgrees
    <2> QED
      BY <1>8, <2>1 DEF Ahead
  <1>15. HistoriesTell'
    <2>1. SUFFICES ASSUME NEW q \in Announced' PROVE q \in begun' /\ HistoryTells(q)'
      BY DEF HistoriesTell
    <2>2. q = r \/ q \in Announced
      <3>1. ToSet(queued') \subseteq ToSet(queued) \cup {r}
        BY <1>1, <1>6 DEF ToSet
      <3> QED
        BY <1>6, <3>1 DEF Announced
    <2>3. CASE q = r
      <3>0. Outcome(q)' = "none" /\ ended' = ended
        BY <1>6, <1>12, <2>3
      <3>1. SUFFICES ASSUME NEW synced \in BOOLEAN, NEW wait \in BOOLEAN, NEW refresh \in BOOLEAN
                     PROVE LET after == ReadAll(Turned(r, synced, wait, refresh), history'[r])
                           IN  Tells(after.page, r, passed'[r], "none")
        BY <1>1, <1>6, <2>3, <3>0 DEF HistoryTells, Shows
      <3> DEFINE x == Turned(r, synced, wait, refresh)
      <3>2. x \in Readers /\ Tells(x.page, r, <<>>, "none")
        BY <1>1, TurnedFits
      <3>3. <<>> \in Seq(BusEvents) /\ ReadAll(x, <<>>) = x
        BY <3>2, EmptySeq, ReadNone
      <3>4. ReadAll(x, history'[r]) = ReadAll(x, events)
        <4> HIDE DEF x
        <4>1. ReadAll(x, Kept(<<>>, events)) = ReadAll(ReadAll(x, <<>>), events)
          BY <1>1, <3>2, <3>3, KeptReads
        <4> QED
          BY <1>11, <3>3, <4>1
      <3> HIDE DEF x
      <3> QED
        BY <1>13, <3>2, <3>4 DEF x
    <2>4. CASE q # r
      <3>1. q \in Announced /\ q \in begun /\ HistoryTells(q) /\ q \in Requests
        BY <1>1, <2>2, <2>4 DEF HistoriesTell, TypesOK, RequestTypes
      <3> QED
        BY <1>6, <1>12, <2>4, <3>1 DEF HistoryTells, Shows
    <2> QED
      BY <2>3, <2>4
  <1>16. FollowsWell'
    <2>1. CASE link = "open"
      <3>1. Ahead' = ReadAll(ReadAll(ReadAll(Now', wire), req), events)
        <4> HIDE DEF req
        <4>1. ReadAll(Now', wire \o req) = ReadAll(ReadAll(Now', wire), req)
          BY <1>1, <1>4, <1>7, ReadJoins
        <4>2. wire \o req \in Seq(Events)
          BY <1>1, <1>7
        <4> DEFINE w == wire \o req
        <4>5. w \in Seq(Events)
          BY <4>2
        <4> HIDE DEF w
        <4>3. ReadAll(Now', w \o events) = ReadAll(ReadAll(Now', w), events)
          BY <1>1, <1>4, <4>5, ReadJoins
        <4>4. ReadAll(Now', (wire \o req) \o events) = ReadAll(ReadAll(Now', wire \o req), events)
          BY <4>3 DEF w
        <4> QED
          BY <1>8, <2>1, <4>1, <4>4 DEF Ahead
      <3>2. ReadAll(Now', wire) \in Readers
        BY <1>1, <1>4, ReadStays
      <3> DEFINE x == ReadAll(ReadAll(Now', wire), req)
      <3>3. x \in Readers /\ Tells(x.page, r, <<>>, "none")
        <4>1. req \o history[r] = req
          BY <1>2, <1>7, ConcatEmptySeq
        <4> QED
          BY <1>1, <1>2, <3>2, <4>1, TurnedTo
      <3> HIDE DEF x
      <3>4. Tells(Ahead'.page, r, passed'[r], "none")
        BY <1>13, <3>1, <3>3 DEF x
      <3>5. followed' = r /\ r # None
        BY <1>1, <1>6, <2>1
      <3> QED
        BY <1>12, <3>4, <3>5 DEF FollowsWell, Shows
    <2>2. CASE link # "open"
      BY <1>6, <2>2 DEF FollowsWell
    <2> QED
      BY <2>1, <2>2
  <1>17. LinkFits'
    <2>1. active' \in begun' \ ended' /\ r # None
      BY <1>1, <1>6
    <2>2. queued' = Append(queued, r) => queued' # <<>> /\ Last(queued') = r
      BY <1>1, AppendProperties DEF Last
    <2>3. link \notin {"replaying", "read", "inspecting"} => queued = <<>>
      BY DEF LinkFits, TypesOK, RouteTypes
    <2> QED
      BY <1>1, <1>6, <1>8, <2>1, <2>2, <2>3 DEF LinkFits, Newest
  <1> QED
    BY <1>1, <1>6, <1>9, <1>11, <1>12, <1>14, <1>15, <1>16, <1>17

-------------------------------------------------------------------------------
(* What the comments say *)

\* Comments are added at the end of a thread, so a record stays in it.
LEMMA RecordedStays ==
  ASSUME thread \in Seq(Comments), NEW more \in Seq(Comments), thread' = thread \o more
  PROVE  /\ thread' \in Seq(Comments)
         /\ \A q, how : RecordedAs(q, how) => RecordedAs(q, how)'
         /\ \A q : Recorded(q)' => \/ Recorded(q)
                                   \/ \E i \in DOMAIN more : more[i].about = q /\ IsRecord(more[i])
         /\ \A i \in DOMAIN thread' : \/ i \in DOMAIN thread /\ thread'[i] = thread[i]
                                      \/ \E j \in DOMAIN more : thread'[i] = more[j]
         /\ more # <<>> => Last(thread') = Last(more)
  <1>1. /\ thread' \in Seq(Comments) /\ Len(thread') = Len(thread) + Len(more)
        /\ Len(thread) \in Nat /\ Len(more) \in Nat
        /\ DOMAIN thread = 1..Len(thread) /\ DOMAIN more = 1..Len(more)
        /\ DOMAIN thread' = 1..Len(thread) + Len(more)
    BY ConcatProperties, LenProperties
  <1>2. \A i \in 1..Len(thread) : thread'[i] = thread[i]
    BY ConcatProperties, <1>1
  <1>3. \A i \in 1..Len(thread) + Len(more) : i > Len(thread) =>
            i - Len(thread) \in 1..Len(more) /\ thread'[i] = more[i - Len(thread)]
    BY ConcatProperties, <1>1
  <1>4. \A i \in DOMAIN thread' : \/ i \in DOMAIN thread /\ thread'[i] = thread[i]
                                  \/ \E j \in DOMAIN more : thread'[i] = more[j]
    <2> SUFFICES ASSUME NEW i \in DOMAIN thread', ~(i \in DOMAIN thread)
                 PROVE  \E j \in DOMAIN more : thread'[i] = more[j]
      BY <1>1, <1>2
    <2>1. i > Len(thread) /\ i \in 1..Len(thread) + Len(more)
      BY <1>1
    <2> QED
      BY <1>1, <1>3, <2>1
  <1>5. \A q, how : RecordedAs(q, how) => RecordedAs(q, how)'
    <2> SUFFICES ASSUME NEW q, NEW i \in DOMAIN thread, thread[i].about = q /\ IsRecord(thread[i])
                 PROVE  Recorded(q)'
      BY DEF Recorded, RecordedAs
    <2>1. i \in DOMAIN thread' /\ thread'[i] = thread[i]
      BY <1>1, <1>2
    <2> QED
      BY <2>1 DEF Recorded, RecordedAs
  <1>6. \A q : Recorded(q)' => \/ Recorded(q)
                               \/ \E i \in DOMAIN more : more[i].about = q /\ IsRecord(more[i])
    <2> SUFFICES ASSUME NEW q, NEW i \in DOMAIN thread', thread'[i].about = q /\ IsRecord(thread'[i])
                 PROVE  \/ Recorded(q)
                        \/ \E j \in DOMAIN more : more[j].about = q /\ IsRecord(more[j])
      BY DEF Recorded, RecordedAs
    <2> QED
      BY <1>4 DEF Recorded, RecordedAs
  <1>7. more # <<>> => Last(thread') = Last(more)
    <2> SUFFICES ASSUME more # <<>> PROVE Last(thread') = Last(more)
      OBVIOUS
    <2>1. Len(more) > 0
      BY <1>1, EmptySeq
    <2>2. LET i == Len(thread) + Len(more) IN i \in 1..i /\ i > Len(thread) /\ i - Len(thread) = Len(more)
      BY <1>1, <2>1
    <2> QED
      BY <1>1, <1>3, <2>2 DEF Last
  <1> QED
    BY <1>1, <1>4, <1>5, <1>6, <1>7

-------------------------------------------------------------------------------
(* The invariant, when a request publishes and when one is announced *)

\* A request that publishes keeps the invariant, if what it writes into the thread with
\* it is its own.
LEMMA PublishKeeps ==
  ASSUME IInv, NEW r, NEW events, PublishStep(r, events),
         thread' \in Seq(Comments), merged' \in BOOLEAN,
         RequestFits(r)', PublicationsMerged',
         \A q, how : RecordedAs(q, how) => RecordedAs(q, how)',
         \A q : q # r /\ Recorded(q)' => Recorded(q),
         \/ thread' = thread /\ (merged' = merged \/ ~MergeIsRecorded')
         \/ Last(thread').about = r /\ r \notin ended'
  PROVE  IInv'
  <1>0. TypesOK /\ LinkFits /\ HistoriesTell /\ FollowsWell /\ RequestsFit
    BY DEF IInv
  <1>1. /\ r \in Requests /\ r \in begun /\ None \notin Requests
        /\ UNCHANGED <<begun, lost, released, link, snapshot, queued, followed, drops,
                       page, shown, pending, post, asking, due>>
    BY <1>0, NoneIsNoRequest DEF PublishStep, TypesOK, RequestTypes, Running, browser, route
  <1>2. /\ BusEvents \subseteq Events
        /\ active' \in Requests \cup {None} /\ history' \in [Requests -> Seq(BusEvents)]
        /\ wire' \in Seq(Events)
        /\ \A q \in Requests : q # r => passed'[q] = passed[q] /\ history'[q] = history[q]
                                        /\ (q \in ended' <=> q \in ended)
        /\ LinkFits' /\ HistoriesTell' /\ FollowsWell'
        /\ link = "open" /\ followed = r => (r \in ended' => Ahead'.due)
        /\ ~Subscribed(r) => Ahead' = Ahead
    BY <1>0, <1>1, PublishTells
  <1>3. TypesOK'
    <2>1. passed' \in [Requests -> Trails] /\ ended' \subseteq begun'
      BY <1>0, <1>1 DEF PublishStep, TypesOK, RequestTypes
    <2>8. RequestTypes' /\ BusTypes'
      BY <1>0, <1>1, <1>2, <2>1 DEF TypesOK, RequestTypes, BusTypes
    <2>9. RouteTypes' /\ BrowserTypes'
      BY <1>0, <1>1, <1>2, <2>1 DEF TypesOK, RouteTypes, BrowserTypes
    <2> QED
      BY <2>8, <2>9 DEF TypesOK
  <1>4. RequestsFit'
    <2> SUFFICES ASSUME NEW q \in Requests, q # r PROVE RequestFits(q)'
      BY DEF RequestsFit
    <2>1. RequestFits(q)
      BY <1>0 DEF RequestsFit
    <2> QED
      BY <1>1, <1>2, <2>1 DEF RequestFits, At, Finished
  <1>5. SnapshotFits'
    BY <1>1 DEF IInv, SnapshotFits
  <1>6. EndingsAreTold'
    <2>1. EndingIsTold(page)'
      BY <1>1 DEF IInv, EndingsAreTold, EndingIsTold
    <2>2. CASE Subscribed(r)
      <3>1. Shows(Ahead.page, r)'
        BY <1>1, <1>2, <2>2 DEF FollowsWell, Subscribed
      <3> QED
        BY <1>1, <2>1, <3>1 DEF EndingsAreTold, EndingIsTold, Shows, Tells, Outcome, RequestFits
    <2>3. CASE ~Subscribed(r)
      <3>1. Ahead' = Ahead
        BY <1>2, <2>3
      <3> QED
        BY <2>1, <3>1 DEF IInv, EndingsAreTold, EndingIsTold
    <2> QED
      BY <2>2, <2>3
  <1>7. OfferFits'
    <2> SUFFICES ASSUME link' = "open", followed' # None, followed' \in ended',
                        Last(thread').about = followed', MergeIsRecorded'
                 PROVE  Ahead'.due \/ shown'.state = PublishState(RecordsIn(thread'), merged')
      BY DEF OfferFits
    <2>1. CASE followed = r
      BY <1>1, <1>2, <2>1
    <2>2. CASE followed # r
      <3>1. thread' = thread /\ merged' = merged
        BY <1>1, <2>2
      <3>2. followed \in Requests /\ followed \in ended
        BY <1>0, <1>1, <1>2, <2>2 DEF TypesOK, RouteTypes
      <3>3. Ahead' = Ahead
        BY <1>2, <2>2 DEF Subscribed
      <3>4. MergeIsRecorded
        BY <3>1 DEF MergeIsRecorded
      <3> QED
        BY <1>1, <3>1, <3>2, <3>3, <3>4 DEF IInv, OfferFits
    <2> QED
      BY <2>1, <2>2
  <1> QED
    BY <1>2, <1>3, <1>4, <1>5, <1>6, <1>7 DEF IInv

\* A request that begins keeps the invariant.
LEMMA AnnounceKeeps ==
  ASSUME IInv, NEW r, NEW events, AnnounceStep(r, events),
         thread' \in Seq(Comments), merged' \in BOOLEAN, due' \in BOOLEAN,
         lost \subseteq lost', lost' \subseteq begun', released' \subseteq begun',
         drops' = drops, shown' = shown, asking' \in BOOLEAN,
         post' \in {"idle", "sent", "accepted", "refused"},
         RequestFits(r)', PublicationsMerged',
         \A q, how : RecordedAs(q, how) => RecordedAs(q, how)',
         \A q : q # r /\ Recorded(q)' => Recorded(q) \/ q \in lost'
  PROVE  IInv'
  <1>0. TypesOK /\ LinkFits /\ HistoriesTell /\ FollowsWell /\ RequestsFit
    BY DEF IInv
  <1>1. /\ r \in Requests /\ r \notin begun /\ r \notin ended /\ None \notin Requests
        /\ begun' = begun \cup {r} /\ UNCHANGED <<ended, page, pending>>
    BY <1>0, NoneIsNoRequest DEF AnnounceStep, TypesOK, RequestTypes
  <1>2. /\ active' = r /\ history' \in [Requests -> Seq(BusEvents)]
        /\ wire' \in Seq(Events) /\ queued' \in Seq(Requests)
        /\ link' = link /\ snapshot' = snapshot
        /\ followed' \in Requests \cup {None}
        /\ link = "open" => followed' = r
        /\ \A q \in Requests : q # r => passed'[q] = passed[q] /\ history'[q] = history[q]
        /\ LinkFits' /\ HistoriesTell' /\ FollowsWell'
        /\ link # "open" => Ahead'.page = Ahead.page
    BY <1>0, AnnounceTells
  <1>3. TypesOK'
    <2>1. passed' \in [Requests -> Trails] /\ ended' \subseteq begun'
      BY <1>0, <1>1 DEF AnnounceStep, TypesOK, RequestTypes
    <2>2. IsFiniteSet(begun')
      BY <1>0, <1>1, FS_AddElement DEF TypesOK, RequestTypes
    <2>8. RequestTypes' /\ BusTypes'
      BY <1>0, <1>1, <1>2, <2>1, <2>2 DEF TypesOK, RequestTypes, BusTypes
    <2>9. RouteTypes' /\ BrowserTypes'
      BY <1>0, <1>1, <1>2, <2>1, <2>2 DEF TypesOK, RouteTypes, BrowserTypes
    <2> QED
      BY <2>8, <2>9 DEF TypesOK
  <1>4. RequestsFit'
    <2> SUFFICES ASSUME NEW q \in Requests, q # r PROVE RequestFits(q)'
      BY DEF RequestsFit
    <2>1. RequestFits(q)
      BY <1>0 DEF RequestsFit
    <2> QED
      BY <1>1, <1>2, <2>1 DEF RequestFits, At, Finished
  <1>5. SnapshotFits'
    BY <1>2 DEF IInv, SnapshotFits
  <1>6. EndingsAreTold'
    <2>1. EndingIsTold(page)'
      BY <1>1 DEF IInv, EndingsAreTold, EndingIsTold
    <2>2. CASE link = "open"
      <3>1. Shows(Ahead.page, r)'
        BY <1>1, <1>2, <2>2 DEF FollowsWell
      <3> QED
        BY <1>1, <2>1, <3>1 DEF EndingsAreTold, EndingIsTold, Shows, Tells, Outcome
    <2>3. CASE link # "open"
      <3>1. Ahead'.page = Ahead.page
        BY <1>2, <2>3
      <3> QED
        BY <2>1, <3>1 DEF IInv, EndingsAreTold, EndingIsTold
    <2> QED
      BY <2>2, <2>3
  <1>7. OfferFits'
    BY <1>1, <1>2 DEF OfferFits
  <1> QED
    BY <1>2, <1>3, <1>4, <1>5, <1>6, <1>7 DEF IInv

-------------------------------------------------------------------------------
(* The steps of the requests that run *)

\* One more stage, with no ending or with the ending of that name.
LEMMA AppendedStage ==
  ASSUME NEW trail \in Trails, NEW s \in Stages
  PROVE  /\ Append(trail, s) \in Trails /\ Append(trail, s) # <<>>
         /\ Last(Append(trail, s)) = s /\ trail \o <<s>> = Append(trail, s)
  <1>1. Append(trail, s) \in Trails /\ Append(trail, s) # <<>> /\ Last(Append(trail, s)) = s
    BY AppendProperties DEF Trails, Last
  <1>2. trail \o <<s>> = Append(trail, s)
    BY AppendIsConcat DEF Trails
  <1> QED
    BY <1>1, <1>2

\* The next stage of r is not the one it is at, so that a page tells it.
LEMMA NextStage ==
  ASSUME TypesOK, NEW r \in Requests, NEW s \in Stages, s # At(r)
  PROVE  passed[r] \in Trails /\ (passed[r] = <<>> \/ Last(passed[r]) # s)
  BY DEF TypesOK, RequestTypes, At

\* Advancing a stage is publishing.
LEMMA StageStep ==
  ASSUME TypesOK, NEW r \in Running, NEW s \in Stages, s # At(r),
         passed' = [passed EXCEPT ![r] = Append(@, s)],
         NEW events \in {<<Stage(s)>>, <<Stage(s), <<"output">> >>}, Publish(r, events),
         UNCHANGED <<begun, ended, lost, released, route, drops, browser>>
  PROVE  /\ PublishStep(r, events) /\ r \in Requests /\ passed[r] \in Trails
         /\ At(r)' = s /\ passed'[r] = Append(passed[r], s)
  <1>1. r \in Requests /\ r \in begun /\ r \notin ended
    BY DEF Running, TypesOK, RequestTypes
  <1>2. passed \in [Requests -> Trails] /\ passed[r] \in Trails /\ (passed[r] = <<>> \/ Last(passed[r]) # s)
    BY <1>1, NextStage DEF TypesOK, RequestTypes
  <1>3. passed'[r] = Append(passed[r], s)
    BY <1>1, <1>2
  <1>4. At(r)' = s
    BY <1>2, <1>3, AppendedStage DEF At
  <1>5. \E trail \in Trails : passed' = [passed EXCEPT ![r] = trail]
    BY <1>2, AppendedStage
  <1>6. Outcome(r)' = "none"
    BY <1>1 DEF Outcome
  <1>7. Continues(r, passed[r], "none", events, passed'[r], Outcome(r)')
    BY <1>1, <1>2, <1>3, <1>6, StageContinues
  <1>8. events \in Seq(BusEvents) /\ ~\E i \in DOMAIN events : events[i][1] = "done"
    <2>1. Stage(s) \in BusEvents /\ <<"output">> \in BusEvents /\ Stage(s)[1] = "stage"
      BY DEF Stage, BusEvents
    <2>2. CASE events = <<Stage(s)>>
      BY <2>1, <2>2
    <2>3. CASE events = <<Stage(s), <<"output">> >>
      BY <2>1, <2>3
    <2> QED
      BY <2>2, <2>3
  <1>9. PublishStep(r, events)
    BY <1>1, <1>5, <1>7, <1>8 DEF PublishStep
  <1> QED
    BY <1>1, <1>2, <1>3, <1>4, <1>9

\* Ending a publication is publishing.
LEMMA EndStep ==
  ASSUME TypesOK, NEW p \in Running, NEW o \in Terminal, o # At(p),
         passed' = [passed EXCEPT ![p] = Append(@, o)],
         Publish(p, <<Stage(o), Done(o)>>), ended' = ended \cup {p},
         UNCHANGED <<begun, lost, released, route, drops, browser>>
  PROVE  PublishStep(p, <<Stage(o), Done(o)>>) /\ p \in Requests /\ At(p)' = o
  <1>1. p \in Requests /\ p \in begun /\ p \notin ended /\ o \in Stages
    BY DEF Running, TypesOK, RequestTypes, Stages
  <1>2. passed \in [Requests -> Trails] /\ passed[p] \in Trails /\ (passed[p] = <<>> \/ Last(passed[p]) # o)
    BY <1>1, NextStage DEF TypesOK, RequestTypes
  <1>3. passed'[p] = Append(passed[p], o)
    BY <1>1, <1>2
  <1>4. At(p)' = o
    BY <1>1, <1>2, <1>3, AppendedStage DEF At
  <1>5. \E trail \in Trails : passed' = [passed EXCEPT ![p] = trail]
    BY <1>1, <1>2, AppendedStage
  <1>6. Outcome(p)' = o /\ Finished(p)'
    BY <1>1, <1>4 DEF Outcome, Finished
  <1>7. Continues(p, passed[p], "none", <<Stage(o), Done(o)>>, passed'[p], Outcome(p)')
    BY <1>1, <1>2, <1>3, <1>6, EndContinues
  <1> DEFINE events == <<Stage(o), Done(o)>>
  <1>8. events \in Seq(BusEvents) /\ \E i \in DOMAIN events : events[i][1] = "done"
    <2>1. Stage(o) \in BusEvents /\ Done(o) \in BusEvents /\ Done(o)[1] = "done"
      BY <1>1 DEF Stage, Done, BusEvents
    <2>2. 2 \in DOMAIN events /\ events[2] = Done(o)
      OBVIOUS
    <2> QED
      BY <2>1, <2>2
  <1>9. PublishStep(p, events)
    BY <1>1, <1>5, <1>6, <1>7, <1>8 DEF PublishStep
  <1> QED
    BY <1>1, <1>4, <1>9

\* A change request advances.
LEMMA AdvanceKeeps ==
  ASSUME IInv, NEW r \in Requests, NEW s \in LegalNext(At(r)), Advance(r, s)
  PROVE  IInv'
  <1>0. TypesOK /\ r \in Running /\ KindOf[r] = "change"
    BY DEF IInv, Advance
  <1>1. s \in Stages /\ s # At(r) /\ ~Finished(r)
    BY DEF LegalNext, Stages, Terminal, Finished
  <1> DEFINE events == IF s = "running" THEN <<Stage(s), <<"output">> >> ELSE <<Stage(s)>>
  <1>2. /\ Publish(r, events) /\ events \in {<<Stage(s)>>, <<Stage(s), <<"output">> >>}
        /\ passed' = [passed EXCEPT ![r] = Append(@, s)]
        /\ UNCHANGED <<begun, ended, lost, released, route, drops, browser>>
        /\ UNCHANGED <<thread, merged>>
    BY DEF Advance, upstream
  <1> HIDE DEF events
  <1>3. PublishStep(r, events) /\ At(r)' = s
    BY <1>0, <1>1, <1>2, StageStep
  <1>4. ~Recorded(r) /\ r \in begun' /\ r \notin ended'
    BY <1>0, <1>1, <1>2 DEF IInv, RequestsFit, RequestFits, IsPublication, Running
  <1>5. RequestFits(r)'
    BY <1>0, <1>2, <1>4 DEF RequestFits, IsPublication, Recorded, RecordedAs
  <1>6. /\ thread' \in Seq(Comments) /\ merged' \in BOOLEAN /\ PublicationsMerged'
        /\ \A q, how : (Recorded(q)' <=> Recorded(q)) /\ (RecordedAs(q, how)' <=> RecordedAs(q, how))
    BY <1>2 DEF IInv, TypesOK, BusTypes, PublicationsMerged, Recorded, RecordedAs
  <1> QED
    BY <1>2, <1>3, <1>5, <1>6, PublishKeeps

\* A change request is done, its record being in the thread.
LEMMA FinishKeeps ==
  ASSUME IInv, NEW r \in Requests, Finish(r)
  PROVE  IInv'
  <1>0. TypesOK /\ r \in Running /\ KindOf[r] = "change" /\ RequestFits(r) /\ Recorded(r)
    BY DEF IInv, Finish, RequestsFit, Recorded, RecordedAs
  <1> DEFINE o == At(r)
             events == <<Done(o)>>
  <1>1. o \in Terminal /\ Finished(r) /\ r \in begun /\ r \notin ended
    BY <1>0 DEF RequestFits, Running, Finished, IsPublication
  <1>2. /\ passed \in [Requests -> Trails] /\ passed[r] \in Trails
        /\ passed[r] # <<>> /\ Last(passed[r]) = o
    BY <1>0, <1>1 DEF At, Terminal, TypesOK, RequestTypes
  <1>3. /\ Publish(r, events) /\ ended' = ended \cup {r}
        /\ UNCHANGED <<passed, begun, lost, released, route, drops, browser>>
        /\ UNCHANGED <<thread, merged>>
    BY DEF Finish, upstream
  <1>4. events \in Seq(BusEvents) /\ \E i \in DOMAIN events : events[i][1] = "done"
    <2>1. Done(o) \in BusEvents /\ Done(o)[1] = "done"
      BY <1>1 DEF Done, BusEvents
    <2>2. 1 \in DOMAIN events /\ events[1] = Done(o)
      OBVIOUS
    <2> HIDE DEF o
    <2> QED
      BY <2>1, <2>2
  <1>5. At(r)' = o /\ Outcome(r)' = o /\ Finished(r)'
    BY <1>1, <1>3 DEF At, Outcome, Finished
  <1>6. Continues(r, passed[r], "none", events, passed'[r], Outcome(r)')
    <2> HIDE DEF o
    <2> QED
      BY <1>1, <1>2, <1>3, <1>5, DoneContinues
  <1>7. \E trail \in Trails : passed' = [passed EXCEPT ![r] = trail]
    BY <1>2, <1>3
  <1>8. PublishStep(r, events)
    <2> HIDE DEF events
    <2> QED
      BY <1>0, <1>1, <1>3, <1>4, <1>5, <1>6, <1>7 DEF PublishStep
  <1>9. /\ thread' \in Seq(Comments) /\ merged' \in BOOLEAN /\ PublicationsMerged'
        /\ \A q, how : (Recorded(q)' <=> Recorded(q)) /\ (RecordedAs(q, how)' <=> RecordedAs(q, how))
    BY <1>0, <1>3 DEF IInv, TypesOK, BusTypes, PublicationsMerged, Recorded, RecordedAs
  <1>10. RequestFits(r)'
    <2>1. r \notin lost /\ ~IsPublication(r)
      BY <1>0 DEF Running, IsPublication
    <2>2. RecordedAs(r, At(r))
      BY <1>0, <2>1 DEF RequestFits
    <2>3. RecordedAs(r, At(r))'
      BY <1>3, <2>2 DEF RecordedAs, At
    <2>4. r \in begun'
      BY <1>1, <1>3
    <2> QED
      BY <1>5, <2>1, <2>3, <2>4 DEF RequestFits, IsPublication
  <1> HIDE DEF events
  <1> QED
    BY <1>3, <1>8, <1>9, <1>10, PublishKeeps

\* Emit of one stage is an Append.
LEMMA EmittedStage ==
  ASSUME TypesOK, NEW p \in Requests, NEW s \in Stages, NEW events, Emit(p, <<s>>, events)
  PROVE  passed' = [passed EXCEPT ![p] = Append(@, s)] /\ Publish(p, events)
  <1>1. passed \in [Requests -> Trails] /\ passed[p] \in Trails
    BY DEF TypesOK, RequestTypes
  <1>2. passed[p] \o <<s>> = Append(passed[p], s)
    BY <1>1, AppendedStage
  <1> QED
    BY <1>2 DEF Emit

\* A publication passes its checks.
LEMMA PassChecksKeeps ==
  ASSUME IInv, NEW p \in Requests, PassChecks(p)
  PROVE  IInv'
  <1>0. TypesOK /\ p \in Running /\ IsPublication(p) /\ "pushing" \in Stages
    BY DEF IInv, PassChecks, IsPublication, Stages
  <1>1. "pushing" # At(p)
    BY DEF PassChecks
  <1> DEFINE events == <<Stage("pushing")>>
  <1>2. Emit(p, <<"pushing">>, events)
    BY DEF PassChecks
  <1>3. /\ UNCHANGED <<begun, ended, lost, released, route, drops, browser>>
        /\ UNCHANGED <<thread, merged>>
    BY DEF PassChecks, upstream
  <1>4. passed' = [passed EXCEPT ![p] = Append(@, "pushing")] /\ Publish(p, events)
    BY <1>0, <1>2, EmittedStage
  <1>5. PublishStep(p, events) /\ At(p)' = "pushing"
    BY <1>0, <1>1, <1>3, <1>4, StageStep
  <1>6. RequestFits(p)'
    BY <1>0, <1>3, <1>5 DEF RequestFits, IsPublication, Running
  <1>7. /\ thread' \in Seq(Comments) /\ merged' \in BOOLEAN /\ PublicationsMerged'
        /\ \A q, how : (Recorded(q)' <=> Recorded(q)) /\ (RecordedAs(q, how)' <=> RecordedAs(q, how))
    BY <1>0, <1>3 DEF IInv, TypesOK, BusTypes, PublicationsMerged, Recorded, RecordedAs
  <1> HIDE DEF events
  <1> QED
    BY <1>3, <1>5, <1>6, <1>7, PublishKeeps

\* A thread with one more comment.
LEMMA OneComment ==
  ASSUME thread \in Seq(Comments), NEW c \in Comments, thread' = Append(thread, c)
  PROVE  /\ thread' \in Seq(Comments)
         /\ \A q, how : RecordedAs(q, how) => RecordedAs(q, how)'
         /\ \A q : Recorded(q)' => Recorded(q) \/ (c.about = q /\ IsRecord(c))
         /\ \A i \in DOMAIN thread' : (i \in DOMAIN thread /\ thread'[i] = thread[i]) \/ thread'[i] = c
         /\ Last(thread') = c /\ \E i \in DOMAIN thread' : thread'[i] = c
  <1> DEFINE more == <<c>>
  <1>1. /\ more \in Seq(Comments) /\ more # <<>> /\ Last(more) = c
        /\ \A i \in DOMAIN more : more[i] = c
    BY DEF Last
  <1>2. thread' = thread \o more
    BY AppendIsConcat
  <1>3. Len(thread) + 1 \in DOMAIN thread' /\ thread'[Len(thread) + 1] = c
    BY AppendProperties
  <1> HIDE DEF more
  <1>4. /\ thread' \in Seq(Comments)
        /\ \A q, how : RecordedAs(q, how) => RecordedAs(q, how)'
        /\ \A q : Recorded(q)' => Recorded(q) \/ (c.about = q /\ IsRecord(c))
        /\ \A i \in DOMAIN thread' : (i \in DOMAIN thread /\ thread'[i] = thread[i]) \/ thread'[i] = c
        /\ Last(thread') = c
    BY <1>1, <1>2, RecordedStays
  <1> QED
    BY <1>3, <1>4

\* A publication merges or reverts, and its audit entry may be lost.
LEMMA ActKeeps ==
  ASSUME IInv, NEW p \in Requests, Act(p)
  PROVE  IInv'
  <1>0. /\ TypesOK /\ p \in Running /\ IsPublication(p) /\ "building" \in Stages
        /\ p \in begun /\ p \notin ended /\ thread \in Seq(Comments)
    BY DEF IInv, Act, IsPublication, Stages, Running, TypesOK, BusTypes
  <1>1. "building" # At(p)
    BY DEF Act
  <1> DEFINE events == <<Stage("building")>>
             c == RecordOf(p, <<"succeeded">>, "succeeded")
  <1>2. Emit(p, <<"building">>, events)
    BY DEF Act
  <1>3. /\ UNCHANGED <<begun, ended, lost, released, route, drops, browser>>
        /\ merged' = TRUE /\ thread' = Append(thread, c)
    BY DEF Act
  <1>4. passed' = [passed EXCEPT ![p] = Append(@, "building")] /\ Publish(p, events)
    BY <1>0, <1>2, EmittedStage
  <1>5. PublishStep(p, events) /\ At(p)' = "building"
    BY <1>0, <1>1, <1>3, <1>4, StageStep
  <1>6. RequestFits(p)'
    BY <1>0, <1>3, <1>5 DEF RequestFits, IsPublication
  <1>7. c \in Comments /\ c.about = p
    <2>1. <<"succeeded">> \in Trails
      BY DEF Trails, Stages, Terminal
    <2> QED
      BY <2>1 DEF RecordOf, Comments, Trails, Terminal
  <1> HIDE DEF c, events
  <1>8. /\ thread' \in Seq(Comments) /\ Last(thread') = c
        /\ \A q, how : RecordedAs(q, how) => RecordedAs(q, how)'
        /\ \A q : Recorded(q)' => Recorded(q) \/ (c.about = q /\ IsRecord(c))
    BY <1>0, <1>3, <1>7, OneComment
  <1>9. PublicationsMerged'
    BY <1>3 DEF PublicationsMerged
  <1> QED
    BY <1>0, <1>3, <1>5, <1>6, <1>7, <1>8, <1>9, PublishKeeps

\* The production build of a publication has ended.
LEMMA BuiltKeeps ==
  ASSUME IInv, NEW p \in Requests, NEW outcome \in {"succeeded", "failed"}, Built(p, outcome)
  PROVE  IInv'
  <1>0. /\ TypesOK /\ p \in Running /\ IsPublication(p)
        /\ outcome \in Stages /\ outcome \in Terminal
    BY DEF IInv, Built, IsPublication, Stages, Terminal
  <1>1. outcome # At(p)
    BY DEF Built
  <1> DEFINE events == <<Stage(outcome), Done(outcome)>>
  <1>2. Emit(p, <<outcome>>, events)
    BY DEF Built
  <1>3. /\ UNCHANGED <<begun, lost, released, route, drops, browser>>
        /\ UNCHANGED <<thread, merged>> /\ ended' = ended \cup {p}
    BY DEF Built, upstream
  <1>4. passed' = [passed EXCEPT ![p] = Append(@, outcome)] /\ Publish(p, events)
    BY <1>0, <1>2, EmittedStage
  <1>5. PublishStep(p, events) /\ At(p)' = outcome
    BY <1>0, <1>1, <1>3, <1>4, EndStep
  <1>6. RequestFits(p)'
    BY <1>0, <1>3, <1>5 DEF RequestFits, IsPublication, Running, Finished
  <1>7. /\ thread' \in Seq(Comments) /\ merged' \in BOOLEAN /\ PublicationsMerged'
        /\ \A q, how : (Recorded(q)' <=> Recorded(q)) /\ (RecordedAs(q, how)' <=> RecordedAs(q, how))
    BY <1>0, <1>3 DEF IInv, TypesOK, BusTypes, PublicationsMerged, Recorded, RecordedAs
  <1> HIDE DEF events
  <1> QED
    BY <1>3, <1>5, <1>6, <1>7, PublishKeeps

\* A merge that no comment tells of leaves nothing that would offer it.
LEMMA FailKeeps ==
  ASSUME IInv, NEW p \in Requests, NEW acted \in BOOLEAN, Fail(p, acted)
  PROVE  IInv'
  <1>0. /\ TypesOK /\ p \in Running /\ IsPublication(p)
        /\ "failed" \in Stages /\ "failed" \in Terminal
    BY DEF IInv, Fail, IsPublication, Stages, Terminal
  <1>1. "failed" # At(p)
    BY DEF Fail
  <1> DEFINE events == <<Stage("failed"), Done("failed")>>
  <1>2. Emit(p, <<"failed">>, events)
    BY DEF Fail
  <1>3. /\ UNCHANGED <<begun, lost, released, route, drops, browser, thread>>
        /\ ended' = ended \cup {p} /\ merged' = (merged \/ acted)
    BY DEF Fail
  <1>4. passed' = [passed EXCEPT ![p] = Append(@, "failed")] /\ Publish(p, events)
    BY <1>0, <1>2, EmittedStage
  <1>5. PublishStep(p, events) /\ At(p)' = "failed"
    <2> DEFINE failed == "failed"
    <2>1. failed \in Terminal /\ failed # At(p)
      BY <1>0, <1>1
    <2>2. Publish(p, <<Stage(failed), Done(failed)>>) /\ passed' = [passed EXCEPT ![p] = Append(@, failed)]
      BY <1>4
    <2> HIDE DEF failed
    <2>3. PublishStep(p, <<Stage(failed), Done(failed)>>) /\ At(p)' = failed
      BY <1>0, <1>3, <2>1, <2>2, EndStep
    <2> QED
      BY <2>3 DEF failed
  <1>6. RequestFits(p)'
    BY <1>0, <1>3, <1>5 DEF RequestFits, IsPublication, Running, Finished
  <1>7. merged \in BOOLEAN /\ merged' \in BOOLEAN /\ thread' \in Seq(Comments)
    BY <1>0, <1>3 DEF TypesOK, BusTypes
  <1>8. /\ PublicationsMerged'
        /\ \A q, how : (Recorded(q)' <=> Recorded(q)) /\ (RecordedAs(q, how)' <=> RecordedAs(q, how))
    BY <1>3 DEF IInv, PublicationsMerged, Recorded, RecordedAs
  <1>9. merged' = merged \/ ~MergeIsRecorded'
    BY <1>3, <1>7 DEF IInv, PublicationsMerged, MergeIsRecorded, IsPublication
  <1> HIDE DEF events
  <1> QED
    BY <1>3, <1>5, <1>6, <1>7, <1>8, <1>9, PublishKeeps

-------------------------------------------------------------------------------
(* The steps that announce a request *)

\* The library's order of a set has its elements and no others.
LEMMA SetToSeqIsASequence ==
  ASSUME NEW S, IsFiniteSet(S)
  PROVE  SetToSeq(S) \in Seq(S)
  <1>1. Cardinality(S) \in Nat /\ ExistsBijection(1..Cardinality(S), S)
    BY FS_CardinalityType
  <1>2. \E f \in [1..Cardinality(S) -> S] : IsInjective(f)
    BY <1>1 DEF ExistsBijection, Bijection, Injection
  <1>3. SetToSeq(S) \in [1..Cardinality(S) -> S]
    BY <1>2 DEF SetToSeq
  <1>4. \A n \in Nat : \A f \in [1..n -> S] : f \in Seq(S)
    OBVIOUS
  <1> QED
    BY <1>1, <1>3, <1>4

\* The dead holders of the lock are told of, and nobody else.
LEMMA AbandonmentsFit ==
  ASSUME TypesOK
  PROVE  /\ Abandonments \in Seq(Comments)
         /\ \A i \in DOMAIN Abandonments : \E q \in LockHolders :
               Abandonments[i].about = q
  <1> DEFINE note(q) == RecordOf(q, <<>>, "abandoned")
             S == {note(q) : q \in LockHolders}
  <1>1. LockHolders \subseteq begun /\ LockHolders \subseteq Requests /\ IsFiniteSet(begun)
    BY DEF LockHolders, TypesOK, RequestTypes
  <1>2. IsFiniteSet(LockHolders)
    BY <1>1, FS_Subset
  <1> DEFINE f == [q \in LockHolders |-> note(q)]
  <1>3. f \in Surjection(LockHolders, S)
    BY DEF Surjection
  <1>4. IsFiniteSet(S)
    <2> HIDE DEF f, S
    <2> QED
      BY <1>2, <1>3, FS_Surjection
  <1>5. Abandonments \in Seq(S)
    BY <1>4, SetToSeqIsASequence DEF Abandonments
  <1>6. \A c \in S : c \in Comments /\ \E q \in LockHolders : c.about = q
    <2>1. <<>> \in Trails
      BY EmptySeq DEF Trails
    <2>2. "abandoned" \in Terminal \cup {"none"}
      BY DEF Terminal
    <2>3. \A q \in LockHolders : note(q) \in Comments /\ note(q).about = q
      BY <1>1, <2>1, <2>2 DEF RecordOf, Comments, Trails
    <2> QED
      BY <2>3
  <1> HIDE DEF S
  <1>7. \A i \in DOMAIN Abandonments : Abandonments[i] \in S
    BY <1>5
  <1>8. S \subseteq Comments
    BY <1>6
  <1> QED
    BY <1>5, <1>6, <1>7, <1>8

\* A fresh request has not begun.
LEMMA FreshFits ==
  ASSUME NEW kind, NEW r \in Requests, r = Fresh(kind)
  PROVE  r \notin begun /\ KindOf[r] = kind
  <1> DEFINE unused == {q \in Requests \ begun : KindOf[q] = kind}
  <1>1. unused # {}
    BY NoneIsNoRequest DEF Fresh
  <1>2. r \in unused
    BY <1>1 DEF Fresh
  <1> QED
    BY <1>2

\* A request nobody has begun has left nothing.
LEMMA UnbegunFits ==
  ASSUME IInv, NEW r \in Requests, r \notin begun
  PROVE  /\ passed[r] = <<>> /\ history[r] = <<>>
         /\ r \notin ended /\ r \notin lost
         /\ ~IsPublication(r) => ~Recorded(r)
  BY DEF IInv, RequestsFit, RequestFits, TypesOK, RequestTypes, Finished, At, Terminal

\* A change request begins, filing what the dead holders of the lock had left open.
LEMMA BeginChangeKeeps ==
  ASSUME IInv, NEW r \in Requests, BeginChange(r),
         UNCHANGED <<page, shown, pending, asking, due>>,
         post' \in {"idle", "sent", "accepted", "refused"}
  PROVE  IInv'
  <1>0. TypesOK /\ thread \in Seq(Comments)
    BY DEF IInv, TypesOK, BusTypes
  <1>1. r \notin begun /\ ~IsPublication(r)
    BY FreshFits DEF BeginChange, IsPublication
  <1>2. passed[r] = <<>> /\ r \notin ended /\ r \notin lost /\ ~Recorded(r)
    BY <1>1, UnbegunFits
  <1>3. /\ Announce(r, <<>>) /\ begun' = begun \cup {r} /\ LockHolders \subseteq lost
        /\ released' = released \cup LockHolders
        /\ UNCHANGED <<passed, ended, lost, merged, drops>>
        /\ thread' = Append(thread, Said(r)) \o Abandonments
    BY DEF BeginChange
  <1>4. <<>> \in Trails /\ <<>> \in Seq(BusEvents) /\ Said(r) \in Comments
        /\ Said(r).about = r /\ ~IsRecord(Said(r))
    <2>1. <<>> \in Trails /\ <<>> \in Seq(BusEvents)
      BY EmptySeq DEF Trails
    <2> QED
      BY <2>1 DEF Said, Comments, Trails, IsRecord
  <1>5. AnnounceStep(r, <<>>)
    <2>1. \A x \in Readers : ReadAll(x, <<>>) = x
      BY ReadNone
    <2>2. Continues(r, <<>>, "none", <<>>, <<>>, "none")
      BY <2>1 DEF Continues
    <2>3. passed' = [passed EXCEPT ![r] = <<>>] /\ passed'[r] = <<>>
      BY <1>0, <1>2, <1>3 DEF TypesOK, RequestTypes
    <2> QED
      BY <1>1, <1>3, <1>4, <2>2, <2>3 DEF AnnounceStep
  <1>6. thread' \in Seq(Comments)
        /\ (\A q, how : RecordedAs(q, how) => RecordedAs(q, how)')
        /\ (\A q : Recorded(q)' => Recorded(q) \/ q \in LockHolders)
        /\ \A i \in DOMAIN thread' : \/ i \in DOMAIN thread /\ thread'[i] = thread[i]
                                     \/ thread'[i].about \in {r} \cup LockHolders
    <2> DEFINE more == <<Said(r)>> \o Abandonments
    <2>1. Abandonments \in Seq(Comments) /\ <<Said(r)>> \in Seq(Comments)
      BY <1>0, <1>4, AbandonmentsFit
    <2>2. more \in Seq(Comments)
      BY <2>1
    <2>3. thread' = thread \o more
      <3>1. Append(thread, Said(r)) = thread \o <<Said(r)>>
        BY <1>0, <1>4, AppendIsConcat
      <3> QED
        BY <1>0, <1>3, <2>1, <3>1, ConcatAssociative
    <2>4. \A i \in DOMAIN more : more[i] = Said(r) \/ \E j \in DOMAIN Abandonments : more[i] = Abandonments[j]
      <3>1. /\ Len(<<Said(r)>>) = 1 /\ <<Said(r)>>[1] = Said(r)
            /\ Len(Abandonments) \in Nat /\ DOMAIN Abandonments = 1..Len(Abandonments)
            /\ DOMAIN more = 1..1 + Len(Abandonments)
        BY <2>1, <2>2
      <3>2. \A i \in 1..1 + Len(Abandonments) :
               more[i] = IF i <= 1 THEN <<Said(r)>>[i] ELSE Abandonments[i - 1]
        BY <2>1, <3>1, ConcatProperties
      <3> HIDE DEF more
      <3> SUFFICES ASSUME NEW i \in 1..1 + Len(Abandonments)
                   PROVE  more[i] = Said(r) \/ \E j \in DOMAIN Abandonments : more[i] = Abandonments[j]
        BY <3>1
      <3>3. CASE i = 1
        BY <3>1, <3>2, <3>3
      <3>4. CASE i # 1
        <4>1. i - 1 \in DOMAIN Abandonments /\ ~(i <= 1)
          BY <3>1, <3>4
        <4> QED
          BY <3>2, <4>1
      <3> QED
        BY <3>3, <3>4
    <2>5. \A j \in DOMAIN Abandonments : Abandonments[j].about \in LockHolders
      BY <1>0, AbandonmentsFit
    <2>6. \A i \in DOMAIN more : \/ more[i] = Said(r)
                                 \/ more[i].about \in LockHolders
      BY <2>4, <2>5
    <2> HIDE DEF more
    <2>7. /\ thread' \in Seq(Comments)
          /\ \A q, how : RecordedAs(q, how) => RecordedAs(q, how)'
          /\ \A q : Recorded(q)' => \/ Recorded(q)
                                    \/ \E i \in DOMAIN more : more[i].about = q /\ IsRecord(more[i])
          /\ \A i \in DOMAIN thread' : \/ i \in DOMAIN thread /\ thread'[i] = thread[i]
                                       \/ \E j \in DOMAIN more : thread'[i] = more[j]
      BY <1>0, <2>2, <2>3, RecordedStays
    <2>8. \A q : (\E i \in DOMAIN more : more[i].about = q /\ IsRecord(more[i])) => q \in LockHolders
      BY <1>4, <2>6
    <2>9. \A j \in DOMAIN more : more[j].about \in {r} \cup LockHolders
      BY <1>4, <2>6
    <2> QED
      BY <2>7, <2>8, <2>9
  <1>7. LockHolders \subseteq begun /\ \A q \in LockHolders : ~IsPublication(q)
    BY DEF LockHolders, IsPublication
  <1>8. RequestFits(r)'
    BY <1>1, <1>2, <1>3, <1>6, <1>7 DEF RequestFits, IsPublication
  <1>9. PublicationsMerged'
    <2>1. \A i \in DOMAIN thread' : IsPublication(thread'[i].about) =>
             i \in DOMAIN thread /\ thread'[i] = thread[i]
      BY <1>1, <1>6, <1>7
    <2> QED
      BY <1>3, <2>1 DEF IInv, PublicationsMerged, IsPublication
  <1>10. /\ merged' \in BOOLEAN /\ due' \in BOOLEAN /\ asking' \in BOOLEAN
         /\ lost \subseteq lost' /\ lost' \subseteq begun' /\ released' \subseteq begun'
    BY <1>0, <1>3, <1>7 DEF TypesOK, RequestTypes, BusTypes, BrowserTypes
  <1>11. \A q : Recorded(q)' => Recorded(q) \/ q \in lost'
    BY <1>3, <1>6
  <1> QED
    BY <1>3, <1>5, <1>6, <1>8, <1>9, <1>10, <1>11, AnnounceKeeps

\* A publication begins, already at its second stage.
LEMMA BeginPublicationKeeps ==
  ASSUME IInv, NEW p \in Requests, BeginPublication(p),
         UNCHANGED <<page, shown, pending, post>>,
         asking' \in BOOLEAN, due' \in BOOLEAN, due => due'
  PROVE  IInv'
  <1>0. TypesOK /\ thread \in Seq(Comments)
    BY DEF IInv, TypesOK, BusTypes
  <1>1. p \notin begun /\ IsPublication(p)
    BY FreshFits DEF BeginPublication, IsPublication
  <1>2. passed[p] = <<>> /\ p \notin ended /\ p \notin lost
    BY <1>1, UnbegunFits
  <1> DEFINE events == <<Stage("starting"), Stage("gating")>>
             trail == <<"starting", "gating">>
  <1>3. /\ Announce(p, events) /\ begun' = begun \cup {p}
        /\ passed' = [passed EXCEPT ![p] = trail]
        /\ UNCHANGED <<ended, lost, released, thread, merged, drops>>
    BY DEF BeginPublication, upstream
  <1>4. trail \in Trails /\ events \in Seq(BusEvents)
    <2>1. /\ "starting" \in Stages /\ "gating" \in Stages
          /\ Stage("starting") \in BusEvents /\ Stage("gating") \in BusEvents
      BY DEF Stage, BusEvents, Stages
    <2> QED
      BY <2>1 DEF Trails
  <1>5. passed'[p] = trail
    BY <1>0, <1>3 DEF TypesOK, RequestTypes
  <1>6. Continues(p, <<>>, "none", events, passed'[p], "none")
    BY <1>5, StartContinues
  <1>7. At(p)' = "gating"
    <2>1. trail # <<>> /\ Last(trail) = "gating"
      BY DEF Last
    <2> HIDE DEF trail
    <2> QED
      BY <1>5, <2>1 DEF At
  <1> HIDE DEF trail, events
  <1>8. AnnounceStep(p, events)
    BY <1>1, <1>3, <1>4, <1>6 DEF AnnounceStep
  <1>9. /\ \A q, how : (Recorded(q)' <=> Recorded(q)) /\ (RecordedAs(q, how)' <=> RecordedAs(q, how))
        /\ PublicationsMerged'
    BY <1>3 DEF IInv, PublicationsMerged, Recorded, RecordedAs
  <1>10. RequestFits(p)'
    BY <1>1, <1>2, <1>3, <1>7 DEF RequestFits, IsPublication
  <1>11. /\ thread' \in Seq(Comments) /\ merged' \in BOOLEAN
         /\ lost \subseteq lost' /\ lost' \subseteq begun' /\ released' \subseteq begun'
         /\ post' \in {"idle", "sent", "accepted", "refused"}
    BY <1>0, <1>3 DEF TypesOK, RequestTypes, BusTypes, BrowserTypes
  <1> QED
    BY <1>3, <1>8, <1>9, <1>10, <1>11, AnnounceKeeps

-------------------------------------------------------------------------------
(* What the route reads *)

RecordsFound(base, s) == Folded(Found, base, s)

\* Finding records among the comments of s one after the other.
FindsIn(X, E) == \A x \in X, e \in E : Found(x, e) \in X
IsFinding(run, X, base, s) ==
    /\ run \in [0..Len(s) -> X] /\ run[0] = base
    /\ \A i \in 1..Len(s) : run[i] = Found(run[i - 1], s[i])
    /\ RecordsFound(base, s) = run[Len(s)]

\* Finding records, as a fold over the comments, goes through a run.
LEMMA FoundRuns ==
  ASSUME NEW X, NEW E, FindsIn(X, E), NEW base \in X, NEW s \in Seq(E)
  PROVE  \E run : IsFinding(run, X, base, s)
  <1> DEFINE n == Len(s)
             step == [i \in 1..n |-> [x \in X |-> Found(x, s[i])]]
             Eq(f) == f = [i \in 0..n |-> IF i = 0 THEN base
                             ELSE CHOOSE y \in {Found(x, s[i]) : x \in {f[i - 1]}} : TRUE]
             upTo == CHOOSE f : Eq(f)
  <1>1. n \in Nat /\ \A i \in 1..n : s[i] \in E
    OBVIOUS
  <1>2. step \in [1..n -> [X -> X]]
    BY <1>1 DEF FindsIn
  <1>3. PICK run : IsRun(run, X, base, n, step)
    <2> HIDE DEF step, n
    <2> QED
      BY <1>1, <1>2, RunExists
  <1>4. \A i \in 1..n : run[i - 1] \in X /\ run[i] = Found(run[i - 1], s[i])
    <2> SUFFICES ASSUME NEW i \in 1..n PROVE run[i - 1] \in X /\ run[i] = Found(run[i - 1], s[i])
      OBVIOUS
    <2>1. run[i - 1] \in X
      BY <1>3 DEF IsRun
    <2> QED
      BY <1>3, <2>1 DEF IsRun
  <1>5. \A f : \A i \in 1..n : (CHOOSE y \in {Found(x, s[i]) : x \in {f[i - 1]}} : TRUE) = Found(f[i - 1], s[i])
    OBVIOUS
  <1>6. Eq(run)
    BY <1>3, <1>4, <1>5, <1>1 DEF IsRun
  <1>7. Eq(upTo)
    BY <1>6
  <1>8. upTo[0] = base /\ \A i \in 1..n : upTo[i] = Found(upTo[i - 1], s[i])
    <2> HIDE DEF upTo
    <2> QED
      BY <1>1, <1>5, <1>7
  <1>9. \A i \in 1..n : upTo[i - 1] \in X => upTo[i] = step[i][upTo[i - 1]]
    <2> HIDE DEF upTo
    <2> QED
      BY <1>8
  <1>10. upTo[n] = run[n]
    <2> HIDE DEF upTo, step, n
    <2>1. \A i \in 0..n : upTo[i] = run[i]
      <3>1. TakesSteps(upTo, X, base, n, step)
        BY <1>8, <1>9 DEF TakesSteps
      <3> QED
        BY <1>3, <3>1, RunIsUnique
    <2> QED
      BY <1>1, <2>1
  <1>11. RecordsFound(base, s) = upTo[n]
    BY DEF RecordsFound, Folded
  <1> QED
    BY <1>3, <1>4, <1>10, <1>11 DEF IsRun, IsFinding


\* What is read back of a thread are records of it.
LEMMA RecordsInFit ==
  ASSUME TypesOK
  PROVE  /\ RecordsIn(thread) \in Seq(Records)
         /\ \A i \in DOMAIN RecordsIn(thread) : RecordedAs(RecordsIn(thread)[i].about, RecordsIn(thread)[i].outcome)
  <1> DEFINE X == {found \in Seq(Records) : \A i \in DOMAIN found : RecordedAs(found[i].about, found[i].outcome)}
             E == {c \in Comments : IsRecord(c) => RecordedAs(c.about, c.outcome)}
             s == FirstPage(thread)
  <1>1. thread \in Seq(Comments) /\ PageSize \in Nat
    BY BoundsAreNumbers DEF TypesOK, BusTypes
  <1>2. thread \in Seq(E)
    <2>1. \A i \in 1..Len(thread) : thread[i] \in E
      BY <1>1 DEF Recorded, RecordedAs
    <2> HIDE DEF E
    <2> QED
      BY <1>1, <2>1
  <1>3. s \in Seq(E)
    <2> HIDE DEF E
    <2> QED
      BY <1>1, <1>2 DEF FirstPage
  <1>4. FindsIn(X, E)
    <2> SUFFICES ASSUME NEW found \in X, NEW c \in E PROVE Found(found, c) \in X
      BY DEF FindsIn
    <2>1. CASE ~IsRecord(c)
      BY <2>1 DEF Found
    <2>2. CASE IsRecord(c)
      <3>1. c \in Records /\ RecordedAs(c.about, c.outcome)
        BY <2>2 DEF Comments, Records, IsRecord, Trails
      <3>2. found \in Seq(Records) /\ \A i \in 1..Len(found) : RecordedAs(found[i].about, found[i].outcome)
        OBVIOUS
      <3> DEFINE more == Append(found, c)
      <3>3. /\ more \in Seq(Records) /\ Len(more) = Len(found) + 1 /\ more[Len(found) + 1] = c
            /\ \A i \in 1..Len(found) : more[i] = found[i]
        BY <3>1, <3>2, AppendProperties
      <3> HIDE DEF more
      <3>4. \A i \in 1..Len(found) + 1 : i \in 1..Len(found) \/ i = Len(found) + 1
        BY <3>2
      <3>5. \A i \in DOMAIN more : RecordedAs(more[i].about, more[i].outcome)
        BY <3>1, <3>2, <3>3, <3>4
      <3> QED
        BY <2>2, <3>3, <3>5 DEF Found, more
    <2> QED
      BY <2>1, <2>2
  <1>5. <<>> \in X
    BY EmptySeq
  <1> HIDE DEF X, E, s
  <1>6. PICK run : IsFinding(run, X, <<>>, s)
    BY <1>3, <1>4, <1>5, FoundRuns
  <1>7. RecordsIn(thread) = RecordsFound(<<>>, s)
    BY DEF RecordsIn, RecordsFound, s
  <1>8. Len(s) \in 0..Len(s)
    BY <1>3
  <1>9. RecordsIn(thread) \in X
    BY <1>6, <1>7, <1>8 DEF IsFinding
  <1> QED
    BY <1>9 DEF X

\* Nothing that is told has changed, and nobody else follows.
LEMMA HistoriesStay ==
  ASSUME HistoriesTell, UNCHANGED <<passed, ended, history>>, begun \subseteq begun',
         Announced' \subseteq Announced
  PROVE  HistoriesTell'
  <1>1. SUFFICES ASSUME NEW q \in Announced' PROVE q \in begun' /\ HistoryTells(q)'
    BY DEF HistoriesTell
  <1>2. q \in begun /\ HistoryTells(q)
    BY DEF HistoriesTell
  <1>3. HistoryTells(q)'
    BY <1>2 DEF HistoryTells, Shows, Outcome, At
  <1> QED
    BY <1>2, <1>3

\* Requests are where they were when only the thread changes.
LEMMA RequestsStay ==
  ASSUME RequestsFit, UNCHANGED <<passed, ended, history, begun>>, lost \subseteq lost',
         \A q, how : RecordedAs(q, how) => RecordedAs(q, how)',
         \A q : Recorded(q)' => Recorded(q) \/ q \in lost' \/ (Finished(q) /\ RecordedAs(q, At(q)))'
  PROVE  RequestsFit'
  <1> SUFFICES ASSUME NEW q \in Requests PROVE RequestFits(q)'
    BY DEF RequestsFit
  <1>1. RequestFits(q)
    BY DEF RequestsFit
  <1>2. At(q)' = At(q) /\ Finished(q)' = Finished(q)
    BY DEF Finished, At
  <1>3. RecordedAs(q, At(q)) => RecordedAs(q, At(q))'
    BY <1>2 DEF RecordedAs
  <1> QED
    BY <1>1, <1>2, <1>3 DEF RequestFits

\* A connection of the stream opens.
LEMMA ConnectKeeps ==
  ASSUME IInv, Connect
  PROVE  IInv'
  <1>0. TypesOK /\ RequestsFit /\ HistoriesTell
    BY DEF IInv
  <1>1. /\ UNCHANGED <<passed, begun, ended, lost, released, active, history, thread, merged,
                       snapshot, wire, drops, page, shown, pending, post, asking, due>>
        /\ link = "down" /\ link' = "replaying" /\ queued' = <<>> /\ followed' = None
    BY DEF Connect, requests, bus, upstream, browser
  <1>2. TypesOK'
    <2>1. <<>> \in Seq(Requests)
      BY EmptySeq
    <2> QED
      BY <1>0, <1>1, <2>1 DEF TypesOK, RequestTypes, BusTypes, RouteTypes, BrowserTypes
  <1>3. \A q, how : (Recorded(q)' <=> Recorded(q)) /\ (RecordedAs(q, how)' <=> RecordedAs(q, how))
    BY <1>1 DEF Recorded, RecordedAs
  <1>4. RequestsFit'
    BY <1>0, <1>1, <1>3, RequestsStay
  <1>5. PublicationsMerged' /\ SnapshotFits'
    BY <1>1, <1>3 DEF IInv, PublicationsMerged, SnapshotFits
  <1>6. LinkFits'
    BY <1>1 DEF IInv, LinkFits
  <1>7. HistoriesTell'
    <2>1. Announced' \subseteq Announced
      BY <1>1 DEF Announced, ToSet
    <2> QED
      BY <1>0, <1>1, <2>1, HistoriesStay
  <1>8. FollowsWell' /\ OfferFits'
    BY <1>1 DEF FollowsWell, OfferFits
  <1>9. EndingsAreTold'
    BY <1>1, <1>3 DEF IInv, EndingsAreTold, EndingIsTold, Ahead, Now
  <1> QED
    BY <1>2, <1>4, <1>5, <1>6, <1>7, <1>8, <1>9 DEF IInv

\* The route has read the conversation.
LEMMA ReadRecordsKeeps ==
  ASSUME IInv, ReadRecords
  PROVE  IInv'
  <1>0. TypesOK /\ RequestsFit /\ HistoriesTell
    BY DEF IInv
  <1>1. /\ UNCHANGED <<passed, begun, ended, lost, released, active, history, thread, merged,
                       queued, followed, wire, drops, page, shown, pending, post, asking, due>>
        /\ link = "replaying" /\ link' = "read" /\ snapshot' = RecordsIn(thread)
    BY DEF ReadRecords, requests, bus, upstream, browser
  <1>2. snapshot' \in Seq(Records) /\ \A i \in DOMAIN snapshot' : RecordedAs(snapshot'[i].about, snapshot'[i].outcome)
    BY <1>0, <1>1, RecordsInFit
  <1>3. TypesOK'
    BY <1>0, <1>1, <1>2 DEF TypesOK, RequestTypes, BusTypes, RouteTypes, BrowserTypes
  <1>4. \A q, how : (Recorded(q)' <=> Recorded(q)) /\ (RecordedAs(q, how)' <=> RecordedAs(q, how))
    BY <1>1 DEF Recorded, RecordedAs
  <1>5. RequestsFit'
    BY <1>0, <1>1, <1>4, RequestsStay
  <1>6. PublicationsMerged' /\ SnapshotFits'
    BY <1>1, <1>2, <1>4 DEF IInv, PublicationsMerged, SnapshotFits
  <1>7. LinkFits'
    BY <1>1 DEF IInv, LinkFits, Newest
  <1>8. HistoriesTell'
    <2>1. Announced' \subseteq Announced
      BY <1>1 DEF Announced
    <2> QED
      BY <1>0, <1>1, <2>1, HistoriesStay
  <1>9. FollowsWell' /\ OfferFits'
    BY <1>1 DEF FollowsWell, OfferFits
  <1>10. EndingsAreTold'
    BY <1>1, <1>4 DEF IInv, EndingsAreTold, EndingIsTold, Ahead, Now
  <1> QED
    BY <1>3, <1>5, <1>6, <1>7, <1>8, <1>9, <1>10 DEF IInv

\* The connection is gone, and what was on the wire with it.
LEMMA HangUpKeeps ==
  ASSUME IInv, HangUp, drops < MaxDrops, drops' = drops + 1,
         UNCHANGED <<passed, begun, ended, released, upstream, browser>>,
         \/ UNCHANGED <<lost, bus>>
         \/ lost' = lost \cup Running /\ active' = None /\ history' = [r \in Requests |-> <<>>]
  PROVE  IInv'
  <1>0. TypesOK /\ RequestsFit /\ HistoriesTell
    BY DEF IInv
  <1>1. /\ UNCHANGED <<thread, merged, page, shown, pending, post, asking, due>>
        /\ link' \in {"unopened", "down"} /\ queued' = <<>> /\ followed' = None
        /\ snapshot' = <<>> /\ wire' = <<>>
    BY DEF HangUp, upstream, browser
  <1>2. /\ lost \subseteq lost' /\ lost' \subseteq begun'
        /\ active' \in {active, None} /\ active' \in Requests \cup {None}
        /\ history' \in [Requests -> Seq(BusEvents)]
        /\ \A r \in Requests : r \notin begun => history'[r] = <<>>
    <2>1. CASE UNCHANGED <<lost, bus>>
      BY <1>0, <2>1 DEF bus, TypesOK, RequestTypes, BusTypes, RequestsFit, RequestFits
    <2>2. CASE lost' = lost \cup Running /\ active' = None /\ history' = [r \in Requests |-> <<>>]
      <3>1. <<>> \in Seq(BusEvents)
        BY EmptySeq
      <3> QED
        BY <1>0, <2>2, <3>1 DEF TypesOK, RequestTypes, Running
    <2> QED
      BY <2>1, <2>2
  <1>3. TypesOK'
    <2>1. <<>> \in Seq(Requests) /\ <<>> \in Seq(Records) /\ <<>> \in Seq(Events)
      BY EmptySeq
    <2>2. drops' \in 0..MaxDrops
      BY <1>0, BoundsAreNumbers DEF TypesOK, RouteTypes
    <2>8. RequestTypes' /\ BusTypes'
      BY <1>0, <1>1, <1>2, <2>1, <2>2 DEF TypesOK, RequestTypes, BusTypes
    <2>9. RouteTypes' /\ BrowserTypes'
      BY <1>0, <1>1, <1>2, <2>1, <2>2 DEF TypesOK, RouteTypes, BrowserTypes
    <2> QED
      BY <2>8, <2>9 DEF TypesOK
  <1>4. \A q, how : (Recorded(q)' <=> Recorded(q)) /\ (RecordedAs(q, how)' <=> RecordedAs(q, how))
    BY <1>1 DEF Recorded, RecordedAs
  <1>5. RequestsFit'
    <2> SUFFICES ASSUME NEW q \in Requests PROVE RequestFits(q)'
      BY DEF RequestsFit
    <2>1. RequestFits(q)
      BY <1>0 DEF RequestsFit
    <2> QED
      BY <1>2, <1>4, <2>1 DEF RequestFits, Finished, At
  <1>6. PublicationsMerged' /\ SnapshotFits'
    BY <1>1 DEF IInv, PublicationsMerged, SnapshotFits
  <1>7. LinkFits'
    BY <1>1, <1>2 DEF IInv, LinkFits
  <1>8. HistoriesTell'
    <2>1. CASE UNCHANGED <<lost, bus>>
      <3>1. Announced' \subseteq Announced
        BY <1>1, <1>2 DEF Announced, ToSet
      <3> QED
        BY <1>0, <2>1, <3>1, HistoriesStay DEF bus
    <2>2. CASE active' = None
      <3>1. Announced' = {}
        BY <1>1, <2>2 DEF Announced, ToSet
      <3> QED
        BY <3>1 DEF HistoriesTell
    <2> QED
      BY <2>1, <2>2
  <1>9. FollowsWell' /\ OfferFits'
    BY <1>1 DEF FollowsWell, OfferFits
  <1>10. EndingsAreTold'
    <2>1. Now \in Readers /\ ReadAll(Now, <<>>) = Now
      BY <1>0, NowFits, ReadNone
    <2>2. Ahead' = Now
      BY <1>1, <2>1 DEF Ahead, Now
    <2>3. EndingIsTold(page)'
      BY <1>1, <1>4 DEF IInv, EndingsAreTold, EndingIsTold
    <2> QED
      BY <1>1, <2>2, <2>3 DEF EndingsAreTold, EndingIsTold, Now
  <1> QED
    BY <1>3, <1>5, <1>6, <1>7, <1>8, <1>9, <1>10 DEF IInv

-------------------------------------------------------------------------------
(* What the route replays *)

RecordsResent(base, s) == Folded(Resent, base, s)

\* Resending the records of s one after the other.
ResendsIn(X, E) == \A x \in X, e \in E : Resent(x, e) \in X
IsResending(run, X, base, s) ==
    /\ run \in [0..Len(s) -> X] /\ run[0] = base
    /\ \A i \in 1..Len(s) : run[i] = Resent(run[i - 1], s[i])
    /\ RecordsResent(base, s) = run[Len(s)]

\* Resending, as a fold over the records, goes through a run.
LEMMA ResentRuns ==
  ASSUME NEW X, NEW E, ResendsIn(X, E), NEW base \in X, NEW s \in Seq(E)
  PROVE  \E run : IsResending(run, X, base, s)
  <1> DEFINE n == Len(s)
             step == [i \in 1..n |-> [x \in X |-> Resent(x, s[i])]]
             Eq(f) == f = [i \in 0..n |-> IF i = 0 THEN base
                             ELSE CHOOSE y \in {Resent(x, s[i]) : x \in {f[i - 1]}} : TRUE]
             upTo == CHOOSE f : Eq(f)
  <1>1. n \in Nat /\ \A i \in 1..n : s[i] \in E
    OBVIOUS
  <1>2. step \in [1..n -> [X -> X]]
    BY <1>1 DEF ResendsIn
  <1>3. PICK run : IsRun(run, X, base, n, step)
    <2> HIDE DEF step, n
    <2> QED
      BY <1>1, <1>2, RunExists
  <1>4. \A i \in 1..n : run[i - 1] \in X /\ run[i] = Resent(run[i - 1], s[i])
    <2> SUFFICES ASSUME NEW i \in 1..n PROVE run[i - 1] \in X /\ run[i] = Resent(run[i - 1], s[i])
      OBVIOUS
    <2>1. run[i - 1] \in X
      BY <1>3 DEF IsRun
    <2> QED
      BY <1>3, <2>1 DEF IsRun
  <1>5. \A f : \A i \in 1..n : (CHOOSE y \in {Resent(x, s[i]) : x \in {f[i - 1]}} : TRUE) = Resent(f[i - 1], s[i])
    OBVIOUS
  <1>6. Eq(run)
    BY <1>3, <1>4, <1>5, <1>1 DEF IsRun
  <1>7. Eq(upTo)
    BY <1>6
  <1>8. upTo[0] = base /\ \A i \in 1..n : upTo[i] = Resent(upTo[i - 1], s[i])
    <2> HIDE DEF upTo
    <2> QED
      BY <1>1, <1>5, <1>7
  <1>9. \A i \in 1..n : upTo[i - 1] \in X => upTo[i] = step[i][upTo[i - 1]]
    <2> HIDE DEF upTo
    <2> QED
      BY <1>8
  <1>10. upTo[n] = run[n]
    <2> HIDE DEF upTo, step, n
    <2>1. \A i \in 0..n : upTo[i] = run[i]
      <3>1. TakesSteps(upTo, X, base, n, step)
        BY <1>8, <1>9 DEF TakesSteps
      <3> QED
        BY <1>3, <3>1, RunIsUnique
    <2> QED
      BY <1>1, <2>1
  <1>11. RecordsResent(base, s) = upTo[n]
    BY DEF RecordsResent, Folded
  <1> QED
    BY <1>3, <1>4, <1>10, <1>11 DEF IsRun, IsResending


\* A replayed record is told as the ending of its own request.
LEMMA ReplayedReads ==
  ASSUME NEW record \in Records, RecordedAs(record.about, record.outcome), NEW x \in Readers
  PROVE  /\ Replayed(record) \in Seq(Events)
         /\ EndingIsTold(ReadAll(x, Replayed(record)).page)
  <1> DEFINE q == record.about
             first == <<"request", q, FALSE>>
             middle == [i \in DOMAIN record.stages |-> <<"stage", record.stages[i]>>]
             last == <<"done", record.outcome>>
             X == {y \in Readers : y.page.request = q /\ ~y.page.live /\ y.page.outcome = "none"}
             E == {"stage"} \X Stages
  <1>1. q \in Requests /\ record.stages \in Trails /\ record.outcome \in Terminal /\ q # None
    BY NoneIsNoRequest DEF Records
  <1>2. first \in Events /\ last \in Events /\ E \subseteq Events
    BY <1>1 DEF Events, BusEvents
  <1>3. middle \in Seq(E)
    <2>1. /\ record.stages \in Seq(Stages) /\ Len(record.stages) \in Nat
          /\ DOMAIN record.stages = 1..Len(record.stages)
          /\ \A i \in 1..Len(record.stages) : record.stages[i] \in Stages
      BY <1>1 DEF Trails
    <2>2. middle \in [1..Len(record.stages) -> E]
      BY <2>1
    <2> HIDE DEF middle, E
    <2> QED
      BY <2>1, <2>2
  <1>4. Replayed(record) = <<first>> \o middle \o <<last>>
    BY DEF Replayed
  <1>5. StaysIn(X, E)
    <2> SUFFICES ASSUME NEW y \in X, NEW e \in E PROVE Read(y, e) \in X
      BY DEF StaysIn
    <2>1. e \in Events /\ e[1] = "stage" /\ y \in Readers /\ y.page \in Pages
      BY <1>2 DEF Readers
    <2>2. Apply(y.page, e) = [y.page EXCEPT !.trail = Extended(@, e[2])]
      BY <2>1 DEF Apply, ApplyStage
    <2>3. Read(y, e) \in Readers /\ Read(y, e).page = Apply(y.page, e)
      BY <2>1, ReadFits
    <2> QED
      BY <2>1, <2>2, <2>3 DEF Pages
  <1>6. Read(x, first) \in X
    <2>1. x.page \in Pages
      BY DEF Readers
    <2>2. Apply(x.page, first) = [x.page EXCEPT !.request = q, !.live = FALSE, !.trail = <<>>,
                                                !.outcome = "none", !.inFlight = FALSE]
      BY DEF Apply, ApplyRequest
    <2>3. Read(x, first) \in Readers /\ Read(x, first).page = Apply(x.page, first)
      BY <1>2, ReadFits
    <2>4. Apply(x.page, first).request = q /\ ~Apply(x.page, first).live
          /\ Apply(x.page, first).outcome = "none"
      BY <2>1, <2>2 DEF Pages
    <2> QED
      BY <2>3, <2>4, Zenon
  <1> HIDE DEF first, middle, last, E, q
  <1>7. ReadAll(Read(x, first), middle) \in X
    <2> DEFINE y == Read(x, first)
    <2> HIDE DEF X, y
    <2>1. y \in X
      BY <1>6 DEF y
    <2>2. PICK run : IsReading(run, X, y, middle)
      BY <1>3, <1>5, <2>1, ReadRuns
    <2>3. Len(middle) \in 0..Len(middle)
      BY <1>3
    <2>4. ReadAll(y, middle) \in X
      BY <2>2, <2>3 DEF IsReading
    <2> QED
      BY <2>4 DEF y
  <1>8. middle \in Seq(Events)
    BY <1>2, <1>3
  <1>9. Replayed(record) \in Seq(Events)
    BY <1>2, <1>4, <1>8
  <1> DEFINE z == ReadAll(Read(x, first), middle)
  <1>10. ReadAll(x, Replayed(record)) = Read(z, last)
    <2>1. <<first>> \in Seq(Events) /\ <<last>> \in Seq(Events)
      BY <1>2
    <2> DEFINE half == <<first>> \o middle
    <2>2. half \in Seq(Events)
      BY <1>8, <2>1
    <2>3. ReadAll(x, half) = ReadAll(ReadAll(x, <<first>>), middle)
      BY <1>8, <2>1, ReadJoins
    <2>4. ReadAll(x, <<first>>) = Read(x, first)
      BY <1>2, ReadOne
    <2>5. z \in Readers
      BY <1>7
    <2> HIDE DEF half, z
    <2>6. ReadAll(x, half \o <<last>>) = ReadAll(ReadAll(x, half), <<last>>)
      BY <2>1, <2>2, ReadJoins
    <2>7. ReadAll(z, <<last>>) = Read(z, last)
      BY <1>2, <2>5, ReadOne
    <2>8. ReadAll(x, half) = z
      BY <2>3, <2>4 DEF z
    <2> QED
      BY <1>4, <2>6, <2>7, <2>8 DEF half
  <1>11. z \in Readers /\ z.page.request = q /\ ~z.page.live
    BY <1>7
  <1> HIDE DEF z
  <1>12. /\ Read(z, last).page.request = q
         /\ Read(z, last).page.live = z.page.live
         /\ Read(z, last).page.outcome = record.outcome
    <2>1. z.page \in Pages
      BY <1>11 DEF Readers
    <2>2. Apply(z.page, last) = [z.page EXCEPT !.trail = Extended(@, record.outcome),
                                               !.outcome = record.outcome, !.inFlight = FALSE]
      BY DEF Apply, ApplyDone, last
    <2>3. Read(z, last).page = Apply(z.page, last)
      BY <1>2, <1>11, ReadFits
    <2> QED
      BY <1>11, <2>1, <2>2, <2>3 DEF Pages
  <1> QED
    BY <1>1, <1>9, <1>10, <1>11, <1>12 DEF EndingIsTold, q

\* Whoever reads what is replayed is told no ending but those of the comments.
ReplayTells(sent) ==
    \A x \in Readers : EndingIsTold(x.page) => EndingIsTold(ReadAll(x, sent).page)

\* Whatever page reads the replay shows endings that are recorded.
LEMMA ReplayFits ==
  ASSUME TypesOK, SnapshotFits
  PROVE  Replay \in Seq(Events) /\ ReplayTells(Replay)
  <1> DEFINE X == {sent \in Seq(Events) : ReplayTells(sent)}
             E == {record \in Records : RecordedAs(record.about, record.outcome)}
  <1>1. snapshot \in Seq(E)
    <2>1. snapshot \in Seq(Records) /\ \A i \in 1..Len(snapshot) : snapshot[i] \in E
      BY DEF TypesOK, RouteTypes, SnapshotFits
    <2> HIDE DEF E
    <2> QED
      BY <2>1
  <1>2. <<>> \in X
    <2>1. <<>> \in Seq(Events)
      BY EmptySeq
    <2>2. ReplayTells(<<>>)
      BY ReadNone DEF ReplayTells
    <2> QED
      BY <2>1, <2>2
  <1>3. ResendsIn(X, E)
    <2> SUFFICES ASSUME NEW sent \in X, NEW record \in E PROVE Resent(sent, record) \in X
      BY DEF ResendsIn
    <2>1. Replayed(record) \in Seq(Events) /\ sent \in Seq(Events) /\ ReplayTells(sent)
      BY ReplayedReads, SomeReader
    <2>2. Resent(sent, record) = sent \o Replayed(record)
      BY DEF Resent
    <2>3. sent \o Replayed(record) \in Seq(Events)
      BY <2>1
    <2>4. ASSUME NEW x \in Readers
          PROVE  EndingIsTold(ReadAll(x, sent \o Replayed(record)).page)
      <3>1. ReadAll(x, sent) \in Readers
        BY <2>1, ReadStays
      <3>2. ReadAll(x, sent \o Replayed(record)) = ReadAll(ReadAll(x, sent), Replayed(record))
        BY <2>1, ReadJoins
      <3> QED
        BY <3>1, <3>2, ReplayedReads
    <2>5. ReplayTells(sent \o Replayed(record))
      BY <2>4 DEF ReplayTells
    <2> QED
      BY <2>2, <2>3, <2>5
  <1> HIDE DEF X, E
  <1>4. PICK run : IsResending(run, X, <<>>, snapshot)
    BY <1>1, <1>2, <1>3, ResentRuns
  <1>5. Replay = RecordsResent(<<>>, snapshot)
    BY DEF Replay, RecordsResent
  <1>6. Len(snapshot) \in 0..Len(snapshot)
    BY <1>1
  <1>7. Replay \in X
    BY <1>4, <1>5, <1>6 DEF IsResending
  <1> QED
    BY <1>7 DEF X

-------------------------------------------------------------------------------
(* What the route follows *)

\* Following the requests of s one after the other.
FollowsIn(X, E) == \A x \in X, e \in E : Follow(x, e) \in X
IsFollowing(run, X, base, s) ==
    /\ run \in [0..Len(s) -> X] /\ run[0] = base
    /\ \A i \in 1..Len(s) : run[i] = Follow(run[i - 1], s[i])
    /\ FollowEach(base, s) = run[Len(s)]

\* Following, as a fold over the announcements, goes through a run.
LEMMA FollowRuns ==
  ASSUME NEW X, NEW E, FollowsIn(X, E), NEW base \in X, NEW s \in Seq(E)
  PROVE  \E run : IsFollowing(run, X, base, s)
  <1> DEFINE n == Len(s)
             step == [i \in 1..n |-> [x \in X |-> Follow(x, s[i])]]
             Eq(f) == f = [i \in 0..n |-> IF i = 0 THEN base
                             ELSE CHOOSE y \in {Follow(x, s[i]) : x \in {f[i - 1]}} : TRUE]
             upTo == CHOOSE f : Eq(f)
  <1>1. n \in Nat /\ \A i \in 1..n : s[i] \in E
    OBVIOUS
  <1>2. step \in [1..n -> [X -> X]]
    BY <1>1 DEF FollowsIn
  <1>3. PICK run : IsRun(run, X, base, n, step)
    <2> HIDE DEF step, n
    <2> QED
      BY <1>1, <1>2, RunExists
  <1>4. \A i \in 1..n : run[i - 1] \in X /\ run[i] = Follow(run[i - 1], s[i])
    <2> SUFFICES ASSUME NEW i \in 1..n PROVE run[i - 1] \in X /\ run[i] = Follow(run[i - 1], s[i])
      OBVIOUS
    <2>1. run[i - 1] \in X
      BY <1>3 DEF IsRun
    <2> QED
      BY <1>3, <2>1 DEF IsRun
  <1>5. \A f : \A i \in 1..n : (CHOOSE y \in {Follow(x, s[i]) : x \in {f[i - 1]}} : TRUE) = Follow(f[i - 1], s[i])
    OBVIOUS
  <1>6. Eq(run)
    BY <1>3, <1>4, <1>5, <1>1 DEF IsRun
  <1>7. Eq(upTo)
    BY <1>6
  <1>8. upTo[0] = base /\ \A i \in 1..n : upTo[i] = Follow(upTo[i - 1], s[i])
    <2> HIDE DEF upTo
    <2> QED
      BY <1>1, <1>5, <1>7
  <1>9. \A i \in 1..n : upTo[i - 1] \in X => upTo[i] = step[i][upTo[i - 1]]
    <2> HIDE DEF upTo
    <2> QED
      BY <1>8
  <1>10. upTo[n] = run[n]
    <2> HIDE DEF upTo, step, n
    <2>1. \A i \in 0..n : upTo[i] = run[i]
      <3>1. TakesSteps(upTo, X, base, n, step)
        BY <1>8, <1>9 DEF TakesSteps
      <3> QED
        BY <1>3, <3>1, RunIsUnique
    <2> QED
      BY <1>1, <2>1
  <1>11. FollowEach(base, s) = upTo[n]
    BY DEF FollowEach, Folded
  <1> QED
    BY <1>3, <1>4, <1>10, <1>11 DEF IsRun, IsFollowing


\* What is sent on shows what is followed, and of an ending that it is to be read again.
FollowFits(to) ==
    /\ to.followed \in Requests \cup {None} /\ to.sent \in Seq(Events)
    /\ to.followed # None =>
          /\ Shows(ReadAll(Ahead, to.sent).page, to.followed)
          /\ to.followed \in ended => ReadAll(Ahead, to.sent).due
Followings == {to \in [followed : Requests \cup {None}, sent : Seq(Events)] : FollowFits(to)}

\* Who follows an announced request is sent its history, and so shows it as it is.
LEMMA FollowShows ==
  ASSUME TypesOK, HistoriesTell, NEW to \in [followed : Requests \cup {None}, sent : Seq(Events)],
         FollowFits(to), NEW r \in Requests, r \in Announced
  PROVE  /\ Follow(to, r) \in Followings /\ Follow(to, r).followed = r
  <1>1. CASE to.followed = r
    BY <1>1 DEF Follow, Followings
  <1>2. CASE to.followed # r
    <2> DEFINE req == << <<"request", r, TRUE>> >>
               next == [followed |-> r, sent |-> to.sent \o req \o history[r]]
               x == ReadAll(Ahead, to.sent)
    <2>1. Follow(to, r) = next
      BY <1>2 DEF Follow
    <2>2. /\ Ahead \in Readers /\ history[r] \in Seq(Events) /\ to.sent \in Seq(Events)
          /\ req \in Seq(Events)
      <3>1. history[r] \in Seq(BusEvents) /\ Seq(BusEvents) \subseteq Seq(Events)
        BY DEF TypesOK, BusTypes, Events
      <3>2. <<"request", r, TRUE>> \in Events
        BY DEF Events
      <3> QED
        BY <3>1, <3>2, NowFits
    <2>3. x \in Readers
      BY <2>2, ReadStays
    <2>4. HistoryTells(r)
      BY DEF HistoriesTell
    <2>5. LET turned == ReadAll(x, req \o history[r])
          IN  Shows(turned.page, r) /\ (r \in ended => turned.due)
      <3> HIDE DEF x
      <3> QED
        BY <2>3, <2>4, TurnedTo
    <2> HIDE DEF req
    <2>6. req \o history[r] \in Seq(Events)
      BY <2>2
    <2>7. to.sent \o req \o history[r] = to.sent \o (req \o history[r])
      <3> DEFINE kept == history[r]
      <3>1. kept \in Seq(Events)
        BY <2>2
      <3> HIDE DEF kept
      <3>2. (to.sent \o req) \o kept = to.sent \o (req \o kept)
        BY <2>2, <3>1, JoinsAnyHow, Zenon
      <3> QED
        BY <3>2, Zenon DEF kept
    <2>8. ReadAll(Ahead, to.sent \o (req \o history[r])) = ReadAll(x, req \o history[r])
      BY <2>2, <2>6, ReadJoins
    <2>9. next.sent \in Seq(Events) /\ next.followed = r /\ ReadAll(Ahead, next.sent) = ReadAll(x, req \o history[r])
      BY <2>2, <2>6, <2>7, <2>8
    <2>10. next \in [followed : Requests \cup {None}, sent : Seq(Events)]
      BY <2>9
    <2> HIDE DEF next, x
    <2>11. FollowFits(next)
      BY <2>5, <2>9 DEF FollowFits
    <2> QED
      BY <2>1, <2>9, <2>10, <2>11 DEF Followings
  <1> QED
    BY <1>1, <1>2

\* The last one announced is followed in the end.
LEMMA FollowEachShows ==
  ASSUME TypesOK, HistoriesTell, NEW to \in Followings
  PROVE  /\ FollowEach(to, queued) \in Followings
         /\ FollowEach(to, queued).followed = IF queued = <<>> THEN to.followed ELSE Last(queued)
         /\ queued = <<>> => FollowEach(to, queued) = to
  <1> DEFINE E == {r \in Requests : r \in Announced}
             n == Len(queued)
  <1>1. queued \in Seq(E) /\ queued \in Seq(Requests)
    <2>1. queued \in Seq(Requests) /\ \A i \in 1..Len(queued) : queued[i] \in E
      BY NoneIsNoRequest DEF TypesOK, RouteTypes, Announced, ToSet
    <2> HIDE DEF E
    <2> QED
      BY <2>1
  <1>2. \A t \in Followings, r \in E : Follow(t, r) \in Followings /\ Follow(t, r).followed = r
    <2> SUFFICES ASSUME NEW t \in Followings, NEW r \in E
                 PROVE  Follow(t, r) \in Followings /\ Follow(t, r).followed = r
      OBVIOUS
    <2>1. t \in [followed : Requests \cup {None}, sent : Seq(Events)] /\ FollowFits(t)
      BY DEF Followings
    <2> QED
      BY <2>1, FollowShows
  <1>3. FollowsIn(Followings, E)
    BY <1>2 DEF FollowsIn
  <1> HIDE DEF E
  <1>4. PICK run : IsFollowing(run, Followings, to, queued)
    BY <1>1, <1>3, FollowRuns
  <1>5. n \in Nat /\ n \in 0..n
    BY <1>1
  <1>6. FollowEach(to, queued) = run[n] /\ run[n] \in Followings /\ run[0] = to
    BY <1>4, <1>5 DEF IsFollowing
  <1>7. CASE queued = <<>>
    BY <1>1, <1>6, <1>7
  <1>8. CASE queued # <<>>
    <2>1. n > 0 /\ n \in 1..n /\ n - 1 \in 0..n
      BY <1>1, <1>5, <1>8, EmptySeq
    <2>2. run[n] = Follow(run[n - 1], queued[n]) /\ run[n - 1] \in Followings /\ queued[n] \in E
      BY <1>1, <1>4, <2>1 DEF IsFollowing
    <2>3. run[n].followed = queued[n]
      BY <1>2, <2>2
    <2> QED
      BY <1>6, <1>8, <2>3 DEF Last
  <1> QED
    BY <1>7, <1>8

\* The end of a replay: what was in flight and what was announced meanwhile is followed.
LEMMA SettleKeeps ==
  ASSUME IInv, NEW to, NEW inFlight \in BOOLEAN, Settle(to, inFlight),
         link \in {"read", "inspecting"},
         to \in [followed : Requests \cup {None}, sent : Seq(Events)],
         ReplayTells(to.sent),
         to.followed = None => ~inFlight \/ queued # <<>>,
         to.followed = None /\ queued = <<>> => active = None,
         to.followed # None => /\ inFlight /\ to.followed = active
                               /\ Shows(ReadAll(Ahead, to.sent).page, active),
         UNCHANGED <<requests, bus, upstream, drops, browser>>
  PROVE  IInv'
  <1>0. /\ TypesOK /\ RequestsFit /\ HistoriesTell /\ LinkFits /\ None \notin Requests
        /\ Ahead \in Readers /\ to.sent \in Seq(Events)
    BY NowFits, NoneIsNoRequest DEF IInv
  <1> DEFINE sync == <<"sync", inFlight>>
             synced == [to EXCEPT !.sent = Append(@, sync)]
             told == FollowEach(synced, queued)
  <1>1. /\ link' = "open" /\ followed' = told.followed /\ wire' = wire \o told.sent
        /\ queued' = <<>> /\ snapshot' = <<>>
        /\ UNCHANGED <<passed, begun, ended, lost, released, active, history, thread, merged,
                       drops, page, shown, pending, post, asking, due>>
    BY DEF Settle, requests, bus, upstream, browser
  <1>2. sync \in Events
    BY DEF Events
  <1>3. /\ synced \in [followed : Requests \cup {None}, sent : Seq(Events)]
        /\ synced.followed = to.followed /\ synced.sent = Append(to.sent, sync)
    <2> HIDE DEF sync
    <2> QED
      BY <1>0, <1>2
  <1> DEFINE x == ReadAll(Ahead, to.sent)
             y == ReadAll(Ahead, synced.sent)
  <1>4. x \in Readers /\ y = Read(x, sync)
    <2> HIDE DEF sync
    <2>1. x \in Readers
      BY <1>0, ReadStays
    <2>2. <<sync>> \in Seq(Events)
      BY <1>2
    <2>3. synced.sent = to.sent \o <<sync>>
      BY <1>0, <1>2, <1>3, AppendIsConcat
    <2>4. ReadAll(Ahead, to.sent \o <<sync>>) = ReadAll(x, <<sync>>)
      BY <1>0, <2>2, ReadJoins
    <2>5. ReadAll(x, <<sync>>) = Read(x, sync)
      BY <1>2, <2>1, ReadOne
    <2> QED
      BY <2>1, <2>3, <2>4, <2>5
  <1> HIDE DEF synced
  <1>5. /\ y \in Readers /\ x.page \in Pages
        /\ y.page = [x.page EXCEPT !.synced = TRUE, !.inFlight = inFlight /\ x.page.outcome = "none"]
    <2> HIDE DEF x, y
    <2>1. x.page \in Pages
      BY <1>4 DEF Readers
    <2> QED
      BY <1>4, <2>1, ReadSync
  <1> HIDE DEF x, y
  <1>6. /\ y.page.request = x.page.request /\ y.page.live = x.page.live /\ y.page.trail = x.page.trail
        /\ y.page.outcome = x.page.outcome
        /\ y.page.inFlight = (inFlight /\ x.page.outcome = "none")
    BY <1>5 DEF Pages
  <1>7. to.followed # None => active \notin ended /\ Outcome(active) = "none"
    BY <1>0 DEF LinkFits, Outcome
  <1>8. synced \in Followings
    <2>1. ASSUME to.followed # None PROVE Shows(y.page, to.followed) /\ to.followed \notin ended
      <3>1. Shows(x.page, active) /\ to.followed = active /\ inFlight
        BY <2>1 DEF x
      <3> QED
        BY <1>6, <1>7, <2>1, <3>1 DEF Shows, Tells
    <2> QED
      BY <1>3, <2>1 DEF Followings, FollowFits, y
  <1>9. /\ told \in Followings
        /\ told.followed = IF queued = <<>> THEN to.followed ELSE Last(queued)
        /\ queued = <<>> => told = synced
    BY <1>0, <1>3, <1>8, FollowEachShows
  <1> HIDE DEF told
  <1>10. told.followed \in Requests \cup {None} /\ told.sent \in Seq(Events) /\ FollowFits(told)
    BY <1>9 DEF Followings
  <1>11. Ahead' = ReadAll(Ahead, told.sent)
    <2>1. wire \in Seq(Events) /\ Now \in Readers /\ Now' = Now
      BY <1>0, <1>1, NowFits DEF TypesOK, RouteTypes, Now
    <2>2. ReadAll(Now, wire \o told.sent) = ReadAll(ReadAll(Now, wire), told.sent)
      BY <1>10, <2>1, ReadJoins
    <2> QED
      BY <1>1, <2>1, <2>2 DEF Ahead
  <1>12. TypesOK'
    <2>1. <<>> \in Seq(Requests) /\ <<>> \in Seq(Records)
      BY EmptySeq
    <2>2. wire' \in Seq(Events)
      BY <1>0, <1>1, <1>10 DEF TypesOK, RouteTypes
    <2>8. RequestTypes' /\ BusTypes'
      BY <1>0, <1>1, <1>10, <2>1, <2>2 DEF TypesOK, RequestTypes, BusTypes
    <2>9. RouteTypes' /\ BrowserTypes'
      BY <1>0, <1>1, <1>10, <2>1, <2>2 DEF TypesOK, RouteTypes, BrowserTypes
    <2> QED
      BY <2>8, <2>9 DEF TypesOK
  <1>13. \A q, how : (Recorded(q)' <=> Recorded(q)) /\ (RecordedAs(q, how)' <=> RecordedAs(q, how))
    BY <1>1 DEF Recorded, RecordedAs
  <1>14. RequestsFit'
    BY <1>0, <1>1, <1>13, RequestsStay
  <1>15. PublicationsMerged' /\ SnapshotFits'
    BY <1>1 DEF IInv, PublicationsMerged, SnapshotFits
  <1>16. queued # <<>> => Last(queued) \in ToSet(queued) /\ Last(queued) \in Requests
    <2>1. queued \in Seq(Requests)
      BY <1>0 DEF TypesOK, RouteTypes
    <2>2. queued # <<>> => Len(queued) \in 1..Len(queued)
      BY <2>1, EmptySeq
    <2> QED
      BY <2>1, <2>2 DEF Last, ToSet
  <1>17. LinkFits'
    <2>1. told.followed = None => active = None
      BY <1>0, <1>9, <1>16
    <2>2. told.followed # None => Newest(told.followed)
      BY <1>0, <1>9 DEF LinkFits, Newest
    <2> QED
      BY <1>0, <1>1, <2>1, <2>2 DEF LinkFits, Newest
  <1>18. HistoriesTell'
    <2>1. Announced' \subseteq Announced
      <3>1. told.followed \in {None, active} \cup ToSet(queued)
        BY <1>9, <1>16
      <3>2. ToSet(queued') = {}
        BY <1>1 DEF ToSet
      <3> QED
        BY <1>1, <3>1, <3>2 DEF Announced
    <2> QED
      BY <1>0, <1>1, <2>1, HistoriesStay
  <1>19. \A q \in Requests : Shows(Ahead.page, q)' <=> Shows(Ahead'.page, q)
    BY <1>1 DEF Shows, Outcome, At
  <1>20. told.followed = None => Ahead' = y /\ ~y.page.inFlight
    <2>1. told.followed = None => queued = <<>> /\ to.followed = None
      BY <1>0, <1>9, <1>16
    <2> QED
      BY <1>6, <1>9, <1>11, <2>1 DEF y
  <1>21. FollowsWell'
    BY <1>0, <1>1, <1>10, <1>11, <1>19, <1>20 DEF FollowsWell, FollowFits
  <1>22. EndingsAreTold'
    <2>1. EndingIsTold(page)'
      BY <1>1, <1>13 DEF IInv, EndingsAreTold, EndingIsTold
    <2>2. EndingIsTold(Ahead'.page)
      <3>1. CASE told.followed = None
        <4>1. EndingIsTold(x.page)
          BY <1>0 DEF IInv, EndingsAreTold, ReplayTells, x
        <4> QED
          BY <1>6, <1>20, <3>1, <4>1 DEF EndingIsTold
      <3>2. CASE told.followed # None
        <4>1. Shows(Ahead'.page, told.followed) /\ told.followed \in Requests
          BY <1>10, <1>11, <3>2 DEF FollowFits
        <4>2. RequestFits(told.followed)
          BY <1>0, <4>1 DEF RequestsFit
        <4> QED
          BY <1>0, <4>1, <4>2 DEF EndingIsTold, Shows, Tells, Outcome, RequestFits
      <3> QED
        BY <3>1, <3>2
    <2>3. EndingIsTold(Ahead.page)'
      BY <1>13, <2>2 DEF EndingIsTold
    <2> QED
      BY <2>1, <2>3 DEF EndingsAreTold
  <1>23. OfferFits'
    BY <1>1, <1>10, <1>11 DEF OfferFits, FollowFits
  <1> QED
    BY <1>12, <1>14, <1>15, <1>17, <1>18, <1>21, <1>22, <1>23 DEF IInv

\* What the bus knows to be in flight is followed from the start.
LEMMA ReplayRecordsKeeps ==
  ASSUME IInv, ReplayRecords
  PROVE  IInv'
  <1>0. /\ TypesOK /\ RequestsFit /\ HistoriesTell /\ LinkFits /\ SnapshotFits
        /\ None \notin Requests /\ Ahead \in Readers /\ Now \in Readers
    BY NowFits, NoneIsNoRequest DEF IInv
  <1>1. Replay \in Seq(Events) /\ ReplayTells(Replay)
    BY <1>0, ReplayFits
  <1>2. link = "read" /\ wire = <<>> /\ UNCHANGED <<requests, bus, upstream, drops, browser>>
    BY <1>0 DEF ReplayRecords, LinkFits
  <1> DEFINE replayed == [followed |-> None, sent |-> Replay]
  <1>3. CASE active # None
    <2> DEFINE to == Follow(replayed, active)
    <2>1. active \in Requests /\ active \in Announced
      BY <1>0, <1>3 DEF TypesOK, BusTypes, Announced
    <2>2. /\ replayed \in [followed : Requests \cup {None}, sent : Seq(Events)]
          /\ replayed.followed = None /\ replayed.sent = Replay
      BY <1>1
    <2>3. FollowFits(replayed)
      BY <1>1, <2>2 DEF FollowFits
    <2>4. to \in Followings /\ to.followed = active
      <3> HIDE DEF replayed
      <3> QED
        BY <1>0, <2>1, <2>2, <2>3, FollowShows
    <2>5. ReplayTells(to.sent)
      <3>1. to.sent = Replay \o << <<"request", active, TRUE>> >> \o history[active]
        BY <1>0, <1>3 DEF Follow
      <3> DEFINE rest == << <<"request", active, TRUE>> >> \o history[active]
      <3>2. /\ << <<"request", active, TRUE>> >> \in Seq(Events) /\ history[active] \in Seq(Events)
            /\ rest \in Seq(Events)
        <4>1. <<"request", active, TRUE>> \in Events
          BY <2>1 DEF Events
        <4>2. history[active] \in Seq(BusEvents) /\ Seq(BusEvents) \subseteq Seq(Events)
          BY <1>0, <2>1 DEF TypesOK, BusTypes, Events
        <4> QED
          BY <4>1, <4>2
      <3>3. to.sent = Replay \o rest
        <4> DEFINE req == << <<"request", active, TRUE>> >>
                   kept == history[active]
        <4>1. Replay \in Seq(Events) /\ req \in Seq(Events) /\ kept \in Seq(Events)
          BY <1>1, <3>2
        <4> HIDE DEF req, kept
        <4>2. (Replay \o req) \o kept = Replay \o (req \o kept)
          BY <4>1, JoinsAnyHow, Zenon
        <4> QED
          BY <3>1, <4>2, Zenon DEF req, kept
      <3>4. ASSUME NEW x \in Readers PROVE EndingIsTold(ReadAll(x, Replay \o rest).page)
        <4> DEFINE y == ReadAll(x, Replay)
        <4>1. y \in Readers
          BY <1>1, ReadStays
        <4> HIDE DEF y
        <4>2. HistoryTells(active) /\ RequestFits(active)
          BY <1>0, <2>1 DEF HistoriesTell, RequestsFit
        <4>3. Shows(ReadAll(y, rest).page, active)
          BY <1>0, <2>1, <4>1, <4>2, TurnedTo
        <4> HIDE DEF rest
        <4>4. ReadAll(x, Replay \o rest) = ReadAll(y, rest)
          BY <1>1, <3>2, ReadJoins DEF y
        <4> QED
          BY <1>0, <2>1, <4>2, <4>3, <4>4 DEF EndingIsTold, Shows, Tells, Outcome, RequestFits
      <3> HIDE DEF rest, to
      <3> QED
        BY <3>3, <3>4 DEF ReplayTells
    <2>6. Settle(to, TRUE)
      BY <1>3 DEF ReplayRecords
    <2> HIDE DEF to
    <2>7. /\ to \in [followed : Requests \cup {None}, sent : Seq(Events)]
          /\ to.followed # None /\ Shows(ReadAll(Ahead, to.sent).page, active)
      BY <1>0, <1>3, <2>4 DEF Followings, FollowFits
    <2> QED
      BY <1>2, <2>4, <2>5, <2>6, <2>7, SettleKeeps
  <1>4. CASE active = None
    <2>1. /\ link' = "inspecting" /\ wire' = wire \o Replay /\ snapshot' = <<>>
          /\ UNCHANGED <<passed, begun, ended, lost, released, active, history, thread, merged,
                         queued, followed, drops, page, shown, pending, post, asking, due>>
      BY <1>2, <1>4 DEF ReplayRecords, requests, bus, upstream, browser
    <2>2. wire' = Replay
      BY <1>1, <1>2, <2>1, ConcatEmptySeq
    <2>3. TypesOK'
      <3>1. <<>> \in Seq(Records)
        BY EmptySeq
      <3> QED
        BY <1>0, <1>1, <2>1, <2>2, <3>1 DEF TypesOK, RequestTypes, BusTypes, RouteTypes, BrowserTypes
    <2>4. \A q, how : (Recorded(q)' <=> Recorded(q)) /\ (RecordedAs(q, how)' <=> RecordedAs(q, how))
      BY <2>1 DEF Recorded, RecordedAs
    <2>5. RequestsFit'
      BY <1>0, <2>1, <2>4, RequestsStay
    <2>6. PublicationsMerged' /\ SnapshotFits'
      BY <2>1 DEF IInv, PublicationsMerged, SnapshotFits
    <2>7. LinkFits'
      BY <1>0, <1>2, <1>4, <2>1 DEF LinkFits, Newest
    <2>8. HistoriesTell'
      <3>1. Announced' \subseteq Announced
        BY <2>1 DEF Announced
      <3> QED
        BY <1>0, <2>1, <3>1, HistoriesStay
    <2>9. FollowsWell' /\ OfferFits'
      BY <2>1 DEF FollowsWell, OfferFits
    <2>10. EndingsAreTold'
      <3>1. Ahead = Now /\ Ahead' = ReadAll(Now, Replay)
        BY <1>0, <1>2, <2>1, <2>2, ReadNone DEF Ahead, Now
      <3>2. EndingIsTold(ReadAll(Now, Replay).page)
        BY <1>0, <1>1, <3>1 DEF IInv, EndingsAreTold, ReplayTells
      <3> QED
        BY <2>1, <2>4, <3>1, <3>2 DEF IInv, EndingsAreTold, EndingIsTold
    <2> QED
      BY <2>3, <2>5, <2>6, <2>7, <2>8, <2>9, <2>10 DEF IInv
  <1> QED
    BY <1>3, <1>4

\* The route settles on the lock's answer, when nothing was announced meanwhile.
LEMMA InspectLockKeeps ==
  ASSUME IInv, InspectLock
  PROVE  IInv'
  <1> DEFINE to == [followed |-> None, sent |-> <<>>]
             inFlight == queued # <<>>
  <1>0. TypesOK /\ LinkFits
    BY DEF IInv
  <1>1. /\ Settle(to, inFlight) /\ link = "inspecting"
        /\ UNCHANGED <<requests, bus, upstream, drops, browser>>
    BY DEF InspectLock
  <1>2. <<>> \in Seq(Events) /\ ReplayTells(<<>>)
    BY EmptySeq, ReadNone DEF ReplayTells
  <1>3. /\ to \in [followed : Requests \cup {None}, sent : Seq(Events)]
        /\ to.followed = None /\ ReplayTells(to.sent)
    BY <1>2
  <1>4. /\ inFlight \in BOOLEAN /\ (~inFlight \/ queued # <<>>)
        /\ (queued = <<>> => active = None)
    BY <1>0, <1>1 DEF LinkFits
  <1> HIDE DEF to, inFlight
  <1> QED
    BY <1>1, <1>3, <1>4, SettleKeeps

\* The connection drops, or the route fails to read the conversation.
LEMMA DropKeeps ==
  ASSUME IInv, Drop \/ ReadFails
  PROVE  IInv'
  <1>1. /\ HangUp /\ drops < MaxDrops /\ drops' = drops + 1
        /\ UNCHANGED <<requests, bus, upstream, browser>>
    BY DEF Drop, ReadFails
  <1>2. UNCHANGED <<passed, begun, ended, lost, released>>
    BY <1>1 DEF requests
  <1> QED
    BY <1>1, <1>2, HangUpKeeps

\* The process restarts: bus and connection are gone, its requests with them.
LEMMA RestartKeeps ==
  ASSUME IInv, Restart
  PROVE  IInv'
  <1>1. /\ HangUp /\ drops < MaxDrops /\ drops' = drops + 1
        /\ UNCHANGED <<passed, begun, ended, released, upstream, browser>>
        /\ lost' = lost \cup Running /\ active' = None /\ history' = [r \in Requests |-> <<>>]
    BY DEF Restart
  <1> QED
    BY <1>1, HangUpKeeps

-------------------------------------------------------------------------------
(* The steps that nobody is told of *)

\* Nothing is published and nothing sent or read: the offer of a page that followed a
\* request to its end stays what it was, or is brought up to date.
LEMMA QuietKeeps ==
  ASSUME IInv, TypesOK', PublicationsMerged', lost \subseteq lost',
         UNCHANGED <<passed, begun, ended, active, history, merged,
                     link, snapshot, queued, followed, wire, page>>,
         \A q, how : RecordedAs(q, how) => RecordedAs(q, how)',
         \A q : Recorded(q)' => Recorded(q) \/ (Finished(q) /\ RecordedAs(q, At(q)))',
         \/ thread' = thread /\ shown' = shown /\ (due => due')
         \/ thread' = thread /\ shown'.state = PublishState(RecordsIn(thread), merged)
         \/ Last(thread').about \notin ended
  PROVE  IInv'
  <1>0. TypesOK /\ RequestsFit /\ HistoriesTell /\ Now \in Readers /\ wire \in Seq(Events)
    BY NowFits DEF IInv, TypesOK, RouteTypes
  <1>1. /\ Now' \in Readers /\ Now'.page = Now.page /\ Now.due = due /\ Now'.due = due'
        /\ due \in BOOLEAN /\ due' \in BOOLEAN
    BY <1>0 DEF TypesOK, BrowserTypes, Now, Readers
  <1>2. Ahead'.page = Ahead.page /\ ((due => due') => (Ahead.due => Ahead'.due))
    <2>1. CASE due => due'
      <3>1. /\ ReadAll(Now, wire).page = ReadAll(Now', wire).page
            /\ ReadAll(Now, wire).due => ReadAll(Now', wire).due
        BY <1>0, <1>1, <2>1, ReadAgrees
      <3> QED
        BY <3>1 DEF Ahead
    <2>2. CASE ~(due => due')
      <3>1. ReadAll(Now', wire).page = ReadAll(Now, wire).page
        BY <1>0, <1>1, <2>2, ReadAgrees
      <3> QED
        BY <2>2, <3>1 DEF Ahead
    <2> QED
      BY <2>1, <2>2
  <1>3. RequestsFit'
    BY <1>0, RequestsStay
  <1>4. SnapshotFits'
    BY DEF IInv, SnapshotFits
  <1>5. LinkFits'
    BY DEF IInv, LinkFits, Newest
  <1>6. HistoriesTell'
    <2>1. Announced' \subseteq Announced
      BY DEF Announced
    <2> QED
      BY <1>0, <2>1, HistoriesStay
  <1>7. FollowsWell'
    BY <1>2 DEF IInv, FollowsWell, Shows, Outcome, At
  <1>8. EndingsAreTold'
    BY <1>2 DEF IInv, EndingsAreTold, EndingIsTold
  <1>9. OfferFits'
    <2> SUFFICES ASSUME link = "open", followed # None, followed \in ended,
                        Last(thread').about = followed, MergeIsRecorded'
                 PROVE  Ahead'.due \/ shown'.state = PublishState(RecordsIn(thread'), merged)
      BY DEF OfferFits
    <2>1. CASE thread' = thread /\ shown' = shown /\ (due => due')
      <3>1. MergeIsRecorded /\ Last(thread).about = followed
        BY <2>1 DEF MergeIsRecorded
      <3>2. Ahead.due \/ shown.state = PublishState(RecordsIn(thread), merged)
        BY <3>1 DEF IInv, OfferFits
      <3> QED
        BY <1>2, <2>1, <3>2
    <2>2. CASE thread' = thread /\ shown'.state = PublishState(RecordsIn(thread), merged)
      BY <2>2
    <2> QED
      BY <2>1, <2>2
  <1> QED
    BY <1>3, <1>4, <1>5, <1>6, <1>7, <1>8, <1>9 DEF IInv

\* The lock is given up, or the record cannot be written.
LEMMA ReleaseKeeps ==
  ASSUME IInv, NEW r \in Requests, Release(r) \/ RecordFails(r)
  PROVE  IInv'
  <1>0. TypesOK
    BY DEF IInv
  <1>1. /\ UNCHANGED <<passed, begun, ended, active, history, thread, merged, link, snapshot,
                       queued, followed, wire, drops, page, shown, pending, post, asking, due>>
        /\ released' = released \cup {r} /\ lost' \in {lost, lost \cup {r}} /\ r \in begun
    BY DEF Release, RecordFails, Running, bus, upstream, route, browser
  <1>2. TypesOK'
    BY <1>0, <1>1 DEF TypesOK, RequestTypes, BusTypes, RouteTypes, BrowserTypes
  <1>3. /\ PublicationsMerged'
        /\ \A q, how : (Recorded(q)' <=> Recorded(q)) /\ (RecordedAs(q, how)' <=> RecordedAs(q, how))
    BY <1>1 DEF IInv, PublicationsMerged, Recorded, RecordedAs
  <1> QED
    BY <1>1, <1>2, <1>3, QuietKeeps

\* The record of a change request is in the thread before its ending is told.
LEMMA RecordKeeps ==
  ASSUME IInv, NEW r \in Requests, Record(r)
  PROVE  IInv'
  <1> DEFINE c == RecordOf(r, passed[r], At(r))
  <1>0. TypesOK /\ thread \in Seq(Comments) /\ Finished(r) /\ r \notin ended /\ ~IsPublication(r)
    BY DEF IInv, TypesOK, BusTypes, Record, Running, IsPublication
  <1>1. /\ UNCHANGED <<passed, begun, ended, lost, released, active, history, merged, link, snapshot,
                       queued, followed, wire, drops, page, shown, pending, post, asking, due>>
        /\ thread' = Append(thread, c)
    BY DEF Record, requests, bus, route, browser
  <1>2. c \in Comments /\ c.about = r /\ c.outcome = At(r) /\ At(r)' = At(r)
    BY <1>0, <1>1 DEF RecordOf, Comments, TypesOK, RequestTypes, Trails, Finished, At
  <1> HIDE DEF c
  <1>3. /\ thread' \in Seq(Comments) /\ Last(thread') = c
        /\ \A q, how : RecordedAs(q, how) => RecordedAs(q, how)'
        /\ \A q : Recorded(q)' => Recorded(q) \/ (c.about = q /\ IsRecord(c))
        /\ \A i \in DOMAIN thread' : (i \in DOMAIN thread /\ thread'[i] = thread[i]) \/ thread'[i] = c
        /\ \E i \in DOMAIN thread' : thread'[i] = c
    BY <1>0, <1>1, <1>2, OneComment
  <1>4. TypesOK'
    BY <1>0, <1>1, <1>3 DEF TypesOK, RequestTypes, BusTypes, RouteTypes, BrowserTypes
  <1>5. PublicationsMerged'
    BY <1>0, <1>1, <1>2, <1>3 DEF IInv, PublicationsMerged, IsPublication
  <1>6. /\ \A q : Recorded(q)' => Recorded(q) \/ (Finished(q) /\ RecordedAs(q, At(q)))'
        /\ Last(thread').about \notin ended
    <2>1. (Finished(r) /\ RecordedAs(r, At(r)))'
      <3>1. RecordedAs(r, At(r))'
        BY <1>2, <1>3 DEF RecordedAs
      <3> QED
        BY <1>0, <1>2, <3>1 DEF Finished
    <2>2. \A q : Recorded(q)' => Recorded(q) \/ q = r
      BY <1>2, <1>3
    <2> QED
      BY <1>0, <1>2, <1>3, <2>1, <2>2
  <1> QED
    BY <1>1, <1>3, <1>4, <1>5, <1>6, QuietKeeps

\* page.tsx: the conversation as it is.
LEMMA RefreshKeeps ==
  ASSUME IInv, Refresh
  PROVE  IInv'
  <1>0. TypesOK
    BY DEF IInv
  <1>1. /\ UNCHANGED <<passed, begun, ended, lost, released, active, history, thread, merged, link,
                       snapshot, queued, followed, wire, drops, page, pending, post, asking>>
        /\ due' = FALSE /\ shown' = Rendered
    BY DEF Refresh, server, requests, bus, upstream, route
  <1>2. shown' \in Shown /\ shown'.state = PublishState(RecordsIn(thread), merged)
    BY <1>1 DEF Rendered, Shown, PublishState
  <1>3. TypesOK'
    <2>1. RequestTypes' /\ BusTypes'
      BY <1>0, <1>1 DEF TypesOK, RequestTypes, BusTypes
    <2>2. RouteTypes' /\ BrowserTypes'
      BY <1>0, <1>1, <1>2 DEF TypesOK, RouteTypes, BrowserTypes
    <2> QED
      BY <2>1, <2>2 DEF TypesOK
  <1>4. /\ PublicationsMerged'
        /\ \A q, how : (Recorded(q)' <=> Recorded(q)) /\ (RecordedAs(q, how)' <=> RecordedAs(q, how))
    BY <1>1 DEF IInv, PublicationsMerged, Recorded, RecordedAs
  <1> QED
    BY <1>1, <1>2, <1>3, <1>4, QuietKeeps

\* The composer and the publish controls wait for answers and change nothing that is told.
LEMMA ControlsKeep ==
  ASSUME IInv, \/ Send \/ ArriveRefused \/ Hear \/ SendFails \/ Ask \/ Cancel
               \/ UNCHANGED vars
  PROVE  IInv'
  <1>0. TypesOK
    BY DEF IInv
  <1>1. /\ UNCHANGED <<passed, begun, ended, lost, released, active, history, thread, merged, link,
                       snapshot, queued, followed, wire, drops, page, shown>>
        /\ pending' \in BOOLEAN /\ asking' \in BOOLEAN /\ due' \in BOOLEAN /\ (due => due')
        /\ post' \in {"idle", "sent", "accepted", "refused"}
    <2>1. pending \in BOOLEAN /\ asking \in BOOLEAN /\ due \in BOOLEAN
          /\ post \in {"idle", "sent", "accepted", "refused"}
      BY <1>0 DEF TypesOK, BrowserTypes
    <2>2. CASE Send
      BY <2>1, <2>2 DEF Send, server, requests, bus, upstream, route
    <2>3. CASE ArriveRefused
      BY <2>1, <2>3 DEF ArriveRefused, server, requests, bus, upstream, route
    <2>4. CASE Hear
      BY <2>1, <2>4 DEF Hear, server, requests, bus, upstream, route
    <2>5. CASE SendFails
      BY <2>1, <2>5 DEF SendFails, server, requests, bus, upstream, route
    <2>6. CASE Ask
      BY <2>1, <2>6 DEF Ask, server, requests, bus, upstream, route
    <2>7. CASE Cancel
      BY <2>1, <2>7 DEF Cancel, server, requests, bus, upstream, route
    <2>8. CASE UNCHANGED vars
      BY <2>1, <2>8 DEF vars, browser, server, requests, bus, upstream, route
    <2> QED
      BY <2>2, <2>3, <2>4, <2>5, <2>6, <2>7, <2>8
  <1>2. TypesOK'
    BY <1>0, <1>1 DEF TypesOK, RequestTypes, BusTypes, RouteTypes, BrowserTypes
  <1>3. /\ PublicationsMerged'
        /\ \A q, how : (Recorded(q)' <=> Recorded(q)) /\ (RecordedAs(q, how)' <=> RecordedAs(q, how))
    BY <1>1 DEF IInv, PublicationsMerged, Recorded, RecordedAs
  <1> QED
    BY <1>1, <1>2, <1>3, QuietKeeps

\* A page as it is loaded tells no ending.
LEMMA InitialFits ==
  ASSUME NEW b \in BOOLEAN
  PROVE  InitialState(b) \in Pages /\ EndingIsTold(InitialState(b))
  <1>1. (IF b THEN <<"starting">> ELSE <<>>) \in Trails
    <2>1. <<>> \in Trails /\ "starting" \in Stages
      BY EmptySeq DEF Trails, Stages
    <2> QED
      BY <2>1 DEF Trails
  <1> QED
    BY <1>1 DEF InitialState, Pages, Told, EndingIsTold

\* A page is loaded, and with it what it offers.
LEMMA OpenPageKeeps ==
  ASSUME IInv, OpenPage
  PROVE  IInv'
  <1>0. TypesOK /\ RequestsFit /\ HistoriesTell
    BY DEF IInv
  <1>1. /\ UNCHANGED <<passed, begun, ended, lost, released, active, history, thread, merged,
                       snapshot, queued, followed, wire, drops, pending, post, asking, due>>
        /\ link = "unopened" /\ link' = "down"
        /\ shown' = Rendered /\ page' = InitialState(LockHolders # {})
    BY DEF OpenPage, requests, bus, upstream
  <1>2. page' \in Pages /\ EndingIsTold(page') /\ shown' \in Shown
    <2>1. (LockHolders # {}) \in BOOLEAN
      OBVIOUS
    <2> QED
      BY <1>1, <2>1, InitialFits DEF Rendered, Shown, PublishState
  <1>3. TypesOK'
    BY <1>0, <1>1, <1>2 DEF TypesOK, RequestTypes, BusTypes, RouteTypes, BrowserTypes
  <1>4. \A q, how : (Recorded(q)' <=> Recorded(q)) /\ (RecordedAs(q, how)' <=> RecordedAs(q, how))
    BY <1>1 DEF Recorded, RecordedAs
  <1>5. RequestsFit'
    BY <1>0, <1>1, <1>4, RequestsStay
  <1>6. PublicationsMerged' /\ SnapshotFits'
    BY <1>1, <1>4 DEF IInv, PublicationsMerged, SnapshotFits
  <1>7. LinkFits' /\ wire = <<>>
    BY <1>1 DEF IInv, LinkFits, Newest
  <1>8. HistoriesTell'
    <2>1. Announced' \subseteq Announced
      BY <1>1 DEF Announced
    <2> QED
      BY <1>0, <1>1, <2>1, HistoriesStay
  <1>9. FollowsWell' /\ OfferFits'
    BY <1>1 DEF FollowsWell, OfferFits
  <1>10. EndingsAreTold'
    <2>1. Now' \in Readers /\ Now'.page = page'
      BY <1>0, <1>1, <1>2 DEF TypesOK, BrowserTypes, Now, Readers
    <2>2. ReadAll(Now', <<>>) = Now'
      BY <2>1, ReadNone
    <2>3. Ahead'.page = page'
      BY <1>1, <1>7, <2>1, <2>2 DEF Ahead
    <2>4. EndingIsTold(page)'
      BY <1>2, <1>4 DEF EndingIsTold
    <2> QED
      BY <2>3, <2>4 DEF EndingsAreTold, EndingIsTold
  <1> QED
    BY <1>3, <1>5, <1>6, <1>7, <1>8, <1>9, <1>10 DEF IInv

\* The browser catches up: it is where it was going to be.
LEMMA ReadEventsKeeps ==
  ASSUME IInv, ReadEvents
  PROVE  IInv'
  <1>0. TypesOK /\ RequestsFit /\ HistoriesTell /\ Ahead \in Readers
    BY NowFits DEF IInv
  <1>1. /\ UNCHANGED <<passed, begun, ended, lost, released, active, history, thread, merged, link,
                       snapshot, queued, followed, drops, shown, post, asking>>
        /\ wire' = <<>> /\ page' = Ahead.page /\ pending' = Ahead.pending /\ due' = Ahead.due
    BY DEF ReadEvents, Ahead, requests, bus, upstream, route
  <1>2. Now' = Ahead
    BY <1>0, <1>1 DEF Now, Readers
  <1>3. Ahead' = Ahead
    BY <1>0, <1>1, <1>2, ReadNone DEF Ahead
  <1>4. TypesOK'
    <2>1. <<>> \in Seq(Events)
      BY EmptySeq
    <2> QED
      BY <1>0, <1>1, <2>1 DEF TypesOK, RequestTypes, BusTypes, RouteTypes, BrowserTypes, Readers
  <1>5. \A q, how : (Recorded(q)' <=> Recorded(q)) /\ (RecordedAs(q, how)' <=> RecordedAs(q, how))
    BY <1>1 DEF Recorded, RecordedAs
  <1>6. RequestsFit'
    BY <1>0, <1>1, <1>5, RequestsStay
  <1>7. PublicationsMerged' /\ SnapshotFits'
    BY <1>1, <1>5 DEF IInv, PublicationsMerged, SnapshotFits
  <1>8. LinkFits'
    BY <1>1 DEF IInv, LinkFits, Newest
  <1>9. HistoriesTell'
    <2>1. Announced' \subseteq Announced
      BY <1>1 DEF Announced
    <2> QED
      BY <1>0, <1>1, <2>1, HistoriesStay
  <1>10. FollowsWell'
    BY <1>1, <1>3 DEF IInv, FollowsWell, Shows, Outcome, At
  <1>11. EndingsAreTold'
    BY <1>1, <1>3, <1>5 DEF IInv, EndingsAreTold, EndingIsTold
  <1>12. OfferFits'
    BY <1>1, <1>3 DEF IInv, OfferFits, MergeIsRecorded
  <1> QED
    BY <1>4, <1>6, <1>7, <1>8, <1>9, <1>10, <1>11, <1>12 DEF IInv

-------------------------------------------------------------------------------
(* The theorems *)

\* Nothing has begun and nothing is told.
LEMMA Initially == Init => IInv
  <1> SUFFICES ASSUME Init PROVE IInv
    OBVIOUS
  <1>1. <<>> \in Trails /\ <<>> \in Seq(BusEvents) /\ <<>> \in Seq(Comments) /\ <<>> \in Seq(Records)
        /\ <<>> \in Seq(Requests) /\ <<>> \in Seq(Events)
    BY EmptySeq DEF Trails
  <1>2. InitialState(FALSE) \in Pages /\ EndingIsTold(InitialState(FALSE))
    BY InitialFits
  <1>3. TypesOK
    <2>1. RequestTypes
      BY <1>1, FS_EmptySet DEF Init, RequestTypes
    <2>2. BusTypes
      BY <1>1 DEF Init, BusTypes
    <2>3. RouteTypes
      BY <1>1, BoundsAreNumbers DEF Init, RouteTypes
    <2>4. BrowserTypes
      BY <1>2 DEF Init, BrowserTypes, Shown
    <2> QED
      BY <2>1, <2>2, <2>3, <2>4 DEF TypesOK
  <1>4. \A q : ~Recorded(q)
    BY DEF Init, Recorded, RecordedAs
  <1>5. RequestsFit
    BY <1>4 DEF Init, RequestsFit, RequestFits
  <1>6. PublicationsMerged /\ SnapshotFits
    BY DEF Init, PublicationsMerged, SnapshotFits
  <1>7. LinkFits
    BY DEF Init, LinkFits
  <1>8. HistoriesTell
    BY DEF Init, HistoriesTell, Announced, ToSet
  <1>9. FollowsWell /\ OfferFits
    BY DEF Init, FollowsWell, OfferFits
  <1>10. EndingsAreTold
    <2>1. Ahead = Now
      BY <1>3, NowFits, ReadNone DEF Ahead, Init
    <2> QED
      BY <1>2, <2>1 DEF Init, EndingsAreTold, Now
  <1> QED
    BY <1>3, <1>5, <1>6, <1>7, <1>8, <1>9, <1>10 DEF IInv

\* Every step keeps the invariant, one case per action.
LEMMA Stepwise == IInv /\ [Next]_vars => IInv'
  <1> SUFFICES ASSUME IInv, [Next]_vars PROVE IInv'
    OBVIOUS
  <1>1. ASSUME NEW r \in Requests, BeginElsewhere(r) \/ ArriveAccepted(r) PROVE IInv'
    <2>1. BeginChange(r) /\ UNCHANGED <<page, shown, pending, asking, due>>
          /\ post' \in {"idle", "sent", "accepted", "refused"}
      BY <1>1 DEF BeginElsewhere, ArriveAccepted, browser, IInv, TypesOK, BrowserTypes
    <2> QED
      BY <2>1, BeginChangeKeeps
  <1>2. ASSUME NEW r \in Requests, PublishElsewhere(r) \/ Press(r) PROVE IInv'
    <2>1. BeginPublication(r) /\ UNCHANGED <<page, shown, pending, post>>
          /\ asking' \in BOOLEAN /\ due' \in BOOLEAN /\ (due => due')
      BY <1>2 DEF PublishElsewhere, Press, browser, IInv, TypesOK, BrowserTypes
    <2> QED
      BY <2>1, BeginPublicationKeeps
  <1>3. ASSUME NEW r \in Requests, Work(r) PROVE IInv'
    <2>1. CASE \E s \in LegalNext(At(r)) : Advance(r, s)
      BY <2>1, AdvanceKeeps
    <2>2. CASE Release(r)
      BY <2>2, ReleaseKeeps
    <2>3. CASE Record(r)
      BY <2>3, RecordKeeps
    <2>4. CASE Finish(r)
      BY <2>4, FinishKeeps
    <2>5. CASE PassChecks(r)
      BY <2>5, PassChecksKeeps
    <2>6. CASE Act(r)
      BY <2>6, ActKeeps
    <2>7. CASE \E outcome \in {"succeeded", "failed"} : Built(r, outcome)
      BY <2>7, BuiltKeeps
    <2>8. CASE \E acted \in BOOLEAN : Fail(r, acted)
      BY <2>8, FailKeeps
    <2> QED
      BY <1>3, <2>1, <2>2, <2>3, <2>4, <2>5, <2>6, <2>7, <2>8 DEF Work
  <1>4. ASSUME NEW r \in Requests, RecordFails(r) PROVE IInv'
    BY <1>4, ReleaseKeeps
  <1>5. CASE Stream
    BY <1>5, ConnectKeeps, ReadRecordsKeeps, ReplayRecordsKeeps, InspectLockKeeps DEF Stream
  <1>6. CASE Drop \/ ReadFails \/ Restart
    BY <1>6, DropKeeps, RestartKeeps
  <1>7. CASE OpenPage \/ ReadEvents \/ Refresh
    BY <1>7, OpenPageKeeps, ReadEventsKeeps, RefreshKeeps
  <1>8. CASE Send \/ ArriveRefused \/ Hear \/ SendFails \/ Ask \/ Cancel \/ UNCHANGED vars
    BY <1>8, ControlsKeep
  <1> QED
    BY <1>1, <1>2, <1>3, <1>4, <1>5, <1>6, <1>7, <1>8 DEF Next

\* The invariant holds for any requests, histories, pages and drops.
THEOREM Inductive == Spec => []IInv
  <1> QED
    BY Initially, Stepwise, PTL DEF Spec

\* Every variable keeps its type.
THEOREM TypeCorrect == Spec => []TypeOK
  <1>1. IInv => TypeOK
    <2> SUFFICES ASSUME IInv PROVE TypeOK
      OBVIOUS
    <2>1. TypesOK
      BY DEF IInv
    <2>2. ASSUME NEW r \in Requests, NEW i \in DOMAIN history[r]
          PROVE  history[r][i][1] \in {"stage", "output", "done"}
      <3>1. history[r] \in Seq(BusEvents)
        BY <2>1 DEF TypesOK, BusTypes
      <3>2. history[r][i] \in BusEvents
        BY <3>1
      <3> QED
        BY <3>2 DEF BusEvents
    <2>3. \A i \in DOMAIN thread : thread[i] \in Comments
      BY <2>1 DEF TypesOK, BusTypes
    <2> QED
      BY <2>1, <2>2, <2>3 DEF TypeOK, TypesOK, RequestTypes, BusTypes, RouteTypes, BrowserTypes,
                              Pages, Shown, Told, Trails
  <1> QED
    BY <1>1, Inductive, PTL

\* Who has read everything is where it was going to be.
LEMMA CaughtUpIsAhead ==
  ASSUME IInv, CaughtUp
  PROVE  Ahead = Now /\ Ahead.page = page /\ Ahead.due = due
  BY NowFits, ReadNone DEF IInv, CaughtUp, Ahead, Now

\* For any requests and any number of reconnections, restarts and requests that follow
\* one another: a page that has read everything is in flight exactly when the bus has an
\* announced request, and shows that one (useConversationStream.ts applySyncEvent, the
\* stream route's replay and queue, bus.ts announce).
THEOREM PageKnowsTheBus == Spec => []PageAgreesWithBus
  <1>1. IInv => PageAgreesWithBus
    <2> SUFFICES ASSUME IInv, CaughtUp
                 PROVE  /\ page.inFlight <=> active # None
                        /\ active # None => page.request = active
      BY DEF PageAgreesWithBus
    <2>1. /\ TypesOK /\ LinkFits /\ FollowsWell /\ RequestsFit /\ link = "open"
          /\ Ahead.page = page
      BY CaughtUpIsAhead DEF IInv, CaughtUp
    <2>2. CASE followed = None
      BY <2>1, <2>2 DEF LinkFits, FollowsWell
    <2>3. CASE followed # None
      <3>1. followed \in Requests /\ Shows(page, followed) /\ Newest(followed) /\ RequestFits(followed)
        BY <2>1, <2>3 DEF TypesOK, RouteTypes, FollowsWell, LinkFits, RequestsFit
      <3>2. page.inFlight <=> followed \notin ended
        BY <3>1 DEF Shows, Tells, Outcome, RequestFits, Finished, Terminal
      <3>3. page.request = followed
        BY <3>1 DEF Shows, Tells
      <3> QED
        BY <2>1, <2>3, <3>1, <3>2, <3>3 DEF Newest, LinkFits
    <2> QED
      BY <2>2, <2>3
  <1> QED
    BY <1>1, Inductive, PTL

\* For histories of any size: a page that follows a request and has read everything shows
\* each stage it passed and its ending, however late it joined and though outputs were
\* dropped on the way (bus.ts appendBounded; useConversationStream.ts).
THEOREM FollowersKnowTheTrail == Spec => []FollowedTrailIsWhole
  <1>1. IInv => FollowedTrailIsWhole
    <2> SUFFICES ASSUME IInv, CaughtUp, page.live, followed = page.request
                 PROVE  /\ page.trail = passed[page.request]
                        /\ page.outcome = IF page.request \in ended THEN At(page.request) ELSE "none"
      BY DEF FollowedTrailIsWhole
    <2>1. /\ TypesOK /\ FollowsWell /\ EndingIsTold(page) /\ link = "open" /\ Ahead.page = page
      BY CaughtUpIsAhead DEF IInv, CaughtUp, EndingsAreTold
    <2>2. followed \in Requests
      BY <2>1 DEF EndingIsTold, TypesOK, RouteTypes
    <2>3. Shows(page, followed)
      BY <2>1, <2>2 DEF FollowsWell
    <2> QED
      BY <2>3 DEF Shows, Tells, Outcome
  <1> QED
    BY <1>1, Inductive, PTL

\* However the connection replays, breaks and comes back: a page tells how a change ended
\* only once the conversation has it in writing, and tells what is written there
\* (run.ts finish).
THEOREM EndingsAreInWriting == Spec => []ToldOnlyWhenRecorded
  <1>1. IInv => ToldOnlyWhenRecorded
    BY DEF IInv, EndingsAreTold, EndingIsTold, ToldOnlyWhenRecorded, Recorded, RecordedAs, IsPublication
  <1> QED
    BY <1>1, Inductive, PTL

\* For pages of any size: who followed a request to its end is offered to publish exactly
\* when the server would, unless the conversation has more to tell or a merge was left out
\* of it (PublishControls.tsx selectPublishOffer; ConversationView.tsx, its refresh).
THEOREM OffersAreCurrent == Spec => []OfferIsCurrent
  <1>1. IInv => OfferIsCurrent
    <2> SUFFICES ASSUME IInv, CaughtUp, page.live, followed = page.request, ~due, ~Busy,
                        Last(thread).about = page.request, MergeIsRecorded
                 PROVE  Offer = "publish" <=> Allowed("publish")
      BY DEF OfferIsCurrent
    <2>1. /\ TypesOK /\ RequestsFit /\ FollowsWell /\ OfferFits /\ EndingIsTold(page) /\ link = "open"
          /\ Ahead.page = page /\ Ahead.due = due /\ followed # None
      BY CaughtUpIsAhead DEF IInv, CaughtUp, EndingsAreTold, EndingIsTold
    <2>2. followed \in Requests
      BY <2>1 DEF TypesOK, RouteTypes
    <2>3. ~page.inFlight
      BY <2>1 DEF Busy, InFlight, TypesOK, BrowserTypes, Pages
    <2>4. followed \in ended
      BY <2>1, <2>2, <2>3 DEF FollowsWell, Shows, Tells, Outcome
    <2>5. shown.state = PublishState(RecordsIn(thread), merged)
      BY <2>1, <2>4 DEF OfferFits
    <2> QED
      BY <2>5 DEF Offer, Allowed
  <1> QED
    BY <1>1, Inductive, PTL
===============================================================================
