--------------------------- MODULE Publication_proofs ---------------------------
(***************************************************************************)
(* Proofs about Publication, for every set of conversations, change        *)
(* requests, presses of the buttons and developers: the types, what the    *)
(* site may lose, and that an undisturbed publish puts live what the       *)
(* client was shown.                                                       *)
(***************************************************************************)
EXTENDS Publication, SequenceTheorems, TLAPS

Live == site[Len(site)]
OwnEdits(c) == {r \in Requests : Of[r] = c}

PubPlaces == {"idle", "gating", "comparing", "updating", "pushing", "previewing",
              "acting", "reverting", "recording", "over"}
PubRecs == [at : PubPlaces, kind : {"none", "publish", "undo"},
            conv : Conversations \cup {None}, tip : Tips]
ReqRecs == [at : {"idle", "working", "building", "ended", "over", "dead"}, tip : Tips,
            outcome : {"none", "previewed", "failed"}]
Deploys == [tip : Tips, state : {"building", "ready", "error"}]

\* The types, and that what anybody has read of the site is still there: commits are
\* never removed.
RepoOK ==
    /\ site \in Seq(SUBSET Edits) /\ site # <<>>
    /\ branch \in [Conversations -> Tips]
    /\ \A c \in Conversations : branch[c].base \in DOMAIN site
    /\ merged \in [Conversations -> 0..Len(site)]
    /\ \A c \in Conversations : merged[c] # 0 => merged[c] - 1 \in DOMAIN site
    /\ comments \in [Conversations -> Seq(Comments)]

HostOK ==
    /\ unlisted \subseteq Conversations
    /\ deploy \in [Conversations -> Deploys \cup {None}]
    /\ \A c \in Conversations : deploy[c] # None => deploy[c].tip.base \in DOMAIN site
    /\ shown \in [Conversations -> SUBSET Tips]
    /\ \A c \in Conversations : \A t \in shown[c] : t.base \in DOMAIN site
    /\ excused \cup halfway \subseteq Conversations

RequestsOK ==
    /\ lock \in Requests \cup {None}
    /\ request \in [Requests -> ReqRecs]
    /\ \A r \in Requests :
        /\ request[r].tip.base \in DOMAIN site
        /\ request[r].at = "ended" => request[r].outcome # "none"

\* A publication that was begun is one of a conversation, and of a kind.  Whoever is
\* about to revert has found the merge at the tip it read.
PublicationsOK ==
    /\ pub \in [Publications -> PubRecs]
    /\ \A p \in Publications :
        /\ pub[p].tip.base \in DOMAIN site
        /\ pub[p].at \notin {"idle", "over"} =>
            pub[p].conv \in Conversations /\ pub[p].kind # "none"
        /\ pub[p].at \in {"comparing", "updating", "pushing", "previewing"} => pub[p].kind = "publish"
        /\ pub[p].at = "reverting" =>
            /\ pub[p].kind = "undo"
            /\ merged[Conv(p)] # 0 /\ pub[p].tip.base = merged[Conv(p)]
        /\ pub[p].at = "recording" => merged[Conv(p)] # 0

BaseInv == RepoOK /\ HostOK /\ RequestsOK /\ PublicationsOK

\* A merge adds edits of its own conversation to the commit before it, and takes
\* nothing from it.
MergesAdd ==
    /\ \A c \in Conversations : branch[c].work \subseteq OwnEdits(c)
    /\ \A c \in Conversations : merged[c] # 0 =>
        /\ Before(c) \subseteq site[merged[c]]
        /\ Brought(c) \subseteq OwnEdits(c)

TakenBack(c) == merged[c] # 0 /\ Live \cap Brought(c) = {}

\* These comments have a record of an undo.
SaysUndone(s) == \E i \in DOMAIN s : s[i] = "undo"

\* What is recorded as taken back, or about to be, is.
UndoneIsTakenBack ==
    /\ \A c \in Conversations : SaysUndone(comments[c]) => TakenBack(c)
    /\ \A p \in Publications : pub[p].at = "recording" /\ pub[p].kind = "undo" => TakenBack(Conv(p))

SiteInv == BaseInv /\ MergesAdd /\ UndoneIsTakenBack

-------------------------------------------------------------------------------
AtWork(r) == request[r].at \in {"working", "building"}
Pending(r) == request[r].at \in {"working", "building", "ended"}

\* Who works on its change has the lock.
WorkersHoldLock == \A r \in Requests : AtWork(r) => lock = r

\* Two requests of a conversation that are both about to say how they ended, a request
\* beside a publication that decides, or two of those: each excuses the conversation.
OneAtATime ==
    /\ \A r, q \in Requests : r # q /\ Of[r] = Of[q] /\ Pending(r) /\ Pending(q) => Of[r] \in excused
    /\ \A p \in Publications, r \in Requests :
        Deciding(p) /\ Conv(p) = Of[r] /\ Pending(r) => Of[r] \in excused
    /\ \A p, o \in Publications :
        p # o /\ Deciding(p) /\ Deciding(o) /\ Conv(p) = Conv(o) => Conv(p) \in excused

ReadyWasShown ==
    \A c \in Conversations : deploy[c] # None /\ deploy[c].state = "ready" => deploy[c].tip \in shown[c]

Disturbed == excused \cup halfway \cup Overlong

\* The newest of these records says previewed.
PreviewedLast(s) == LastIs("previewed", Records, s)

\* A request that waits for its preview has the branch as it pushed it; one that was
\* shown it, too.
RequestKnowsBranch ==
    \A r \in Requests : Of[r] \notin Disturbed =>
        /\ request[r].at = "building" => request[r].tip = branch[Of[r]]
        /\ request[r].at = "ended" /\ request[r].outcome = "previewed" =>
            request[r].tip = branch[Of[r]] /\ request[r].tip \in shown[Of[r]]

\* A conversation whose newest record says previewed has a branch that was shown, unless
\* somebody is changing that, or it is published.
BranchWasShown ==
    \A c \in Conversations \ Disturbed :
        \/ ~PreviewedLast(comments[c])
        \/ merged[c] # 0
        \/ \E r \in OwnEdits(c) : Pending(r)
        \/ \E p \in Publications : pub[p].at = "previewing" /\ Conv(p) = c
        \/ branch[c] \in shown[c]

\* A publish under way that nobody came before was begun of a change that is ready; what
\* it is about to merge was shown.
PubKnows(p) ==
    Deciding(p) /\ pub[p].kind = "publish" /\ Conv(p) \notin Disturbed /\ merged[Conv(p)] = 0 =>
        /\ PreviewedLast(comments[Conv(p)])
        /\ pub[p].at = "previewing" => pub[p].tip = branch[Conv(p)]
        /\ pub[p].at = "acting" => pub[p].tip \in shown[Conv(p)]
PublishKnowsBranch == \A p \in Publications : PubKnows(p)

ShownInv ==
    /\ WorkersHoldLock /\ OneAtATime /\ ReadyWasShown
    /\ RequestKnowsBranch /\ BranchWasShown /\ PublishKnowsBranch
    /\ UndisturbedPublishWasShown

-------------------------------------------------------------------------------
(* What the actions do to the records, field by field *)

\* f becomes g by p going to `to` with the tip t in hand.
Goes(f, g, p, to, t) ==
    /\ g \in [Publications -> PubRecs]
    /\ \A q \in Publications \ {p} : g[q] = f[q]
    /\ g[p].at = to /\ g[p].kind = f[p].kind /\ g[p].conv = f[p].conv /\ g[p].tip = t

\* f becomes g by p having nothing under way any more.
Stops(f, g, p) ==
    /\ g \in [Publications -> PubRecs]
    /\ \A q \in Publications \ {p} : g[q] = f[q]
    /\ g[p] = Unpressed("over")

LEMMA GoesFacts ==
  ASSUME NEW f \in [Publications -> PubRecs], NEW g, NEW p \in Publications,
         NEW to \in PubPlaces
  PROVE  /\ g = [f EXCEPT ![p].at = to] => Goes(f, g, p, to, f[p].tip)
         /\ \A t \in Tips : g = [f EXCEPT ![p].at = to, ![p].tip = t] => Goes(f, g, p, to, t)
         /\ \A n \in Nat : g = [f EXCEPT ![p].at = to, ![p].tip.base = n]
                => Goes(f, g, p, to, [work |-> f[p].tip.work, base |-> n])
         /\ g = [f EXCEPT ![p] = Unpressed("over")] => Stops(f, g, p)
  <1> USE DEF PubRecs, Goes
  <1>1. g = [f EXCEPT ![p].at = to] => Goes(f, g, p, to, f[p].tip)
    OBVIOUS
  <1>2. ASSUME NEW t \in Tips, g = [f EXCEPT ![p].at = to, ![p].tip = t]
        PROVE  Goes(f, g, p, to, t)
    BY <1>2
  <1>3. ASSUME NEW n \in Nat, g = [f EXCEPT ![p].at = to, ![p].tip.base = n]
        PROVE  Goes(f, g, p, to, [work |-> f[p].tip.work, base |-> n])
    <2> DEFINE t == [work |-> f[p].tip.work, base |-> n]
    <2>1. t \in Tips /\ [f[p].tip EXCEPT !.base = n] = t
      BY DEF Tips
    <2>2. g = [f EXCEPT ![p].at = to, ![p].tip = t]
      <3>1. g[p] = [f[p] EXCEPT !.at = to, !.tip = t]
        <4>1. g[p] = [f[p] EXCEPT !.at = to, !.tip = [f[p].tip EXCEPT !.base = n]]
          BY <1>3
        <4> QED
          BY <2>1, <4>1, Zenon
      <3>2. g = [f EXCEPT ![p] = g[p]]
        BY <1>3
      <3> QED
        BY <3>1, <3>2
    <2> HIDE DEF t, Goes, PubRecs
    <2>3. Goes(f, g, p, to, t)
      BY <1>2, <2>1, <2>2, Zenon
    <2> QED
      BY <2>3, Zenon DEF t
  <1>4. g = [f EXCEPT ![p] = Unpressed("over")] => Stops(f, g, p)
    <2>1. Unpressed("over") \in PubRecs
      BY DEF Unpressed, NoTip, Tips, PubPlaces
    <2>2. QED
      BY <2>1 DEF Stops
  <1>5. QED
    BY <1>1, <1>2, <1>3, <1>4

\* f becomes g by r going to `to`, with this tip and outcome.
Turns(f, g, r, to, t, o) ==
    /\ g \in [Requests -> ReqRecs]
    /\ \A q \in Requests \ {r} : g[q] = f[q]
    /\ g[r].at = to /\ g[r].tip = t /\ g[r].outcome = o

LEMMA TurnsFacts ==
  ASSUME NEW f \in [Requests -> ReqRecs], NEW g, NEW r \in Requests
  PROVE  /\ \A t \in Tips, to \in {"working", "building"} :
                g = [f EXCEPT ![r].at = to, ![r].tip = t] => Turns(f, g, r, to, t, f[r].outcome)
         /\ \A o \in {"none", "previewed", "failed"} :
                g = [f EXCEPT ![r].at = "ended", ![r].outcome = o]
                    => Turns(f, g, r, "ended", f[r].tip, o)
         /\ g = [f EXCEPT ![r] = Resting("over")] => Turns(f, g, r, "over", NoTip, "none")
  <1> USE DEF ReqRecs, Turns
  <1>1. ASSUME NEW t \in Tips, NEW to \in {"working", "building"},
               g = [f EXCEPT ![r].at = to, ![r].tip = t]
        PROVE  Turns(f, g, r, to, t, f[r].outcome)
    BY <1>1
  <1>2. ASSUME NEW o \in {"none", "previewed", "failed"},
               g = [f EXCEPT ![r].at = "ended", ![r].outcome = o]
        PROVE  Turns(f, g, r, "ended", f[r].tip, o)
    BY <1>2
  <1>3. g = [f EXCEPT ![r] = Resting("over")] => Turns(f, g, r, "over", NoTip, "none")
    <2>1. Resting("over") \in ReqRecs
      BY DEF Resting, NoTip, Tips
    <2>2. QED
      BY <2>1 DEF Resting
  <1>4. QED
    BY <1>1, <1>2, <1>3

\* A commit is added to the site and nothing else happens to it.
LEMMA SiteGrows ==
  ASSUME site \in Seq(SUBSET Edits), NEW X \in SUBSET Edits, site' = Append(site, X)
  PROVE  /\ site' \in Seq(SUBSET Edits) /\ site' # <<>>
         /\ Len(site) \in Nat /\ Len(site') = Len(site) + 1
         /\ DOMAIN site = 1 .. Len(site) /\ DOMAIN site' = 1 .. Len(site')
         /\ \A i \in DOMAIN site : site'[i] = site[i]
         /\ site'[Len(site')] = X
  BY AppendProperties

-------------------------------------------------------------------------------
\* The record each step of a publication leaves, beside what it changes with it.
LEMMA PubEffects ==
  ASSUME BaseInv, NEW p \in Publications
  PROVE
     /\ \A c \in Conversations, kind \in {"publish", "undo"} : Begin(p, c, kind) =>
            /\ pub' \in [Publications -> PubRecs]
            /\ \A q \in Publications \ {p} : pub'[q] = pub[q]
            /\ pub'[p] = [at |-> "gating", kind |-> kind, conv |-> c, tip |-> NoTip]
     /\ InspectLock(p) => Goes(pub, pub', p, "comparing", pub[p].tip) \/ Stops(pub, pub', p)
     /\ Compare(p) =>
            \/ Tip(p).base < Len(site) /\ Goes(pub, pub', p, "updating", Tip(p))
            \/ Tip(p).base >= Len(site) /\ Goes(pub, pub', p, "acting", Tip(p))
     /\ Update(p) =>
            LET rebuilt == [work |-> Tip(p).work, base |-> Len(site)]
            IN  \/ Tip(p).base < Len(site) /\ Goes(pub, pub', p, "pushing", rebuilt)
                \/ Tip(p).base >= Len(site) /\ Goes(pub, pub', p, "acting", rebuilt)
                \/ Stops(pub, pub', p)
     /\ Push(p) =>
            \/ /\ Goes(pub, pub', p, "previewing", pub[p].tip)
               /\ Tip(p).work = pub[p].tip.work /\ Tip(p).base < pub[p].tip.base
               /\ branch' = [branch EXCEPT ![Conv(p)] = pub[p].tip]
               /\ unlisted' = unlisted \cup {Conv(p)}
            \/ Stops(pub, pub', p) /\ UNCHANGED <<branch, unlisted>>
     /\ AwaitRebuilt(p) =>
            \/ /\ deploy[Conv(p)] # None /\ deploy[Conv(p)].state = "ready"
               /\ Goes(pub, pub', p, "acting", pub[p].tip)
               /\ excused' = excused \cup Mistakes(Conv(p), pub[p].tip) /\ UNCHANGED halfway
            \/ Stops(pub, pub', p) /\ halfway' = halfway \cup {Conv(p)} /\ UNCHANGED excused
     /\ Merge(p) =>
            \/ /\ Goes(pub, pub', p, "recording", pub[p].tip) \/ Stops(pub, pub', p)
               /\ merged[Conv(p)] = 0
               /\ site' = Append(site, Live \cup Tip(p).work)
               /\ merged' = [merged EXCEPT ![Conv(p)] = Len(site')]
               /\ excused' = IF Tip(p) # pub[p].tip \/ Len(site) # pub[p].tip.base
                             THEN excused \cup {Conv(p)} ELSE excused
            \/ Stops(pub, pub', p) /\ UNCHANGED <<site, merged, excused>>
     /\ CompareTip(p) =>
            \/ Goes(pub, pub', p, "acting", pub[p].tip)
            \/ Stops(pub, pub', p)
     /\ ReadTip(p) =>
            \/ /\ Len(site) = merged[Conv(p)]
               /\ Goes(pub, pub', p, "reverting", [work |-> pub[p].tip.work, base |-> Len(site)])
            \/ Stops(pub, pub', p)
     /\ Revert(p) =>
            \/ /\ Goes(pub, pub', p, "recording", pub[p].tip) \/ Stops(pub, pub', p)
               /\ Len(site) = pub[p].tip.base
               /\ site' = Append(site, Before(Conv(p)))
            \/ Stops(pub, pub', p) /\ UNCHANGED site
     /\ RecordPublication(p) => Stops(pub, pub', p)
  <1>a. pub \in [Publications -> PubRecs] /\ pub[p] \in PubRecs /\ pub[p].tip \in Tips
    BY DEF BaseInv, PublicationsOK, PubRecs
  <1>b. Len(site) \in Nat
    BY DEF BaseInv, RepoOK
  <1>c. {"comparing", "updating", "pushing", "previewing", "acting", "reverting", "recording"} \subseteq PubPlaces
    BY DEF PubPlaces
  <1>d. pub[p].at # "idle" /\ pub[p].at # "over" => Conv(p) \in Conversations
    BY DEF BaseInv, PublicationsOK, Conv
  <1>e. Ends(p) => Stops(pub, pub', p)
    BY <1>a, <1>c, GoesFacts, Zenon DEF Ends
  <1>f. \A to \in PubPlaces : Goto(p, to) => Goes(pub, pub', p, to, pub[p].tip)
    BY <1>a, GoesFacts, Zenon DEF Goto
  <1>g. \A to \in PubPlaces, t \in Tips :
            pub' = [pub EXCEPT ![p].at = to, ![p].tip = t] => Goes(pub, pub', p, to, t)
    BY <1>a, GoesFacts, Zenon
  <1>h. Conv(p) \in Conversations =>
          /\ Tip(p) \in Tips /\ Tip(p).base \in Nat
          /\ [work |-> Tip(p).work, base |-> Len(site)] \in Tips
          /\ [Tip(p) EXCEPT !.base = Len(site)] = [work |-> Tip(p).work, base |-> Len(site)]
    <2> SUFFICES ASSUME Conv(p) \in Conversations
                 PROVE  /\ Tip(p) \in Tips /\ Tip(p).base \in Nat
                        /\ [work |-> Tip(p).work, base |-> Len(site)] \in Tips
                        /\ [Tip(p) EXCEPT !.base = Len(site)] = [work |-> Tip(p).work, base |-> Len(site)]
      OBVIOUS
    <2>1. Tip(p) \in Tips
      BY DEF BaseInv, RepoOK, Tip
    <2> DEFINE tip == Tip(p)
               n == Len(site)
    <2>2. tip \in Tips /\ n \in Nat
      BY <1>b, <2>1
    <2> HIDE DEF tip, n
    <2>3. /\ tip.base \in Nat /\ [work |-> tip.work, base |-> n] \in Tips
          /\ [tip EXCEPT !.base = n] = [work |-> tip.work, base |-> n]
      BY <2>2 DEF Tips
    <2> QED
      BY <2>1, <2>3, Zenon DEF tip, n
  <1>1. \A c \in Conversations, kind \in {"publish", "undo"} : Begin(p, c, kind) =>
         /\ pub' \in [Publications -> PubRecs]
         /\ \A q \in Publications \ {p} : pub'[q] = pub[q]
         /\ pub'[p] = [at |-> "gating", kind |-> kind, conv |-> c, tip |-> NoTip]
    <2> SUFFICES ASSUME NEW c \in Conversations, NEW kind \in {"publish", "undo"}, Begin(p, c, kind)
                 PROVE  /\ pub' \in [Publications -> PubRecs]
                        /\ \A q \in Publications \ {p} : pub'[q] = pub[q]
                        /\ pub'[p] = [at |-> "gating", kind |-> kind, conv |-> c, tip |-> NoTip]
      OBVIOUS
    <2> DEFINE new == [at |-> "gating", kind |-> kind, conv |-> c, tip |-> NoTip]
    <2>1. new \in PubRecs
      BY DEF PubRecs, Tips, NoTip, PubPlaces
    <2>2. pub' = [pub EXCEPT ![p] = new]
      BY Zenon DEF Begin
    <2> HIDE DEF new
    <2>3. /\ pub' \in [Publications -> PubRecs] /\ pub'[p] = new
          /\ \A q \in Publications \ {p} : pub'[q] = pub[q]
      BY <1>a, <2>1, <2>2
    <2> QED
      BY <2>3, Zenon DEF new
  <1>2. InspectLock(p) => Goes(pub, pub', p, "comparing", pub[p].tip) \/ Stops(pub, pub', p)
    <2>1. InspectLock(p) => Goto(p, "comparing") \/ Ends(p)
      BY Zenon DEF InspectLock
    <2> QED
      BY <1>c, <1>e, <1>f, <2>1, Zenon
  <1>3. Compare(p) =>
         \/ Tip(p).base < Len(site) /\ Goes(pub, pub', p, "updating", Tip(p))
         \/ Tip(p).base >= Len(site) /\ Goes(pub, pub', p, "acting", Tip(p))
    <2> SUFFICES ASSUME Compare(p)
                 PROVE  \/ Tip(p).base < Len(site) /\ Goes(pub, pub', p, "updating", Tip(p))
                        \/ Tip(p).base >= Len(site) /\ Goes(pub, pub', p, "acting", Tip(p))
      OBVIOUS
    <2> DEFINE to == IF Tip(p).base < Len(site) THEN "updating" ELSE "acting"
    <2>1. Tip(p) \in Tips /\ Tip(p).base \in Nat
      BY <1>d, <1>h DEF Compare
    <2>2. pub' = [pub EXCEPT ![p].at = to, ![p].tip = Tip(p)]
      BY Zenon DEF Compare
    <2>3. to \in PubPlaces
      BY <1>c
    <2>4. Goes(pub, pub', p, to, Tip(p))
      <3> HIDE DEF to
      <3> QED
        BY <1>g, <2>1, <2>2, <2>3, Zenon
    <2>5. CASE Tip(p).base < Len(site)
      BY <2>4, <2>5, Zenon
    <2>6. CASE ~(Tip(p).base < Len(site))
      <3>1. Goes(pub, pub', p, "acting", Tip(p))
        BY <2>4, <2>6, Zenon
      <3>2. Tip(p).base >= Len(site)
        BY <1>b, <2>1, <2>6
      <3> QED
        BY <3>1, <3>2
    <2> QED
      BY <2>5, <2>6
  <1>4. Update(p) =>
         LET rebuilt == [work |-> Tip(p).work, base |-> Len(site)]
         IN  \/ Tip(p).base < Len(site) /\ Goes(pub, pub', p, "pushing", rebuilt)
             \/ Tip(p).base >= Len(site) /\ Goes(pub, pub', p, "acting", rebuilt)
             \/ Stops(pub, pub', p)
    <2> DEFINE rebuilt == [work |-> Tip(p).work, base |-> Len(site)]
               to == IF Tip(p).base < Len(site) THEN "pushing" ELSE "acting"
    <2> SUFFICES ASSUME Update(p)
                 PROVE  \/ Tip(p).base < Len(site) /\ Goes(pub, pub', p, "pushing", rebuilt)
                        \/ Tip(p).base >= Len(site) /\ Goes(pub, pub', p, "acting", rebuilt)
                        \/ Stops(pub, pub', p)
      OBVIOUS
    <2>1. Conv(p) \in Conversations
      BY <1>d DEF Update
    <2>2. rebuilt \in Tips /\ Tip(p).base \in Nat /\ [Tip(p) EXCEPT !.base = Len(site)] = rebuilt
      BY <1>h, <2>1, Zenon
    <2>3. to \in PubPlaces
      BY <1>c
    <2>4. Ends(p) \/ pub' = [pub EXCEPT ![p].at = to, ![p].tip = [Tip(p) EXCEPT !.base = Len(site)]]
      BY Zenon DEF Update
    <2> HIDE DEF to, rebuilt
    <2>5. Stops(pub, pub', p) \/ Goes(pub, pub', p, to, rebuilt)
      BY <1>e, <1>g, <2>2, <2>3, <2>4, Zenon
    <2>6. CASE Tip(p).base < Len(site)
      BY <2>5, <2>6, Zenon DEF to
    <2>7. CASE ~(Tip(p).base < Len(site))
      <3>1. Tip(p).base >= Len(site)
        BY <1>b, <2>2, <2>7
      <3> QED
        BY <2>5, <2>7, <3>1, Zenon DEF to
    <2> QED
      BY <2>6, <2>7
  <1>5. Push(p) =>
         \/ /\ Goes(pub, pub', p, "previewing", pub[p].tip)
            /\ Tip(p).work = pub[p].tip.work /\ Tip(p).base < pub[p].tip.base
            /\ branch' = [branch EXCEPT ![Conv(p)] = pub[p].tip]
            /\ unlisted' = unlisted \cup {Conv(p)}
         \/ Stops(pub, pub', p) /\ UNCHANGED <<branch, unlisted>>
    BY <1>c, <1>e, <1>f, Zenon DEF Push
  <1>6. AwaitRebuilt(p) =>
         \/ /\ deploy[Conv(p)] # None /\ deploy[Conv(p)].state = "ready"
            /\ Goes(pub, pub', p, "acting", pub[p].tip)
            /\ excused' = excused \cup Mistakes(Conv(p), pub[p].tip) /\ UNCHANGED halfway
         \/ Stops(pub, pub', p) /\ halfway' = halfway \cup {Conv(p)} /\ UNCHANGED excused
    <2> SUFFICES ASSUME AwaitRebuilt(p)
                 PROVE  \/ /\ deploy[Conv(p)] # None /\ deploy[Conv(p)].state = "ready"
                           /\ Goes(pub, pub', p, "acting", pub[p].tip)
                           /\ excused' = excused \cup Mistakes(Conv(p), pub[p].tip) /\ UNCHANGED halfway
                        \/ /\ Stops(pub, pub', p)
                           /\ halfway' = halfway \cup {Conv(p)} /\ UNCHANGED excused
      OBVIOUS
    <2>1. PICK v \in Verdicts(Conv(p)) :
            /\ IF v = "previewed" THEN Goto(p, "acting") ELSE Ends(p)
            /\ halfway' = IF v = "previewed" THEN halfway ELSE halfway \cup {Conv(p)}
            /\ excused' = IF v = "previewed"
                          THEN excused \cup Mistakes(Conv(p), pub[p].tip) ELSE excused
      BY Zenon DEF AwaitRebuilt
    <2>2. CASE v = "previewed"
      <3>1. deploy[Conv(p)] # None /\ deploy[Conv(p)].state = "ready"
        BY <2>1, <2>2 DEF Verdicts
      <3> QED
        BY <1>c, <1>f, <2>1, <2>2, <3>1, Zenon
    <2>3. CASE v # "previewed"
      BY <1>e, <2>1, <2>3, Zenon
    <2> QED
      BY <2>2, <2>3
  <1>7. Merge(p) =>
         \/ /\ Goes(pub, pub', p, "recording", pub[p].tip) \/ Stops(pub, pub', p)
            /\ merged[Conv(p)] = 0
            /\ site' = Append(site, Live \cup Tip(p).work)
            /\ merged' = [merged EXCEPT ![Conv(p)] = Len(site')]
            /\ excused' = IF Tip(p) # pub[p].tip \/ Len(site) # pub[p].tip.base
                          THEN excused \cup {Conv(p)} ELSE excused
         \/ Stops(pub, pub', p) /\ UNCHANGED <<site, merged, excused>>
    BY <1>c, <1>e, <1>f, Zenon DEF Merge, Live
  <1>8. CompareTip(p) =>
         \/ Goes(pub, pub', p, "acting", pub[p].tip)
         \/ Stops(pub, pub', p)
    BY <1>c, <1>e, <1>f, Zenon DEF CompareTip
  <1>9. ReadTip(p) =>
         \/ /\ Len(site) = merged[Conv(p)]
            /\ Goes(pub, pub', p, "reverting", [work |-> pub[p].tip.work, base |-> Len(site)])
         \/ Stops(pub, pub', p)
    <2>1. ReadTip(p) => \/ /\ Len(site) = merged[Conv(p)]
                          /\ pub' = [pub EXCEPT ![p].at = "reverting", ![p].tip.base = Len(site)]
                       \/ Ends(p)
      BY Zenon DEF ReadTip
    <2>2. pub' = [pub EXCEPT ![p].at = "reverting", ![p].tip.base = Len(site)]
            => Goes(pub, pub', p, "reverting", [work |-> pub[p].tip.work, base |-> Len(site)])
      BY <1>a, <1>b, <1>c, GoesFacts, Zenon
    <2> QED
      BY <1>e, <2>1, <2>2, Zenon
  <1>10. Revert(p) =>
         \/ /\ Goes(pub, pub', p, "recording", pub[p].tip) \/ Stops(pub, pub', p)
            /\ Len(site) = pub[p].tip.base
            /\ site' = Append(site, Before(Conv(p)))
         \/ Stops(pub, pub', p) /\ UNCHANGED site
    BY <1>c, <1>e, <1>f, Zenon DEF Revert
  <1>11. RecordPublication(p) => Stops(pub, pub', p)
    BY <1>e, Zenon DEF RecordPublication
  <1>12. QED
    BY <1>1, <1>2, <1>3, <1>4, <1>5, <1>6, <1>7, <1>8, <1>9, <1>10, <1>11, Zenon

\* The record each step of a change request leaves.
LEMMA RequestEffects ==
  ASSUME BaseInv, NEW r \in Requests
  PROVE
     /\ Start(r) => Turns(request, request', r, "working", branch[Of[r]], request[r].outcome)
     /\ Work(r) =>
            \/ /\ Turns(request, request', r, "ended", request[r].tip, "failed")
               /\ UNCHANGED <<branch, unlisted>>
            \/ /\ branch[Of[r]] = request[r].tip
               /\ branch' = [branch EXCEPT ![Of[r]].work = @ \cup {r}]
               /\ unlisted' = unlisted \cup {Of[r]}
               /\ Turns(request, request', r, "building", branch'[Of[r]], request[r].outcome)
     /\ AwaitPreview(r) =>
            \/ /\ Turns(request, request', r, "ended", request[r].tip, "failed")
               /\ UNCHANGED excused
            \/ /\ deploy[Of[r]] # None /\ deploy[Of[r]].state = "ready"
               /\ Turns(request, request', r, "ended", request[r].tip, "previewed")
               /\ excused' = excused \cup Mistakes(Of[r], request[r].tip)
     /\ File(r) => Turns(request, request', r, "over", NoTip, "none")
  <1> USE TurnsFacts
  <1> /\ request \in [Requests -> ReqRecs] /\ request[r] \in ReqRecs /\ request[r].tip \in Tips
      /\ branch \in [Conversations -> Tips] /\ Of[r] \in Conversations
    BY OfIsTotal DEF BaseInv, RepoOK, RequestsOK, ReqRecs
  <1>1. Start(r) => Turns(request, request', r, "working", branch[Of[r]], request[r].outcome)
    BY DEF Start
  <1>2. Work(r) =>
         \/ /\ Turns(request, request', r, "ended", request[r].tip, "failed")
            /\ UNCHANGED <<branch, unlisted>>
         \/ /\ branch[Of[r]] = request[r].tip
            /\ branch' = [branch EXCEPT ![Of[r]].work = @ \cup {r}]
            /\ unlisted' = unlisted \cup {Of[r]}
            /\ Turns(request, request', r, "building", branch'[Of[r]], request[r].outcome)
    <2>1. branch[Of[r]].work \in SUBSET Requests /\ branch[Of[r]] \in Tips
      BY DEF Tips
    <2>2. [branch[Of[r]] EXCEPT !.work = @ \cup {r}] \in Tips
      BY <2>1 DEF Tips
    <2>3. branch' = [branch EXCEPT ![Of[r]].work = @ \cup {r}] => branch'[Of[r]] \in Tips
      BY <2>2
    <2>4. QED
      BY <2>3 DEF Work, End
  <1>3. AwaitPreview(r) =>
         \/ /\ Turns(request, request', r, "ended", request[r].tip, "failed")
            /\ UNCHANGED excused
         \/ /\ deploy[Of[r]] # None /\ deploy[Of[r]].state = "ready"
            /\ Turns(request, request', r, "ended", request[r].tip, "previewed")
            /\ excused' = excused \cup Mistakes(Of[r], request[r].tip)
    BY DEF AwaitPreview, Verdicts, End
  <1>4. File(r) => Turns(request, request', r, "over", NoTip, "none")
    BY DEF File
  <1>5. QED
    BY <1>1, <1>2, <1>3, <1>4

-------------------------------------------------------------------------------
\* Every variable of Publication keeps its type, what anybody has read of the site
\* stays there, and a publication stays one of its conversation and kind.
LEMMA BaseInit == Init => BaseInv
  BY DEF Init, BaseInv, RepoOK, HostOK, RequestsOK, PublicationsOK, PubPlaces, PubRecs, ReqRecs,
         NoTip, Tips, Edits, Resting, Unpressed

LEMMA BaseGivesTypes == BaseInv => TypeOK
  BY DEF BaseInv, TypeOK, RepoOK, HostOK, RequestsOK, PublicationsOK, PubRecs, PubPlaces, ReqRecs, Deploys

\* A comment is added to one conversation: what that does to what the comments say.
LEMMA Said ==
  ASSUME comments \in [Conversations -> Seq(Comments)],
         NEW c \in Conversations, NEW x \in Comments, Says(c, x)
  PROVE  /\ comments' \in [Conversations -> Seq(Comments)]
         /\ \A d \in Conversations \ {c} : comments'[d] = comments[d]
         /\ x \in Records => (PreviewedLast(comments'[c]) <=> x = "previewed")
         /\ x \notin Records => (PreviewedLast(comments'[c]) <=> PreviewedLast(comments[c]))
         /\ SaysUndone(comments'[c]) => x = "undo" \/ SaysUndone(comments[c])
         /\ Overlong \subseteq Overlong'
  <1> DEFINE s == comments[c]
             t == Append(s, x)
  <1>1. s \in Seq(Comments) /\ comments' = [comments EXCEPT ![c] = t]
    BY DEF Says
  <1>2. /\ t \in Seq(Comments) /\ Len(t) = Len(s) + 1 /\ Len(s) \in Nat
        /\ \A i \in 1 .. Len(s) : t[i] = s[i]
        /\ t[Len(s) + 1] = x
        /\ DOMAIN s = 1 .. Len(s) /\ DOMAIN t = 1 .. Len(t)
    BY <1>1, AppendProperties
  <1>3. comments' \in [Conversations -> Seq(Comments)] /\ comments'[c] = t
        /\ \A d \in Conversations \ {c} : comments'[d] = comments[d]
    BY <1>1, <1>2
  <1> HIDE DEF t
  <1>4. x \in Records => (PreviewedLast(t) <=> x = "previewed")
    BY <1>2 DEF PreviewedLast, LastIs
  <1>5. x \notin Records => (PreviewedLast(t) <=> PreviewedLast(s))
    <2> SUFFICES ASSUME x \notin Records PROVE PreviewedLast(t) <=> PreviewedLast(s)
      OBVIOUS
    <2>1. ASSUME PreviewedLast(s) PROVE PreviewedLast(t)
      BY <1>2, <2>1 DEF PreviewedLast, LastIs
    <2>2. ASSUME PreviewedLast(t) PROVE PreviewedLast(s)
      BY <1>2, <2>2 DEF PreviewedLast, LastIs, Records
    <2>3. QED
      BY <2>1, <2>2
  <1>6. SaysUndone(t) => x = "undo" \/ SaysUndone(s)
    BY <1>2 DEF SaysUndone
  <1>7. ASSUME NEW d \in Overlong PROVE d \in Overlong'
    <2>1. CASE d = c
      <3>1. PICK i \in DOMAIN s : i > PageSize /\ s[i] \in Records
        BY <2>1 DEF Overlong
      <3>2. i \in DOMAIN t /\ t[i] = s[i]
        BY <1>2, <3>1
      <3>3. QED
        BY <1>3, <2>1, <3>1, <3>2 DEF Overlong
    <2>2. CASE d # c
      BY <1>3, <2>2 DEF Overlong
    <2>3. QED
      BY <2>1, <2>2
  <1>8. QED
    BY <1>3, <1>4, <1>5, <1>6, <1>7

\* What the first page says of a conversation, when no record lies past it.
LEMMA OnThePage ==
  ASSUME comments \in [Conversations -> Seq(Comments)], NEW c \in Conversations
  PROVE  /\ c \notin Overlong /\ LastIs("previewed", Records, FirstPage(c))
                => PreviewedLast(comments[c])
         /\ LastIs("undo", {"publish"}, FirstPage(c)) => SaysUndone(comments[c])
  <1> DEFINE s == comments[c]
             n == IF Len(s) < PageSize THEN Len(s) ELSE PageSize
             t == SubSeq(s, 1, n)
  <1>1. s \in Seq(Comments) /\ Len(s) \in Nat /\ DOMAIN s = 1 .. Len(s)
        /\ \A i \in 1 .. Len(s) : s[i] \in Comments
    OBVIOUS
  <1>2. n \in Nat /\ n <= Len(s) /\ (n < Len(s) => n = PageSize)
    <2>1. \A m \in Nat, k \in Nat :
            LET l == IF m < k THEN m ELSE k IN l \in Nat /\ l <= m /\ (l < m => l = k)
      OBVIOUS
    <2>2. QED
      BY <1>1, <2>1, PageIsNumber, Zenon
  <1> HIDE DEF n
  <1>3. \A i \in 1 .. n : s[i] \in Comments
    BY <1>1, <1>2
  <1>4. /\ t \in Seq(Comments) /\ Len(t) = n
        /\ \A i \in 1 .. n : t[i] = s[i]
    BY <1>2, <1>3, SubSeqProperties
  <1>5. DOMAIN t = 1 .. n /\ FirstPage(c) = t
    BY <1>4 DEF FirstPage, n
  <1> HIDE DEF t
  <1>6. ASSUME c \notin Overlong, LastIs("previewed", Records, t) PROVE PreviewedLast(s)
    <2>1. \A i \in DOMAIN s : i > PageSize => s[i] \notin Records
      BY <1>6 DEF Overlong
    <2>2. PICK i \in 1 .. n : t[i] = "previewed" /\ \A j \in 1 .. n : j > i => t[j] \notin Records
      BY <1>5, <1>6 DEF LastIs
    <2>3. i \in DOMAIN s /\ s[i] = "previewed"
      BY <1>1, <1>2, <1>4, <2>2
    <2>4. ASSUME NEW j \in DOMAIN s, j > i PROVE s[j] \notin Records
      <3>1. CASE j <= n
        BY <1>1, <1>2, <1>4, <2>2, <2>4, <3>1
      <3>2. CASE j > n
        BY <1>1, <1>2, <2>1, <2>4, <3>2
      <3>3. QED
        BY <1>1, <1>2, <3>1, <3>2
    <2>5. QED
      BY <2>3, <2>4 DEF PreviewedLast, LastIs
  <1>7. ASSUME LastIs("undo", {"publish"}, t) PROVE SaysUndone(s)
    BY <1>1, <1>2, <1>4, <1>5, <1>7 DEF LastIs, SaysUndone
  <1>8. QED
    BY <1>5, <1>6, <1>7

\* What a step must do to a part of the state for that part to stay as it should.
\* A merge is for good.
MergesStay == \A c \in Conversations : merged[c] # 0 => merged'[c] = merged[c]

LEMMA OthersStay ==
  ASSUME BaseInv, DOMAIN site \subseteq DOMAIN site', MergesStay
  PROVE  /\ UNCHANGED pub => PublicationsOK'
         /\ UNCHANGED <<lock, request>> => RequestsOK'
  BY DEF BaseInv, PublicationsOK, RequestsOK, MergesStay, Conv

LEMMA StoppingStays ==
  ASSUME BaseInv, DOMAIN site \subseteq DOMAIN site', MergesStay, NEW p \in Publications,
         Stops(pub, pub', p)
  PROVE  PublicationsOK'
  <1>1. 1 \in DOMAIN site
    BY DEF BaseInv, RepoOK
  <1>2. QED
    BY <1>1 DEF BaseInv, PublicationsOK, MergesStay, Conv, Stops, Unpressed, NoTip

LEMMA GoingStays ==
  ASSUME BaseInv, DOMAIN site \subseteq DOMAIN site', MergesStay, NEW p \in Publications,
         NEW to \in PubPlaces, NEW t \in Tips, Goes(pub, pub', p, to, t), t.base \in DOMAIN site,
         pub[p].at \notin {"idle", "over"},
         to \in {"comparing", "updating", "pushing", "previewing"} => pub[p].kind = "publish",
         to = "reverting" =>
             pub[p].kind = "undo" /\ merged[Conv(p)] # 0 /\ t.base = merged[Conv(p)],
         to = "recording" => merged'[Conv(p)] # 0
  PROVE  PublicationsOK'
  BY DEF BaseInv, PublicationsOK, MergesStay, Conv, Goes

LEMMA RequestsStay ==
  ASSUME BaseInv, UNCHANGED site, NEW r \in Requests, lock' \in Requests \cup {None},
         NEW to, NEW t, NEW o, Turns(request, request', r, to, t, o), t.base \in DOMAIN site,
         to = "ended" => o # "none"
  PROVE  RequestsOK'
  BY DEF BaseInv, RequestsOK, Turns

LEMMA HostStays ==
  ASSUME BaseInv, DOMAIN site \subseteq DOMAIN site'
  PROVE  /\ UNCHANGED <<host, shown>> /\ excused' \cup halfway' \subseteq Conversations => HostOK'
         /\ /\ UNCHANGED <<deploy, shown>> /\ excused' \cup halfway' \subseteq Conversations
            /\ unlisted' \subseteq Conversations
            => HostOK'
  BY DEF BaseInv, HostOK, host

LEMMA SiteStays ==
  ASSUME BaseInv, UNCHANGED site
  PROVE  UNCHANGED <<branch, merged, comments>> => RepoOK'
  BY DEF BaseInv, RepoOK

\* Another commit on the site, from whomever.
LEMMA SiteMoves ==
  ASSUME BaseInv, NEW X \in SUBSET Edits, site' = Append(site, X),
         UNCHANGED <<branch, comments>>
  PROVE  /\ DOMAIN site \subseteq DOMAIN site'
         /\ UNCHANGED merged => RepoOK' /\ MergesStay
         /\ \A c \in Conversations :
                merged[c] = 0 /\ merged' = [merged EXCEPT ![c] = Len(site')] => RepoOK' /\ MergesStay
  <1> site \in Seq(SUBSET Edits)
    BY DEF BaseInv, RepoOK
  <1>1. DOMAIN site \subseteq DOMAIN site' /\ Len(site') = Len(site) + 1 /\ Len(site) \in Nat
        /\ site' \in Seq(SUBSET Edits) /\ site' # <<>>
    BY SiteGrows
  <1> USE <1>1 DEF BaseInv, RepoOK, MergesStay
  <1>2. UNCHANGED merged => RepoOK' /\ MergesStay
    OBVIOUS
  <1>3. ASSUME NEW c \in Conversations, merged[c] = 0, merged' = [merged EXCEPT ![c] = Len(site')]
        PROVE  RepoOK' /\ MergesStay
    <2>1. merged' \in [Conversations -> 0 .. Len(site')]
      BY <1>3
    <2>2. Len(site') - 1 \in DOMAIN site'
      OBVIOUS
    <2>3. QED
      BY <1>3, <2>1, <2>2
  <1>4. QED
    BY <1>2, <1>3

\* What a request pushes stands on the commit it was checked out at.
LEMMA BranchGrows ==
  ASSUME branch \in [Conversations -> Tips], NEW c \in Conversations, NEW r \in Requests,
         branch' = [branch EXCEPT ![c].work = @ \cup {r}]
  PROVE  /\ branch' \in [Conversations -> Tips]
         /\ \A d \in Conversations \ {c} : branch'[d] = branch[d]
         /\ branch'[c].work = branch[c].work \cup {r} /\ branch'[c].base = branch[c].base
  BY DEF Tips

\* A build ends, and the deploy is still of the tip it was of.
LEMMA DeployEnds ==
  ASSUME deploy \in [Conversations -> Deploys \cup {None}], NEW c \in Conversations,
         deploy[c] # None, NEW s \in {"ready", "error"}, deploy' = [deploy EXCEPT ![c].state = s]
  PROVE  /\ deploy' \in [Conversations -> Deploys \cup {None}]
         /\ \A d \in Conversations \ {c} : deploy'[d] = deploy[d]
         /\ deploy'[c].tip = deploy[c].tip /\ deploy'[c].state = s
  BY DEF Deploys

LEMMA BaseStep == BaseInv /\ [Next]_vars => BaseInv'
  <1> SUFFICES ASSUME BaseInv, [Next]_vars PROVE BaseInv'
    OBVIOUS
  <1> USE OfIsTotal
  <1>a. Len(site) \in DOMAIN site /\ Len(site) \in Nat /\ Len(site) # 0 /\ 1 \in DOMAIN site
    BY DEF BaseInv, RepoOK
  <1>1. ASSUME NEW p \in Publications, InspectLock(p) PROVE BaseInv'
    <2> site' = site /\ DOMAIN site \subseteq DOMAIN site' /\ MergesStay
      BY <1>1 DEF InspectLock, repo, MergesStay
    <2>1. pub[p].at \notin {"idle", "over"} /\ Conv(p) \in Conversations
      BY <1>1 DEF InspectLock, Conv, BaseInv, PublicationsOK
    <2>2. pub[p].tip \in Tips /\ pub[p].tip.base \in DOMAIN site
      BY DEF BaseInv, PublicationsOK, PubRecs
    <2>3. Tip(p) \in Tips /\ Tip(p).base \in DOMAIN site
      BY <2>1 DEF BaseInv, RepoOK, Tip
    <2>4. RepoOK'
      BY <1>1, SiteStays DEF InspectLock, repo
    <2>5. HostOK'
      BY <1>1, <2>1, HostStays DEF InspectLock, host, history, BaseInv, HostOK
    <2>6. RequestsOK'
      BY <1>1, OthersStay DEF InspectLock
    <2>7. PublicationsOK'
      <3>1. Goes(pub, pub', p, "comparing", pub[p].tip) \/ Stops(pub, pub', p)
        BY <1>1, PubEffects, Zenon
      <3>2. pub[p].kind = "publish" /\ "comparing" \in PubPlaces
        BY <1>1 DEF InspectLock, PubPlaces
      <3>3. QED
        BY <2>1, <2>2, <3>1, <3>2, StoppingStays, GoingStays
    <2>8. QED
      BY <2>1, <2>2, <2>3, <2>4, <2>5, <2>6, <2>7 DEF BaseInv
  <1>2. ASSUME NEW p \in Publications, Compare(p) PROVE BaseInv'
    <2> site' = site /\ DOMAIN site \subseteq DOMAIN site' /\ MergesStay
      BY <1>2 DEF Compare, repo, MergesStay
    <2>1. pub[p].at \notin {"idle", "over"} /\ Conv(p) \in Conversations
      BY <1>2 DEF Compare, Conv, BaseInv, PublicationsOK
    <2>2. pub[p].tip \in Tips /\ pub[p].tip.base \in DOMAIN site
      BY DEF BaseInv, PublicationsOK, PubRecs
    <2>3. Tip(p) \in Tips /\ Tip(p).base \in DOMAIN site
      BY <2>1 DEF BaseInv, RepoOK, Tip
    <2>4. RepoOK'
      BY <1>2, SiteStays DEF Compare, repo
    <2>5. HostOK'
      BY <1>2, <2>1, HostStays DEF Compare, host, history, BaseInv, HostOK
    <2>6. RequestsOK'
      BY <1>2, OthersStay DEF Compare
    <2>7. PublicationsOK'
      <3>1. \E to \in {"updating", "acting"} : Goes(pub, pub', p, to, Tip(p))
        BY <1>2, PubEffects
      <3>2. pub[p].kind = "publish"
        BY <1>2 DEF Compare, BaseInv, PublicationsOK
      <3>3. QED
        BY <2>1, <2>3, <3>1, <3>2, GoingStays DEF PubPlaces
    <2>8. QED
      BY <2>1, <2>2, <2>3, <2>4, <2>5, <2>6, <2>7 DEF BaseInv
  <1>3. ASSUME NEW p \in Publications, Update(p) PROVE BaseInv'
    <2> site' = site /\ DOMAIN site \subseteq DOMAIN site' /\ MergesStay
      BY <1>3 DEF Update, repo, MergesStay
    <2>1. pub[p].at \notin {"idle", "over"} /\ Conv(p) \in Conversations
      BY <1>3 DEF Update, Conv, BaseInv, PublicationsOK
    <2>2. pub[p].tip \in Tips /\ pub[p].tip.base \in DOMAIN site
      BY DEF BaseInv, PublicationsOK, PubRecs
    <2>3. Tip(p) \in Tips /\ Tip(p).base \in DOMAIN site
      BY <2>1 DEF BaseInv, RepoOK, Tip
    <2>4. RepoOK'
      BY <1>3, SiteStays DEF Update, repo
    <2>5. HostOK'
      BY <1>3, <2>1, HostStays DEF Update, host, history, BaseInv, HostOK
    <2>6. RequestsOK'
      BY <1>3, OthersStay DEF Update
    <2>7. [work |-> Tip(p).work, base |-> Len(site)] \in Tips /\ pub[p].kind = "publish"
      BY <1>3, <1>a, <2>2, <2>3 DEF Update, Tips, BaseInv, PublicationsOK
    <2>8. PublicationsOK'
      <3> DEFINE rebuilt == [work |-> Tip(p).work, base |-> Len(site)]
      <3>1. (\E to \in {"pushing", "acting"} : Goes(pub, pub', p, to, rebuilt)) \/ Stops(pub, pub', p)
        BY <1>3, PubEffects, Zenon
      <3>2. rebuilt \in Tips /\ rebuilt.base \in DOMAIN site
        BY <1>a, <2>7
      <3> HIDE DEF rebuilt
      <3>3. ASSUME NEW to \in {"pushing", "acting"}, Goes(pub, pub', p, to, rebuilt) PROVE PublicationsOK'
        BY <2>1, <2>7, <3>2, <3>3, GoingStays DEF PubPlaces
      <3>4. QED
        BY <3>1, <3>3, StoppingStays
    <2>9. QED
      BY <2>1, <2>2, <2>3, <2>4, <2>5, <2>6, <2>7, <2>8 DEF BaseInv
  <1>4. ASSUME NEW p \in Publications, Push(p) PROVE BaseInv'
    <2> site' = site /\ DOMAIN site \subseteq DOMAIN site' /\ MergesStay
      BY <1>4 DEF Push, repo, MergesStay
    <2>1. pub[p].at \notin {"idle", "over"} /\ Conv(p) \in Conversations
      BY <1>4 DEF Push, Conv, BaseInv, PublicationsOK
    <2>2. pub[p].tip \in Tips /\ pub[p].tip.base \in DOMAIN site
      BY DEF BaseInv, PublicationsOK, PubRecs
    <2>3. Tip(p) \in Tips /\ Tip(p).base \in DOMAIN site
      BY <2>1 DEF BaseInv, RepoOK, Tip
    <2>4. RepoOK'
      <3>1. UNCHANGED branch \/ branch' = [branch EXCEPT ![Conv(p)] = pub[p].tip]
        BY <1>4, PubEffects
      <3>2. QED
        BY <1>4, <2>1, <2>2, <3>1 DEF Push, BaseInv, RepoOK
    <2>5. HostOK'
      BY <1>4, <2>1, HostStays DEF Push, host, history, BaseInv, HostOK
    <2>6. RequestsOK'
      BY <1>4, OthersStay DEF Push
    <2>7. PublicationsOK'
      <3>1. Goes(pub, pub', p, "previewing", pub[p].tip) \/ Stops(pub, pub', p)
        BY <1>4, PubEffects, Zenon
      <3>2. pub[p].kind = "publish" /\ "previewing" \in PubPlaces
        BY <1>4 DEF Push, PubPlaces, BaseInv, PublicationsOK
      <3>3. QED
        BY <2>1, <2>2, <3>1, <3>2, StoppingStays, GoingStays
    <2>8. QED
      BY <2>1, <2>2, <2>3, <2>4, <2>5, <2>6, <2>7 DEF BaseInv
  <1>5. ASSUME NEW p \in Publications, AwaitRebuilt(p) PROVE BaseInv'
    <2> site' = site /\ DOMAIN site \subseteq DOMAIN site' /\ MergesStay
      BY <1>5 DEF AwaitRebuilt, repo, MergesStay
    <2>1. pub[p].at \notin {"idle", "over"} /\ Conv(p) \in Conversations
      BY <1>5 DEF AwaitRebuilt, Conv, BaseInv, PublicationsOK
    <2>2. pub[p].tip \in Tips /\ pub[p].tip.base \in DOMAIN site
      BY DEF BaseInv, PublicationsOK, PubRecs
    <2>3. Tip(p) \in Tips /\ Tip(p).base \in DOMAIN site
      BY <2>1 DEF BaseInv, RepoOK, Tip
    <2>4. RepoOK'
      BY <1>5, SiteStays DEF AwaitRebuilt, repo
    <2>5. HostOK'
      BY <1>5, <2>1, HostStays DEF AwaitRebuilt, host, history, BaseInv, HostOK, Mistakes
    <2>6. RequestsOK'
      BY <1>5, OthersStay DEF AwaitRebuilt
    <2>7. PublicationsOK'
      <3>1. Goes(pub, pub', p, "acting", pub[p].tip) \/ Stops(pub, pub', p)
        BY <1>5, PubEffects
      <3>2. QED
        BY <2>1, <2>2, <3>1, StoppingStays, GoingStays DEF PubPlaces
    <2>8. QED
      BY <2>1, <2>2, <2>3, <2>4, <2>5, <2>6, <2>7 DEF BaseInv
  <1>6. ASSUME NEW p \in Publications, CompareTip(p) PROVE BaseInv'
    <2> site' = site /\ DOMAIN site \subseteq DOMAIN site' /\ MergesStay
      BY <1>6 DEF CompareTip, repo, MergesStay
    <2>1. pub[p].at \notin {"idle", "over"} /\ Conv(p) \in Conversations
      BY <1>6 DEF CompareTip, Conv, BaseInv, PublicationsOK
    <2>2. pub[p].tip \in Tips /\ pub[p].tip.base \in DOMAIN site
      BY DEF BaseInv, PublicationsOK, PubRecs
    <2>3. Tip(p) \in Tips /\ Tip(p).base \in DOMAIN site
      BY <2>1 DEF BaseInv, RepoOK, Tip
    <2>4. RepoOK'
      BY <1>6, SiteStays DEF CompareTip, repo
    <2>5. HostOK'
      BY <1>6, <2>1, HostStays DEF CompareTip, host, history, BaseInv, HostOK
    <2>6. RequestsOK'
      BY <1>6, OthersStay DEF CompareTip
    <2>7. PublicationsOK'
      <3>1. Goes(pub, pub', p, "acting", pub[p].tip) \/ Stops(pub, pub', p)
        BY <1>6, PubEffects
      <3>2. QED
        BY <2>1, <2>2, <3>1, StoppingStays, GoingStays DEF PubPlaces
    <2>8. QED
      BY <2>1, <2>2, <2>3, <2>4, <2>5, <2>6, <2>7 DEF BaseInv
  <1>7. ASSUME NEW p \in Publications, ReadTip(p) PROVE BaseInv'
    <2> site' = site /\ DOMAIN site \subseteq DOMAIN site' /\ MergesStay
      BY <1>7 DEF ReadTip, repo, MergesStay
    <2>1. pub[p].at \notin {"idle", "over"} /\ Conv(p) \in Conversations
      BY <1>7 DEF ReadTip, Conv, BaseInv, PublicationsOK
    <2>2. pub[p].tip \in Tips /\ pub[p].tip.base \in DOMAIN site
      BY DEF BaseInv, PublicationsOK, PubRecs
    <2>3. Tip(p) \in Tips /\ Tip(p).base \in DOMAIN site
      BY <2>1 DEF BaseInv, RepoOK, Tip
    <2>4. RepoOK'
      BY <1>7, SiteStays DEF ReadTip, repo
    <2>5. HostOK'
      BY <1>7, <2>1, HostStays DEF ReadTip, host, history, BaseInv, HostOK
    <2>6. RequestsOK'
      BY <1>7, OthersStay DEF ReadTip
    <2>7. [work |-> pub[p].tip.work, base |-> Len(site)] \in Tips /\ pub[p].kind = "undo"
      BY <1>7, <1>a, <2>2, <2>3 DEF ReadTip, Tips, BaseInv, PublicationsOK
    <2>8. PublicationsOK'
      <3> DEFINE next == [work |-> pub[p].tip.work, base |-> Len(site)]
      <3>1. (Len(site) = merged[Conv(p)] /\ Goes(pub, pub', p, "reverting", next)) \/ Stops(pub, pub', p)
        BY <1>7, PubEffects, Zenon
      <3>2. next \in Tips /\ next.base = Len(site) /\ "reverting" \in PubPlaces
        BY <2>7 DEF PubPlaces
      <3> HIDE DEF next
      <3>3. CASE Len(site) = merged[Conv(p)] /\ Goes(pub, pub', p, "reverting", next)
        BY <1>a, <2>1, <2>7, <3>2, <3>3, GoingStays
      <3>4. QED
        BY <3>1, <3>3, StoppingStays
    <2>9. QED
      BY <2>1, <2>2, <2>3, <2>4, <2>5, <2>6, <2>7, <2>8 DEF BaseInv
  <1>8. ASSUME NEW p \in Publications, RecordPublication(p) PROVE BaseInv'
    <2> site' = site /\ DOMAIN site \subseteq DOMAIN site' /\ MergesStay
      BY <1>8 DEF RecordPublication, repo, MergesStay
    <2>1. pub[p].at \notin {"idle", "over"} /\ Conv(p) \in Conversations
      BY <1>8 DEF RecordPublication, Conv, BaseInv, PublicationsOK
    <2>2. pub[p].tip \in Tips /\ pub[p].tip.base \in DOMAIN site
      BY DEF BaseInv, PublicationsOK, PubRecs
    <2>3. Tip(p) \in Tips /\ Tip(p).base \in DOMAIN site
      BY <2>1 DEF BaseInv, RepoOK, Tip
    <2>4. RepoOK'
      <3>1. pub[p].kind \in Comments \/ UNCHANGED comments
        BY <1>8 DEF RecordPublication, BaseInv, PublicationsOK, PubRecs, Comments, Records, Says
      <3>2. comments' \in [Conversations -> Seq(Comments)]
        BY <1>8, <2>1, <3>1, Said DEF RecordPublication, BaseInv, RepoOK
      <3>3. QED
        BY <1>8, <3>2 DEF RecordPublication, BaseInv, RepoOK
    <2>5. HostOK'
      BY <1>8, <2>1, HostStays DEF RecordPublication, host, history, BaseInv, HostOK
    <2>6. RequestsOK'
      BY <1>8, OthersStay DEF RecordPublication
    <2>7. PublicationsOK'
      <3>1. Stops(pub, pub', p)
        BY <1>8, PubEffects, Zenon
      <3>2. QED
        BY <3>1, StoppingStays
    <2>8. QED
      BY <2>1, <2>2, <2>3, <2>4, <2>5, <2>6, <2>7 DEF BaseInv
  <1>9. ASSUME NEW p \in Publications, Merge(p) PROVE BaseInv'
    <2> DEFINE X == Live \cup Tip(p).work
    <2>1. pub[p].at \notin {"idle", "over"} /\ Conv(p) \in Conversations
      BY <1>9 DEF Merge, Conv, BaseInv, PublicationsOK
    <2>2. pub[p].tip \in Tips /\ pub[p].tip.base \in DOMAIN site
      BY DEF BaseInv, PublicationsOK, PubRecs
    <2>3. X \in SUBSET Edits
      BY <1>a, <2>1 DEF BaseInv, RepoOK, Tip, Tips, Live, Edits
    <2>4. RepoOK' /\ DOMAIN site \subseteq DOMAIN site' /\ MergesStay
      BY <1>9, <2>1, <2>3, PubEffects, SiteMoves, SiteStays DEF Merge, MergesStay
    <2>5. HostOK'
      BY <1>9, <2>1, <2>4, PubEffects, HostStays DEF Merge, host, history, BaseInv, HostOK
    <2>6. RequestsOK'
      BY <1>9, <2>4, OthersStay DEF Merge
    <2>7. PublicationsOK'
      <3>1. Goes(pub, pub', p, "recording", pub[p].tip) \/ Stops(pub, pub', p)
        BY <1>9, PubEffects, Zenon
      <3>2. "recording" \in PubPlaces
        BY DEF PubPlaces
      <3>3. Stops(pub, pub', p) \/ merged'[Conv(p)] # 0
        <4>1. \/ Stops(pub, pub', p)
              \/ site' = Append(site, X) /\ merged' = [merged EXCEPT ![Conv(p)] = Len(site')]
          BY <1>9, PubEffects
        <4>2. Len(Append(site, X)) # 0
          BY <2>3, AppendProperties DEF BaseInv, RepoOK
        <4>3. merged \in [Conversations -> 0 .. Len(site)]
          BY DEF BaseInv, RepoOK
        <4>4. QED
          BY <2>1, <4>1, <4>2, <4>3
      <3>4. QED
        BY <2>1, <2>2, <2>4, <3>1, <3>2, <3>3, StoppingStays, GoingStays
    <2>8. QED
      BY <2>1, <2>2, <2>3, <2>4, <2>5, <2>6, <2>7 DEF BaseInv
  <1>10. ASSUME NEW p \in Publications, Revert(p) PROVE BaseInv'
    <2> DEFINE X == Before(Conv(p))
    <2>1. pub[p].at \notin {"idle", "over"} /\ Conv(p) \in Conversations
      BY <1>10 DEF Revert, Conv, BaseInv, PublicationsOK
    <2>2. pub[p].tip \in Tips /\ pub[p].tip.base \in DOMAIN site
      BY DEF BaseInv, PublicationsOK, PubRecs
    <2>3. X \in SUBSET Edits
      BY <1>10, <2>1 DEF Revert, BaseInv, RepoOK, PublicationsOK, Before, Edits
    <2>4. RepoOK' /\ DOMAIN site \subseteq DOMAIN site' /\ MergesStay
      BY <1>10, <2>3, PubEffects, SiteMoves, SiteStays DEF Revert, MergesStay
    <2>5. HostOK'
      BY <1>10, <2>1, <2>4, PubEffects, HostStays DEF Revert, host, history, BaseInv, HostOK
    <2>6. RequestsOK'
      BY <1>10, <2>4, OthersStay DEF Revert
    <2>7. PublicationsOK'
      <3>1. Goes(pub, pub', p, "recording", pub[p].tip) \/ Stops(pub, pub', p)
        BY <1>10, PubEffects, Zenon
      <3>2. "recording" \in PubPlaces /\ merged'[Conv(p)] # 0
        BY <1>10 DEF PubPlaces, Revert, BaseInv, PublicationsOK
      <3>3. QED
        BY <2>1, <2>2, <2>4, <3>1, <3>2, StoppingStays, GoingStays
    <2>8. QED
      BY <2>1, <2>2, <2>3, <2>4, <2>5, <2>6, <2>7 DEF BaseInv
  <1>11. ASSUME NEW d \in Developers, Commit(d) PROVE BaseInv'
    <2> DEFINE X == Live \cup {d}
    <2>1. X \in SUBSET Edits
      BY <1>a DEF BaseInv, RepoOK, Live, Edits
    <2>2. RepoOK' /\ DOMAIN site \subseteq DOMAIN site' /\ MergesStay
      BY <1>11, <2>1, SiteMoves DEF Commit, Live
    <2>3. HostOK'
      BY <1>11, <2>2, HostStays DEF Commit, history, BaseInv, HostOK
    <2>4. RequestsOK' /\ PublicationsOK'
      BY <1>11, <2>2, OthersStay DEF Commit
    <2>5. QED
      BY <2>1, <2>2, <2>3, <2>4 DEF BaseInv
  <1>12. ASSUME NEW r \in Requests, Start(r) PROVE BaseInv'
    <2> site' = site /\ DOMAIN site \subseteq DOMAIN site' /\ MergesStay
      BY <1>12 DEF Start, repo, MergesStay
    <2>1. Of[r] \in Conversations /\ branch[Of[r]] \in Tips /\ branch[Of[r]].base \in DOMAIN site
      BY DEF BaseInv, RepoOK
    <2>2. RepoOK'
      <3>1. comments' \in [Conversations -> Seq(Comments)]
        BY <1>12, <2>1, Said DEF Start, BaseInv, RepoOK, Comments, Records
      <3>2. QED
        BY <1>12, <3>1 DEF Start, BaseInv, RepoOK
    <2>3. HostOK'
      BY <1>12, <2>1, HostStays DEF Start, host, Overtaken, Busy, BaseInv, HostOK
    <2>4. lock' \in Requests \cup {None}
      BY <1>12 DEF Start
    <2>5. RequestsOK'
      <3>1. Turns(request, request', r, "working", branch[Of[r]], request[r].outcome)
        BY <1>12, RequestEffects
      <3>2. QED
        BY <2>1, <2>4, <3>1, RequestsStay
    <2>6. PublicationsOK'
      BY <1>12, OthersStay DEF Start
    <2>7. QED
      BY <2>1, <2>2, <2>3, <2>4, <2>5, <2>6 DEF BaseInv
  <1>13. ASSUME NEW r \in Requests, Work(r) PROVE BaseInv'
    <2> site' = site /\ DOMAIN site \subseteq DOMAIN site' /\ MergesStay
      BY <1>13 DEF Work, repo, MergesStay
    <2>1. Of[r] \in Conversations /\ branch[Of[r]] \in Tips /\ branch[Of[r]].base \in DOMAIN site
      BY DEF BaseInv, RepoOK
    <2>2. request[r].tip.base \in DOMAIN site
      BY DEF BaseInv, RequestsOK
    <2>3. branch' \in [Conversations -> Tips] /\ \A c \in Conversations : branch'[c].base = branch[c].base
      <3>1. UNCHANGED branch \/ branch' = [branch EXCEPT ![Of[r]].work = @ \cup {r}]
        BY <1>13, RequestEffects
      <3>2. branch \in [Conversations -> Tips]
        BY DEF BaseInv, RepoOK
      <3>3. QED
        BY <2>1, <3>1, <3>2, BranchGrows
    <2>4. RepoOK'
      BY <1>13, <2>3 DEF Work, BaseInv, RepoOK
    <2>5. HostOK'
      BY <1>13, <2>1, RequestEffects, HostStays DEF Work, history, BaseInv, HostOK
    <2>6. lock' \in Requests \cup {None} /\ branch'[Of[r]].base \in DOMAIN site
      BY <1>13, <2>1, <2>3 DEF Work, BaseInv, RequestsOK
    <2>7. RequestsOK'
      <3>1. \/ Turns(request, request', r, "ended", request[r].tip, "failed")
            \/ Turns(request, request', r, "building", branch'[Of[r]], request[r].outcome)
        BY <1>13, RequestEffects
      <3>2. QED
        BY <2>2, <2>6, <3>1, RequestsStay
    <2>8. PublicationsOK'
      BY <1>13, OthersStay DEF Work
    <2>9. QED
      BY <2>1, <2>2, <2>3, <2>4, <2>5, <2>6, <2>7, <2>8 DEF BaseInv
  <1>14. ASSUME NEW r \in Requests, AwaitPreview(r) PROVE BaseInv'
    <2> site' = site /\ DOMAIN site \subseteq DOMAIN site' /\ MergesStay
      BY <1>14 DEF AwaitPreview, repo, MergesStay
    <2>1. Of[r] \in Conversations /\ branch[Of[r]] \in Tips /\ branch[Of[r]].base \in DOMAIN site
      BY DEF BaseInv, RepoOK
    <2>2. request[r].tip.base \in DOMAIN site
      BY DEF BaseInv, RequestsOK
    <2>3. RepoOK'
      BY <1>14, SiteStays DEF AwaitPreview, repo
    <2>4. HostOK'
      BY <1>14, <2>1, HostStays DEF AwaitPreview, host, Mistakes, BaseInv, HostOK
    <2>5. RequestsOK'
      <3>1. \E o \in {"failed", "previewed"} : Turns(request, request', r, "ended", request[r].tip, o)
        BY <1>14, RequestEffects
      <3>2. lock' \in Requests \cup {None}
        BY <1>14 DEF AwaitPreview, BaseInv, RequestsOK
      <3>3. QED
        BY <2>2, <3>1, <3>2, RequestsStay
    <2>6. PublicationsOK'
      BY <1>14, OthersStay DEF AwaitPreview
    <2>7. QED
      BY <2>1, <2>2, <2>3, <2>4, <2>5, <2>6 DEF BaseInv
  <1>15. ASSUME NEW r \in Requests, File(r) PROVE BaseInv'
    <2> site' = site /\ DOMAIN site \subseteq DOMAIN site' /\ MergesStay
      BY <1>15 DEF File, repo, MergesStay
    <2>1. Of[r] \in Conversations /\ branch[Of[r]] \in Tips /\ branch[Of[r]].base \in DOMAIN site
      BY DEF BaseInv, RepoOK
    <2>2. request[r].outcome \in {"previewed", "failed"}
      BY <1>15 DEF File, BaseInv, RequestsOK, ReqRecs
    <2>3. RepoOK'
      <3>1. comments' \in [Conversations -> Seq(Comments)]
        BY <1>15, <2>1, <2>2, Said DEF File, BaseInv, RepoOK, Comments, Records
      <3>2. QED
        BY <1>15, <3>1 DEF File, BaseInv, RepoOK
    <2>4. HostOK'
      BY <1>15, <2>1, HostStays DEF File, host, Overtaken, BaseInv, HostOK
    <2>5. lock' \in Requests \cup {None}
      BY <1>15 DEF File, BaseInv, RequestsOK
    <2>6. RequestsOK'
      <3>1. Turns(request, request', r, "over", NoTip, "none")
        BY <1>15, RequestEffects
      <3>2. NoTip.base \in DOMAIN site
        BY <1>a DEF NoTip
      <3>3. QED
        BY <2>5, <3>1, <3>2, RequestsStay
    <2>7. PublicationsOK'
      BY <1>15, OthersStay DEF File
    <2>8. QED
      BY <2>1, <2>2, <2>3, <2>4, <2>5, <2>6, <2>7 DEF BaseInv
  <1>16. ASSUME NEW r \in Requests, Unlock(r) PROVE BaseInv'
    <2> site' = site /\ DOMAIN site \subseteq DOMAIN site' /\ MergesStay
      BY <1>16 DEF Unlock, repo, MergesStay
    <2>1. RepoOK'
      BY <1>16, SiteStays DEF Unlock, repo
    <2>2. HostOK'
      BY <1>16, HostStays DEF Unlock, history, BaseInv, HostOK
    <2>3. RequestsOK'
      BY <1>16 DEF Unlock, repo, BaseInv, RequestsOK
    <2>4. PublicationsOK'
      BY <1>16, OthersStay DEF Unlock
    <2>5. QED
      BY <2>1, <2>2, <2>3, <2>4 DEF BaseInv
  <1>17. ASSUME NEW c \in Conversations, ListDeploy(c) PROVE BaseInv'
    <2> site' = site /\ DOMAIN site \subseteq DOMAIN site' /\ MergesStay
      BY <1>17 DEF ListDeploy, repo, MergesStay
    <2>1. RepoOK'
      BY <1>17, SiteStays DEF ListDeploy, repo
    <2>2. HostOK'
      BY <1>17 DEF ListDeploy, history, repo, BaseInv, HostOK, RepoOK, Deploys
    <2>3. RequestsOK' /\ PublicationsOK'
      BY <1>17, OthersStay DEF ListDeploy
    <2>4. QED
      BY <2>1, <2>2, <2>3 DEF BaseInv
  <1>18. ASSUME NEW c \in Conversations, Build(c) PROVE BaseInv'
    <2> site' = site /\ DOMAIN site \subseteq DOMAIN site' /\ MergesStay
      BY <1>18 DEF Build, repo, MergesStay
    <2>1. RepoOK'
      BY <1>18, SiteStays DEF Build, repo
    <2>2. HostOK'
      <3>1. PICK s \in {"ready", "error"} : deploy' = [deploy EXCEPT ![c].state = s]
        BY <1>18 DEF Build
      <3>2. /\ deploy' \in [Conversations -> Deploys \cup {None}]
            /\ \A d \in Conversations \ {c} : deploy'[d] = deploy[d]
            /\ deploy'[c].tip = deploy[c].tip
        BY <1>18, <3>1, DeployEnds DEF Build, BaseInv, HostOK
      <3>3. /\ shown' \in [Conversations -> SUBSET Tips]
            /\ \A d \in Conversations : shown'[d] \subseteq shown[d] \cup {deploy[d].tip}
            /\ \A d \in Conversations \ {c} : shown'[d] = shown[d]
        BY <1>18 DEF Build, BaseInv, HostOK, Deploys
      <3>4. QED
        BY <1>18, <3>2, <3>3 DEF Build, history, BaseInv, HostOK
    <2>3. RequestsOK' /\ PublicationsOK'
      BY <1>18, OthersStay DEF Build
    <2>4. QED
      BY <2>1, <2>2, <2>3 DEF BaseInv
  <1>19. ASSUME NEW p \in Publications, NEW c \in Conversations,
               NEW kind \in {"publish", "undo"}, Begin(p, c, kind)
        PROVE  BaseInv'
    <2> site' = site /\ DOMAIN site \subseteq DOMAIN site' /\ MergesStay
      BY <1>19 DEF Begin, repo, MergesStay
    <2>1. RepoOK'
      BY <1>19, SiteStays DEF Begin, repo
    <2>2. HostOK'
      BY <1>19, HostStays DEF Begin, host, Overtaken, Busy, BaseInv, HostOK
    <2>3. RequestsOK'
      BY <1>19, OthersStay DEF Begin
    <2>4. pub' \in [Publications -> PubRecs] /\ \A q \in Publications \ {p} : pub'[q] = pub[q]
      BY <1>19, PubEffects
    <2>5. pub'[p] = [at |-> "gating", kind |-> kind, conv |-> c, tip |-> NoTip]
      BY <1>19, PubEffects
    <2>6. PublicationsOK'
      <3>1. /\ pub'[p].at = "gating" /\ pub'[p].kind = kind /\ pub'[p].conv = c
            /\ pub'[p].tip.base = 1
        BY <2>5 DEF NoTip
      <3>2. ASSUME NEW q \in Publications
            PROVE  /\ pub'[q].tip.base \in DOMAIN site
                   /\ pub'[q].at \notin {"idle", "over"} =>
                        pub'[q].conv \in Conversations /\ pub'[q].kind # "none"
                   /\ pub'[q].at \in {"comparing", "updating", "pushing", "previewing"}
                       => pub'[q].kind = "publish"
                   /\ pub'[q].at = "reverting" =>
                        /\ pub'[q].kind = "undo"
                        /\ merged[pub'[q].conv] # 0 /\ pub'[q].tip.base = merged[pub'[q].conv]
                   /\ pub'[q].at = "recording" => merged[pub'[q].conv] # 0
        <4>1. CASE q = p
          BY <1>a, <3>1, <4>1
        <4>2. CASE q # p
          BY <2>4, <4>2 DEF BaseInv, PublicationsOK, Conv
        <4>3. QED
          BY <4>1, <4>2
      <3>3. merged' = merged
        BY <1>19 DEF Begin, repo
      <3>4. QED
        BY <2>4, <3>2, <3>3 DEF PublicationsOK, Conv
    <2>7. QED
      BY <2>1, <2>2, <2>3, <2>4, <2>5, <2>6 DEF BaseInv
  <1>20. CASE Restart
    <2> site' = site /\ DOMAIN site \subseteq DOMAIN site' /\ MergesStay
      BY <1>20 DEF Restart, repo, MergesStay
    <2>1. RepoOK'
      BY <1>20, SiteStays DEF Restart, repo
    <2>2. HostOK'
      BY <1>20, HostStays DEF Restart, host, Alive, Conv, BaseInv, HostOK, PublicationsOK
    <2>3. RequestsOK'
      BY <1>20, <1>a DEF Restart, repo, BaseInv, RequestsOK, Resting, NoTip, ReqRecs, Tips
    <2>4. PublicationsOK'
      BY <1>20, <1>a DEF Restart, repo, BaseInv, PublicationsOK, Unpressed, NoTip, PubRecs, PubPlaces, Tips, Conv
    <2>5. QED
      BY <2>1, <2>2, <2>3, <2>4 DEF BaseInv
  <1>21. CASE UNCHANGED vars
    BY <1>21 DEF vars, BaseInv, RepoOK, HostOK, RequestsOK, PublicationsOK, Conv
  <1>22. ASSUME NEW c \in Conversations, Remark(c) PROVE BaseInv'
    <2> site' = site /\ DOMAIN site \subseteq DOMAIN site' /\ MergesStay
      BY <1>22 DEF Remark, MergesStay
    <2>1. comments' \in [Conversations -> Seq(Comments)]
      BY <1>22, Said DEF Remark, BaseInv, RepoOK, Comments
    <2>2. RepoOK'
      BY <1>22, <2>1 DEF Remark, BaseInv, RepoOK
    <2>3. HostOK'
      BY <1>22, HostStays DEF Remark, history, BaseInv, HostOK
    <2>4. RequestsOK' /\ PublicationsOK'
      BY <1>22, OthersStay DEF Remark
    <2>5. QED
      BY <2>2, <2>3, <2>4 DEF BaseInv
  <1>23. QED
    BY <1>1, <1>2, <1>3, <1>4, <1>5, <1>6, <1>7, <1>8, <1>9, <1>10, <1>11,
       <1>12, <1>13, <1>14, <1>15, <1>16, <1>17, <1>18, <1>19, <1>20, <1>21, <1>22
    DEF Next, Publish, Change

\* Every variable of Publication keeps its type, and whatever anybody has read of the
\* site, a branch, a deploy, a request or a publication, is still one of its commits.
THEOREM TypeCorrect == Spec => []TypeOK
  <1>1. Spec => []BaseInv
    BY BaseInit, BaseStep, PTL DEF Spec
  <1>2. QED
    BY <1>1, BaseGivesTypes, PTL

-------------------------------------------------------------------------------
(* What the site may lose *)

\* Commits stay where they are, and so does what a merge brought.
HistoryStays == DOMAIN site \subseteq DOMAIN site' /\ \A i \in DOMAIN site : site'[i] = site[i]

LEMMA MergeIsKept ==
  ASSUME BaseInv, HistoryStays, MergesStay, NEW c \in Conversations, merged[c] # 0
  PROVE  /\ merged'[c] = merged[c] /\ site'[merged'[c]] = site[merged[c]]
         /\ Before(c)' = Before(c) /\ Brought(c)' = Brought(c)
  <1>1. merged[c] \in DOMAIN site /\ merged[c] - 1 \in DOMAIN site /\ merged'[c] = merged[c]
    BY DEF BaseInv, RepoOK, MergesStay
  <1>2. site'[merged[c]] = site[merged[c]] /\ site'[merged[c] - 1] = site[merged[c] - 1]
    BY <1>1 DEF HistoryStays
  <1>3. QED
    BY <1>1, <1>2 DEF Before, Brought

\* A step that leaves the repository alone, and after which nobody has just acted, nor
\* says of a change that it was undone unless it was.
LEMMA NothingMoves ==
  ASSUME SiteInv, UNCHANGED <<site, branch, merged>>,
         \A c \in Conversations :
            SaysUndone(comments'[c]) => SaysUndone(comments[c]) \/ TakenBack(c),
         \A p \in Publications : pub'[p].at = "recording" => pub'[p] = pub[p]
  PROVE  MergesAdd' /\ UndoneIsTakenBack'
  BY DEF SiteInv, MergesAdd, UndoneIsTakenBack, TakenBack, Brought, Before, Live, Conv

LEMMA NobodyActed ==
  ASSUME NEW p \in Publications,
         \/ Stops(pub, pub', p)
         \/ \E to \in PubPlaces \ {"recording"}, t \in Tips : Goes(pub, pub', p, to, t)
  PROVE  \A q \in Publications : pub'[q].at = "recording" => pub'[q] = pub[q]
  BY DEF Goes, Stops, Unpressed

\* What a step must do to the site for what is taken back to stay so.
LEMMA TakenBackStays ==
  ASSUME BaseInv, HistoryStays, MergesStay, NEW c \in Conversations, TakenBack(c),
         Live' \cap Brought(c) \subseteq Live
  PROVE  TakenBack(c)'
  BY MergeIsKept DEF TakenBack

LEMMA SiteStep == SiteInv /\ [Next]_vars => SiteInv'
  <1> SUFFICES ASSUME SiteInv, [Next]_vars PROVE SiteInv'
    OBVIOUS
  <1>a. BaseInv /\ BaseInv'
    BY BaseStep DEF SiteInv
  <1>b. MergesAdd /\ UndoneIsTakenBack
    BY DEF SiteInv
  <1>c. Len(site) \in DOMAIN site /\ Len(site) \in Nat /\ Len(site) # 0 /\ site \in Seq(SUBSET Edits)
    BY <1>a DEF BaseInv, RepoOK
  <1> SUFFICES MergesAdd' /\ UndoneIsTakenBack'
    BY <1>a DEF SiteInv
  <1>1. ASSUME NEW p \in Publications,
               InspectLock(p) \/ Compare(p) \/ Update(p) \/ AwaitRebuilt(p) \/ CompareTip(p) \/ ReadTip(p)
        PROVE  MergesAdd' /\ UndoneIsTakenBack'
    <2>1. UNCHANGED <<site, branch, merged, comments>>
      BY <1>1 DEF InspectLock, Compare, Update, AwaitRebuilt, CompareTip, ReadTip, repo
    <2>2. pub[p].tip \in Tips
      BY <1>a DEF BaseInv, PublicationsOK, PubRecs
    <2>3. Update(p) \/ Compare(p) => Tip(p) \in Tips
      BY <1>a DEF BaseInv, RepoOK, PublicationsOK, Update, Compare, Tip, Conv
    <2>4. /\ [work |-> pub[p].tip.work, base |-> Len(site)] \in Tips
          /\ Update(p) => [work |-> Tip(p).work, base |-> Len(site)] \in Tips
      BY <1>c, <2>2, <2>3 DEF Tips
    <2>5. \/ Stops(pub, pub', p)
          \/ \E to \in PubPlaces \ {"recording"}, t \in Tips : Goes(pub, pub', p, to, t)
      BY <1>a, <1>1, <2>2, <2>3, <2>4, PubEffects DEF PubPlaces
    <2>6. QED
      BY <2>1, <2>5, NobodyActed, NothingMoves
  <1>2. ASSUME NEW p \in Publications, NEW c \in Conversations, NEW kind \in {"publish", "undo"},
               Begin(p, c, kind)
        PROVE  MergesAdd' /\ UndoneIsTakenBack'
    <2>1. UNCHANGED <<site, branch, merged, comments>>
      BY <1>2 DEF Begin, repo
    <2>2. \A q \in Publications \ {p} : pub'[q] = pub[q]
      BY <1>a, <1>2, PubEffects
    <2>3. pub'[p].at = "gating"
      <3>1. pub'[p] = [at |-> "gating", kind |-> kind, conv |-> c, tip |-> NoTip]
        BY <1>a, <1>2, PubEffects
      <3>2. QED
        BY <3>1
    <2>4. QED
      BY <2>1, <2>2, <2>3, NothingMoves
  <1>3. ASSUME NEW p \in Publications, Push(p) PROVE MergesAdd' /\ UndoneIsTakenBack'
    <2>1. UNCHANGED <<site, merged, comments>>
      BY <1>3 DEF Push
    <2>2. pub[p].tip \in Tips /\ Conv(p) \in Conversations
      BY <1>a, <1>3 DEF BaseInv, PublicationsOK, PubRecs, Push, Conv
    <2>3. \A q \in Publications : pub'[q].at = "recording" => pub'[q] = pub[q]
      <3>1. Stops(pub, pub', p) \/ Goes(pub, pub', p, "previewing", pub[p].tip)
        BY <1>a, <1>3, PubEffects
      <3>2. QED
        BY <2>2, <3>1, NobodyActed DEF PubPlaces
    <2>4. \A c \in Conversations : branch'[c].work = branch[c].work
      <3>1. \/ /\ Tip(p).work = pub[p].tip.work
               /\ branch' = [branch EXCEPT ![Conv(p)] = pub[p].tip]
            \/ UNCHANGED branch
        BY <1>a, <1>3, PubEffects
      <3>2. QED
        BY <1>a, <2>2, <3>1 DEF BaseInv, RepoOK, Tip
    <2>5. QED
      BY <1>b, <2>1, <2>3, <2>4
      DEF MergesAdd, UndoneIsTakenBack, TakenBack, Brought, Before, Live, Conv
  <1>4. ASSUME NEW r \in Requests, Work(r) PROVE MergesAdd' /\ UndoneIsTakenBack'
    <2>1. UNCHANGED <<site, merged, comments, pub>>
      BY <1>4 DEF Work
    <2>2. Of[r] \in Conversations /\ branch \in [Conversations -> Tips]
      BY <1>a, OfIsTotal DEF BaseInv, RepoOK
    <2>3. \A c \in Conversations : branch'[c].work \subseteq OwnEdits(c)
      <3>1. UNCHANGED branch \/ branch' = [branch EXCEPT ![Of[r]].work = @ \cup {r}]
        BY <1>a, <1>4, RequestEffects
      <3>2. r \in OwnEdits(Of[r]) /\ \A c \in Conversations : branch[c].work \subseteq OwnEdits(c)
        BY <1>b DEF MergesAdd, OwnEdits
      <3>3. QED
        BY <2>2, <3>1, <3>2, BranchGrows
    <2>4. QED
      BY <1>b, <2>1, <2>3
      DEF MergesAdd, UndoneIsTakenBack, TakenBack, Brought, Before, Live, Conv
  <1>5. ASSUME NEW p \in Publications, Merge(p) PROVE MergesAdd' /\ UndoneIsTakenBack'
    <2>c. PICK c \in Conversations : c = Conv(p)
      BY <1>a, <1>5 DEF BaseInv, PublicationsOK, Merge, Conv
    <2> DEFINE X == Live \cup Tip(p).work
    <2>1. pub[p].tip \in Tips /\ pub[p].kind = "publish"
      BY <1>a, <1>5 DEF BaseInv, PublicationsOK, PubRecs, Merge
    <2>2. UNCHANGED <<branch, comments>>
      BY <1>5 DEF Merge
    <2>3. \/ Stops(pub, pub', p) \/ Goes(pub, pub', p, "recording", pub[p].tip)
      BY <1>a, <1>5, PubEffects
    <2>4. \A q \in Publications :
            pub'[q].at = "recording" /\ pub'[q].kind = "undo" => pub'[q] = pub[q]
      BY <2>1, <2>3 DEF Goes, Stops, Unpressed
    <2>5. CASE UNCHANGED <<site, merged>>
      BY <1>b, <2>2, <2>4, <2>5
      DEF MergesAdd, UndoneIsTakenBack, TakenBack, Brought, Before, Live, Conv
    <2>6. CASE /\ merged[c] = 0 /\ site' = Append(site, X)
               /\ merged' = [merged EXCEPT ![c] = Len(site')]
      <3>1. Tip(p).work \subseteq OwnEdits(c)
        BY <1>b, <2>c DEF MergesAdd, Tip
      <3>2. X \in SUBSET Edits
        BY <1>a, <1>c, <2>c DEF BaseInv, RepoOK, Tip, Tips, Live, Edits
      <3>3. HistoryStays /\ Len(site') = Len(site) + 1 /\ Live' = X
        BY <1>c, <2>6, <3>2, SiteGrows DEF HistoryStays, Live
      <3>4. MergesStay
        BY <1>a, <2>6 DEF BaseInv, RepoOK, MergesStay
      <3>5. MergesAdd'
        <4>1. Before(c)' = Live /\ site'[merged'[c]] = X /\ Brought(c)' = X \ Live
          <5>1. merged'[c] = Len(site) + 1 /\ Len(site) + 1 - 1 = Len(site)
            BY <1>a, <1>c, <2>6, <3>3 DEF BaseInv, RepoOK
          <5>2. site'[Len(site)] = Live /\ site'[Len(site) + 1] = X
            BY <1>c, <3>3 DEF HistoryStays, Live
          <5>3. QED
            BY <5>1, <5>2 DEF Before, Brought
        <4>2. ASSUME NEW d \in Conversations, merged'[d] # 0
              PROVE  Before(d)' \subseteq site'[merged'[d]] /\ Brought(d)' \subseteq OwnEdits(d)
          <5>1. CASE d = c
            BY <3>1, <4>1, <5>1
          <5>2. CASE d # c
            <6>1. merged[d] # 0
              BY <1>a, <2>6, <4>2, <5>2 DEF BaseInv, RepoOK
            <6>2. QED
              BY <1>a, <1>b, <3>3, <3>4, <6>1, MergeIsKept DEF MergesAdd
          <5>3. QED
            BY <5>1, <5>2
        <4>3. QED
          BY <1>b, <2>2, <4>2 DEF MergesAdd
      <3>6. ASSUME NEW d \in Conversations, TakenBack(d) PROVE TakenBack(d)'
        <4>1. Brought(d) \subseteq OwnEdits(d) /\ d # c
          BY <1>b, <2>6, <3>6 DEF TakenBack, MergesAdd
        <4>2. OwnEdits(d) \cap OwnEdits(c) = {}
          BY <4>1 DEF OwnEdits
        <4>3. Live' \cap Brought(d) \subseteq Live
          BY <3>1, <3>3, <4>1, <4>2
        <4>4. QED
          BY <1>a, <3>3, <3>4, <3>6, <4>3, TakenBackStays
      <3>7. UndoneIsTakenBack'
        BY <1>a, <1>b, <2>2, <2>4, <3>6 DEF UndoneIsTakenBack, Conv, BaseInv, RepoOK, PublicationsOK
      <3>8. QED
        BY <3>5, <3>7
    <2>7. QED
      BY <1>a, <1>5, <2>c, <2>5, <2>6, PubEffects
  <1>6. ASSUME NEW p \in Publications, Revert(p) PROVE MergesAdd' /\ UndoneIsTakenBack'
    <2>c. PICK c \in Conversations : c = Conv(p)
      BY <1>a, <1>6 DEF BaseInv, PublicationsOK, Revert, Conv
    <2> DEFINE X == Before(c)
    <2>1. pub[p].kind = "undo" /\ merged[c] # 0 /\ pub[p].tip.base = merged[c]
      BY <1>a, <1>6, <2>c DEF BaseInv, PublicationsOK, Revert
    <2>2. UNCHANGED <<branch, merged, comments>>
      BY <1>6 DEF Revert
    <2>3. \/ Stops(pub, pub', p) \/ Goes(pub, pub', p, "recording", pub[p].tip)
      BY <1>a, <1>6, PubEffects
    <2>4. CASE UNCHANGED site /\ Stops(pub, pub', p)
      BY <2>2, <2>4, NobodyActed, NothingMoves
    <2>5. CASE Len(site) = pub[p].tip.base /\ site' = Append(site, X)
      <3>1. X \in SUBSET Edits
        BY <1>a, <2>1 DEF BaseInv, RepoOK, Before
      <3>2. HistoryStays /\ Live' = X
        BY <1>c, <2>5, <3>1, SiteGrows DEF HistoryStays, Live
      <3>3. MergesStay
        BY <2>2 DEF MergesStay
      <3>4. X \subseteq Live /\ X \cap Brought(c) = {}
        BY <1>b, <2>1, <2>5 DEF MergesAdd, Live, Brought, Before
      <3>5. MergesAdd'
        BY <1>a, <1>b, <2>2, <3>2, <3>3, MergeIsKept DEF MergesAdd
      <3>6. \A d \in Conversations : TakenBack(d) => TakenBack(d)'
        BY <1>a, <3>2, <3>3, <3>4, TakenBackStays
      <3>7. TakenBack(c)'
        BY <1>a, <2>1, <3>2, <3>3, <3>4, MergeIsKept DEF TakenBack
      <3>8. \A q \in Publications \ {p} : pub'[q] = pub[q]
        BY <2>3 DEF Goes, Stops
      <3>9. pub'[p].at = "recording" => Conv(p)' = c
        BY <2>c, <2>3 DEF Goes, Stops, Unpressed, Conv
      <3>10. UndoneIsTakenBack'
        <4>1. \A d \in Conversations : SaysUndone(comments'[d]) => TakenBack(d)'
          BY <1>b, <2>2, <3>6 DEF UndoneIsTakenBack
        <4>2. ASSUME NEW q \in Publications, pub'[q].at = "recording", pub'[q].kind = "undo"
              PROVE  TakenBack(Conv(q))'
          <5>1. CASE q = p
            BY <3>7, <3>9, <4>2, <5>1 DEF TakenBack, Live, Brought
          <5>2. CASE q # p
            <6>1. pub'[q] = pub[q]
              BY <3>8, <5>2
            <6>2. Conv(q) \in Conversations /\ TakenBack(Conv(q)) /\ Conv(q)' = Conv(q)
              BY <1>a, <1>b, <4>2, <6>1 DEF UndoneIsTakenBack, BaseInv, PublicationsOK, Conv
            <6>3. QED
              BY <3>6, <6>2 DEF TakenBack, Live, Brought
          <5>3. QED
            BY <5>1, <5>2
        <4>3. QED
          BY <4>1, <4>2 DEF UndoneIsTakenBack
      <3>11. QED
        BY <3>5, <3>10
    <2>6. QED
      BY <1>a, <1>6, <2>c, <2>4, <2>5, PubEffects
  <1>7. ASSUME NEW p \in Publications, RecordPublication(p) PROVE MergesAdd' /\ UndoneIsTakenBack'
    <2>1. UNCHANGED <<site, branch, merged>> /\ pub[p].at = "recording"
      BY <1>7 DEF RecordPublication
    <2>2. Conv(p) \in Conversations /\ pub[p].kind \in {"publish", "undo"}
      BY <1>a, <2>1 DEF BaseInv, PublicationsOK, PubRecs, Conv
    <2>3. pub[p].kind = "undo" => TakenBack(Conv(p))
      BY <1>b, <2>1 DEF UndoneIsTakenBack
    <2>4. \A c \in Conversations :
            SaysUndone(comments'[c]) => SaysUndone(comments[c]) \/ TakenBack(c)
      <3>1. CASE UNCHANGED comments
        BY <3>1
      <3>2. CASE Says(Conv(p), pub[p].kind)
        BY <1>a, <2>2, <2>3, <3>2, Said DEF BaseInv, RepoOK, Comments, Records
      <3>3. QED
        BY <1>7, <3>1, <3>2 DEF RecordPublication
    <2>5. \A q \in Publications : pub'[q].at = "recording" => pub'[q] = pub[q]
      BY <1>a, <1>7, PubEffects, NobodyActed
    <2>6. QED
      BY <2>1, <2>4, <2>5, NothingMoves
  <1>8. ASSUME NEW d \in Developers, Commit(d) PROVE MergesAdd' /\ UndoneIsTakenBack'
    <2> DEFINE X == Live \cup {d}
    <2>1. UNCHANGED <<branch, merged, comments, pub>> /\ site' = Append(site, X)
      BY <1>8 DEF Commit, Live
    <2>2. X \in SUBSET Edits
      BY <1>c DEF Live, Edits
    <2>3. HistoryStays /\ Live' = X
      BY <1>c, <2>1, <2>2, SiteGrows DEF HistoryStays, Live
    <2>4. MergesStay
      BY <2>1 DEF MergesStay
    <2>5. MergesAdd'
      BY <1>a, <1>b, <2>1, <2>3, <2>4, MergeIsKept DEF MergesAdd
    <2>6. ASSUME NEW c \in Conversations, TakenBack(c) PROVE TakenBack(c)'
      <3>1. merged[c] \in DOMAIN site
        BY <1>a, <2>6 DEF BaseInv, RepoOK, TakenBack
      <3>2. d \notin Brought(c)
        BY <1>8, <3>1 DEF Commit, Brought
      <3>3. QED
        BY <1>a, <2>3, <2>4, <2>6, <3>2, TakenBackStays
    <2>7. UndoneIsTakenBack'
      BY <1>a, <1>b, <2>1, <2>6 DEF UndoneIsTakenBack, Conv, BaseInv, RepoOK, PublicationsOK
    <2>8. QED
      BY <2>5, <2>7
  <1>9. ASSUME UNCHANGED <<site, branch, merged, comments, pub>> PROVE MergesAdd' /\ UndoneIsTakenBack'
    BY <1>9, NothingMoves
  <1>10. CASE Restart
    <2>1. UNCHANGED <<site, branch, merged, comments>>
      BY <1>10 DEF Restart, repo
    <2>2. \A p \in Publications : pub'[p].at = "recording" => pub'[p] = pub[p]
      BY <1>10 DEF Restart, Unpressed
    <2>3. QED
      BY <2>1, <2>2, NothingMoves
  <1>11. ASSUME NEW r \in Requests, AwaitPreview(r) \/ Unlock(r)
         PROVE  UNCHANGED <<site, branch, merged, comments, pub>>
    BY <1>11 DEF AwaitPreview, Unlock, repo
  \* Words that are no record, and the records of change requests.
  <1>r. ASSUME NEW c \in Conversations, NEW x \in Comments \ {"undo"}, Says(c, x),
               UNCHANGED <<site, branch, merged, pub>>
        PROVE  MergesAdd' /\ UndoneIsTakenBack'
    <2>1. \A d \in Conversations : SaysUndone(comments'[d]) => SaysUndone(comments[d])
      BY <1>a, <1>r, Said DEF BaseInv, RepoOK
    <2>2. QED
      BY <1>r, <2>1, NothingMoves
  <1>s. ASSUME NEW r \in Requests, Start(r) \/ File(r) PROVE MergesAdd' /\ UndoneIsTakenBack'
    <2>1. UNCHANGED <<site, branch, merged, pub>> /\ Of[r] \in Conversations
      BY <1>s, OfIsTotal DEF Start, File
    <2>2. CASE UNCHANGED comments
      BY <1>9, <2>1, <2>2
    <2>3. CASE \E x \in {"previewed", "failed"} : Says(Of[r], x)
      BY <1>r, <2>1, <2>3 DEF Comments, Records
    <2>4. File(r) => request[r].outcome \in {"previewed", "failed"}
      BY <1>a DEF File, BaseInv, RequestsOK, ReqRecs
    <2>5. QED
      BY <1>s, <2>2, <2>3, <2>4 DEF Start, File
  <1>t. ASSUME NEW c \in Conversations, Remark(c) PROVE MergesAdd' /\ UndoneIsTakenBack'
    BY <1>r, <1>t DEF Remark, Comments, Records
  <1>12. ASSUME NEW c \in Conversations, ListDeploy(c) \/ Build(c)
         PROVE  UNCHANGED <<site, branch, merged, comments, pub>>
    BY <1>12 DEF ListDeploy, Build, repo
  <1>13. UNCHANGED vars => UNCHANGED <<site, branch, merged, comments, pub>>
    BY DEF vars
  <1>14. QED
    BY <1>1, <1>2, <1>3, <1>4, <1>5, <1>6, <1>7, <1>8, <1>9, <1>10, <1>11, <1>s, <1>12, <1>13, <1>t
    DEF Next, Publish, Change

LEMMA SiteAlways == Spec => []SiteInv
  <1>1. Init => SiteInv
    BY BaseInit DEF Init, SiteInv, MergesAdd, UndoneIsTakenBack, SaysUndone, NoTip, Unpressed
  <1>2. QED
    BY <1>1, SiteStep, PTL DEF Spec

\* Once a conversation's change is recorded as taken back, nothing of what its merge
\* brought is on the site, whatever has been published, committed and reverted since.
THEOREM UndoneStaysUndone == Spec => []UndoneIsNotLive
  <1>1. SiteInv => UndoneIsNotLive
    BY OnThePage DEF SiteInv, BaseInv, RepoOK, UndoneIsTakenBack, TakenBack, UndoneIsNotLive,
                     PublishState, Live
  <1>2. QED
    BY <1>1, SiteAlways, PTL

\* A step that takes anything from the site puts back what was there before the merge
\* that is its newest commit: the compare-and-set of the revert keeps the rest.
THEOREM OnlyTheNewestIsTakenBack == Spec => NothingElseIsTakenBack
  <1>1. ASSUME SiteInv, [Next]_vars
        PROVE  [\/ site[Len(site)] \subseteq site'[Len(site')]
                \/ \E c \in Conversations :
                     merged[c] = Len(site) /\ site'[Len(site')] = Before(c)]_vars
    <2>a. BaseInv /\ site \in Seq(SUBSET Edits) /\ Len(site) \in DOMAIN site
      BY <1>1 DEF SiteInv, BaseInv, RepoOK
    <2>1. ASSUME NEW p \in Publications, Merge(p)
          PROVE  site[Len(site)] \subseteq site'[Len(site')]
      <3>1. Conv(p) \in Conversations
        BY <2>a, <2>1 DEF BaseInv, PublicationsOK, Merge, Conv
      <3>2. Live \cup Tip(p).work \in SUBSET Edits
        BY <2>a, <3>1 DEF BaseInv, RepoOK, Tip, Tips, Live, Edits
      <3>3. site' = Append(site, Live \cup Tip(p).work) \/ UNCHANGED site
        BY <2>a, <2>1, PubEffects
      <3>4. QED
        BY <2>a, <3>2, <3>3, SiteGrows DEF Live
    <2>2. ASSUME NEW p \in Publications, Revert(p)
          PROVE  \/ site' = site
                 \/ \E c \in Conversations : merged[c] = Len(site) /\ site'[Len(site')] = Before(c)
      <3>1. Conv(p) \in Conversations /\ merged[Conv(p)] # 0 /\ pub[p].tip.base = merged[Conv(p)]
        BY <2>a, <2>2 DEF BaseInv, PublicationsOK, Revert, Conv
      <3>2. Before(Conv(p)) \in SUBSET Edits
        BY <2>a, <3>1 DEF BaseInv, RepoOK, Before
      <3>3. \/ site' = Append(site, Before(Conv(p))) /\ Len(site) = pub[p].tip.base
            \/ UNCHANGED site
        BY <2>a, <2>2, PubEffects
      <3>4. QED
        BY <2>a, <3>1, <3>2, <3>3, SiteGrows
    <2>3. ASSUME NEW d \in Developers, Commit(d)
          PROVE  site[Len(site)] \subseteq site'[Len(site')]
      <3>1. Live \cup {d} \in SUBSET Edits /\ site' = Append(site, Live \cup {d})
        BY <2>a, <2>3 DEF Commit, Live, Edits
      <3>2. QED
        BY <2>a, <3>1, SiteGrows DEF Live
    <2>4. ASSUME NEW p \in Publications,
                 \/ \E c \in Conversations, kind \in {"publish", "undo"} : Begin(p, c, kind)
                 \/ InspectLock(p) \/ Compare(p) \/ Update(p) \/ Push(p) \/ AwaitRebuilt(p)
                 \/ CompareTip(p) \/ ReadTip(p) \/ RecordPublication(p)
          PROVE  site' = site
      BY <2>4 DEF Begin, InspectLock, Compare, Update, Push, AwaitRebuilt, CompareTip, ReadTip,
                  RecordPublication, repo
    <2>5. ASSUME NEW r \in Requests, Change(r) PROVE site' = site
      BY <2>5 DEF Change, Start, Work, AwaitPreview, File, Unlock, repo
    <2>6. ASSUME NEW c \in Conversations, ListDeploy(c) \/ Build(c) \/ Remark(c)
          PROVE  site' = site
      BY <2>6 DEF ListDeploy, Build, Remark, repo
    <2>7. Restart \/ UNCHANGED vars => site' = site
      BY DEF Restart, vars, repo
    <2>8. QED
      BY <1>1, <2>1, <2>2, <2>3, <2>4, <2>5, <2>6, <2>7 DEF Next, Publish
  <1>2. QED
    BY <1>1, SiteAlways, PTL DEF Spec, NothingElseIsTakenBack

-------------------------------------------------------------------------------
(* What the client was shown *)

\* A step says nothing, or one thing in one conversation.
LEMMA Talk ==
  ASSUME BaseInv, [Next]_vars
  PROVE  UNCHANGED comments \/ \E c \in Conversations, x \in Comments : Says(c, x)
  <1> USE DEF Comments, Records
  <1>1. ASSUME NEW r \in Requests, Change(r)
        PROVE  UNCHANGED comments \/ \E c \in Conversations, x \in Comments : Says(c, x)
    <2>1. Of[r] \in Conversations
      BY OfIsTotal
    <2>2. File(r) => request[r].outcome \in {"previewed", "failed"}
      BY DEF File, BaseInv, RequestsOK, ReqRecs
    <2>3. QED
      BY <1>1, <2>1, <2>2 DEF Change, Start, Work, AwaitPreview, File, Unlock, repo
  <1>2. ASSUME NEW p \in Publications, RecordPublication(p)
        PROVE  UNCHANGED comments \/ \E c \in Conversations, x \in Comments : Says(c, x)
    <2>1. Conv(p) \in Conversations /\ pub[p].kind \in {"publish", "undo"}
      BY <1>2 DEF RecordPublication, BaseInv, PublicationsOK, PubRecs, Conv
    <2>2. QED
      BY <1>2, <2>1 DEF RecordPublication
  <1>3. ASSUME NEW p \in Publications,
               \/ \E c \in Conversations, kind \in {"publish", "undo"} : Begin(p, c, kind)
               \/ InspectLock(p) \/ Compare(p) \/ Update(p) \/ Push(p) \/ AwaitRebuilt(p)
               \/ Merge(p) \/ CompareTip(p) \/ ReadTip(p) \/ Revert(p)
        PROVE  UNCHANGED comments
    BY <1>3 DEF Begin, InspectLock, Compare, Update, Push, AwaitRebuilt, Merge, CompareTip,
                ReadTip, Revert, repo
  <1>4. ASSUME NEW c \in Conversations, ListDeploy(c) \/ Build(c) \/ Remark(c)
        PROVE  UNCHANGED comments \/ Says(c, "remark")
    BY <1>4 DEF ListDeploy, Build, Remark, repo
  <1>5. (\E d \in Developers : Commit(d)) \/ Restart \/ UNCHANGED vars => UNCHANGED comments
    BY DEF Commit, Restart, vars, repo
  <1>6. QED
    BY <1>1, <1>2, <1>3, <1>4, <1>5 DEF Next, Publish

LEMMA OverlongGrows ==
  ASSUME BaseInv, [Next]_vars
  PROVE  Overlong \subseteq Overlong'
  <1>1. UNCHANGED comments => Overlong' = Overlong
    BY DEF Overlong
  <1>2. QED
    BY <1>1, Talk, Said DEF BaseInv, RepoOK

\* The history variables only grow, and so does what has been shown.
LEMMA HistoryGrows ==
  ASSUME BaseInv, [Next]_vars
  PROVE  /\ Overlong \subseteq Overlong'
         /\ excused \subseteq excused' /\ halfway \subseteq halfway'
         /\ \A c \in Conversations : shown[c] \subseteq shown'[c]
  <1> /\ shown \in [Conversations -> SUBSET Tips]
    BY DEF BaseInv, HostOK
  <1> USE DEF host, history
  <1>1. ASSUME NEW p \in Publications, Publish(p)
        PROVE  excused \subseteq excused' /\ halfway \subseteq halfway' /\ shown' = shown
    <2>1. ASSUME \E c \in Conversations, kind \in {"publish", "undo"} : Begin(p, c, kind)
          PROVE  excused \subseteq excused' /\ halfway \subseteq halfway' /\ shown' = shown
      BY <2>1 DEF Begin
    <2>2. ASSUME InspectLock(p) \/ Compare(p) \/ Update(p) \/ Push(p) \/ CompareTip(p)
                 \/ ReadTip(p) \/ Revert(p) \/ RecordPublication(p)
          PROVE  excused \subseteq excused' /\ halfway \subseteq halfway' /\ shown' = shown
      BY <2>2 DEF InspectLock, Compare, Update, Push, CompareTip, ReadTip, Revert, RecordPublication
    <2>3. ASSUME AwaitRebuilt(p) \/ Merge(p)
          PROVE  excused \subseteq excused' /\ halfway \subseteq halfway' /\ shown' = shown
      BY <2>3 DEF AwaitRebuilt, Merge
    <2>4. QED
      BY <1>1, <2>1, <2>2, <2>3 DEF Publish
  <1>2. ASSUME NEW r \in Requests, Change(r)
        PROVE  excused \subseteq excused' /\ halfway \subseteq halfway' /\ shown' = shown
    BY <1>2 DEF Change, Start, Work, AwaitPreview, File, Unlock
  <1>3. ASSUME NEW c \in Conversations, ListDeploy(c) \/ Build(c) \/ Remark(c)
        PROVE  UNCHANGED <<excused, halfway>> /\ \A d \in Conversations : shown[d] \subseteq shown'[d]
    BY <1>3 DEF ListDeploy, Build, Remark
  <1>4. ASSUME NEW d \in Developers, Commit(d) PROVE UNCHANGED <<excused, halfway, shown>>
    BY <1>4 DEF Commit
  <1>5. Restart => excused \subseteq excused' /\ halfway \subseteq halfway' /\ shown' = shown
    BY DEF Restart
  <1>6. UNCHANGED vars => UNCHANGED <<excused, halfway, shown>>
    BY DEF vars
  <1>7. QED
    BY <1>1, <1>2, <1>3, <1>4, <1>5, <1>6, OverlongGrows DEF Next

\* The steps of a publication that was begun.
GoesOn(p) ==
    \/ InspectLock(p) \/ Compare(p) \/ Update(p) \/ Push(p) \/ AwaitRebuilt(p) \/ Merge(p)
    \/ CompareTip(p) \/ ReadTip(p) \/ Revert(p) \/ RecordPublication(p)

\* They are about the conversation it was begun for, and nobody else's.
LEMMA PubsGoOn ==
  ASSUME BaseInv, NEW p \in Publications, GoesOn(p)
  PROVE  /\ \A q \in Publications \ {p} : pub'[q] = pub[q]
         /\ pub'[p].at \in PubPlaces
         /\ Deciding(p)' => Deciding(p) /\ Conv(p)' = Conv(p) /\ pub'[p].kind = pub[p].kind
         /\ pub'[p].at # "gating"
         /\ pub'[p].at = "previewing" => Push(p)
         /\ pub[p].at = "previewing" => AwaitRebuilt(p)
         /\ pub'[p].at = "acting" => Compare(p) \/ Update(p) \/ AwaitRebuilt(p) \/ CompareTip(p)
         /\ UNCHANGED <<lock, request, deploy, shown>>
         /\ UNCHANGED comments \/ RecordPublication(p)
         /\ UNCHANGED branch \/ Push(p)
         /\ UNCHANGED merged \/ Merge(p)
  <1>1. UNCHANGED <<lock, request, deploy, shown>> /\ (UNCHANGED comments \/ RecordPublication(p))
    BY DEF GoesOn, InspectLock, Compare, Update, Push, AwaitRebuilt, Merge, CompareTip, ReadTip,
           Revert, RecordPublication, repo, host
  <1>2. (UNCHANGED branch \/ Push(p)) /\ (UNCHANGED merged \/ Merge(p))
    BY DEF GoesOn, InspectLock, Compare, Update, AwaitRebuilt, Push, Merge, CompareTip, ReadTip,
           Revert, RecordPublication, repo
  <1>3. pub[p].at \in {"gating", "comparing", "updating", "pushing", "previewing", "acting",
                       "reverting", "recording"}
    BY DEF GoesOn, InspectLock, Compare, Update, AwaitRebuilt, Push, Merge, CompareTip, ReadTip,
           Revert, RecordPublication
  <1>4. pub[p].at = "previewing" => AwaitRebuilt(p)
    BY DEF GoesOn, InspectLock, Compare, Update, Push, Merge, CompareTip, ReadTip,
           Revert, RecordPublication
  <1>5. pub[p].at = "recording" => RecordPublication(p)
    BY DEF GoesOn, InspectLock, Compare, Update, Push, Merge, CompareTip, ReadTip, AwaitRebuilt,
           Revert
  <1>6. \/ Stops(pub, pub', p)
        \/ \E to \in PubPlaces :
            /\ \E t : Goes(pub, pub', p, to, t)
            /\ to # "gating"
            /\ to = "previewing" => Push(p)
            /\ to = "acting" => Compare(p) \/ Update(p) \/ AwaitRebuilt(p) \/ CompareTip(p)
    BY PubEffects DEF GoesOn, PubPlaces
  <1>7. CASE Stops(pub, pub', p)
    BY <1>1, <1>2, <1>4, <1>7 DEF Stops, Unpressed, Deciding, PubPlaces
  <1>8. CASE ~Stops(pub, pub', p)
    <2>1. pub[p].at # "recording"
      BY <1>5, <1>8, PubEffects
    <2>2. Deciding(p)
      BY <1>3, <2>1 DEF Deciding
    <2>3. PICK to \in PubPlaces :
            /\ \E t : Goes(pub, pub', p, to, t)
            /\ to # "gating"
            /\ to = "previewing" => Push(p)
            /\ to = "acting" => Compare(p) \/ Update(p) \/ AwaitRebuilt(p) \/ CompareTip(p)
      BY <1>6, <1>8
    <2>4. /\ \A q \in Publications \ {p} : pub'[q] = pub[q]
          /\ pub'[p].at = to /\ pub'[p].kind = pub[p].kind /\ pub'[p].conv = pub[p].conv
      BY <2>3 DEF Goes
    <2>5. QED
      BY <1>1, <1>2, <1>4, <2>2, <2>3, <2>4 DEF Conv
  <1>9. QED
    BY <1>7, <1>8

\* The steps of a change request that was started.
WorksOn(r) == Work(r) \/ AwaitPreview(r) \/ File(r) \/ Unlock(r)

LEMMA RequestsGoOn ==
  ASSUME BaseInv, NEW r \in Requests, WorksOn(r)
  PROVE  /\ \A q \in Requests \ {r} : request'[q] = request[q]
         /\ Pending(r)' => Pending(r)
         /\ AtWork(r)' => AtWork(r) /\ UNCHANGED lock
         /\ Pending(r) => Pending(r)' \/ File(r)
         /\ request'[r].at = "building" => Work(r) \/ UNCHANGED <<request, branch>>
         /\ UNCHANGED pub
         /\ UNCHANGED comments \/ File(r)
         /\ UNCHANGED branch \/ Work(r)
  <1> request \in [Requests -> ReqRecs]
    BY DEF BaseInv, RequestsOK
  <1>1. CASE Work(r)
    <2>1. \/ Turns(request, request', r, "ended", request[r].tip, "failed")
          \/ Turns(request, request', r, "building", branch'[Of[r]], request[r].outcome)
      BY <1>1, RequestEffects
    <2>2. request[r].at = "working" /\ UNCHANGED <<pub, comments, lock>>
      BY <1>1 DEF Work
    <2>3. QED
      BY <1>1, <2>1, <2>2 DEF Turns, Pending, AtWork
  <1>2. CASE AwaitPreview(r)
    <2>1. \E o \in {"failed", "previewed"} : Turns(request, request', r, "ended", request[r].tip, o)
      BY <1>2, RequestEffects
    <2>2. request[r].at = "building" /\ UNCHANGED <<pub, comments, branch>>
      BY <1>2 DEF AwaitPreview, repo
    <2>3. QED
      BY <1>2, <2>1, <2>2 DEF Turns, Pending, AtWork
  <1>3. CASE File(r)
    <2>1. Turns(request, request', r, "over", NoTip, "none")
      BY <1>3, RequestEffects
    <2>2. UNCHANGED <<pub, branch>>
      BY <1>3 DEF File
    <2>3. QED
      BY <1>3, <2>1, <2>2 DEF Turns, Pending, AtWork
  <1>4. CASE Unlock(r)
    <2>1. UNCHANGED <<request, pub, comments, branch>> /\ request[r].at \in {"ended", "over"}
      BY <1>4 DEF Unlock, repo
    <2>2. QED
      BY <2>1 DEF Pending, AtWork
  <1>5. QED
    BY <1>1, <1>2, <1>3, <1>4 DEF WorksOn

\* A step is of a request, of a publication, of the host, of a developer, or all end.
LEMMA Steps ==
  ASSUME [Next]_vars
  PROVE  \/ \E r \in Requests : Start(r) \/ WorksOn(r)
         \/ \E p \in Publications :
               \/ GoesOn(p)
               \/ \E c \in Conversations, kind \in {"publish", "undo"} : Begin(p, c, kind)
         \/ \E c \in Conversations : ListDeploy(c) \/ Build(c) \/ Remark(c)
         \/ Restart
         \/ UNCHANGED <<branch, comments, deploy, lock, request, pub, shown>>
  <1>1. \A d \in Developers : Commit(d) => UNCHANGED <<branch, comments, deploy, lock, request, pub, shown>>
    BY DEF Commit, host
  <1>2. UNCHANGED vars => UNCHANGED <<branch, comments, deploy, lock, request, pub, shown>>
    BY DEF vars
  <1>3. QED
    BY <1>1, <1>2 DEF Next, Publish, Change, GoesOn, WorksOn

-------------------------------------------------------------------------------
LEMMA LockStep == BaseInv /\ WorkersHoldLock /\ [Next]_vars => WorkersHoldLock'
  <1> SUFFICES ASSUME BaseInv, WorkersHoldLock, [Next]_vars PROVE WorkersHoldLock'
    OBVIOUS
  <1> USE DEF WorkersHoldLock, AtWork
  <1>1. ASSUME NEW r \in Requests, Start(r) PROVE WorkersHoldLock'
    <2>1. Turns(request, request', r, "working", branch[Of[r]], request[r].outcome)
      BY <1>1, RequestEffects
    <2>2. lock' = r /\ lock \in {None} \cup {h \in Requests : request[h].at = "dead"}
      BY <1>1 DEF Start
    <2>3. QED
      BY <2>1, <2>2, NoneIsNothing DEF Turns
  <1>2. ASSUME NEW r \in Requests, WorksOn(r) PROVE WorkersHoldLock'
    <2>1. /\ \A q \in Requests \ {r} : request'[q] = request[q]
          /\ AtWork(r)' => AtWork(r) /\ UNCHANGED lock
      BY <1>2, RequestsGoOn
    <2>2. UNCHANGED lock \/ (lock = r /\ request[r].at \in {"ended", "over"} /\ UNCHANGED request)
      BY <1>2 DEF WorksOn, Work, AwaitPreview, File, Unlock
    <2>3. QED
      BY <2>1, <2>2
  <1>3. ASSUME NEW p \in Publications, GoesOn(p) PROVE WorkersHoldLock'
    BY <1>3, PubsGoOn
  <1>4. Restart => WorkersHoldLock'
    BY DEF Restart, Resting, Alive
  <1>5. \A p \in Publications, c \in Conversations, kind \in {"publish", "undo"} :
           Begin(p, c, kind) => UNCHANGED <<lock, request>>
    BY DEF Begin
  <1>6. \A c \in Conversations : ListDeploy(c) \/ Build(c) \/ Remark(c) => UNCHANGED <<lock, request>>
    BY DEF ListDeploy, Build, Remark
  <1>7. QED
    BY <1>1, <1>2, <1>3, <1>4, <1>5, <1>6, Steps

\* Nobody begins who would be one too many.
LEMMA OneStays ==
  ASSUME BaseInv, OneAtATime, excused \subseteq excused',
         \A r \in Requests : Pending(r)' => Pending(r),
         \A p \in Publications : Deciding(p)' => Deciding(p) /\ Conv(p)' = Conv(p)
  PROVE  OneAtATime'
  <1>1. ASSUME NEW r \in Requests, NEW q \in Requests, r # q, Of[r] = Of[q], Pending(r)', Pending(q)'
        PROVE  Of[r] \in excused'
    BY <1>1 DEF OneAtATime
  <1>2. ASSUME NEW p \in Publications, NEW r \in Requests, Deciding(p)', Conv(p)' = Of[r], Pending(r)'
        PROVE  Of[r] \in excused'
    BY <1>2 DEF OneAtATime
  <1>3. ASSUME NEW p \in Publications, NEW o \in Publications,
               p # o, Deciding(p)', Deciding(o)', Conv(p)' = Conv(o)'
        PROVE  Conv(p)' \in excused'
    BY <1>3 DEF OneAtATime
  <1>4. QED
    BY <1>1, <1>2, <1>3 DEF OneAtATime

LEMMA OneStep == BaseInv /\ WorkersHoldLock /\ OneAtATime /\ [Next]_vars => OneAtATime'
  <1> SUFFICES ASSUME BaseInv, WorkersHoldLock, OneAtATime, [Next]_vars PROVE OneAtATime'
    OBVIOUS
  <1>a. excused \subseteq excused'
    BY HistoryGrows
  <1>1. ASSUME NEW r \in Requests, Start(r) PROVE OneAtATime'
    <2>1. /\ \A q \in Requests \ {r} : request'[q] = request[q]
          /\ UNCHANGED pub
      BY <1>1, RequestEffects DEF Turns, Start
    <2>2. \A q \in Requests : request[q].at \notin {"working", "building"}
      BY <1>1, NoneIsNothing DEF Start, WorkersHoldLock, AtWork
    <2>3. \A q \in Requests \ {r} : Of[q] = Of[r] /\ Pending(q) => Of[r] \in excused'
      BY <1>1, <2>2 DEF Start, Busy, Pending
    <2>4. \A p \in Publications : Deciding(p) /\ Conv(p) = Of[r] => Of[r] \in excused'
      BY <1>1 DEF Start, Overtaken, Conv
    <2>5. /\ \A p \in Publications : (Deciding(p)' <=> Deciding(p)) /\ Conv(p)' = Conv(p)
          /\ \A q \in Requests \ {r} : Pending(q)' <=> Pending(q)
      BY <2>1 DEF Deciding, Pending, Conv
    <2>6. QED
      BY <1>a, <2>3, <2>4, <2>5 DEF OneAtATime
  <1>2. ASSUME NEW p \in Publications, NEW c \in Conversations, NEW kind \in {"publish", "undo"},
               Begin(p, c, kind)
        PROVE OneAtATime'
    <2>1. /\ \A q \in Publications \ {p} : pub'[q] = pub[q]
          /\ UNCHANGED request
      BY <1>2, PubEffects DEF Begin
    <2>2. Conv(p)' = c
      <3>1. pub'[p] = [at |-> "gating", kind |-> kind, conv |-> c, tip |-> NoTip]
        BY <1>2, PubEffects
      <3>2. QED
        BY <3>1 DEF Conv
    <2>3. \A r \in Requests : Of[r] = c /\ Pending(r) => c \in excused'
      BY <1>2 DEF Begin, Busy, Pending
    <2>4. \A o \in Publications : Deciding(o) /\ Conv(o) = c => c \in excused'
      BY <1>2 DEF Begin, Overtaken, Conv
    <2>5. /\ \A q \in Publications \ {p} : (Deciding(q)' <=> Deciding(q)) /\ Conv(q)' = Conv(q)
          /\ \A r \in Requests : Pending(r)' <=> Pending(r)
      BY <2>1 DEF Deciding, Pending, Conv
    <2>6. QED
      BY <1>a, <2>2, <2>3, <2>4, <2>5 DEF OneAtATime
  <1>3. ASSUME NEW r \in Requests, WorksOn(r) PROVE OneAtATime'
    <2>1. /\ \A q \in Requests : Pending(q)' => Pending(q)
          /\ UNCHANGED pub
      BY <1>3, RequestsGoOn DEF Pending
    <2>2. QED
      BY <1>a, <2>1, OneStays DEF Deciding, Conv
  <1>4. ASSUME NEW p \in Publications, GoesOn(p) PROVE OneAtATime'
    <2>1. \A q \in Publications : Deciding(q)' => Deciding(q) /\ Conv(q)' = Conv(q)
      BY <1>4, PubsGoOn DEF Deciding, Conv
    <2>2. \A r \in Requests : Pending(r)' => Pending(r)
      BY <1>4, PubsGoOn DEF Pending
    <2>3. QED
      BY <1>a, <2>1, <2>2, OneStays
  <1>5. ASSUME Restart PROVE OneAtATime'
    <2>1. \A r \in Requests : ~Pending(r)'
      BY <1>5 DEF Restart, Resting, Alive, Pending
    <2>2. \A p \in Publications : ~Deciding(p)'
      BY <1>5 DEF Restart, Unpressed, Deciding
    <2>3. QED
      BY <2>1, <2>2 DEF OneAtATime
  <1>6. ASSUME UNCHANGED <<request, pub>> PROVE OneAtATime'
    BY <1>a, <1>6, OneStays DEF Pending, Deciding, Conv
  <1>7. \A c \in Conversations : ListDeploy(c) \/ Build(c) \/ Remark(c) => UNCHANGED <<request, pub>>
    BY DEF ListDeploy, Build, Remark
  <1>8. QED
    BY <1>1, <1>2, <1>3, <1>4, <1>5, <1>6, <1>7, Steps

LEMMA ReadyStep == BaseInv /\ ReadyWasShown /\ [Next]_vars => ReadyWasShown'
  <1> SUFFICES ASSUME BaseInv, ReadyWasShown, [Next]_vars PROVE ReadyWasShown'
    OBVIOUS
  <1> deploy \in [Conversations -> Deploys \cup {None}] /\ shown \in [Conversations -> SUBSET Tips]
    BY DEF BaseInv, HostOK
  <1>1. ASSUME NEW c \in Conversations, ListDeploy(c) PROVE ReadyWasShown'
    BY <1>1 DEF ListDeploy, ReadyWasShown
  <1>2. ASSUME NEW c \in Conversations, Build(c) PROVE ReadyWasShown'
    <2>1. deploy[c] # None
      BY <1>2 DEF Build
    <2>2. CASE /\ deploy' = [deploy EXCEPT ![c].state = "ready"]
               /\ shown' = [shown EXCEPT ![c] = @ \cup {deploy[c].tip}]
      BY <2>1, <2>2, DeployEnds DEF ReadyWasShown
    <2>3. CASE deploy' = [deploy EXCEPT ![c].state = "error"] /\ UNCHANGED shown
      BY <2>1, <2>3, DeployEnds DEF ReadyWasShown
    <2>4. QED
      BY <1>2, <2>2, <2>3 DEF Build
  <1>3. UNCHANGED <<deploy, shown>> => ReadyWasShown'
    BY DEF ReadyWasShown
  <1>4. \A r \in Requests : Start(r) \/ WorksOn(r) => UNCHANGED <<deploy, shown>>
    BY DEF Start, WorksOn, Work, AwaitPreview, File, Unlock, host
  <1>5. ASSUME NEW p \in Publications,
               \/ GoesOn(p)
               \/ \E c \in Conversations, kind \in {"publish", "undo"} : Begin(p, c, kind)
        PROVE  UNCHANGED <<deploy, shown>>
    BY <1>5, PubsGoOn DEF Begin, host
  <1>6. Restart \/ (\E c \in Conversations : Remark(c)) => UNCHANGED <<deploy, shown>>
    BY DEF Restart, Remark, host
  <1>7. QED
    BY <1>1, <1>2, <1>3, <1>4, <1>5, <1>6, Steps

-------------------------------------------------------------------------------
\* The site's history stays, and only a merge gives a conversation a place in it.
LEMMA SiteHistory ==
  ASSUME BaseInv, [Next]_vars
  PROVE  /\ HistoryStays /\ MergesStay
         /\ UNCHANGED merged \/ \E p \in Publications : Merge(p)
  <1> site \in Seq(SUBSET Edits) /\ Len(site) \in DOMAIN site
    BY DEF BaseInv, RepoOK
  <1>1. ASSUME UNCHANGED <<site, merged>> PROVE HistoryStays /\ MergesStay
    BY <1>1 DEF HistoryStays, MergesStay
  <1>2. ASSUME NEW p \in Publications, Merge(p) PROVE HistoryStays /\ MergesStay
    <2>1. Conv(p) \in Conversations
      BY <1>2 DEF BaseInv, PublicationsOK, Merge, Conv
    <2>2. Live \cup Tip(p).work \in SUBSET Edits
      BY <2>1 DEF BaseInv, RepoOK, Tip, Tips, Live, Edits
    <2>3. CASE /\ site' = Append(site, Live \cup Tip(p).work) /\ merged[Conv(p)] = 0
               /\ merged' = [merged EXCEPT ![Conv(p)] = Len(site')]
      BY <2>1, <2>2, <2>3, SiteGrows DEF HistoryStays, MergesStay, BaseInv, RepoOK
    <2>4. QED
      BY <1>1, <1>2, <2>3, PubEffects
  <1>3. ASSUME NEW p \in Publications, Revert(p) PROVE HistoryStays /\ MergesStay /\ UNCHANGED merged
    <2>1. /\ Conv(p) \in Conversations /\ merged[Conv(p)] # 0
          /\ UNCHANGED merged
      BY <1>3 DEF BaseInv, PublicationsOK, Revert, Conv
    <2>2. Before(Conv(p)) \in SUBSET Edits
      BY <2>1 DEF BaseInv, RepoOK, Before
    <2>3. site' = Append(site, Before(Conv(p))) \/ UNCHANGED site
      BY <1>3, PubEffects
    <2>4. QED
      BY <1>1, <2>1, <2>2, <2>3, SiteGrows DEF HistoryStays, MergesStay
  <1>4. ASSUME NEW d \in Developers, Commit(d) PROVE HistoryStays /\ MergesStay /\ UNCHANGED merged
    <2>1. Live \cup {d} \in SUBSET Edits /\ site' = Append(site, Live \cup {d}) /\ UNCHANGED merged
      BY <1>4 DEF Commit, Live, Edits
    <2>2. QED
      BY <2>1, SiteGrows DEF HistoryStays, MergesStay
  <1>5. ASSUME NEW p \in Publications,
               \/ \E c \in Conversations, kind \in {"publish", "undo"} : Begin(p, c, kind)
               \/ InspectLock(p) \/ Compare(p) \/ Update(p) \/ Push(p) \/ AwaitRebuilt(p)
               \/ CompareTip(p) \/ ReadTip(p) \/ RecordPublication(p)
        PROVE  UNCHANGED <<site, merged>>
    BY <1>5 DEF Begin, InspectLock, Compare, Update, Push, AwaitRebuilt, CompareTip, ReadTip,
                RecordPublication, repo
  <1>6. ASSUME NEW r \in Requests, Change(r) PROVE UNCHANGED <<site, merged>>
    BY <1>6 DEF Change, Start, Work, AwaitPreview, File, Unlock, repo
  <1>7. ASSUME NEW c \in Conversations, ListDeploy(c) \/ Build(c) \/ Remark(c)
        PROVE  UNCHANGED <<site, merged>>
    BY <1>7 DEF ListDeploy, Build, Remark, repo
  <1>8. Restart \/ UNCHANGED vars => UNCHANGED <<site, merged>>
    BY DEF Restart, vars, repo
  <1>9. QED
    BY <1>1, <1>2, <1>3, <1>4, <1>5, <1>6, <1>7, <1>8 DEF Next, Publish

LEMMA RequestStep ==
  BaseInv /\ WorkersHoldLock /\ OneAtATime /\ ReadyWasShown /\ RequestKnowsBranch /\ [Next]_vars
    => RequestKnowsBranch'
  <1> SUFFICES ASSUME BaseInv, WorkersHoldLock, OneAtATime, ReadyWasShown, RequestKnowsBranch,
                      [Next]_vars
               PROVE  RequestKnowsBranch'
    OBVIOUS
  <1>a. /\ excused \subseteq excused' /\ halfway \subseteq halfway' /\ Disturbed \subseteq Disturbed'
        /\ \A c \in Conversations : shown[c] \subseteq shown'[c]
        /\ MergesStay
    BY HistoryGrows, SiteHistory DEF Disturbed
  <1>b. branch \in [Conversations -> Tips] /\ \A r \in Requests : Of[r] \in Conversations
    BY OfIsTotal DEF BaseInv, RepoOK
  <1>1. ASSUME UNCHANGED <<request, branch>> PROVE RequestKnowsBranch'
    BY <1>a, <1>b, <1>1 DEF RequestKnowsBranch
  \* The requests but r, when r changes itself and nobody the branches.
  <1>2. ASSUME NEW r \in Requests, \A q \in Requests \ {r} : request'[q] = request[q],
               UNCHANGED branch, request'[r].at \notin {"building", "ended"}
        PROVE  RequestKnowsBranch'
    BY <1>a, <1>b, <1>2 DEF RequestKnowsBranch
  <1>3. ASSUME NEW r \in Requests, Start(r) PROVE RequestKnowsBranch'
    <2>1. Turns(request, request', r, "working", branch[Of[r]], request[r].outcome)
      BY <1>3, RequestEffects
    <2>2. UNCHANGED branch
      BY <1>3 DEF Start
    <2>3. QED
      BY <1>2, <2>1, <2>2 DEF Turns
  <1>4. ASSUME NEW r \in Requests, Work(r) PROVE RequestKnowsBranch'
    <2>1. request[r].at = "working"
      BY <1>4 DEF Work
    <2>2. CASE /\ Turns(request, request', r, "ended", request[r].tip, "failed")
               /\ UNCHANGED branch
      BY <1>a, <1>b, <2>2 DEF Turns, RequestKnowsBranch
    <2>3. CASE /\ branch' = [branch EXCEPT ![Of[r]].work = @ \cup {r}]
               /\ Turns(request, request', r, "building", branch'[Of[r]], request[r].outcome)
      <3>1. ASSUME NEW q \in Requests, Of[q] \notin Disturbed'
            PROVE  /\ request'[q].at = "building" => request'[q].tip = branch'[Of[q]]
                   /\ request'[q].at = "ended" /\ request'[q].outcome = "previewed" =>
                        request'[q].tip = branch'[Of[q]] /\ request'[q].tip \in shown'[Of[q]]
        <4>1. CASE q = r
          BY <2>3, <4>1 DEF Turns
        <4>2. CASE q # r /\ Of[q] # Of[r]
          <5>1. request'[q] = request[q] /\ branch'[Of[q]] = branch[Of[q]]
            BY <1>b, <2>3, <4>2, BranchGrows DEF Turns
          <5>2. QED
            BY <1>a, <1>b, <3>1, <5>1 DEF RequestKnowsBranch
        <4>3. CASE q # r /\ Of[q] = Of[r]
          <5>1. Pending(r) /\ ~Pending(q)
            BY <1>a, <2>1, <3>1, <4>3 DEF OneAtATime, Pending, Disturbed
          <5>2. request'[q] = request[q]
            BY <2>3, <4>3 DEF Turns
          <5>3. QED
            BY <5>1, <5>2 DEF Pending
        <4>4. QED
          BY <4>1, <4>2, <4>3
      <3>2. QED
        BY <3>1 DEF RequestKnowsBranch
    <2>4. QED
      BY <1>4, <2>2, <2>3, RequestEffects
  <1>5. ASSUME NEW r \in Requests, AwaitPreview(r) PROVE RequestKnowsBranch'
    <2>1. request[r].at = "building" /\ UNCHANGED <<branch, shown>>
      BY <1>5 DEF AwaitPreview, repo
    <2>2. CASE Turns(request, request', r, "ended", request[r].tip, "failed")
      BY <1>a, <1>b, <2>1, <2>2 DEF Turns, RequestKnowsBranch
    <2>3. CASE /\ deploy[Of[r]] # None /\ deploy[Of[r]].state = "ready"
               /\ Turns(request, request', r, "ended", request[r].tip, "previewed")
               /\ excused' = excused \cup Mistakes(Of[r], request[r].tip)
      <3>1. Of[r] \notin Disturbed' => deploy[Of[r]].tip = request[r].tip
        BY <2>3 DEF Disturbed, Mistakes
      <3>2. deploy[Of[r]].tip \in shown[Of[r]]
        BY <1>b, <2>3 DEF ReadyWasShown
      <3>3. Of[r] \notin Disturbed' => request[r].tip = branch[Of[r]]
        BY <1>a, <2>1 DEF RequestKnowsBranch
      <3>4. QED
        BY <1>a, <1>b, <2>1, <2>3, <3>1, <3>2, <3>3 DEF Turns, RequestKnowsBranch
    <2>4. QED
      BY <1>5, <2>2, <2>3, RequestEffects
  <1>6. ASSUME NEW r \in Requests, File(r) PROVE RequestKnowsBranch'
    <2>1. Turns(request, request', r, "over", NoTip, "none") /\ UNCHANGED branch
      BY <1>6, RequestEffects DEF File
    <2>2. QED
      BY <1>2, <2>1 DEF Turns
  <1>7. ASSUME NEW p \in Publications, Push(p) PROVE RequestKnowsBranch'
    <2>1. UNCHANGED request /\ Deciding(p)
      BY <1>7 DEF Push, Deciding
    <2>2. CASE branch' = [branch EXCEPT ![Conv(p)] = pub[p].tip]
      <3>1. ASSUME NEW q \in Requests, Of[q] \notin Disturbed'
            PROVE  /\ request'[q].at = "building" => request'[q].tip = branch'[Of[q]]
                   /\ request'[q].at = "ended" /\ request'[q].outcome = "previewed" =>
                        request'[q].tip = branch'[Of[q]] /\ request'[q].tip \in shown'[Of[q]]
        <4>1. CASE Of[q] = Conv(p)
          <5>1. ~Pending(q)
            BY <1>a, <2>1, <3>1, <4>1 DEF OneAtATime, Disturbed
          <5>2. QED
            BY <2>1, <5>1 DEF Pending
        <4>2. CASE Of[q] # Conv(p)
          <5>1. branch'[Of[q]] = branch[Of[q]]
            BY <1>b, <2>2, <4>2
          <5>2. QED
            BY <1>a, <1>b, <2>1, <3>1, <5>1 DEF RequestKnowsBranch
        <4>3. QED
          BY <4>1, <4>2
      <3>2. QED
        BY <3>1 DEF RequestKnowsBranch
    <2>3. QED
      BY <1>1, <1>7, <2>1, <2>2, PubEffects
  <1>8. ASSUME NEW p \in Publications, GoesOn(p) PROVE RequestKnowsBranch'
    BY <1>1, <1>7, <1>8, PubsGoOn
  <1>9. \A p \in Publications, c \in Conversations, kind \in {"publish", "undo"} :
           Begin(p, c, kind) => UNCHANGED <<request, branch>>
    BY DEF Begin, repo
  <1>10. \A c \in Conversations : ListDeploy(c) \/ Build(c) \/ Remark(c) => UNCHANGED <<request, branch>>
    BY DEF ListDeploy, Build, Remark, repo
  <1>11. \A r \in Requests : Unlock(r) => UNCHANGED <<request, branch>>
    BY DEF Unlock, repo
  <1>12. ASSUME Restart PROVE RequestKnowsBranch'
    <2>1. UNCHANGED branch
      BY <1>12 DEF Restart, repo
    <2>2. \A r \in Requests : request'[r].at \notin {"building", "ended"}
      BY <1>12 DEF Restart, Resting, Alive
    <2>3. QED
      BY <2>2 DEF RequestKnowsBranch
  <1>13. QED
    BY <1>1, <1>3, <1>4, <1>5, <1>6, <1>8, <1>9, <1>10, <1>11, <1>12, Steps DEF WorksOn

\* What a step must leave for a change whose record says previewed to be one that was shown.
LEMMA BranchStays ==
  ASSUME BaseInv, BranchWasShown, Disturbed \subseteq Disturbed', MergesStay,
         \A c \in Conversations : shown[c] \subseteq shown'[c],
         \A c \in Conversations : PreviewedLast(comments'[c]) => PreviewedLast(comments[c]),
         UNCHANGED branch,
         \A r \in Requests : Pending(r) => Pending(r)' \/ Of[r] \in Disturbed',
         \A p \in Publications : pub[p].at = "previewing" =>
            \/ pub'[p].at = "previewing" /\ Conv(p)' = Conv(p)
            \/ Conv(p) \in Disturbed' \/ merged[Conv(p)] # 0 \/ branch[Conv(p)] \in shown[Conv(p)]
  PROVE  BranchWasShown'
  <1> SUFFICES ASSUME NEW c \in Conversations, c \notin Disturbed'
               PROVE  \/ ~PreviewedLast(comments'[c])
                      \/ merged'[c] # 0
                      \/ \E r \in OwnEdits(c) : Pending(r)'
                      \/ \E p \in Publications : pub'[p].at = "previewing" /\ Conv(p)' = c
                      \/ branch[c] \in shown'[c]
    BY DEF BranchWasShown, OwnEdits
  <1>1. c \in Conversations \ Disturbed
    BY DEF Disturbed
  <1>2. CASE ~PreviewedLast(comments[c]) \/ merged[c] # 0 \/ branch[c] \in shown[c]
    BY <1>2 DEF MergesStay
  <1>3. CASE \E r \in OwnEdits(c) : Pending(r)
    BY <1>3 DEF OwnEdits
  <1>4. CASE \E p \in Publications : pub[p].at = "previewing" /\ Conv(p) = c
    BY <1>4 DEF MergesStay
  <1>5. QED
    BY <1>1, <1>2, <1>3, <1>4 DEF BranchWasShown

LEMMA BranchStep ==
  BaseInv /\ OneAtATime /\ ReadyWasShown /\ RequestKnowsBranch /\ BranchWasShown
  /\ PublishKnowsBranch /\ [Next]_vars => BranchWasShown'
  <1> SUFFICES ASSUME BaseInv, OneAtATime, ReadyWasShown, RequestKnowsBranch, BranchWasShown,
                      PublishKnowsBranch, [Next]_vars
               PROVE  BranchWasShown'
    OBVIOUS
  <1>a. /\ excused \subseteq excused' /\ halfway \subseteq halfway' /\ Disturbed \subseteq Disturbed'
        /\ \A c \in Conversations : shown[c] \subseteq shown'[c]
        /\ MergesStay
    BY HistoryGrows, SiteHistory DEF Disturbed
  <1>b. /\ branch \in [Conversations -> Tips] /\ \A r \in Requests : Of[r] \in Conversations
        /\ comments \in [Conversations -> Seq(Comments)]
    BY OfIsTotal DEF BaseInv, RepoOK
  \* A step that touches one conversation only, which is not one to speak of after it.
  <1>1. ASSUME NEW c \in Conversations,
               \/ c \in Disturbed' \/ ~PreviewedLast(comments'[c]) \/ branch'[c] \in shown'[c]
               \/ \E r \in OwnEdits(c) : Pending(r)'
               \/ \E p \in Publications : pub'[p].at = "previewing" /\ Conv(p)' = c,
               \A d \in Conversations \ {c} : comments'[d] = comments[d] /\ branch'[d] = branch[d],
               \A r \in Requests : Of[r] # c /\ Pending(r) => Pending(r)',
               \A p \in Publications : pub[p].at = "previewing" /\ Conv(p) # c =>
                   pub'[p].at = "previewing" /\ Conv(p)' = Conv(p)
        PROVE  BranchWasShown'
    <2>1. ASSUME NEW d \in Conversations, d # c, d \notin Disturbed'
          PROVE  \/ ~PreviewedLast(comments'[d])
                 \/ merged'[d] # 0
                 \/ \E r \in OwnEdits(d) : Pending(r)'
                 \/ \E p \in Publications : pub'[p].at = "previewing" /\ Conv(p)' = d
                 \/ branch'[d] \in shown'[d]
      <3>1. d \in Conversations \ Disturbed /\ comments'[d] = comments[d] /\ branch'[d] = branch[d]
        BY <1>a, <1>1, <2>1
      <3>2. CASE ~PreviewedLast(comments[d]) \/ merged[d] # 0 \/ branch[d] \in shown[d]
        BY <1>a, <3>1, <3>2 DEF MergesStay
      <3>3. CASE \E r \in OwnEdits(d) : Pending(r)
        BY <1>1, <2>1, <3>3 DEF OwnEdits
      <3>4. CASE \E p \in Publications : pub[p].at = "previewing" /\ Conv(p) = d
        BY <1>1, <2>1, <3>4
      <3>5. QED
        BY <3>1, <3>2, <3>3, <3>4 DEF BranchWasShown
    <2>2. QED
      BY <1>1, <2>1 DEF BranchWasShown, OwnEdits
  <1>2. ASSUME NEW r \in Requests, Start(r) PROVE BranchWasShown'
    <2>1. Turns(request, request', r, "working", branch[Of[r]], request[r].outcome)
      BY <1>2, RequestEffects
    <2>2. UNCHANGED <<branch, pub>> /\ \A d \in Conversations \ {Of[r]} : comments'[d] = comments[d]
      BY <1>b, <1>2, Said DEF Start, Comments, Records
    <2>3. Pending(r)' /\ r \in OwnEdits(Of[r])
      BY <2>1 DEF Turns, Pending, OwnEdits
    <2>4. \A q \in Requests : Pending(q) => Pending(q)'
      BY <2>1, <2>3 DEF Turns, Pending
    <2>5. QED
      BY <1>1, <1>b, <2>2, <2>3, <2>4 DEF Conv
  <1>3. ASSUME NEW r \in Requests, Work(r) PROVE BranchWasShown'
    <2>1. UNCHANGED branch \/ branch' = [branch EXCEPT ![Of[r]].work = @ \cup {r}]
      BY <1>3, RequestEffects
    <2>2. \A d \in Conversations \ {Of[r]} : branch'[d] = branch[d]
      BY <1>b, <2>1, BranchGrows
    <2>3. UNCHANGED <<comments, pub>>
      BY <1>3 DEF Work
    <2>4. Pending(r)
      BY <1>3 DEF Work, Pending
    <2>5. ~File(r)
      BY <1>3 DEF Work, File
    <2>6. Pending(r)' /\ \A q \in Requests : Pending(q) => Pending(q)'
      BY <1>3, <2>4, <2>5, RequestsGoOn DEF WorksOn, Pending
    <2>7. r \in OwnEdits(Of[r])
      BY DEF OwnEdits
    <2>8. QED
      BY <1>1, <1>b, <2>2, <2>3, <2>6, <2>7 DEF Conv
  <1>4. ASSUME NEW r \in Requests, File(r) PROVE BranchWasShown'
    <2>o. request[r].outcome \in {"previewed", "failed"}
      BY <1>4 DEF File, BaseInv, RequestsOK, ReqRecs
    <2>1. UNCHANGED <<branch, pub>> /\ \A d \in Conversations \ {Of[r]} : comments'[d] = comments[d]
      BY <1>b, <1>4, <2>o, Said DEF File, Comments, Records
    <2>2. \A q \in Requests : Of[q] # Of[r] /\ Pending(q) => Pending(q)'
      BY <1>4, RequestsGoOn DEF WorksOn, Pending
    <2>3. request[r].at = "ended"
      BY <1>4 DEF File
    <2>4. \/ Of[r] \in Disturbed'
          \/ PreviewedLast(comments'[Of[r]]) => request[r].outcome = "previewed"
      <3>1. \/ Of[r] \in excused' \/ Says(Of[r], request[r].outcome)
        BY <1>4 DEF File
      <3>2. request[r].outcome \in Comments /\ request[r].outcome \in Records
        BY <2>o DEF Comments, Records
      <3>3. QED
        BY <1>b, <3>1, <3>2, Said DEF Disturbed
    <2>5. \/ Of[r] \in Disturbed' \/ ~PreviewedLast(comments'[Of[r]])
          \/ branch'[Of[r]] \in shown'[Of[r]]
      BY <1>a, <1>b, <2>1, <2>3, <2>4 DEF RequestKnowsBranch
    <2>6. QED
      BY <1>1, <1>b, <2>1, <2>2, <2>5 DEF Conv
  <1>5. ASSUME NEW r \in Requests, AwaitPreview(r) \/ Unlock(r) PROVE BranchWasShown'
    <2>1. UNCHANGED <<branch, comments, pub>>
      BY <1>5 DEF AwaitPreview, Unlock, repo
    <2>2. ~File(r) \/ UNCHANGED request
      BY <1>5 DEF AwaitPreview, Unlock, File
    <2>3. \A q \in Requests : Pending(q) => Pending(q)'
      BY <1>5, <2>2, RequestsGoOn DEF WorksOn, Pending
    <2>4. QED
      BY <1>a, <2>1, <2>3, BranchStays DEF Conv
  <1>6. ASSUME NEW p \in Publications, Push(p) PROVE BranchWasShown'
    <2>1. Conv(p) \in Conversations /\ pub[p].at = "pushing"
      BY <1>6 DEF BaseInv, PublicationsOK, Push, Conv
    <2>2. /\ \A q \in Publications \ {p} : pub'[q] = pub[q]
          /\ UNCHANGED <<request, comments>>
      BY <1>6, PubsGoOn DEF GoesOn, Push
    <2>3. CASE /\ Goes(pub, pub', p, "previewing", pub[p].tip)
               /\ branch' = [branch EXCEPT ![Conv(p)] = pub[p].tip]
      <3>1. pub'[p].at = "previewing" /\ Conv(p)' = Conv(p)
        BY <2>3 DEF Goes, Conv
      <3>2. PICK c \in Conversations : c = Conv(p)
        BY <2>1
      <3>3. \A d \in Conversations \ {c} : branch'[d] = branch[d]
        BY <1>b, <2>3, <3>2
      <3>4. QED
        BY <1>1, <2>1, <2>2, <3>1, <3>2, <3>3 DEF Conv, Pending
    <2>4. CASE UNCHANGED branch
      BY <1>a, <2>1, <2>2, <2>4, BranchStays DEF Conv, Pending
    <2>5. QED
      BY <1>6, <2>3, <2>4, PubEffects
  <1>7. ASSUME NEW p \in Publications, AwaitRebuilt(p) PROVE BranchWasShown'
    <2>1. /\ Conv(p) \in Conversations /\ pub[p].at = "previewing" /\ pub[p].kind = "publish"
          /\ Deciding(p)
      BY <1>7 DEF BaseInv, PublicationsOK, AwaitRebuilt, Conv, Deciding
    <2>2. /\ \A q \in Publications \ {p} : pub'[q] = pub[q]
          /\ UNCHANGED <<request, comments, branch>>
      BY <1>7, PubsGoOn DEF GoesOn, Push, AwaitRebuilt, repo
    <2>3. Conv(p) \in Disturbed' \/ merged[Conv(p)] # 0 \/ branch[Conv(p)] \in shown[Conv(p)]
      <3>1. CASE /\ deploy[Conv(p)] # None /\ deploy[Conv(p)].state = "ready"
                 /\ excused' = excused \cup Mistakes(Conv(p), pub[p].tip)
        <4>1. Conv(p) \in Disturbed' \/ deploy[Conv(p)].tip = pub[p].tip
          BY <3>1 DEF Disturbed, Mistakes
        <4>2. Conv(p) \in Disturbed' \/ merged[Conv(p)] # 0 \/ pub[p].tip = branch[Conv(p)]
          BY <1>a, <2>1 DEF PublishKnowsBranch, PubKnows
        <4>3. QED
          BY <2>1, <3>1, <4>1, <4>2 DEF ReadyWasShown
      <3>2. CASE halfway' = halfway \cup {Conv(p)}
        BY <3>2 DEF Disturbed
      <3>3. QED
        BY <1>7, <3>1, <3>2, PubEffects
    <2>4. QED
      BY <1>a, <2>2, <2>3, BranchStays DEF Conv, Pending
  <1>8. ASSUME NEW p \in Publications, GoesOn(p), ~Push(p), ~AwaitRebuilt(p) PROVE BranchWasShown'
    <2>1. /\ \A q \in Publications \ {p} : pub'[q] = pub[q]
          /\ pub[p].at # "previewing"
          /\ UNCHANGED <<request, branch>>
      BY <1>8, PubsGoOn
    <2>2. \A c \in Conversations : PreviewedLast(comments'[c]) => PreviewedLast(comments[c])
      <3>1. CASE UNCHANGED comments
        BY <3>1
      <3>2. CASE RecordPublication(p)
        <4>1. Conv(p) \in Conversations /\ pub[p].kind \in {"publish", "undo"}
          BY <3>2 DEF RecordPublication, BaseInv, PublicationsOK, PubRecs, Conv
        <4>2. pub[p].kind \in Comments /\ pub[p].kind \in Records /\ pub[p].kind # "previewed"
          BY <4>1 DEF Comments, Records
        <4>3. CASE Says(Conv(p), pub[p].kind)
          BY <1>b, <4>1, <4>2, <4>3, Said
        <4>4. QED
          BY <3>1, <3>2, <4>3 DEF RecordPublication
      <3>3. QED
        BY <1>8, <3>1, <3>2, PubsGoOn
    <2>3. QED
      BY <1>a, <2>1, <2>2, BranchStays DEF Conv, Pending
  <1>9. ASSUME NEW p \in Publications, NEW c \in Conversations, NEW kind \in {"publish", "undo"},
               Begin(p, c, kind)
        PROVE  BranchWasShown'
    <2>1. /\ \A q \in Publications \ {p} : pub'[q] = pub[q]
          /\ pub[p].at # "previewing"
          /\ UNCHANGED <<request, comments, branch>>
      BY <1>9, PubEffects DEF Begin, repo
    <2>2. QED
      BY <1>a, <2>1, BranchStays DEF Conv, Pending
  <1>10. ASSUME UNCHANGED <<branch, request, pub>>,
                \A c \in Conversations : PreviewedLast(comments'[c]) => PreviewedLast(comments[c])
         PROVE  BranchWasShown'
    BY <1>a, <1>10, BranchStays DEF Conv, Pending
  <1>11. ASSUME NEW c \in Conversations, ListDeploy(c) \/ Build(c) \/ Remark(c) PROVE BranchWasShown'
    <2>1. UNCHANGED <<branch, request, pub>> /\ (UNCHANGED comments \/ Says(c, "remark"))
      BY <1>11 DEF ListDeploy, Build, Remark, repo
    <2>2. "remark" \in Comments /\ "remark" \notin Records
      BY DEF Comments, Records
    <2>3. QED
      BY <1>10, <1>b, <2>1, <2>2, Said
  <1>12. ASSUME Restart PROVE BranchWasShown'
    <2>1. UNCHANGED <<comments, branch>>
      BY <1>12 DEF Restart, repo
    <2>2. \A r \in Requests : Pending(r) => Of[r] \in Disturbed'
      BY <1>12 DEF Restart, Pending, Alive, Disturbed
    <2>3. \A p \in Publications : pub[p].at = "previewing" => Conv(p) \in Disturbed'
      BY <1>12 DEF Restart, Disturbed
    <2>4. QED
      BY <1>a, <2>1, <2>2, <2>3, BranchStays
  <1>13. QED
    BY <1>2, <1>3, <1>4, <1>5, <1>6, <1>7, <1>8, <1>9, <1>10, <1>11, <1>12, Steps DEF WorksOn

-------------------------------------------------------------------------------
\* A publication nothing happens to, in a conversation nothing happens to.
LEMMA KnowsStays ==
  ASSUME BaseInv, Disturbed \subseteq Disturbed', MergesStay,
         \A c \in Conversations : shown[c] \subseteq shown'[c],
         NEW p \in Publications, PubKnows(p), pub'[p] = pub[p],
         \/ /\ PreviewedLast(comments[Conv(p)]) => PreviewedLast(comments'[Conv(p)])
            /\ branch'[Conv(p)] = branch[Conv(p)]
         \/ Conv(p) \in Disturbed' \/ ~Deciding(p) \/ merged[Conv(p)] # 0
  PROVE  PubKnows(p)'
  <1>1. Conv(p)' = Conv(p) /\ (Deciding(p)' <=> Deciding(p))
    BY DEF Conv, Deciding
  <1>2. Deciding(p) => Conv(p) \in Conversations
    BY DEF Deciding, Conv, BaseInv, PublicationsOK
  <1>3. SUFFICES ASSUME Deciding(p)', pub'[p].kind = "publish", Conv(p)' \notin Disturbed',
                        merged'[Conv(p)'] = 0
                 PROVE  /\ PreviewedLast(comments'[Conv(p)'])
                        /\ pub'[p].at = "previewing" => pub'[p].tip = branch'[Conv(p)']
                        /\ pub'[p].at = "acting" => pub'[p].tip \in shown'[Conv(p)']
    BY DEF PubKnows
  <1>4. Conv(p) \notin Disturbed /\ merged[Conv(p)] = 0
    BY <1>1, <1>2, <1>3 DEF Disturbed, MergesStay
  <1>5. QED
    BY <1>1, <1>2, <1>3, <1>4 DEF PubKnows

\* A publish that looks at its branch, when nobody else is about it, finds one that was
\* shown.
LEMMA BranchOfPublish ==
  ASSUME BaseInv, OneAtATime, BranchWasShown, PublishKnowsBranch, NEW p \in Publications,
         Deciding(p), pub[p].kind = "publish", pub[p].at # "previewing", Conv(p) \notin Disturbed,
         merged[Conv(p)] = 0
  PROVE  Tip(p) \in shown[Conv(p)]
  <1>1. Conv(p) \in Conversations \ Disturbed
    BY DEF Deciding, Conv, BaseInv, PublicationsOK
  <1>2. PreviewedLast(comments[Conv(p)])
    BY DEF PublishKnowsBranch, PubKnows
  <1>3. ~\E r \in OwnEdits(Conv(p)) : Pending(r)
    BY DEF OneAtATime, OwnEdits, Disturbed
  <1>4. \A o \in Publications : pub[o].at = "previewing" => Deciding(o)
    BY DEF Deciding
  <1>5. ~\E o \in Publications : pub[o].at = "previewing" /\ Conv(o) = Conv(p)
    BY <1>4 DEF OneAtATime, Disturbed
  <1>6. QED
    BY <1>1, <1>2, <1>3, <1>5 DEF BranchWasShown, Tip

LEMMA PublishStep ==
  BaseInv /\ OneAtATime /\ ReadyWasShown /\ BranchWasShown /\ PublishKnowsBranch /\ [Next]_vars
    => PublishKnowsBranch'
  <1> SUFFICES ASSUME BaseInv, OneAtATime, ReadyWasShown, BranchWasShown, PublishKnowsBranch, [Next]_vars
               PROVE  PublishKnowsBranch'
    OBVIOUS
  <1>a. /\ excused \subseteq excused' /\ halfway \subseteq halfway' /\ Disturbed \subseteq Disturbed'
        /\ \A c \in Conversations : shown[c] \subseteq shown'[c]
        /\ MergesStay
    BY HistoryGrows, SiteHistory DEF Disturbed
  <1>b. /\ branch \in [Conversations -> Tips] /\ \A r \in Requests : Of[r] \in Conversations
        /\ comments \in [Conversations -> Seq(Comments)]
        /\ \A p \in Publications : Deciding(p) => Conv(p) \in Conversations
    BY OfIsTotal DEF BaseInv, RepoOK, PublicationsOK, Deciding, Conv
  <1>1. ASSUME \A p \in Publications : pub'[p] = pub[p], UNCHANGED <<comments, branch>>
        PROVE  PublishKnowsBranch'
    BY <1>a, <1>1, KnowsStays DEF PublishKnowsBranch
  <1>2. ASSUME NEW r \in Requests, Start(r) \/ File(r) PROVE PublishKnowsBranch'
    <2>o. File(r) => request[r].outcome \in Comments
      BY DEF File, BaseInv, RequestsOK, ReqRecs, Comments, Records
    <2>1. UNCHANGED <<branch, pub>> /\ \A c \in Conversations \ {Of[r]} : comments'[c] = comments[c]
      BY <1>b, <1>2, <2>o, Said DEF Start, File, Comments, Records
    <2>2. ASSUME NEW p \in Publications, Deciding(p), Conv(p) = Of[r] PROVE Conv(p) \in Disturbed'
      BY <1>2, <2>2 DEF Start, File, Overtaken, Disturbed, Conv
    <2>3. QED
      BY <1>a, <1>b, <2>1, <2>2, KnowsStays DEF PublishKnowsBranch
  <1>3. ASSUME NEW r \in Requests, Work(r) PROVE PublishKnowsBranch'
    <2>1. UNCHANGED <<comments, pub>> /\ Pending(r)
      BY <1>3 DEF Work, Pending
    <2>2. UNCHANGED branch \/ branch' = [branch EXCEPT ![Of[r]].work = @ \cup {r}]
      BY <1>3, RequestEffects
    <2>3. \A c \in Conversations \ {Of[r]} : branch'[c] = branch[c]
      BY <1>b, <2>2, BranchGrows
    <2>4. \A p \in Publications : Deciding(p) /\ Conv(p) = Of[r] => Conv(p) \in Disturbed'
      BY <1>a, <2>1 DEF OneAtATime, Disturbed
    <2>5. QED
      BY <1>a, <1>b, <2>1, <2>3, <2>4, KnowsStays DEF PublishKnowsBranch
  <1>4. ASSUME NEW r \in Requests, AwaitPreview(r) \/ Unlock(r) PROVE PublishKnowsBranch'
    <2>1. UNCHANGED <<branch, comments, pub>>
      BY <1>4 DEF AwaitPreview, Unlock, repo
    <2>2. QED
      BY <1>1, <2>1
  <1>5. ASSUME NEW p \in Publications, GoesOn(p) PROVE PublishKnowsBranch'
    <2>1. /\ \A o \in Publications \ {p} : pub'[o] = pub[o]
          /\ UNCHANGED comments \/ RecordPublication(p)
          /\ Deciding(p)' => Deciding(p) /\ Conv(p)' = Conv(p) /\ pub'[p].kind = pub[p].kind
      BY <1>5, PubsGoOn
    <2>2. Push(p) => /\ Deciding(p)
                     /\ \A c \in Conversations \ {Conv(p)} : branch'[c] = branch[c]
      <3>1. Push(p) => UNCHANGED branch \/ branch' = [branch EXCEPT ![Conv(p)] = pub[p].tip]
        BY PubEffects
      <3>2. QED
        BY <1>b, <3>1 DEF Push, Deciding
    <2>3. \A o \in Publications \ {p} : PubKnows(o)'
      <3>1. CASE Push(p)
        <4>c. UNCHANGED comments
          BY <3>1 DEF Push
        <4>1. \A o \in Publications \ {p} :
                Deciding(o) /\ Conv(o) = Conv(p) => Conv(o) \in Disturbed'
          BY <1>a, <2>2, <3>1 DEF OneAtATime, Disturbed
        <4>2. QED
          BY <1>a, <1>b, <2>1, <2>2, <3>1, <4>c, <4>1, KnowsStays DEF PublishKnowsBranch
      <3>2. CASE ~Push(p)
        <4>1. UNCHANGED branch
          BY <1>5, <3>2, PubsGoOn
        <4>2. RecordPublication(p) =>
                /\ merged[Conv(p)] # 0
                /\ \A c \in Conversations \ {Conv(p)} : comments'[c] = comments[c]
          <5>1. SUFFICES ASSUME RecordPublication(p)
                         PROVE  /\ merged[Conv(p)] # 0
                                /\ \A c \in Conversations \ {Conv(p)} : comments'[c] = comments[c]
            OBVIOUS
          <5>2. /\ Conv(p) \in Conversations /\ pub[p].kind \in {"publish", "undo"}
                /\ merged[Conv(p)] # 0
            BY <5>1 DEF RecordPublication, BaseInv, PublicationsOK, PubRecs, Conv
          <5>3. QED
            BY <1>b, <5>1, <5>2, Said DEF RecordPublication, Comments, Records
        <4>3. QED
          BY <1>a, <1>b, <2>1, <4>1, <4>2, KnowsStays DEF PublishKnowsBranch
      <3>3. QED
        BY <3>1, <3>2
    <2>4. PubKnows(p)'
      <3>1. SUFFICES ASSUME Deciding(p)', pub'[p].kind = "publish", Conv(p)' \notin Disturbed',
                            merged'[Conv(p)'] = 0
                     PROVE  /\ PreviewedLast(comments'[Conv(p)'])
                            /\ pub'[p].at = "previewing" => pub'[p].tip = branch'[Conv(p)']
                            /\ pub'[p].at = "acting" => pub'[p].tip \in shown'[Conv(p)']
        BY DEF PubKnows
      <3>2. PICK c \in Conversations : c = Conv(p)
        BY <1>b, <2>1, <3>1
      <3>3. /\ Deciding(p) /\ pub[p].kind = "publish" /\ Conv(p)' = c
            /\ c \notin Disturbed /\ c \notin Disturbed' /\ merged[c] = 0
        BY <1>a, <2>1, <3>1, <3>2 DEF MergesStay
      <3>c. UNCHANGED comments
        BY <2>1, <3>1 DEF RecordPublication, Deciding
      <3>4. PreviewedLast(comments[c]) /\ (pub[p].at = "previewing" => pub[p].tip = branch[c])
        BY <3>2, <3>3 DEF PublishKnowsBranch, PubKnows
      <3>5. ASSUME pub'[p].at = "previewing" PROVE pub'[p].tip = branch'[c]
        <4>1. Push(p)
          BY <1>5, <3>5, PubsGoOn
        <4>2. ~Stops(pub, pub', p)
          BY <3>5 DEF Stops, Unpressed
        <4>3. /\ Goes(pub, pub', p, "previewing", pub[p].tip)
              /\ branch' = [branch EXCEPT ![c] = pub[p].tip]
          BY <3>2, <4>1, <4>2, PubEffects
        <4>4. QED
          BY <1>b, <4>3 DEF Goes
      <3>6. ASSUME pub'[p].at = "acting" PROVE pub'[p].tip \in shown'[c]
        <4>1. pub[p].at # "previewing" => Tip(p) \in shown[c]
          BY <3>2, <3>3, BranchOfPublish
        <4>s. ~Stops(pub, pub', p)
          BY <3>6 DEF Stops, Unpressed
        <4>2. Tip(p) \in Tips /\ Tip(p).base \in DOMAIN site /\ Len(site) \in Nat
          BY <3>2 DEF BaseInv, RepoOK, Tip
        <4>3. CASE Compare(p)
          <5>1. Goes(pub, pub', p, "acting", Tip(p)) /\ pub[p].at # "previewing"
            BY <3>6, <4>3, PubEffects DEF Goes, Compare
          <5>2. QED
            BY <1>a, <4>1, <5>1 DEF Goes
        <4>4. CASE Update(p)
          <5>a. ~Goes(pub, pub', p, "pushing", [work |-> Tip(p).work, base |-> Len(site)])
            BY <3>6 DEF Goes
          <5>1. /\ Tip(p).base >= Len(site)
                /\ Goes(pub, pub', p, "acting", [work |-> Tip(p).work, base |-> Len(site)])
            BY <4>4, <4>s, <5>a, PubEffects
          <5>2. Tip(p).base = Len(site)
            BY <4>2, <5>1 DEF BaseInv, RepoOK
          <5>3. [work |-> Tip(p).work, base |-> Len(site)] = Tip(p)
            BY <4>2, <5>2 DEF Tips
          <5>4. QED
            BY <1>a, <4>1, <4>4, <5>1, <5>3 DEF Goes, Update
        <4>5. CASE AwaitRebuilt(p)
          <5>1. /\ deploy[c] # None /\ deploy[c].state = "ready"
                /\ Goes(pub, pub', p, "acting", pub[p].tip)
                /\ excused' = excused \cup Mistakes(c, pub[p].tip)
            BY <3>2, <4>5, <4>s, PubEffects
          <5>2. deploy[c].tip = pub[p].tip
            BY <3>3, <5>1 DEF Mistakes, Disturbed
          <5>3. QED
            BY <1>a, <5>1, <5>2 DEF Goes, ReadyWasShown
        <4>6. CASE CompareTip(p)
          BY <3>3, <4>6 DEF CompareTip
        <4>7. QED
          BY <1>5, <3>6, <4>3, <4>4, <4>5, <4>6, PubsGoOn
      <3>7. QED
        BY <3>3, <3>c, <3>4, <3>5, <3>6
    <2>5. QED
      BY <2>3, <2>4 DEF PublishKnowsBranch
  <1>6. ASSUME NEW p \in Publications, NEW c \in Conversations, NEW kind \in {"publish", "undo"},
               Begin(p, c, kind)
        PROVE  PublishKnowsBranch'
    <2>1. /\ \A q \in Publications \ {p} : pub'[q] = pub[q]
          /\ pub'[p] = [at |-> "gating", kind |-> kind, conv |-> c, tip |-> NoTip]
      BY <1>6, PubEffects
    <2>2. UNCHANGED <<comments, branch>>
      BY <1>6 DEF Begin, repo
    <2>3. kind = "publish" /\ c \notin Overlong' => PreviewedLast(comments[c])
      BY <1>6, <1>b, OnThePage, HistoryGrows DEF Begin, PublishState
    <2>4. pub'[p].at = "gating" /\ pub'[p].kind = kind /\ pub'[p].conv = c
      BY <2>1
    <2>5. PubKnows(p)'
      BY <2>2, <2>3, <2>4 DEF PubKnows, Conv, Disturbed
    <2>6. \A q \in Publications \ {p} : PubKnows(q)'
      BY <1>a, <2>1, <2>2, KnowsStays DEF PublishKnowsBranch
    <2>7. QED
      BY <2>5, <2>6 DEF PublishKnowsBranch
  <1>7. ASSUME NEW c \in Conversations, ListDeploy(c) \/ Build(c) \/ Remark(c)
        PROVE  PublishKnowsBranch'
    <2>1. UNCHANGED <<branch, pub>> /\ (UNCHANGED comments \/ Says(c, "remark"))
      BY <1>7 DEF ListDeploy, Build, Remark, repo
    <2>2. "remark" \in Comments /\ "remark" \notin Records
      BY DEF Comments, Records
    <2>3. \A d \in Conversations : PreviewedLast(comments[d]) => PreviewedLast(comments'[d])
      BY <1>b, <2>1, <2>2, Said
    <2>4. QED
      BY <1>a, <1>b, <2>1, <2>3, KnowsStays DEF PublishKnowsBranch
  <1>8. Restart => \A p \in Publications : ~Deciding(p)'
    BY DEF Restart, Unpressed, Deciding
  <1>9. Restart => PublishKnowsBranch'
    BY <1>8 DEF PublishKnowsBranch, PubKnows
  <1>10. QED
    BY <1>1, <1>2, <1>3, <1>4, <1>5, <1>6, <1>7, <1>9, Steps DEF WorksOn

-------------------------------------------------------------------------------
LEMMA WasShownStep ==
  BaseInv /\ PublishKnowsBranch /\ UndisturbedPublishWasShown /\ [Next]_vars
    => UndisturbedPublishWasShown'
  <1> SUFFICES ASSUME BaseInv, PublishKnowsBranch, UndisturbedPublishWasShown, [Next]_vars,
                      NEW c \in Conversations, c \notin (excused' \cup halfway' \cup Overlong'),
                      merged'[c] # 0
               PROVE  WasShown(c)'
    BY DEF UndisturbedPublishWasShown
  <1>a. /\ excused \subseteq excused' /\ halfway \subseteq halfway' /\ Overlong \subseteq Overlong'
        /\ shown[c] \subseteq shown'[c]
    BY HistoryGrows
  <1>b. HistoryStays /\ MergesStay
    BY SiteHistory
  <1>c. \A t \in shown[c] : t.base \in DOMAIN site
    BY DEF BaseInv, HostOK
  <1>1. CASE merged[c] # 0
    <2>1. PICK t \in shown[c] : site[merged[c]] = Tree(t)
      BY <1>a, <1>1 DEF UndisturbedPublishWasShown, WasShown
    <2>2. site'[merged'[c]] = site[merged[c]]
      BY <1>1, <1>b, MergeIsKept
    <2>3. site'[t.base] = site[t.base]
      BY <1>b, <1>c DEF HistoryStays
    <2>4. QED
      BY <1>a, <2>1, <2>2, <2>3 DEF WasShown, Tree
  <1>2. CASE merged[c] = 0
    <2>1. PICK p \in Publications : Merge(p)
      BY <1>2, SiteHistory
    <2>2. Conv(p) \in Conversations
      BY <2>1 DEF BaseInv, PublicationsOK, Merge, Conv
    <2>3. merged \in [Conversations -> Nat]
      BY DEF BaseInv, RepoOK
    <2>4. /\ site' = Append(site, Live \cup Tip(p).work)
          /\ merged' = [merged EXCEPT ![Conv(p)] = Len(site')]
          /\ excused' = IF Tip(p) # pub[p].tip \/ Len(site) # pub[p].tip.base
                        THEN excused \cup {Conv(p)} ELSE excused
      BY <1>2, <2>1, PubEffects
    <2>5. c = Conv(p)
      BY <1>2, <2>2, <2>3, <2>4
    <2>6. Tip(p) = pub[p].tip /\ Len(site) = pub[p].tip.base
      BY <2>4, <2>5
    <2>7. pub[p].tip \in shown[c]
      <3>1. Deciding(p) /\ pub[p].kind = "publish" /\ pub[p].at = "acting"
        BY <2>1 DEF Merge, Deciding
      <3>2. c \notin Disturbed
        BY <1>a DEF Disturbed
      <3>3. QED
        BY <1>2, <2>5, <3>1, <3>2 DEF PublishKnowsBranch, PubKnows
    <2>8. Live \cup Tip(p).work \in SUBSET Edits /\ site \in Seq(SUBSET Edits)
      BY <2>2 DEF BaseInv, RepoOK, Tip, Tips, Live, Edits
    <2>9. merged'[c] = Len(site') /\ site'[Len(site')] = Live \cup Tip(p).work
      BY <2>3, <2>4, <2>5, <2>8, SiteGrows
    <2>10. site'[pub[p].tip.base] = Live
      BY <1>b, <1>c, <2>6, <2>7 DEF HistoryStays, Live
    <2>11. \E t \in shown'[c] : site'[merged'[c]] = site'[t.base] \cup t.work
      BY <1>a, <2>6, <2>7, <2>9, <2>10
    <2>12. QED
      BY <2>11 DEF WasShown, Tree
  <1>3. QED
    BY <1>1, <1>2

\* What a publish puts live was built and shown to the client, whatever change requests,
\* publications, builds, developers and restarts do beside it, unless one of them is known
\* to have overtaken this conversation, or it has records past the page that is read.
THEOREM UndisturbedIsShown == Spec => []UndisturbedPublishWasShown
  <1>1. Init => ShownInv
    BY NoneIsNothing DEF Init, ShownInv, WorkersHoldLock, AtWork, OneAtATime, Pending, Deciding, ReadyWasShown,
           RequestKnowsBranch, BranchWasShown, PublishKnowsBranch, PubKnows,
           UndisturbedPublishWasShown, PreviewedLast, LastIs, Resting, Unpressed
  <1>2. BaseInv /\ ShownInv /\ [Next]_vars => ShownInv'
    BY LockStep, OneStep, ReadyStep, RequestStep, BranchStep, PublishStep, WasShownStep DEF ShownInv
  <1>3. Spec => []BaseInv
    BY BaseInit, BaseStep, PTL DEF Spec
  <1>4. ShownInv => UndisturbedPublishWasShown
    BY DEF ShownInv
  <1>5. QED
    BY <1>1, <1>2, <1>3, <1>4, PTL DEF Spec

===============================================================================
