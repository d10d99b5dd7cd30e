----------------------------- MODULE SignIn_proofs -----------------------------
(***************************************************************************)
(* Proofs about SignIn, for any browsers, addresses, clocks, deployments   *)
(* and lifetimes: whoever may act holds a session that was earned, and no  *)
(* mailbox or stated address gets more attempts than its limit.            *)
(***************************************************************************)
EXTENDS SignIn, FiniteSetTheorems, SequenceTheorems, WellFoundedInduction, TLAPS

\* The keys of a purpose, of whatever has been or will be deployed.
Keys(purpose) == {<<Deployments[d].secret, purpose>> : d \in DOMAIN Deployments}

Links    == [key : Keys("magic-link"), iat : Nat, life : Nat]
Pendings == [key : Keys("pending-session"), email : Emails, expiresAt : Nat]
Sessions == [key : Keys("session"), email : Emails, expiresAt : Nat]
Jars     == [pending : Pendings \cup {None}, session : Sessions \cup {None}]
Replies  == [cookies : Jars \cup {None}, then : {"login", "code", "home"}]
Requests == [by : Browsers, email : Emails, from : Addresses, counted : Nat,
             compared : Nat \cup {None}]

\* The types that the argument rests on.
TypesOK ==
    /\ clock \in Nat /\ boots \in Nat /\ deployed \in DOMAIN Deployments
    /\ inbox \in [Emails -> Seq(Links)]
    /\ jar \in [Browsers -> Jars]
    /\ wire \in [Browsers -> SUBSET Replies]
    /\ post \in [Posts -> Requests \cup {None}]

CodesAreSteps == \A code \in read : code.step \in Nat

\* The cookies browsers have, and those on their way to one.
Held == {c \in Jars : \E b \in Browsers :
            c = jar[b] \/ (c # None /\ \E answer \in wire[b] : answer.cookies = c)}

\* A link signed under the same secret was mailed to the address before t, and less
\* long before it than `within`.
Mailed(email, secret, t, within) ==
    \E i \in DOMAIN inbox[email] :
        /\ inbox[email][i].key = <<secret, "magic-link">>
        /\ inbox[email][i].iat <= t /\ t < inbox[email][i].iat + within

\* A code was read whose seed goes with the secret, and whose step is near enough to t.
CodeFits(secret, t) ==
    \E code \in read :
        /\ code.step * CodeStep <= t + Drift
        /\ t < (code.step + 1) * CodeStep + Drift
        /\ \E d \in DOMAIN Deployments :
            Deployments[d].secret = secret /\ Deployments[d].seed = code.seed

\* Half a sign-in was set on opening a link, at a moment its own date tells.
PendingIsEarned(cookie) ==
    \E opened \in 0 .. clock :
        /\ cookie.expiresAt = Seconds(opened + PendingTTL)
        /\ Mailed(cookie.email, cookie.key[1], opened, LinkTTL + 1)

\* A session was set on a code that fits, soon enough after such a link.
SessionIsEarned(cookie) ==
    \E issued \in 0 .. clock :
        /\ cookie.expiresAt = Seconds(issued + SessionTTL)
        /\ Mailed(cookie.email, cookie.key[1], issued, LinkTTL + PendingTTL + BodyWait)
        /\ CodeFits(cookie.key[1], issued)

Earned(c) ==
    /\ c.pending # None => PendingIsEarned(c.pending)
    /\ c.session # None => c.pending = None /\ SessionIsEarned(c.session)

HeldIsEarned == \A c \in Held : Earned(c)

\* A request in hand was counted on half a sign-in that was good then, and may still be
\* answered; the secret is the one it came under, for a restart ends it.
RequestIsEarned(request) ==
    /\ request.counted <= clock /\ clock <= request.counted + BodyWait
    /\ Mailed(request.email, Env.secret, request.counted, LinkTTL + PendingTTL)
RequestsAreEarned == \A p \in Posts : InHand(post[p]) => RequestIsEarned(post[p])

SignInInv == TypesOK /\ CodesAreSteps /\ HeldIsEarned /\ RequestsAreEarned

-------------------------------------------------------------------------------
(* Whole seconds and steps of the code *)

LEMMA Whole ==
  ASSUME NEW t \in Nat, NEW s \in Nat \ {0}
  PROVE  t \div s \in Nat /\ (t \div s) * s <= t /\ t < (t \div s + 1) * s
  OBVIOUS

LEMMA TimesMore ==
  ASSUME NEW q \in Nat, NEW r \in Nat, NEW m \in Nat, q <= r
  PROVE  q * m <= r * m /\ q * m \in Nat /\ r * m \in Nat
  <1>1. PICK d \in Nat : r = q + d
    <2>1. r - q \in Nat /\ r = q + (r - q)
      OBVIOUS
    <2> QED
      BY <2>1
  <1>2. (q + d) * m = q * m + d * m /\ d * m \in Nat /\ q * m \in Nat
    OBVIOUS
  <1> QED
    BY <1>1, <1>2

\* A code that is accepted begins to be shown at most the drift from now, and ended at most
\* the drift ago.
LEMMA AcceptedIsNear ==
  ASSUME clock \in Nat, NEW step \in Nat,
         step \in CodeAt(IF clock < Drift THEN 0 ELSE clock - Drift) .. CodeAt(clock + Drift)
  PROVE  step * CodeStep <= clock + Drift /\ clock < (step + 1) * CodeStep + Drift
  <1> USE SignInConstants
  <1>a. CodeStep \in Nat \ {0} /\ Drift \in Nat
    OBVIOUS
  <1> DEFINE k == IF clock < Drift THEN 0 ELSE clock - Drift
             l == clock + Drift
  <1>1. k \in Nat /\ clock <= k + Drift /\ l \in Nat
    BY <1>a
  <1>2. k \div CodeStep \in Nat /\ k < (k \div CodeStep + 1) * CodeStep
    BY <1>a, <1>1, Whole
  <1>3. l \div CodeStep \in Nat /\ (l \div CodeStep) * CodeStep <= l
    BY <1>a, <1>1, Whole
  <1>4. k \div CodeStep <= step /\ step <= l \div CodeStep
    BY <1>2, <1>3 DEF CodeAt
  <1> HIDE DEF k, l
  <1>5. k \div CodeStep + 1 \in Nat /\ step + 1 \in Nat /\ k \div CodeStep + 1 <= step + 1
    BY <1>2, <1>4
  <1>6. /\ (k \div CodeStep + 1) * CodeStep <= (step + 1) * CodeStep
        /\ (step + 1) * CodeStep \in Nat /\ (k \div CodeStep + 1) * CodeStep \in Nat
    BY <1>a, <1>5, TimesMore
  <1>7. step * CodeStep <= (l \div CodeStep) * CodeStep /\ step * CodeStep \in Nat
        /\ (l \div CodeStep) * CodeStep \in Nat
    BY <1>a, <1>3, <1>4, TimesMore
  <1>8. step * CodeStep <= l
    BY <1>1, <1>3, <1>7
  <1>9. clock < (step + 1) * CodeStep + Drift
    BY <1>a, <1>1, <1>2, <1>6
  <1> QED
    BY <1>8, <1>9 DEF l

-------------------------------------------------------------------------------
(* What a step leaves of what was earned *)

\* Time goes on, mail stays in its box, and codes that were read have been.
ThePastStays ==
    /\ clock' \in Nat /\ clock <= clock'
    /\ \A e \in Emails : \A i \in DOMAIN inbox[e] :
        i \in DOMAIN inbox'[e] /\ inbox'[e][i] = inbox[e][i]
    /\ read \subseteq read'

LEMMA MailIsLinks ==
  ASSUME TypesOK, NEW e \in Emails, NEW i \in DOMAIN inbox[e]
  PROVE  inbox[e][i] \in Links /\ inbox[e][i].iat \in Nat
  <1>1. inbox[e] \in Seq(Links)
    BY DEF TypesOK
  <1>2. inbox[e][i] \in Links
    BY <1>1
  <1>3. QED
    BY <1>2 DEF Links

LEMMA ExpiryIsWhole ==
  ASSUME clock \in Nat, NEW ttl \in Nat
  PROVE  Seconds(clock + ttl) \in Nat
  BY SignInConstants, Whole DEF Seconds

\* What is not over by its date, in whole seconds, was set less than its lifetime ago.
LEMMA NotYetOver ==
  ASSUME NEW at \in Nat, NEW ttl \in Nat, NEW now \in Nat, ~(Seconds(at + ttl) * Second <= now)
  PROVE  now < at + ttl
  <1>1. Second \in Nat \ {0}
    BY SignInConstants
  <1> DEFINE t == at + ttl
  <1>2. t \in Nat
    OBVIOUS
  <1> HIDE DEF t
  <1>3. t \div Second \in Nat /\ (t \div Second) * Second <= t
    BY <1>1, <1>2, Whole
  <1>4. Seconds(t) \in Nat /\ Seconds(t) * Second <= t
    BY <1>3 DEF Seconds
  <1>5. Seconds(t) * Second \in Nat
    BY <1>1, <1>4
  <1>6. ~(Seconds(t) * Second <= now)
    BY DEF t
  <1>7. now < t
    BY <1>2, <1>4, <1>5, <1>6
  <1> QED
    BY <1>7 DEF t

\* Mailed before one moment, mailed before a later one.
LEMMA MailedBefore ==
  ASSUME TypesOK, NEW email \in Emails, NEW secret, NEW t \in Nat, NEW now \in Nat,
         NEW within \in Nat, NEW more \in Nat,
         Mailed(email, secret, t, within), t <= now, now <= t + more
  PROVE  Mailed(email, secret, now, within + more)
  <1>1. PICK i \in DOMAIN inbox[email] :
          /\ inbox[email][i].key = <<secret, "magic-link">>
          /\ inbox[email][i].iat <= t /\ t < inbox[email][i].iat + within
    BY Zenon DEF Mailed
  <1>2. inbox[email][i].iat \in Nat
    BY MailIsLinks, Zenon
  <1> DEFINE iat == inbox[email][i].iat
  <1>3. iat \in Nat /\ iat <= t /\ t < iat + within
    BY <1>1, <1>2
  <1> HIDE DEF iat
  <1>4. iat <= now /\ now < iat + (within + more)
    BY <1>3
  <1> QED
    BY <1>1, <1>4, Zenon DEF Mailed, iat

\* Half a sign-in that is not over was set on a link of not longer ago than both may last.
LEMMA HalfIsRecent ==
  ASSUME TypesOK, NEW email \in Emails, NEW secret, NEW opened \in Nat,
         Mailed(email, secret, opened, LinkTTL + 1), opened <= clock, clock < opened + PendingTTL
  PROVE  Mailed(email, secret, clock, LinkTTL + PendingTTL)
  <1>0. LinkTTL \in Nat /\ PendingTTL \in Nat
    BY SignInConstants
  <1>1. clock \in Nat /\ LinkTTL + 1 \in Nat /\ LinkTTL \in Nat /\ PendingTTL \in Nat
    BY <1>0 DEF TypesOK
  <1>2. /\ PendingTTL - 1 \in Nat /\ clock <= opened + (PendingTTL - 1)
        /\ LinkTTL + 1 + (PendingTTL - 1) = LinkTTL + PendingTTL
    BY <1>1
  <1>3. Mailed(email, secret, clock, LinkTTL + 1 + (PendingTTL - 1))
    BY <1>1, <1>2, MailedBefore, Zenon
  <1> QED
    BY <1>2, <1>3, Zenon

\* Mail that was there is there.
LEMMA MailIsKept ==
  ASSUME ThePastStays, NEW email \in Emails, NEW secret, NEW t, NEW within,
         Mailed(email, secret, t, within)
  PROVE  \E i \in DOMAIN inbox'[email] :
            /\ inbox'[email][i].key = <<secret, "magic-link">>
            /\ inbox'[email][i].iat <= t /\ t < inbox'[email][i].iat + within
  <1>1. PICK i \in DOMAIN inbox[email] :
            /\ inbox[email][i].key = <<secret, "magic-link">>
            /\ inbox[email][i].iat <= t /\ t < inbox[email][i].iat + within
    BY Zenon DEF Mailed
  <1>2. i \in DOMAIN inbox'[email] /\ inbox'[email][i] = inbox[email][i]
    BY Zenon DEF ThePastStays
  <1> QED
    BY <1>1, <1>2, Zenon

LEMMA EarnedStays ==
  ASSUME TypesOK, ThePastStays, NEW c \in Jars, Earned(c)
  PROVE  Earned(c)'
  <1> USE DEF TypesOK, ThePastStays, Jars
  <1>1. \A email \in Emails : \A secret, t, within :
          Mailed(email, secret, t, within) => Mailed(email, secret, t, within)'
    BY MailIsKept, Zenon DEF Mailed
  <1>2. \A t \in 0 .. clock : t \in 0 .. clock'
    OBVIOUS
  <1>3. c.pending # None => PendingIsEarned(c.pending)'
    <2>1. SUFFICES ASSUME c.pending # None PROVE PendingIsEarned(c.pending)'
      OBVIOUS
    <2>2. c.pending.email \in Emails
      BY <2>1 DEF Pendings
    <2>3. QED
      BY <1>1, <1>2, <2>1, <2>2 DEF Earned, PendingIsEarned
  <1>4. c.session # None => SessionIsEarned(c.session)'
    <2>1. SUFFICES ASSUME c.session # None PROVE SessionIsEarned(c.session)'
      OBVIOUS
    <2>2. c.session.email \in Emails
      BY <2>1 DEF Sessions
    <2>3. \A secret, t : CodeFits(secret, t) => CodeFits(secret, t)'
      BY DEF CodeFits
    <2>4. PICK issued \in 0 .. clock :
            /\ c.session.expiresAt = Seconds(issued + SessionTTL)
            /\ Mailed(c.session.email, c.session.key[1], issued, LinkTTL + PendingTTL + BodyWait)
            /\ CodeFits(c.session.key[1], issued)
      BY <2>1 DEF Earned, SessionIsEarned
    <2>5. /\ Mailed(c.session.email, c.session.key[1], issued, LinkTTL + PendingTTL + BodyWait)'
          /\ CodeFits(c.session.key[1], issued)' /\ issued \in 0 .. clock'
      BY <1>1, <1>2, <2>2, <2>3, <2>4
    <2> QED
      BY <2>4, <2>5, Zenon DEF SessionIsEarned
  <1>5. QED
    BY <1>3, <1>4 DEF Earned

\* A request that is not overdue is as good as it was, while its process lives.
LEMMA RequestIsKept ==
  ASSUME TypesOK, ThePastStays, deployed' = deployed,
         NEW request \in Requests, RequestIsEarned(request), clock' <= request.counted + BodyWait
  PROVE  RequestIsEarned(request)'
  <1>1. request.email \in Emails /\ request.counted \in Nat
    BY DEF Requests
  <1>2. request.counted <= clock'
    BY <1>1 DEF RequestIsEarned, TypesOK, ThePastStays
  <1> DEFINE email == request.email
             t == request.counted
             within == LinkTTL + PendingTTL
             secret == Env.secret
  <1>3. secret' = secret
    BY DEF Env
  <1>4. email \in Emails /\ Mailed(email, secret, t, within)
    BY <1>1, Zenon DEF RequestIsEarned
  <1> HIDE DEF secret
  <1>5. Mailed(email, secret, t, within)'
    <2> HIDE DEF email, t, within
    <2>1. PICK i \in DOMAIN inbox[email] :
            /\ inbox[email][i].key = <<secret, "magic-link">>
            /\ inbox[email][i].iat <= t /\ t < inbox[email][i].iat + within
      BY <1>4, Zenon DEF Mailed
    <2>2. i \in DOMAIN inbox'[email] /\ inbox'[email][i] = inbox[email][i]
      BY <1>4, Zenon DEF ThePastStays
    <2>3. email' = email /\ t' = t /\ within' = within
      BY DEF email, t, within
    <2> QED
      BY <1>3, <2>1, <2>2, <2>3 DEF Mailed
  <1> QED
    BY <1>2, <1>5 DEF RequestIsEarned, secret

\* A step by which no request comes in hand, and none in hand becomes overdue.
LEMMA RequestsStay ==
  ASSUME TypesOK, RequestsAreEarned, ThePastStays, deployed' = deployed,
         \A p \in Posts : InHand(post'[p]) =>
            post'[p] = post[p] /\ clock' <= post[p].counted + BodyWait
  PROVE  RequestsAreEarned'
  <1> SUFFICES ASSUME NEW p \in Posts, InHand(post'[p])
               PROVE  RequestIsEarned(post[p])'
    BY DEF RequestsAreEarned, InHand
  <1>1. post'[p] = post[p] /\ InHand(post[p]) /\ clock' <= post[p].counted + BodyWait
    BY Zenon
  <1>2. RequestIsEarned(post[p]) /\ post[p] \in Requests
    BY <1>1 DEF RequestsAreEarned, TypesOK, InHand
  <1>3. PICK request \in Requests : request = post[p] /\ request = post'[p]
    BY <1>1, <1>2
  <1>4. RequestIsEarned(request) /\ clock' <= request.counted + BodyWait
    BY <1>1, <1>2, <1>3
  <1>5. RequestIsEarned(request)'
    BY <1>4, RequestIsKept
  <1> QED
    BY <1>3, <1>5, Zenon DEF RequestIsEarned, Mailed, Env

\* A step by which nobody comes by cookies that were not there before.
LEMMA NothingNew ==
  ASSUME TypesOK, HeldIsEarned, ThePastStays, Held' \subseteq Held
  PROVE  HeldIsEarned'
  <1>1. \A c \in Held : c \in Jars /\ Earned(c)'
    BY EarnedStays DEF Held, HeldIsEarned
  <1>2. QED
    BY <1>1 DEF HeldIsEarned

\* An answer is sent, whose cookies are new.
LEMMA NewCookies ==
  ASSUME TypesOK, HeldIsEarned, ThePastStays, NEW b \in Browsers, NEW answer \in Replies,
         Answers(b, answer), UNCHANGED jar,
         \A c \in Jars : c = answer.cookies /\ c # None => Earned(c)'
  PROVE  HeldIsEarned' /\ wire' \in [Browsers -> SUBSET Replies]
  <1>1. wire' = [wire EXCEPT ![b] = @ \cup {answer}]
    BY DEF Answers
  <1>2. wire' \in [Browsers -> SUBSET Replies]
    BY <1>1 DEF TypesOK
  <1>3. \A c \in Held' : c \in Held \/ (c = answer.cookies /\ c # None)
    <2>1. SUFFICES ASSUME NEW c \in Jars, NEW d \in Browsers,
                          c = jar[d] \/ (c # None /\ \E reply \in wire'[d] : reply.cookies = c)
                   PROVE  c \in Held \/ (c = answer.cookies /\ c # None)
      BY DEF Held
    <2>2. \A reply \in wire'[d] : reply \in wire[d] \/ reply = answer
      BY <1>1 DEF TypesOK
    <2>3. QED
      BY <2>1, <2>2 DEF Held
  <1>4. \A c \in Held : c \in Jars /\ Earned(c)'
    BY EarnedStays DEF Held, HeldIsEarned
  <1>5. \A c \in Held' : c \in Jars
    BY DEF Held
  <1>6. QED
    BY <1>2, <1>3, <1>4, <1>5 DEF HeldIsEarned

-------------------------------------------------------------------------------
LEMMA SignInInit == Init => SignInInv
  <1> SUFFICES ASSUME Init PROVE SignInInv
    OBVIOUS
  <1>1. NoCookies \in Jars
    BY DEF NoCookies, Jars
  <1>2. TypesOK
    BY <1>1, SignInConstants DEF Init, TypesOK
  <1>3. Held \subseteq {NoCookies}
    BY DEF Init, Held
  <1>4. Earned(NoCookies)
    BY DEF Earned, NoCookies
  <1>5. RequestsAreEarned
    BY DEF Init, RequestsAreEarned, InHand
  <1>6. QED
    BY <1>2, <1>3, <1>4, <1>5 DEF Init, SignInInv, CodesAreSteps, HeldIsEarned

\* A step in which the requests are as they were, at the same time.
LEMMA RequestsUnchanged ==
  ASSUME TypesOK, RequestsAreEarned, ThePastStays, UNCHANGED <<clock, deployed, post>>
  PROVE  RequestsAreEarned'
  <1>1. ASSUME NEW p \in Posts, InHand(post'[p])
        PROVE  post'[p] = post[p] /\ clock' <= post[p].counted + BodyWait
    BY <1>1 DEF RequestsAreEarned, RequestIsEarned
  <1> QED
    BY <1>1, RequestsStay

LEMMA SignInStep == SignInInv /\ [Next]_vars => SignInInv'
  <1> SUFFICES ASSUME SignInInv, [Next]_vars PROVE SignInInv'
    OBVIOUS
  <1>a. TypesOK /\ CodesAreSteps /\ HeldIsEarned /\ RequestsAreEarned
    BY DEF SignInInv
  <1>b. /\ {LinkTTL, PendingTTL, SessionTTL, Drift, BodyWait} \subseteq Nat
        /\ {Second, CodeStep} \subseteq Nat \ {0} /\ Offsets \subseteq Int
    BY SignInConstants
  <1>1. ASSUME UNCHANGED <<clock, deployed, boots, inbox, jar, wire, read, post>> PROVE SignInInv'
    <2>1. ThePastStays /\ Held' = Held
      BY <1>1, <1>a DEF ThePastStays, Held, TypesOK
    <2>2. RequestsAreEarned'
      BY <1>1, <1>a, <2>1, RequestsUnchanged
    <2>3. QED
      BY <1>1, <1>a, <2>1, <2>2, NothingNew DEF SignInInv, TypesOK, CodesAreSteps
  <1>2. ASSUME ReadCode PROVE SignInInv'
    <2>1. ThePastStays /\ Held' = Held /\ RequestsAreEarned'
      <3>1. ThePastStays /\ Held' = Held /\ UNCHANGED <<clock, deployed, post>>
        BY <1>2, <1>a DEF ReadCode, ThePastStays, Held, TypesOK, process
      <3> QED
        BY <1>a, <3>1, RequestsUnchanged
    <2>2. PICK off \in Offsets : /\ clock + off >= 0
                                /\ read' = read \cup {[seed |-> seed, step |-> CodeAt(clock + off)]}
      BY <1>2 DEF ReadCode
    <2>3. CodeAt(clock + off) \in Nat
      <3>1. clock + off \in Nat
        BY <1>a, <1>b, <2>2 DEF TypesOK
      <3> QED
        BY <1>b, <3>1, Whole DEF CodeAt
    <2>4. CodesAreSteps'
      BY <1>a, <2>2, <2>3 DEF CodesAreSteps
    <2>5. TypesOK'
      BY <1>2, <1>a DEF ReadCode, TypesOK, process
    <2>6. QED
      BY <1>a, <2>1, <2>4, <2>5, NothingNew DEF SignInInv
  <1>3. ASSUME Restart PROVE SignInInv'
    <2>1. ThePastStays /\ Held' = Held
      BY <1>3, <1>a DEF Restart, ThePastStays, Held, TypesOK, people
    <2>2. TypesOK' /\ CodesAreSteps'
      BY <1>3, <1>a DEF Restart, TypesOK, CodesAreSteps, people
    <2>3. RequestsAreEarned'
      BY <1>3 DEF Restart, RequestsAreEarned, InHand
    <2>4. QED
      BY <1>a, <2>1, <2>2, <2>3, NothingNew DEF SignInInv
  <1>4. ASSUME Tick PROVE SignInInv'
    <2>1. ThePastStays /\ Held' = Held
      BY <1>4, <1>a DEF Tick, ThePastStays, Held, TypesOK, people
    <2>2. TypesOK'
      BY <1>4, <1>a DEF Tick, TypesOK, process
    <2>3. CodesAreSteps'
      BY <1>4, <1>a DEF Tick, CodesAreSteps, people
    <2>4. ASSUME NEW p \in Posts, InHand(post'[p])
          PROVE  post'[p] = post[p] /\ clock' <= post[p].counted + BodyWait
      <3>1. post'[p] = post[p] /\ InHand(post[p]) /\ ~Overdue(post[p], clock')
        BY <1>4, <2>4 DEF Tick, InHand
      <3>2. post[p] \in Requests
        BY <1>a, <3>1 DEF TypesOK, InHand
      <3>3. post[p].counted \in Nat /\ clock' \in Nat /\ BodyWait \in Nat
        BY <1>b, <2>1, <3>2 DEF Requests, ThePastStays
      <3>4. ~(clock' - post[p].counted > BodyWait)
        BY <3>1 DEF Overdue
      <3> QED
        BY <3>1, <3>3, <3>4
    <2>5. RequestsAreEarned'
      <3>1. deployed' = deployed
        BY <1>4 DEF Tick, process
      <3> QED
        BY <1>a, <2>1, <2>4, <3>1, RequestsStay
    <2>6. QED
      BY <1>a, <2>1, <2>2, <2>3, <2>5, NothingNew DEF SignInInv
  <1>5. ASSUME NEW b \in Browsers, NEW from \in Addresses, NEW spelling \in Asked,
               RequestLink(b, from, spelling)
        PROVE  SignInInv'
    <2> DEFINE email == Plain[spelling]
    <2>1. UNCHANGED <<clock, deployed, boots, jar, wire, read, post>>
      BY <1>5 DEF RequestLink, process, people
    <2>2. email \in Emails /\ IssueMagicLinkToken \in Links
      BY <1>a DEF Emails, IssueMagicLinkToken, Links, Keys, LinkKey, Env, TypesOK
    <2>3. \/ UNCHANGED inbox
          \/ inbox' = [inbox EXCEPT ![email] = Append(@, IssueMagicLinkToken)]
      BY <1>5 DEF RequestLink
    <2>4. inbox[email] \in Seq(Links)
      BY <1>a, <2>2 DEF TypesOK
    <2>5. /\ Append(inbox[email], IssueMagicLinkToken) \in Seq(Links)
          /\ \A i \in DOMAIN inbox[email] :
                /\ i \in DOMAIN Append(inbox[email], IssueMagicLinkToken)
                /\ Append(inbox[email], IssueMagicLinkToken)[i] = inbox[email][i]
      BY <2>2, <2>4, AppendProperties
    <2>6. /\ inbox' \in [Emails -> Seq(Links)]
          /\ \A e \in Emails : \A i \in DOMAIN inbox[e] :
                i \in DOMAIN inbox'[e] /\ inbox'[e][i] = inbox[e][i]
      <3> HIDE DEF email
      <3>1. CASE UNCHANGED inbox
        BY <1>a, <3>1 DEF TypesOK
      <3>2. CASE inbox' = [inbox EXCEPT ![email] = Append(@, IssueMagicLinkToken)]
        BY <1>a, <2>2, <2>5, <3>2 DEF TypesOK
      <3>3. QED
        BY <2>3, <3>1, <3>2
    <2>7. ThePastStays /\ Held' = Held
      BY <1>a, <2>1, <2>6 DEF ThePastStays, Held, TypesOK
    <2>8. TypesOK' /\ CodesAreSteps'
      BY <1>a, <2>1, <2>6 DEF TypesOK, CodesAreSteps
    <2>9. RequestsAreEarned'
      BY <1>a, <2>1, <2>7, RequestsUnchanged
    <2>10. QED
      BY <1>a, <2>7, <2>8, <2>9, NothingNew DEF SignInInv
  <1>6. ASSUME NEW b \in Browsers, NEW email \in Emails, CompleteSignIn(b, email)
        PROVE  SignInInv'
    <2>0. /\ UNCHANGED <<clock, deployed, boots, inbox, jar, read, post>>
          /\ ThePastStays
      BY <1>6, <1>a DEF CompleteSignIn, process, people, ThePastStays, TypesOK
    <2>1. UNCHANGED <<clock, deployed, boots, inbox, jar, read, post>> /\ ThePastStays /\ RequestsAreEarned'
      BY <1>a, <2>0, RequestsUnchanged
    <2>2. PICK i \in DOMAIN inbox[email] :
            Answers(b, IF VerifyMagicLinkToken(inbox[email][i])
                       THEN Answer([pending |-> IssuePending(email), session |-> None], "code")
                       ELSE Refusal("login"))
      BY <1>6 DEF CompleteSignIn
    <2>3. CASE VerifyMagicLinkToken(inbox[email][i])
      <3> DEFINE half == [pending |-> IssuePending(email), session |-> None]
      <3>1. Seconds(clock + PendingTTL) \in Nat
        BY <1>a, <1>b, ExpiryIsWhole DEF TypesOK
      <3>2. IssuePending(email) \in Pendings /\ PendingKey[1] = Env.secret
        BY <1>a, <3>1 DEF IssuePending, Pendings, PendingKey, Keys, Env, TypesOK
      <3>3. half \in Jars /\ Answer(half, "code") \in Replies
        BY <3>2 DEF Jars, Answer, Replies
      <3>4. PendingIsEarned(IssuePending(email))
        <4>1. inbox[email][i].iat \in Nat /\ clock \in Nat /\ LinkTTL \in Nat
          BY <1>a, <1>b, <2>2, MailIsLinks DEF TypesOK
        <4>2. Mailed(email, Env.secret, clock, LinkTTL + 1)
          <5>1. /\ inbox[email][i].key = <<Env.secret, "magic-link">>
                /\ clock >= inbox[email][i].iat /\ clock - inbox[email][i].iat <= LinkTTL
            BY <2>3 DEF VerifyMagicLinkToken, LinkKey
          <5>2. inbox[email][i].iat <= clock /\ clock < inbox[email][i].iat + (LinkTTL + 1)
            BY <4>1, <5>1
          <5>3. QED
            BY <2>2, <5>1, <5>2 DEF Mailed
        <4>3. clock \in 0 .. clock
          BY <1>a DEF TypesOK
        <4>4. QED
          BY <3>2, <4>2, <4>3 DEF PendingIsEarned, IssuePending
      <3>5. Earned(half)
        BY <3>4 DEF Earned
      <3>6. \A c \in Jars : c = half => Earned(c)'
        BY <1>a, <2>1, <3>3, <3>5, EarnedStays
      <3>7. Answers(b, Answer(half, "code")) /\ Answer(half, "code").cookies = half
        BY <2>2, <2>3 DEF Answer
      <3>8. HeldIsEarned' /\ wire' \in [Browsers -> SUBSET Replies]
        BY <1>a, <2>1, <3>3, <3>6, <3>7, NewCookies
      <3>9. QED
        BY <1>a, <2>1, <3>8 DEF SignInInv, TypesOK, CodesAreSteps
    <2>4. CASE ~VerifyMagicLinkToken(inbox[email][i])
      <3>1. Answers(b, Refusal("login")) /\ Refusal("login") \in Replies
        BY <2>2, <2>4 DEF Refusal, Answer, Replies
      <3>2. Refusal("login").cookies = None
        BY DEF Refusal, Answer
      <3>3. HeldIsEarned' /\ wire' \in [Browsers -> SUBSET Replies]
        BY <1>a, <2>1, <3>1, <3>2, NewCookies
      <3>4. QED
        BY <1>a, <2>1, <3>3 DEF SignInInv, TypesOK, CodesAreSteps
    <2>5. QED
      BY <2>3, <2>4
  <1>7. ASSUME NEW b \in Browsers, NEW from \in Addresses, VerifyCode(b, from) PROVE SignInInv'
    <2> DEFINE pending == jar[b].pending
               request == [by |-> b, email |-> pending.email, from |-> from,
                           counted |-> clock, compared |-> None]
    <2>1. UNCHANGED <<clock, deployed, boots, inbox, jar, read>> /\ ThePastStays
      BY <1>7, <1>a DEF VerifyCode, process, people, ThePastStays, TypesOK
    <2>2. \/ \E then \in {"login", "code"} : Answers(b, Refusal(then)) /\ post' = post
          \/ /\ VerifyPending(pending) /\ wire' = wire
             /\ \E p \in Posts : post' = [post EXCEPT ![p] = request]
      BY <1>7 DEF VerifyCode
    <2>3. ASSUME NEW then \in {"login", "code"}, Answers(b, Refusal(then)), post' = post
          PROVE  SignInInv'
      <3>1. Refusal(then) \in Replies /\ Refusal(then).cookies = None
        BY DEF Refusal, Answer, Replies
      <3>2. HeldIsEarned' /\ wire' \in [Browsers -> SUBSET Replies]
        BY <1>a, <2>1, <2>3, <3>1, NewCookies
      <3>3. RequestsAreEarned'
        BY <1>a, <2>1, <2>3, RequestsUnchanged
      <3>4. QED
        BY <1>a, <2>1, <2>3, <3>2, <3>3 DEF SignInInv, TypesOK, CodesAreSteps
    <2>4. ASSUME VerifyPending(pending), wire' = wire,
                 NEW p \in Posts, post' = [post EXCEPT ![p] = request]
          PROVE  SignInInv'
      <3>1. jar[b] \in Held /\ pending # None /\ pending \in Pendings
        <4>1. jar[b] \in Jars /\ pending # None
          BY <1>a, <2>4 DEF TypesOK, VerifyPending
        <4>2. jar[b] \in Held
          BY <4>1 DEF Held
        <4>3. QED
          BY <4>1, <4>2 DEF Jars
      <3>2. PendingIsEarned(pending) /\ pending.key[1] = Env.secret
            /\ pending.email \in Emails /\ pending.expiresAt * Second > clock
        BY <1>a, <2>4, <3>1 DEF HeldIsEarned, Earned, VerifyPending, PendingKey, Pendings
      <3>3. Mailed(pending.email, Env.secret, clock, LinkTTL + PendingTTL)
        <4>1. PICK opened \in 0 .. clock : /\ pending.expiresAt = Seconds(opened + PendingTTL)
                                          /\ Mailed(pending.email, Env.secret, opened, LinkTTL + 1)
          BY <3>2 DEF PendingIsEarned
        <4>2. clock < opened + PendingTTL
          <5>1. clock \in Nat /\ opened \in Nat /\ PendingTTL \in Nat
            BY <1>a, <1>b, <4>1 DEF TypesOK
          <5>2. ~(Seconds(opened + PendingTTL) * Second <= clock)
            <6>1. pending.expiresAt * Second \in Int /\ clock \in Int
              BY <1>b, <3>1, <5>1 DEF Pendings
            <6>2. ~(pending.expiresAt * Second <= clock)
              BY <3>2, <6>1
            <6> QED
              BY <4>1, <6>2, Zenon
          <5>3. QED
            BY <5>1, <5>2, NotYetOver
        <4>3. opened \in Nat /\ opened <= clock
          BY <1>a, <4>1 DEF TypesOK
        <4>4. \A secret : Mailed(pending.email, secret, opened, LinkTTL + 1)
                => Mailed(pending.email, secret, clock, LinkTTL + PendingTTL)
          <5> SUFFICES ASSUME NEW secret, Mailed(pending.email, secret, opened, LinkTTL + 1)
                       PROVE  Mailed(pending.email, secret, clock, LinkTTL + PendingTTL)
            OBVIOUS
          <5> QED
            BY <1>a, <3>2, <4>2, <4>3, HalfIsRecent, Zenon
        <4> QED
          BY <4>1, <4>4, Zenon
      <3>4. request \in Requests /\ TypesOK' /\ CodesAreSteps'
        <4>1. request \in Requests
          BY <1>a, <3>2 DEF Requests, TypesOK
        <4> HIDE DEF request
        <4> QED
          BY <1>a, <2>1, <2>4, <4>1 DEF TypesOK, CodesAreSteps
      <3>5. HeldIsEarned'
        <4>1. jar' = jar /\ wire' = wire
          BY <2>1, <2>4
        <4>2. Held' = Held
          BY <4>1 DEF Held
        <4> QED
          BY <1>a, <2>1, <4>2, NothingNew
      <3>6. RequestsAreEarned'
        <4> SUFFICES ASSUME NEW q \in Posts, InHand(post'[q])
                     PROVE  RequestIsEarned(post[q])'
          BY DEF RequestsAreEarned, InHand
        <4>1. UNCHANGED <<clock, deployed, inbox>>
          BY <2>1
        <4>2. \A other : RequestIsEarned(other) => RequestIsEarned(other)'
          BY <4>1 DEF RequestIsEarned, Mailed, Env
        <4>3. RequestIsEarned(request)
          <5>1. clock <= clock /\ clock <= clock + BodyWait
            BY <1>a, <1>b DEF TypesOK
          <5>2. request.email = pending.email /\ request.counted = clock
            OBVIOUS
          <5> HIDE DEF request
          <5> QED
            BY <3>3, <5>1, <5>2 DEF RequestIsEarned
        <4>4. post'[q] = request \/ post'[q] = post[q]
          <5> HIDE DEF request
          <5> QED
            BY <1>a, <2>4 DEF TypesOK
        <4>5. RequestIsEarned(post'[q])
          <5>1. CASE post'[q] = request
            BY <4>3, <5>1, Zenon
          <5>2. CASE post'[q] = post[q]
            BY <1>a, <5>2, Zenon DEF RequestsAreEarned
          <5> QED
            BY <4>4, <5>1, <5>2
        <4> QED
          BY <4>1, <4>5, Zenon DEF RequestIsEarned, Mailed, Env
      <3>7. QED
        BY <3>4, <3>5, <3>6 DEF SignInInv
    <2>5. QED
      BY <2>2, <2>3, <2>4
  <1>12. ASSUME NEW p \in Posts, NEW code \in read \cup {WrongCode}, CheckCode(p, code)
         PROVE  SignInInv'
    <2> DEFINE request == post[p]
               whole == [pending |-> None, session |-> IssueSession(request.email)]
    <2>1. UNCHANGED <<clock, deployed, boots, inbox, jar, read>> /\ ThePastStays
      BY <1>12, <1>a DEF CheckCode, process, people, ThePastStays, TypesOK
    <2>2. InHand(request) /\ request \in Requests /\ RequestIsEarned(request)
      BY <1>12, <1>a DEF CheckCode, RequestsAreEarned, TypesOK, InHand
    <2>3. post' = [post EXCEPT ![p].compared = clock]
      BY <1>12 DEF CheckCode
    <2>4. post' \in [Posts -> Requests \cup {None}]
      <3>1. [request EXCEPT !.compared = clock] \in Requests
        BY <1>a, <2>2 DEF Requests, TypesOK
      <3>2. post' = [post EXCEPT ![p] = [request EXCEPT !.compared = clock]]
        BY <2>3
      <3> QED
        BY <1>a, <3>1, <3>2 DEF TypesOK
    <2>5. RequestsAreEarned'
      <3> SUFFICES ASSUME NEW q \in Posts, InHand(post'[q])
                   PROVE  post'[q] = post[q] /\ clock' <= post[q].counted + BodyWait
        BY <1>a, <2>1, RequestsStay
      <3>1. CASE q = p
        <4>1. post'[p] = [request EXCEPT !.compared = clock]
          BY <1>a, <2>3 DEF TypesOK
        <4>2. post'[p].compared = clock /\ clock = None
          BY <2>2, <3>1, <4>1 DEF InHand, Requests
        <4>3. request.compared = None
          BY <2>2 DEF InHand
        <4>4. post'[p] = request
          BY <2>2, <4>1, <4>2, <4>3 DEF Requests
        <4> QED
          BY <2>1, <2>2, <3>1, <4>4 DEF RequestIsEarned
      <3>2. CASE q # p
        <4>1. post'[q] = post[q]
          BY <1>a, <2>3, <3>2 DEF TypesOK
        <4>2. RequestIsEarned(post[q])
          BY <1>a, <4>1 DEF RequestsAreEarned, InHand
        <4> QED
          BY <2>1, <4>1, <4>2 DEF RequestIsEarned
      <3> QED
        BY <3>1, <3>2
    <2>6. \/ Answers(request.by, Refusal("code"))
          \/ VerifyTotpCode(code) /\ Answers(request.by, Answer(whole, "home"))
      BY <1>12 DEF CheckCode
    <2>7. request.by \in Browsers /\ request.email \in Emails /\ request.counted \in Nat
      BY <2>2 DEF Requests
    <2> HIDE DEF request
    <2>8. CASE Answers(request.by, Refusal("code"))
      <3>1. Refusal("code") \in Replies /\ Refusal("code").cookies = None
        BY DEF Refusal, Answer, Replies
      <3>2. HeldIsEarned' /\ wire' \in [Browsers -> SUBSET Replies]
        BY <1>a, <2>1, <2>7, <2>8, <3>1, NewCookies
      <3>3. QED
        BY <1>a, <2>1, <2>4, <2>5, <3>2 DEF SignInInv, TypesOK, CodesAreSteps
    <2>9. CASE VerifyTotpCode(code) /\ Answers(request.by, Answer(whole, "home"))
      <3>1. clock \in Nat /\ clock \in 0 .. clock
        BY <1>a DEF TypesOK
      <3>2. code \in read /\ code.step \in Nat /\ code.seed = Env.seed
        BY <1>a, <2>9 DEF VerifyTotpCode, CodesAreSteps
      <3>3. code.step * CodeStep <= clock + Drift /\ clock < (code.step + 1) * CodeStep + Drift
        <4>1. code.step \in CodeAt(IF clock < Drift THEN 0 ELSE clock - Drift) .. CodeAt(clock + Drift)
          BY <2>9 DEF VerifyTotpCode
        <4>2. QED
          BY <3>1, <3>2, <4>1, AcceptedIsNear
      <3>4. CodeFits(Env.secret, clock)
        <4>1. /\ deployed \in DOMAIN Deployments /\ Env.secret = Deployments[deployed].secret
              /\ Env.seed = Deployments[deployed].seed
          BY <1>a DEF TypesOK, Env
        <4> QED
          BY <3>2, <3>3, <4>1 DEF CodeFits
      <3>5. Mailed(request.email, Env.secret, clock, LinkTTL + PendingTTL + BodyWait)
        <4>1. /\ request.counted <= clock /\ clock <= request.counted + BodyWait
              /\ Mailed(request.email, Env.secret, request.counted, LinkTTL + PendingTTL)
          BY <2>2 DEF RequestIsEarned
        <4>2. LinkTTL + PendingTTL \in Nat /\ BodyWait \in Nat
          BY <1>b
        <4> QED
          BY <1>a, <2>7, <3>1, <4>1, <4>2, MailedBefore, Zenon
      <3>6. IssueSession(request.email) \in Sessions /\ SessionKey[1] = Env.secret
        <4>1. Seconds(clock + SessionTTL) \in Nat
          BY <1>b, <3>1, ExpiryIsWhole
        <4>2. QED
          BY <1>a, <2>7, <4>1 DEF IssueSession, Sessions, SessionKey, Keys, Env, TypesOK
      <3>7. SessionIsEarned(IssueSession(request.email))
        BY <3>1, <3>4, <3>5, <3>6 DEF SessionIsEarned, IssueSession
      <3>8. PICK cookies \in Jars : cookies = whole
        BY <3>6 DEF Jars
      <3>9. Earned(cookies)
        BY <3>7, <3>8 DEF Earned
      <3>10. Answer(cookies, "home") \in Replies /\ Answer(cookies, "home").cookies = cookies
        BY DEF Answer, Replies
      <3>11. Earned(cookies)'
        BY <1>a, <2>1, <3>9, EarnedStays
      <3>12. HeldIsEarned' /\ wire' \in [Browsers -> SUBSET Replies]
        BY <1>a, <2>1, <2>7, <2>9, <3>8, <3>10, <3>11, NewCookies
      <3>13. QED
        BY <1>a, <2>1, <2>4, <2>5, <3>12 DEF SignInInv, TypesOK, CodesAreSteps
    <2>10. QED
      BY <2>6, <2>8, <2>9
  <1>8. ASSUME NEW b \in Browsers, Logout(b) PROVE SignInInv'
    <2>0. UNCHANGED <<clock, deployed, boots, inbox, jar, read, post>> /\ ThePastStays
      BY <1>8, <1>a DEF Logout, process, people, ThePastStays, TypesOK
    <2>1. UNCHANGED <<clock, deployed, boots, inbox, jar, read, post>> /\ ThePastStays /\ RequestsAreEarned'
      BY <1>a, <2>0, RequestsUnchanged
    <2>2. Answers(b, Answer(NoCookies, "login"))
      BY <1>8 DEF Logout
    <2>3. NoCookies \in Jars /\ Answer(NoCookies, "login") \in Replies
          /\ Answer(NoCookies, "login").cookies = NoCookies
      BY DEF NoCookies, Jars, Answer, Replies
    <2>4. Earned(NoCookies)'
      BY DEF Earned, NoCookies
    <2>5. HeldIsEarned' /\ wire' \in [Browsers -> SUBSET Replies]
      BY <1>a, <2>1, <2>2, <2>3, <2>4, NewCookies
    <2>6. QED
      BY <1>a, <2>1, <2>5 DEF SignInInv, TypesOK, CodesAreSteps
  <1>9. ASSUME NEW b \in Browsers, Arrive(b) PROVE SignInInv'
    <2>0. UNCHANGED <<clock, deployed, boots, inbox, read, post>> /\ ThePastStays
      BY <1>9, <1>a DEF Arrive, process, people, ThePastStays, TypesOK
    <2>1. UNCHANGED <<clock, deployed, boots, inbox, read, post>> /\ ThePastStays /\ RequestsAreEarned'
      BY <1>a, <2>0, RequestsUnchanged
    <2>2. PICK answer \in wire[b] :
            /\ wire' = [wire EXCEPT ![b] = @ \ {answer}]
            /\ jar' = [jar EXCEPT ![b] = IF answer.cookies = None THEN @ ELSE answer.cookies]
      BY <1>9 DEF Arrive
    <2>3. answer.cookies \in Jars \cup {None}
      BY <1>a, <2>2 DEF TypesOK, Replies
    <2>4. TypesOK'
      BY <1>a, <2>1, <2>2, <2>3 DEF TypesOK
    <2>5. Held' \subseteq Held
      BY <1>a, <2>2, <2>3 DEF Held, TypesOK
    <2>6. QED
      BY <1>a, <2>1, <2>4, <2>5, NothingNew DEF SignInInv, CodesAreSteps
  <1>10. \A b \in Browsers : Visit(b) => UNCHANGED <<clock, deployed, boots, inbox, jar, wire, read, post>>
    BY DEF Visit, process, people
  <1>11. EnrollLink \/ Enroll \/ UNCHANGED vars
            => UNCHANGED <<clock, deployed, boots, inbox, jar, wire, read, post>>
    BY DEF EnrollLink, Enroll, vars, process, people
  <1>13. QED
    BY <1>1, <1>2, <1>3, <1>4, <1>5, <1>6, <1>7, <1>8, <1>9, <1>10, <1>11, <1>12 DEF Next

\* Whoever may act for an address opened a link mailed to it in time, and then entered a
\* code that somebody had read, in time but for what a request may take, all under the
\* secret deployed now (auth route completeSignIn, verifyCode).
THEOREM AccessIsEarned == Spec => []SessionsAreEarned
  <1>1. ASSUME SignInInv PROVE SessionsAreEarned
    <2>1. SUFFICES ASSUME NEW b \in Browsers, RequireClient(b)
                   PROVE  /\ jar[b].pending = None
                          /\ \E issued \in 0 .. clock :
                                /\ jar[b].session.expiresAt = Seconds(issued + SessionTTL)
                                /\ clock < issued + SessionTTL
                                /\ \E i \in DOMAIN inbox[jar[b].session.email] :
                                    LET link == inbox[jar[b].session.email][i]
                                    IN  /\ link.key = LinkKey
                                        /\ link.iat <= issued
                                        /\ issued < link.iat + LinkTTL + PendingTTL + BodyWait
                                /\ CodeFits(Env.secret, issued)
      BY DEF SessionsAreEarned, CodeFits
    <2> DEFINE session == jar[b].session
    <2>2. /\ session # None /\ session.key = SessionKey
          /\ ~(session.expiresAt * Second <= clock)
      BY <2>1 DEF RequireClient, AuthorizeSession, InspectSession
    <2>3. /\ jar[b] \in Held /\ session \in Sessions /\ session.key[1] = Env.secret
          /\ clock \in Nat
      <3>1. jar[b] \in Jars /\ clock \in Nat
        BY <1>1 DEF SignInInv, TypesOK
      <3>2. jar[b] \in Held
        BY <3>1 DEF Held
      <3>3. QED
        BY <2>2, <3>1, <3>2 DEF Jars, SessionKey
    <2>4. jar[b].pending = None /\ SessionIsEarned(session)
      BY <1>1, <2>2, <2>3 DEF SignInInv, HeldIsEarned, Earned
    <2>5. PICK issued \in 0 .. clock :
            /\ session.expiresAt = Seconds(issued + SessionTTL)
            /\ Mailed(session.email, Env.secret, issued, LinkTTL + PendingTTL + BodyWait)
            /\ CodeFits(Env.secret, issued)
      BY <2>3, <2>4 DEF SessionIsEarned
    <2>6. clock < issued + SessionTTL
      <3>1. issued \in Nat /\ SessionTTL \in Nat
        BY <2>3, <2>5, SignInConstants
      <3>2. ~(Seconds(issued + SessionTTL) * Second <= clock)
        <4>1. session.expiresAt = Seconds(issued + SessionTTL) /\ ~(session.expiresAt * Second <= clock)
          BY <2>2, <2>5
        <4> QED
          BY <4>1, Zenon
      <3>3. QED
        BY <2>3, <3>1, <3>2, NotYetOver
    <2>7. \E i \in DOMAIN inbox[session.email] :
            /\ inbox[session.email][i].key = LinkKey
            /\ inbox[session.email][i].iat <= issued
            /\ issued < inbox[session.email][i].iat + LinkTTL + PendingTTL + BodyWait
      <3>1. PICK i \in DOMAIN inbox[session.email] :
              /\ inbox[session.email][i].key = LinkKey
              /\ inbox[session.email][i].iat <= issued
              /\ issued < inbox[session.email][i].iat + (LinkTTL + PendingTTL + BodyWait)
        BY <2>5, Zenon DEF Mailed, LinkKey
      <3>2. session.email \in Emails /\ TypesOK
        BY <1>1, <2>3 DEF SignInInv, Sessions
      <3>3. inbox[session.email][i].iat \in Nat
        BY <3>1, <3>2, MailIsLinks, Zenon
      <3>4. LinkTTL \in Nat /\ PendingTTL \in Nat /\ BodyWait \in Nat
        BY SignInConstants
      <3>5. inbox[session.email][i].iat + (LinkTTL + PendingTTL + BodyWait)
              = inbox[session.email][i].iat + LinkTTL + PendingTTL + BodyWait
        BY <3>3, <3>4
      <3>6. issued < inbox[session.email][i].iat + LinkTTL + PendingTTL + BodyWait
        BY <3>1, <3>5, Zenon
      <3> QED
        BY <3>1, <3>6, Zenon
    <2>8. QED
      BY <2>4, <2>5, <2>6, <2>7
  <1>2. Spec => []SignInInv
    BY SignInInit, SignInStep, PTL DEF Spec
  <1>3. QED
    BY <1>1, <1>2, PTL

-------------------------------------------------------------------------------
(* Attempts within a window *)

\* The places of a sequence of times that are still in the window.
InWindow(times, now) == {i \in DOMAIN times : times[i] > now - Window}

\* What holds at 0 and passes from each number to the next holds up to n.
LEMMA StepByStep ==
  ASSUME NEW n \in Nat, NEW T, 0 \in T, \A i \in 1 .. n : i - 1 \in T => i \in T
  PROVE  \A i \in 0 .. n : i \in T
  <1> DEFINE R == OpToRel(<, Nat)
             F == {i \in 0 .. n : i \notin T}
  <1>0. IsWellFoundedOn(R, Nat)
    BY NatLessThanWellFounded
  <1>1. \A i, j \in Nat : <<i, j>> \in R <=> i < j
    BY DEF OpToRel
  <1> HIDE DEF R
  <1>2. SUFFICES ASSUME F # {} PROVE FALSE
    OBVIOUS
  <1>3. F \in SUBSET Nat
    OBVIOUS
  <1>4. \E i \in F : \A j \in F : ~ (<<j, i>> \in R)
    BY <1>0, <1>2, <1>3, WFMin
  <1>5. PICK i \in F : \A j \in F : ~ (<<j, i>> \in R)
    BY <1>4
  <1>6. i \in 1 .. n /\ i - 1 \in F /\ i \in Nat /\ i - 1 \in Nat /\ i - 1 < i
    BY <1>5
  <1> HIDE DEF F
  <1> QED
    BY <1>1, <1>5, <1>6

\* Counting the places of a sequence that is one longer.
LEMMA AppendCounts ==
  ASSUME NEW s \in Seq(Nat), NEW e \in Nat, NEW now \in Nat
  PROVE  /\ IsFiniteSet(InWindow(s, now)) /\ Cardinality(InWindow(s, now)) \in Nat
         /\ Append(s, e) \in Seq(Nat)
         /\ Cardinality(InWindow(Append(s, e), now)) =
              IF e > now - Window THEN Cardinality(InWindow(s, now)) + 1
              ELSE Cardinality(InWindow(s, now))
  <1> DEFINE n == Len(s)
             longer == Append(s, e)
  <1>1. /\ longer \in Seq(Nat) /\ DOMAIN longer = 1 .. n + 1 /\ longer[n + 1] = e
        /\ n \in Nat /\ DOMAIN s = 1 .. n /\ \A i \in 1 .. n : longer[i] = s[i]
    BY AppendProperties
  <1>2. IsFiniteSet(InWindow(s, now)) /\ n + 1 \notin InWindow(s, now)
    <2>1. IsFiniteSet(1 .. n) /\ InWindow(s, now) \subseteq 1 .. n
      BY <1>1, FS_Interval DEF InWindow
    <2> QED
      BY <1>1, <2>1, FS_Subset
  <1>3. InWindow(longer, now) = IF e > now - Window THEN InWindow(s, now) \cup {n + 1} ELSE InWindow(s, now)
    <2> HIDE DEF longer, n
    <2> QED
      BY <1>1 DEF InWindow
  <1>4. Cardinality(InWindow(s, now)) \in Nat
    BY <1>2, FS_CardinalityType
  <1>5. Cardinality(InWindow(s, now) \cup {n + 1}) = Cardinality(InWindow(s, now)) + 1
    BY <1>2, FS_AddElement
  <1> QED
    BY <1>1, <1>2, <1>3, <1>4, <1>5

\* Later, fewer of them are in the window.
LEMMA FewerLater ==
  ASSUME NEW s \in Seq(Nat), NEW now \in Nat, NEW later \in Nat, now <= later
  PROVE  Cardinality(InWindow(s, later)) <= Cardinality(InWindow(s, now))
  <1>1. IsFiniteSet(InWindow(s, now))
    BY AppendCounts
  <1>2. Window \in Nat /\ \A i \in DOMAIN s : s[i] \in Nat
    <2>1. Window \in Nat
      BY SignInConstants
    <2>2. \A i \in DOMAIN s : s[i] \in Nat
      OBVIOUS
    <2> QED
      BY <2>1, <2>2
  <1>3. InWindow(s, later) \subseteq InWindow(s, now)
    BY <1>2 DEF InWindow
  <1> QED
    BY <1>1, <1>3, FS_Subset

\* A filter, place by place.
Filters(f, m, s, now) ==
    /\ f \in [0 .. m -> Seq(Nat)] /\ f[0] = <<>>
    /\ \A i \in 1 .. m : f[i] = IF s[i] > now - Window THEN Append(f[i - 1], s[i]) ELSE f[i - 1]

\* There is one, however many are kept.
LEMMA FilterExists ==
  ASSUME NEW s \in Seq(Nat), NEW now \in Nat
  PROVE  \E f : Filters(f, Len(s), s, now)
  <1> DEFINE n == Len(s)
             T == {m \in 0 .. n : \E f : Filters(f, m, s, now)}
  <1>0. n \in Nat /\ \A i \in 1 .. n : s[i] \in Nat
    OBVIOUS
  <1>1. 0 \in T
    <2>1. Filters([i \in 0 .. 0 |-> <<>>], 0, s, now)
      BY DEF Filters
    <2> QED
      BY <1>0, <2>1
  <1>2. ASSUME NEW m \in 1 .. n, m - 1 \in T PROVE m \in T
    <2>1. PICK f : Filters(f, m - 1, s, now)
      BY <1>2
    <2> DEFINE last == IF s[m] > now - Window THEN Append(f[m - 1], s[m]) ELSE f[m - 1]
               longer == [i \in 0 .. m |-> IF i = m THEN last ELSE f[i]]
    <2>2. last \in Seq(Nat)
      <3>1. f[m - 1] \in Seq(Nat) /\ s[m] \in Nat
        BY <1>0, <2>1 DEF Filters
      <3> QED
        BY <3>1
    <2>3. longer \in [0 .. m -> Seq(Nat)] /\ longer[0] = <<>>
      <3> HIDE DEF last
      <3> QED
        BY <2>1, <2>2 DEF Filters
    <2>4. ASSUME NEW i \in 1 .. m
          PROVE  longer[i] = IF s[i] > now - Window THEN Append(longer[i - 1], s[i]) ELSE longer[i - 1]
      <3>1. CASE i = m
        BY <3>1
      <3>2. CASE i # m
        <4>1. i \in 1 .. m - 1
          BY <3>2
        <4> HIDE DEF last
        <4>2. longer[i] = f[i] /\ longer[i - 1] = f[i - 1]
          BY <4>1
        <4> QED
          BY <2>1, <4>1, <4>2 DEF Filters
      <3> QED
        BY <3>1, <3>2
    <2>5. Filters(longer, m, s, now)
      <3> HIDE DEF longer
      <3> QED
        BY <2>3, <2>4 DEF Filters
    <2> QED
      BY <2>5
  <1> HIDE DEF T
  <1>3. \A i \in 0 .. n : i \in T
    BY <1>0, <1>1, <1>2, StepByStep
  <1>4. n \in T
    BY <1>0, <1>3
  <1> QED
    BY <1>4 DEF T

\* What is recent goes through such a filter.
LEMMA RecentFilters ==
  ASSUME NEW s \in Seq(Nat), NEW now \in Nat
  PROVE  \E f : Filters(f, Len(s), s, now) /\ Recent(s, now) = f[Len(s)]
  <1> DEFINE n == Len(s)
             Eq(f) == f = [i \in 0 .. n |->
                              IF i = 0 THEN <<>>
                              ELSE IF s[i] > now - Window THEN Append(f[i - 1], s[i]) ELSE f[i - 1]]
             upTo == CHOOSE f : Eq(f)
  <1>0. n \in Nat /\ \A i \in 1 .. n : s[i] \in Nat
    OBVIOUS
  <1>1. PICK f : Filters(f, n, s, now)
    BY FilterExists
  <1>2. Eq(f)
    <2>1. f = [i \in 0 .. n |-> f[i]] /\ f[0] = <<>>
      BY <1>1 DEF Filters
    <2>2. \A i \in 1 .. n : f[i] = IF s[i] > now - Window THEN Append(f[i - 1], s[i]) ELSE f[i - 1]
      BY <1>1 DEF Filters
    <2>3. \A i \in 0 .. n : i = 0 \/ i \in 1 .. n
      BY <1>0
    <2> HIDE DEF n
    <2> QED
      BY <1>0, <2>1, <2>2, <2>3
  <1>3. Eq(upTo)
    BY <1>2, Zenon
  <1>4. Recent(s, now) = upTo[n]
    BY DEF Recent
  <1> HIDE DEF upTo
  <1>5. /\ upTo[0] = <<>> /\ upTo = [i \in 0 .. n |-> upTo[i]]
        /\ \A i \in 1 .. n : upTo[i] = IF s[i] > now - Window THEN Append(upTo[i - 1], s[i]) ELSE upTo[i - 1]
    <2>1. \A i \in 1 .. n : i \in 0 .. n /\ i # 0
      BY <1>0
    <2>2. 0 \in 0 .. n
      BY <1>0
    <2> HIDE DEF n
    <2> QED
      BY <1>3, <2>1, <2>2
  <1> DEFINE T == {i \in 0 .. n : upTo[i] \in Seq(Nat)}
  <1>6. 0 \in T
    <2>1. <<>> \in Seq(Nat) /\ 0 \in 0 .. n
      BY <1>0
    <2>2. upTo[0] \in Seq(Nat)
      BY <1>5, <2>1, Zenon
    <2> QED
      BY <2>1, <2>2
  <1>7. ASSUME NEW i \in 1 .. n, i - 1 \in T PROVE i \in T
    <2>1. upTo[i - 1] \in Seq(Nat) /\ s[i] \in Nat
      BY <1>0, <1>7
    <2>2. Append(upTo[i - 1], s[i]) \in Seq(Nat)
      BY <2>1
    <2>3. upTo[i] \in Seq(Nat)
      BY <1>5, <2>1, <2>2
    <2> QED
      BY <1>0, <2>3
  <1> HIDE DEF T
  <1>8. \A i \in 0 .. n : i \in T
    BY <1>0, <1>6, <1>7, StepByStep
  <1>9. \A i \in 0 .. n : upTo[i] \in Seq(Nat)
    BY <1>8 DEF T
  <1>10. Filters(upTo, n, s, now)
    <2>1. upTo \in [0 .. n -> Seq(Nat)]
      BY <1>5, <1>9
    <2> QED
      BY <1>5, <2>1 DEF Filters
  <1> QED
    BY <1>4, <1>10

\* The places up to m that are in the window.
UpTo(s, m, now) == {j \in 1 .. m : s[j] > now - Window}

\* One place more.
LEMMA OneMore ==
  ASSUME NEW s \in Seq(Nat), NEW m \in 1 .. Len(s), NEW now \in Nat
  PROVE  Cardinality(UpTo(s, m, now)) = IF s[m] > now - Window THEN Cardinality(UpTo(s, m - 1, now)) + 1
                                        ELSE Cardinality(UpTo(s, m - 1, now))
  <1>1. IsFiniteSet(UpTo(s, m - 1, now)) /\ m \notin UpTo(s, m - 1, now)
    <2>1. IsFiniteSet(1 .. m - 1) /\ UpTo(s, m - 1, now) \subseteq 1 .. m - 1
      BY FS_Interval DEF UpTo
    <2> QED
      BY <2>1, FS_Subset
  <1>2. UpTo(s, m, now) = IF s[m] > now - Window THEN UpTo(s, m - 1, now) \cup {m} ELSE UpTo(s, m - 1, now)
    BY DEF UpTo
  <1>3. Cardinality(UpTo(s, m - 1, now) \cup {m}) = Cardinality(UpTo(s, m - 1, now)) + 1
    BY <1>1, FS_AddElement
  <1> QED
    BY <1>2, <1>3

\* A list has as many attempts as are kept of it, and those that will be in the window at
\* any later moment are among them.
LEMMA RecentFits ==
  ASSUME NEW s \in Seq(Nat), NEW now \in Nat
  PROVE  /\ Recent(s, now) \in Seq(Nat)
         /\ Len(Recent(s, now)) = Cardinality(InWindow(s, now))
         /\ \A later \in Nat : now <= later =>
              Cardinality(InWindow(Recent(s, now), later)) = Cardinality(InWindow(s, later))
  <1> DEFINE n == Len(s)
             Agrees(kept, m) ==
                /\ kept \in Seq(Nat) /\ Len(kept) = Cardinality(UpTo(s, m, now))
                /\ \A later \in Nat : now <= later =>
                     Cardinality(InWindow(kept, later)) = Cardinality(UpTo(s, m, later))
  <1>0. n \in Nat /\ DOMAIN s = 1 .. n /\ (\A i \in 1 .. n : s[i] \in Nat) /\ Window \in Nat
    <2>1. Window \in Nat
      BY SignInConstants
    <2>2. n \in Nat /\ DOMAIN s = 1 .. n /\ \A i \in 1 .. n : s[i] \in Nat
      OBVIOUS
    <2> QED
      BY <2>1, <2>2
  <1>1. PICK f : Filters(f, n, s, now) /\ Recent(s, now) = f[n]
    BY RecentFilters
  <1> DEFINE T == {m \in 0 .. n : Agrees(f[m], m)}
  <1>2. 0 \in T
    <2>1. \A t : UpTo(s, 0, t) = {} /\ InWindow(<<>>, t) = {}
      BY DEF UpTo, InWindow
    <2>2. Cardinality({}) = 0 /\ <<>> \in Seq(Nat) /\ Len(<<>>) = 0
      BY FS_EmptySet
    <2>3. f[0] = <<>>
      BY <1>1 DEF Filters
    <2>4. Agrees(<<>>, 0)
      BY <2>1, <2>2
    <2>5. 0 \in 0 .. n
      BY <1>0
    <2> HIDE DEF Agrees, n
    <2>6. Agrees(f[0], 0)
      BY <2>3, <2>4
    <2> QED
      BY <2>5, <2>6
  <1>3. ASSUME NEW m \in 1 .. n, m - 1 \in T PROVE m \in T
    <2>1. Agrees(f[m - 1], m - 1) /\ s[m] \in Nat
      BY <1>0, <1>3
    <2>2. f[m] = IF s[m] > now - Window THEN Append(f[m - 1], s[m]) ELSE f[m - 1]
      BY <1>1 DEF Filters
    <2>3. ASSUME NEW later \in Nat, now <= later
          PROVE  Cardinality(InWindow(f[m], later)) = Cardinality(UpTo(s, m, later))
      <3>1. Cardinality(InWindow(f[m - 1], later)) = Cardinality(UpTo(s, m - 1, later))
        BY <2>1, <2>3
      <3>2. Cardinality(UpTo(s, m, later)) = IF s[m] > later - Window
                                             THEN Cardinality(UpTo(s, m - 1, later)) + 1
                                             ELSE Cardinality(UpTo(s, m - 1, later))
        BY OneMore
      <3>3. CASE s[m] > now - Window
        <4>1. Cardinality(InWindow(Append(f[m - 1], s[m]), later)) =
                IF s[m] > later - Window THEN Cardinality(InWindow(f[m - 1], later)) + 1
                ELSE Cardinality(InWindow(f[m - 1], later))
          BY <2>1, AppendCounts
        <4> QED
          BY <2>2, <3>1, <3>2, <3>3, <4>1
      <3>4. CASE ~(s[m] > now - Window)
        <4>1. ~(s[m] > later - Window)
          BY <1>0, <2>1, <2>3, <3>4
        <4> QED
          BY <2>2, <3>1, <3>2, <3>4, <4>1
      <3> QED
        BY <3>3, <3>4
    <2>4. f[m] \in Seq(Nat) /\ Len(f[m]) = Cardinality(UpTo(s, m, now))
      <3>1. Cardinality(UpTo(s, m, now)) = IF s[m] > now - Window
                                           THEN Cardinality(UpTo(s, m - 1, now)) + 1
                                           ELSE Cardinality(UpTo(s, m - 1, now))
        BY OneMore
      <3>2. f[m - 1] \in Seq(Nat) /\ Len(f[m - 1]) = Cardinality(UpTo(s, m - 1, now))
        BY <2>1
      <3>3. Append(f[m - 1], s[m]) \in Seq(Nat) /\ Len(Append(f[m - 1], s[m])) = Len(f[m - 1]) + 1
        BY <2>1, <3>2
      <3> QED
        BY <2>2, <3>1, <3>2, <3>3
    <2> QED
      BY <2>3, <2>4
  <1>4. \A i \in 0 .. n : i \in T
    <2> HIDE DEF T
    <2> QED
      BY <1>0, <1>2, <1>3, StepByStep
  <1>5. Agrees(f[n], n)
    BY <1>0, <1>4
  <1>6. \A t : UpTo(s, n, t) = InWindow(s, t)
    BY <1>0 DEF UpTo, InWindow
  <1> QED
    BY <1>1, <1>5, <1>6

-------------------------------------------------------------------------------
(* The limits *)

\* Links of this life of the process that are still in the window.
MailedLately(email, now) ==
    {i \in DOMAIN inbox[email] : inbox[email][i].life = boots /\ inbox[email][i].iat > now - Window}

CountersOK == hits \in [Limits -> Seq(Nat)]

HitsAreBounded == \A key \in Limits : Cardinality(InWindow(hits[key], clock)) <= LimitOf[key[1]]

\* The requests, of q, that were counted for an address since the window began that ends
\* at t; and those among them that were counted by then.
Since(q, a, t) == {p \in Posts : q[p] # None /\ q[p].from = a /\ q[p].counted > t - Window}
Ending(q, a, t) == {p \in Since(q, a, t) : q[p].counted <= t}

\* Whatever is still in the window at some later moment has been counted.
RequestsAreCounted ==
    \A a \in Addresses, now \in Nat : clock <= now =>
        Cardinality(Since(post, a, now)) <= Cardinality(InWindow(hits[<<"codesByAddress", a>>], now))
\* No window has been overdrawn, wherever it ended.
WindowsAreKept ==
    \A a \in Addresses, t \in Int : t <= clock =>
        Cardinality(Ending(post, a, t)) <= LimitOf["codesByAddress"]
\* Counted before now, and answered in time.
AnswersAreTimely ==
    \A p \in Posts : post[p] # None =>
        /\ post[p].counted <= clock
        /\ Answered(post[p]) => post[p].compared <= post[p].counted + BodyWait
MailIsCounted ==
    \A e \in Emails, now \in Nat : clock <= now =>
        Cardinality(MailedLately(e, now)) <= Cardinality(InWindow(hits[<<"byEmail", e>>], now))
MailIsOfALife == \A e \in Emails : \A i \in DOMAIN inbox[e] : inbox[e][i].life <= boots

LimitInv ==
    /\ CountersOK /\ HitsAreBounded
    /\ RequestsAreCounted /\ WindowsAreKept /\ AnswersAreTimely
    /\ MailIsCounted /\ MailIsOfALife

LEMMA RequestsAreFinite ==
  ASSUME NEW q, NEW a, NEW t
  PROVE  /\ IsFiniteSet(Since(q, a, t)) /\ Cardinality(Since(q, a, t)) \in Nat
         /\ IsFiniteSet(Ending(q, a, t)) /\ Cardinality(Ending(q, a, t)) \in Nat
  <1>1. IsFiniteSet(Posts) /\ Since(q, a, t) \subseteq Posts /\ Ending(q, a, t) \subseteq Posts
    BY SignInConstants DEF Since, Ending
  <1> QED
    BY <1>1, FS_Subset, FS_CardinalityType

\* The requests of r are some of those of q.
SomeOf(r, q) ==
    \A p \in Posts : r[p] # None =>
        q[p] # None /\ r[p].from = q[p].from /\ r[p].counted = q[p].counted

LEMMA FewerRequests ==
  ASSUME NEW q, NEW r, SomeOf(r, q), NEW a, NEW t
  PROVE  /\ Cardinality(Since(r, a, t)) <= Cardinality(Since(q, a, t))
         /\ Cardinality(Ending(r, a, t)) <= Cardinality(Ending(q, a, t))
  <1>1. Since(r, a, t) \subseteq Since(q, a, t) /\ Ending(r, a, t) \subseteq Ending(q, a, t)
    BY DEF SomeOf, Since, Ending
  <1> QED
    BY <1>1, RequestsAreFinite, FS_Subset

\* A request more is one more of the windows it falls in.
LEMMA OneMoreRequest ==
  ASSUME NEW q, NEW r, NEW p \in Posts, \A other \in Posts : other # p => r[other] = q[other],
         NEW a, NEW t
  PROVE  /\ Cardinality(Since(r, a, t)) <= Cardinality(Since(q, a, t)) + 1
         /\ ~(r[p].from = a /\ r[p].counted > t - Window)
               => Cardinality(Since(r, a, t)) <= Cardinality(Since(q, a, t))
         /\ ~(r[p].from = a /\ r[p].counted <= t)
               => Cardinality(Ending(r, a, t)) <= Cardinality(Ending(q, a, t))
  <1>1. /\ Since(r, a, t) \subseteq Since(q, a, t) \cup {p}
        /\ ~(r[p].from = a /\ r[p].counted > t - Window) => Since(r, a, t) \subseteq Since(q, a, t)
        /\ ~(r[p].from = a /\ r[p].counted <= t) => Ending(r, a, t) \subseteq Ending(q, a, t)
    BY DEF Since, Ending
  <1>2. /\ IsFiniteSet(Since(q, a, t) \cup {p})
        /\ Cardinality(Since(q, a, t) \cup {p}) <= Cardinality(Since(q, a, t)) + 1
        /\ Cardinality(Since(q, a, t) \cup {p}) \in Nat
    <2> DEFINE S == Since(q, a, t)
    <2>1. IsFiniteSet(S) /\ Cardinality(S) \in Nat
      BY RequestsAreFinite
    <2> HIDE DEF S
    <2>2. /\ IsFiniteSet(S \cup {p})
          /\ Cardinality(S \cup {p}) = IF p \in S THEN Cardinality(S) ELSE Cardinality(S) + 1
      BY <2>1, FS_AddElement
    <2>3. Cardinality(S \cup {p}) <= Cardinality(S) + 1 /\ Cardinality(S \cup {p}) \in Nat
      BY <2>1, <2>2
    <2> QED
      BY <2>2, <2>3 DEF S
  <1>3. /\ Cardinality(Since(r, a, t)) <= Cardinality(Since(q, a, t) \cup {p})
        /\ Cardinality(Since(r, a, t)) \in Nat
    BY <1>1, <1>2, RequestsAreFinite, FS_Subset
  <1>4. Since(r, a, t) \subseteq Since(q, a, t)
          => Cardinality(Since(r, a, t)) <= Cardinality(Since(q, a, t))
    BY RequestsAreFinite, FS_Subset
  <1>5. Ending(r, a, t) \subseteq Ending(q, a, t)
          => Cardinality(Ending(r, a, t)) <= Cardinality(Ending(q, a, t))
    BY RequestsAreFinite, FS_Subset
  <1>6. Cardinality(Since(r, a, t)) <= Cardinality(Since(q, a, t)) + 1
    BY <1>2, <1>3, RequestsAreFinite
  <1> QED
    BY <1>1, <1>4, <1>5, <1>6

\* The window that ends now is kept by the limiter.
LEMMA NewestWindow ==
  ASSUME NEW q, NEW a, NEW t \in Nat, NEW times \in Seq(Nat), NEW limit \in Nat,
         Cardinality(Since(q, a, t)) <= Cardinality(InWindow(times, t)),
         Cardinality(InWindow(times, t)) <= limit
  PROVE  Cardinality(Since(q, a, t)) <= limit /\ Cardinality(Ending(q, a, t)) <= limit
  <1>1. Cardinality(InWindow(times, t)) \in Nat
    BY AppendCounts
  <1>2. Ending(q, a, t) \subseteq Since(q, a, t)
    BY DEF Ending
  <1>3. Cardinality(Ending(q, a, t)) <= Cardinality(Since(q, a, t))
    BY <1>2, RequestsAreFinite, FS_Subset
  <1> QED
    BY <1>1, <1>3, RequestsAreFinite

\* The limiters' keys, and what their limits are.
LEMMA KeysAreLimits ==
  /\ \A a \in Addresses : <<"codesByAddress", a>> \in Limits
  /\ \A e \in Emails : <<"byEmail", e>> \in Limits
  /\ \A key \in Limits : LimitOf[key[1]] \in Nat \ {0}
  <1>1. \A key \in Limits : key[1] \in {"byEmail", "byAddress", "codesByAddress"}
    BY DEF Limits
  <1>2. \A key \in Limits : LimitOf[key[1]] \in Nat \ {0}
    BY <1>1, SignInConstants
  <1> QED
    BY <1>2 DEF Limits

\* An attempt that is allowed is counted, and stays within the limit.
LEMMA CountedFits ==
  ASSUME clock \in Nat, CountersOK, HitsAreBounded, NEW keys, Counted(keys)
  PROVE  /\ hits' \in [Limits -> Seq(Nat)]
         /\ \A key \in Limits : Cardinality(InWindow(hits'[key], clock)) <= LimitOf[key[1]]
         /\ \A key \in Limits, now \in Nat : clock <= now =>
              Cardinality(InWindow(hits'[key], now)) =
                IF key \in keys /\ Allows(key) /\ clock > now - Window
                THEN Cardinality(InWindow(hits[key], now)) + 1
                ELSE Cardinality(InWindow(hits[key], now))
  <1>0. ASSUME NEW key \in Limits
        PROVE  /\ hits'[key] \in Seq(Nat)
               /\ Cardinality(InWindow(hits'[key], clock)) <= LimitOf[key[1]]
               /\ \A now \in Nat : clock <= now =>
                    Cardinality(InWindow(hits'[key], now)) =
                      IF key \in keys /\ Allows(key) /\ clock > now - Window
                      THEN Cardinality(InWindow(hits[key], now)) + 1
                      ELSE Cardinality(InWindow(hits[key], now))
    <2> DEFINE recent == Recent(hits[key], clock)
    <2>0. hits[key] \in Seq(Nat) /\ LimitOf[key[1]] \in Nat
      BY KeysAreLimits DEF CountersOK
    <2>1. CASE key \in keys /\ Allows(key)
      <3>1. hits'[key] = Append(recent, clock)
        BY <2>1 DEF Counted
      <3>2. /\ recent \in Seq(Nat) /\ Len(recent) = Cardinality(InWindow(hits[key], clock))
            /\ \A now \in Nat : clock <= now =>
                 Cardinality(InWindow(recent, now)) = Cardinality(InWindow(hits[key], now))
        BY <2>0, RecentFits
      <3>3. Cardinality(InWindow(hits[key], clock)) < LimitOf[key[1]]
        BY <2>1, <3>2 DEF Allows
      <3> HIDE DEF recent
      <3>4. ASSUME NEW now \in Nat, clock <= now
            PROVE  Cardinality(InWindow(hits'[key], now)) =
                     IF clock > now - Window THEN Cardinality(InWindow(hits[key], now)) + 1
                     ELSE Cardinality(InWindow(hits[key], now))
        <4>1. Cardinality(InWindow(Append(recent, clock), now)) =
                IF clock > now - Window THEN Cardinality(InWindow(recent, now)) + 1
                ELSE Cardinality(InWindow(recent, now))
          BY <3>2, AppendCounts
        <4> QED
          BY <3>1, <3>2, <3>4, <4>1
      <3>5. hits'[key] \in Seq(Nat)
        BY <3>1, <3>2, AppendCounts
      <3>6. Cardinality(InWindow(hits[key], clock)) \in Nat
        BY <2>0, AppendCounts
      <3>7. Cardinality(InWindow(hits'[key], clock)) <= LimitOf[key[1]]
        BY <2>0, <3>3, <3>4, <3>6
      <3> QED
        BY <2>1, <3>4, <3>5, <3>7
    <2>2. CASE ~(key \in keys /\ Allows(key))
      <3>1. hits'[key] = hits[key]
        BY <2>2 DEF Counted
      <3> QED
        BY <2>0, <2>2, <3>1 DEF HitsAreBounded
    <2> QED
      BY <2>1, <2>2
  <1>1. hits' = [key \in Limits |-> hits'[key]]
    BY DEF Counted
  <1> QED
    BY <1>0, <1>1

\* Links are numbered places of a mailbox.
LEMMA MailIsFinite ==
  ASSUME TypesOK, NEW e \in Emails, NEW now \in Nat
  PROVE  IsFiniteSet(MailedLately(e, now)) /\ Cardinality(MailedLately(e, now)) \in Nat
  <1>1. inbox[e] \in Seq(Links)
    BY DEF TypesOK
  <1>2. Len(inbox[e]) \in Nat /\ DOMAIN inbox[e] = 1 .. Len(inbox[e])
    BY <1>1
  <1>3. IsFiniteSet(1 .. Len(inbox[e])) /\ MailedLately(e, now) \subseteq 1 .. Len(inbox[e])
    BY <1>2, FS_Interval DEF MailedLately
  <1>4. IsFiniteSet(MailedLately(e, now))
    BY <1>3, FS_Subset
  <1> QED
    BY <1>4, FS_CardinalityType

\* Nothing has been tried.
LEMMA LimitInit == Init => LimitInv
  <1> SUFFICES ASSUME Init PROVE LimitInv
    OBVIOUS
  <1>1. CountersOK
    BY DEF Init, CountersOK
  <1>2. /\ \A key \in Limits : hits[key] = <<>>
        /\ \A p \in Posts : post[p] = None
        /\ \A e \in Emails : inbox[e] = <<>>
    BY DEF Init
  <1>3. \A now : Cardinality(InWindow(<<>>, now)) = 0
    <2>1. \A now : InWindow(<<>>, now) = {}
      BY DEF InWindow
    <2> QED
      BY <2>1, FS_EmptySet
  <1>4. \A key \in Limits, now \in Nat : Cardinality(InWindow(hits[key], now)) = 0
    BY <1>2, <1>3
  <1>5. \A a \in Addresses, t \in Int :
          Cardinality(Since(post, a, t)) = 0 /\ Cardinality(Ending(post, a, t)) = 0
    <2>1. \A a \in Addresses, t \in Int : Since(post, a, t) = {} /\ Ending(post, a, t) = {}
      BY <1>2 DEF Since, Ending
    <2> QED
      BY <2>1, FS_EmptySet
  <1>6. \A e \in Emails, now \in Nat : Cardinality(MailedLately(e, now)) = 0
    <2>1. \A e \in Emails, now \in Nat : MailedLately(e, now) = {}
      BY <1>2 DEF MailedLately
    <2> QED
      BY <2>1, FS_EmptySet
  <1>7. HitsAreBounded
    <2>1. clock \in Nat /\ \A key \in Limits : 0 <= LimitOf[key[1]]
      BY KeysAreLimits DEF Init
    <2> QED
      BY <1>4, <2>1 DEF HitsAreBounded
  <1>8. RequestsAreCounted /\ WindowsAreKept /\ MailIsCounted
    <2>1. LimitOf["codesByAddress"] \in Nat
      BY SignInConstants
    <2> QED
      BY <1>4, <1>5, <1>6, <2>1, KeysAreLimits DEF RequestsAreCounted, WindowsAreKept, MailIsCounted
  <1>9. MailIsOfALife /\ AnswersAreTimely
    BY <1>2 DEF MailIsOfALife, AnswersAreTimely
  <1> QED
    BY <1>1, <1>7, <1>8, <1>9 DEF LimitInv

\* A mailbox with one more link, of now and of this life.
LEMMA OneMoreLink ==
  ASSUME TypesOK, boots' = boots, NEW e \in Emails, NEW now \in Nat,
         inbox'[e] = Append(inbox[e], IssueMagicLinkToken), IssueMagicLinkToken \in Links
  PROVE  Cardinality(MailedLately(e, now)') =
           IF clock > now - Window THEN Cardinality(MailedLately(e, now)) + 1
           ELSE Cardinality(MailedLately(e, now))
  <1> DEFINE n == Len(inbox[e])
             link == IssueMagicLinkToken
  <1>1. inbox[e] \in Seq(Links)
    BY DEF TypesOK
  <1>2. /\ n \in Nat /\ DOMAIN inbox[e] = 1 .. n /\ DOMAIN inbox'[e] = 1 .. n + 1
        /\ inbox'[e][n + 1] = link /\ \A i \in 1 .. n : inbox'[e][i] = inbox[e][i]
    BY <1>1, AppendProperties
  <1>3. link.iat = clock /\ link.life = boots
    BY DEF IssueMagicLinkToken
  <1> HIDE DEF link, n
  <1>4. n + 1 \notin MailedLately(e, now)
    BY <1>2 DEF MailedLately
  <1>5. MailedLately(e, now)' = {i \in 1 .. n + 1 : inbox'[e][i].life = boots
                                                 /\ inbox'[e][i].iat > now - Window}
    BY <1>2 DEF MailedLately
  <1>6. MailedLately(e, now) = {i \in 1 .. n : inbox[e][i].life = boots
                                                 /\ inbox[e][i].iat > now - Window}
    BY <1>2 DEF MailedLately
  <1>7. MailedLately(e, now)' = IF clock > now - Window THEN MailedLately(e, now) \cup {n + 1}
                                ELSE MailedLately(e, now)
    BY <1>2, <1>3, <1>5, <1>6
  <1>8. Cardinality(MailedLately(e, now) \cup {n + 1}) = Cardinality(MailedLately(e, now)) + 1
    BY <1>4, MailIsFinite, FS_AddElement
  <1> QED
    BY <1>7, <1>8

\* Requests that are some of those there were keep the windows that have ended.
LEMMA FewerKeep ==
  ASSUME clock \in Nat, WindowsAreKept, NEW q, SomeOf(q, post), NEW a \in Addresses,
         NEW t \in Int, t <= clock
  PROVE  Cardinality(Ending(q, a, t)) <= LimitOf["codesByAddress"]
  <1>1. Cardinality(Ending(q, a, t)) <= Cardinality(Ending(post, a, t))
    BY FewerRequests
  <1>2. Cardinality(Ending(post, a, t)) <= LimitOf["codesByAddress"]
    BY DEF WindowsAreKept
  <1>3. LimitOf["codesByAddress"] \in Nat
    BY SignInConstants
  <1> QED
    BY <1>1, <1>2, <1>3, RequestsAreFinite

\* Every attempt is counted before it has its effect, and nothing else changes the counts
\* but time and a restart.
LEMMA LimitStep ==
  ASSUME SignInInv, LimitInv, [Next]_vars
  PROVE  LimitInv'
  <1>a. /\ TypesOK /\ clock \in Nat /\ boots \in Nat /\ CountersOK
        /\ HitsAreBounded /\ RequestsAreCounted /\ WindowsAreKept /\ AnswersAreTimely
        /\ MailIsCounted /\ MailIsOfALife
    BY DEF SignInInv, TypesOK, LimitInv
  <1>b. \A key \in Limits : hits[key] \in Seq(Nat)
    BY <1>a DEF CountersOK
  <1>c. /\ \A key \in Limits, now \in Nat : Cardinality(InWindow(hits[key], now)) \in Nat
        /\ \A a \in Addresses, now \in Nat : Cardinality(Since(post, a, now)) \in Nat
        /\ \A e \in Emails, now \in Nat : Cardinality(MailedLately(e, now)) \in Nat
    BY <1>a, <1>b, AppendCounts, MailIsFinite, RequestsAreFinite
  <1>1. ASSUME UNCHANGED <<clock, boots, hits, inbox>>, SomeOf(post', post), AnswersAreTimely'
        PROVE  LimitInv'
    <2>1. CountersOK' /\ HitsAreBounded' /\ MailIsOfALife'
      BY <1>1, <1>a DEF CountersOK, HitsAreBounded, MailIsOfALife
    <2>2. MailIsCounted'
      BY <1>1, <1>a DEF MailIsCounted, MailedLately
    <2>3. WindowsAreKept'
      <3>1. \A a \in Addresses, t \in Int : t <= clock
              => Cardinality(Ending(post', a, t)) <= LimitOf["codesByAddress"]
        BY <1>a, <1>1, FewerKeep
      <3> QED
        BY <1>1, <3>1 DEF WindowsAreKept
    <2>4. RequestsAreCounted'
      <3> SUFFICES ASSUME NEW a \in Addresses, NEW now \in Nat, clock <= now
                   PROVE  Cardinality(Since(post', a, now))
                            <= Cardinality(InWindow(hits[<<"codesByAddress", a>>], now))
        BY <1>1 DEF RequestsAreCounted
      <3> DEFINE key == <<"codesByAddress", a>>
      <3>1. key \in Limits /\ Cardinality(Since(post, a, now)) <= Cardinality(InWindow(hits[key], now))
        BY <1>a, KeysAreLimits DEF RequestsAreCounted
      <3>2. /\ Cardinality(Since(post', a, now)) <= Cardinality(Since(post, a, now))
            /\ Cardinality(Since(post', a, now)) \in Nat /\ Cardinality(Since(post, a, now)) \in Nat
        BY <1>1, FewerRequests, RequestsAreFinite
      <3> HIDE DEF key
      <3>3. Cardinality(Since(post', a, now)) <= Cardinality(InWindow(hits[key], now))
        BY <1>c, <3>1, <3>2
      <3> QED
        BY <3>3 DEF key
    <2> QED
      BY <1>1, <2>1, <2>2, <2>3, <2>4 DEF LimitInv
  <1>2. ASSUME NEW b \in Browsers, NEW from \in Addresses, NEW spelling \in Asked,
               RequestLink(b, from, spelling)
        PROVE  LimitInv'
    <2> DEFINE email   == Plain[spelling]
               caller  == <<"byAddress", from>>
               mailbox == <<"byEmail", email>>
    <2>1. /\ clock' = clock /\ boots' = boots /\ post' = post /\ Counted({caller, mailbox})
          /\ \/ Allows(mailbox) /\ inbox' = [inbox EXCEPT ![email] = Append(@, IssueMagicLinkToken)]
             \/ inbox' = inbox
      BY <1>2 DEF RequestLink, process
    <2>2. email \in Emails /\ IssueMagicLinkToken \in Links /\ IssueMagicLinkToken.life = boots
      BY <1>a DEF Emails, IssueMagicLinkToken, Links, Keys, LinkKey, Env, TypesOK
    <2> HIDE DEF email
    <2>3. /\ hits' \in [Limits -> Seq(Nat)]
          /\ \A key \in Limits : Cardinality(InWindow(hits'[key], clock)) <= LimitOf[key[1]]
          /\ \A key \in Limits, now \in Nat : clock <= now =>
               Cardinality(InWindow(hits'[key], now)) =
                 IF key \in {caller, mailbox} /\ Allows(key) /\ clock > now - Window
                 THEN Cardinality(InWindow(hits[key], now)) + 1
                 ELSE Cardinality(InWindow(hits[key], now))
      BY <1>a, <2>1, CountedFits
    <2>4. \A key \in Limits, now \in Nat : clock <= now =>
              Cardinality(InWindow(hits[key], now)) <= Cardinality(InWindow(hits'[key], now))
      <3> HIDE DEF caller, mailbox
      <3> SUFFICES ASSUME NEW key \in Limits, NEW now \in Nat, clock <= now
                   PROVE  Cardinality(InWindow(hits[key], now)) <= Cardinality(InWindow(hits'[key], now))
        OBVIOUS
      <3>1. Cardinality(InWindow(hits[key], now)) \in Nat
        BY <1>c
      <3>2. \/ Cardinality(InWindow(hits'[key], now)) = Cardinality(InWindow(hits[key], now)) + 1
            \/ Cardinality(InWindow(hits'[key], now)) = Cardinality(InWindow(hits[key], now))
        BY <2>3
      <3> QED
        BY <3>1, <3>2
    <2>5. CountersOK' /\ HitsAreBounded'
      BY <1>a, <2>1, <2>3 DEF CountersOK, HitsAreBounded
    <2>6. RequestsAreCounted'
      <3> SUFFICES ASSUME NEW a \in Addresses, NEW now \in Nat, clock <= now
                   PROVE  Cardinality(Since(post, a, now))
                            <= Cardinality(InWindow(hits'[<<"codesByAddress", a>>], now))
        BY <2>1 DEF RequestsAreCounted
      <3> DEFINE key == <<"codesByAddress", a>>
      <3>1. key \in Limits
        BY KeysAreLimits
      <3>2. Cardinality(Since(post, a, now)) <= Cardinality(InWindow(hits[key], now))
        BY <1>a DEF RequestsAreCounted
      <3> HIDE DEF key
      <3>3. /\ Cardinality(Since(post, a, now)) \in Nat
            /\ Cardinality(InWindow(hits[key], now)) \in Nat
            /\ Cardinality(InWindow(hits[key], now)) <= Cardinality(InWindow(hits'[key], now))
        BY <1>c, <2>4, <3>1
      <3>4. Cardinality(InWindow(hits'[key], now)) \in Nat
        BY <2>3, <3>1, AppendCounts
      <3>5. Cardinality(Since(post, a, now)) <= Cardinality(InWindow(hits'[key], now))
        BY <3>2, <3>3, <3>4
      <3> QED
        BY <3>5 DEF key
    <2>7. MailIsCounted'
      <3> SUFFICES ASSUME NEW e \in Emails, NEW now \in Nat, clock <= now
                   PROVE  Cardinality(MailedLately(e, now)')
                            <= Cardinality(InWindow(hits'[<<"byEmail", e>>], now))
        BY <2>1 DEF MailIsCounted
      <3> DEFINE key == <<"byEmail", e>>
      <3>1. key \in Limits /\ Cardinality(MailedLately(e, now)) <= Cardinality(InWindow(hits[key], now))
        BY <1>a, KeysAreLimits DEF MailIsCounted
      <3>2. CASE Allows(mailbox) /\ e = email
        <4>1. Cardinality(InWindow(hits'[key], now)) =
                IF clock > now - Window THEN Cardinality(InWindow(hits[key], now)) + 1
                ELSE Cardinality(InWindow(hits[key], now))
          BY <2>3, <3>1, <3>2
        <4>2. \/ Cardinality(MailedLately(e, now)') = Cardinality(MailedLately(e, now))
              \/ Cardinality(MailedLately(e, now)') =
                   IF clock > now - Window THEN Cardinality(MailedLately(e, now)) + 1
                   ELSE Cardinality(MailedLately(e, now))
          <5>1. CASE inbox' = inbox
            <6>1. MailedLately(e, now)' = MailedLately(e, now)
              BY <2>1, <5>1 DEF MailedLately
            <6> QED
              BY <6>1
          <5>2. CASE inbox' = [inbox EXCEPT ![email] = Append(@, IssueMagicLinkToken)]
            <6>1. inbox'[e] = Append(inbox[e], IssueMagicLinkToken)
              BY <1>a, <3>2, <5>2 DEF TypesOK
            <6> QED
              BY <1>a, <2>1, <2>2, <6>1, OneMoreLink
          <5> QED
            BY <2>1, <5>1, <5>2
        <4>3. Cardinality(MailedLately(e, now)) \in Nat /\ Cardinality(InWindow(hits[key], now)) \in Nat
          BY <1>c, <3>1
        <4> HIDE DEF key
        <4>4. Cardinality(MailedLately(e, now)') <= Cardinality(InWindow(hits'[key], now))
          BY <3>1, <4>1, <4>2, <4>3
        <4> QED
          BY <4>4 DEF key
      <3>3. CASE ~(Allows(mailbox) /\ e = email)
        <4>1. inbox'[e] = inbox[e]
          BY <1>a, <2>1, <3>3 DEF TypesOK
        <4>2. MailedLately(e, now)' = MailedLately(e, now)
          BY <2>1, <4>1 DEF MailedLately
        <4>3. /\ Cardinality(MailedLately(e, now)) \in Nat
              /\ Cardinality(InWindow(hits[key], now)) \in Nat
              /\ Cardinality(InWindow(hits[key], now)) <= Cardinality(InWindow(hits'[key], now))
          BY <1>c, <2>4, <3>1
        <4>4. Cardinality(InWindow(hits'[key], now)) \in Nat
          BY <2>3, <3>1, AppendCounts
        <4> HIDE DEF key
        <4>5. Cardinality(MailedLately(e, now)') <= Cardinality(InWindow(hits'[key], now))
          BY <3>1, <4>2, <4>3, <4>4
        <4> QED
          BY <4>5 DEF key
      <3> QED
        BY <3>2, <3>3
    <2>8. MailIsOfALife'
      <3> SUFFICES ASSUME NEW e \in Emails, NEW i \in DOMAIN inbox'[e]
                   PROVE  inbox'[e][i].life <= boots
        BY <2>1 DEF MailIsOfALife
      <3>1. inbox[e] \in Seq(Links) /\ \A j \in DOMAIN inbox[e] : inbox[e][j].life <= boots
        BY <1>a DEF TypesOK, MailIsOfALife
      <3>2. inbox'[e] = inbox[e] \/ inbox'[e] = Append(inbox[e], IssueMagicLinkToken)
        BY <1>a, <2>1 DEF TypesOK
      <3>3. CASE inbox'[e] = inbox[e]
        BY <3>1, <3>3
      <3>4. CASE inbox'[e] = Append(inbox[e], IssueMagicLinkToken)
        <4>1. \/ i \in DOMAIN inbox[e] /\ inbox'[e][i] = inbox[e][i]
              \/ inbox'[e][i] = IssueMagicLinkToken
          BY <2>2, <3>1, <3>4, AppendProperties
        <4> QED
          BY <1>a, <2>2, <3>1, <4>1
      <3> QED
        BY <3>2, <3>3, <3>4
    <2>9. WindowsAreKept' /\ AnswersAreTimely'
      BY <1>a, <2>1 DEF WindowsAreKept, AnswersAreTimely
    <2> QED
      BY <2>5, <2>6, <2>7, <2>8, <2>9 DEF LimitInv
  <1>3. ASSUME NEW b \in Browsers, NEW from \in Addresses, VerifyCode(b, from)
        PROVE  LimitInv'
    <2> DEFINE caller  == <<"codesByAddress", from>>
               request == [by |-> b, email |-> jar[b].pending.email, from |-> from,
                           counted |-> clock, compared |-> None]
    <2>1. clock' = clock /\ boots' = boots /\ inbox' = inbox
      BY <1>3 DEF VerifyCode, process
    <2>2. \/ UNCHANGED <<hits, post>>
          \/ /\ Counted({caller}) /\ ~Allows(caller) /\ post' = post
          \/ /\ Counted({caller}) /\ Allows(caller)
             /\ \E p \in Posts : post[p] = None /\ post' = [post EXCEPT ![p] = request]
      BY <1>3 DEF VerifyCode
    <2>3. ASSUME UNCHANGED <<clock, boots, hits, inbox, post>> PROVE LimitInv'
      <3>1. SomeOf(post', post) /\ AnswersAreTimely'
        BY <1>a, <2>3 DEF SomeOf, AnswersAreTimely
      <3> QED
        BY <1>1, <2>3, <3>1
    <2>4. ASSUME Counted({caller}), ~Allows(caller), post' = post PROVE LimitInv'
      <3>1. hits' = hits
        BY <1>a, <2>4 DEF Counted, CountersOK
      <3> QED
        BY <2>1, <2>3, <2>4, <3>1
    <2>5. ASSUME Counted({caller}), Allows(caller),
                 NEW p \in Posts, post[p] = None, post' = [post EXCEPT ![p] = request]
          PROVE  LimitInv'
      <3>1. /\ \A other \in Posts : other # p => post'[other] = post[other]
            /\ post'[p].from = from /\ post'[p].counted = clock /\ ~Answered(post'[p])
        BY <1>a, <2>5 DEF TypesOK, Answered
      <3>2. /\ hits' \in [Limits -> Seq(Nat)]
            /\ \A key \in Limits : Cardinality(InWindow(hits'[key], clock)) <= LimitOf[key[1]]
            /\ \A key \in Limits, now \in Nat : clock <= now =>
                 Cardinality(InWindow(hits'[key], now)) =
                   IF key \in {caller} /\ Allows(key) /\ clock > now - Window
                   THEN Cardinality(InWindow(hits[key], now)) + 1
                   ELSE Cardinality(InWindow(hits[key], now))
        BY <1>a, <2>5, CountedFits
      <3>3. CountersOK' /\ HitsAreBounded'
        BY <2>1, <3>2 DEF CountersOK, HitsAreBounded
      <3>4. \A a \in Addresses, now \in Nat : clock <= now =>
              Cardinality(Since(post', a, now)) <= Cardinality(InWindow(hits'[<<"codesByAddress", a>>], now))
        <4> SUFFICES ASSUME NEW a \in Addresses, NEW now \in Nat, clock <= now
                     PROVE  Cardinality(Since(post', a, now))
                              <= Cardinality(InWindow(hits'[<<"codesByAddress", a>>], now))
          OBVIOUS
        <4> DEFINE key == <<"codesByAddress", a>>
        <4>1. key \in Limits /\ Cardinality(Since(post, a, now)) <= Cardinality(InWindow(hits[key], now))
          BY <1>a, KeysAreLimits DEF RequestsAreCounted
        <4>2. /\ Cardinality(Since(post, a, now)) \in Nat /\ Cardinality(InWindow(hits[key], now)) \in Nat
              /\ Cardinality(Since(post', a, now)) \in Nat
          BY <1>c, <4>1, RequestsAreFinite
        <4>3. key = caller <=> a = from
          OBVIOUS
        <4>4. Cardinality(InWindow(hits'[key], now)) =
                IF key = caller /\ Allows(key) /\ clock > now - Window
                THEN Cardinality(InWindow(hits[key], now)) + 1
                ELSE Cardinality(InWindow(hits[key], now))
          BY <3>2, <4>1
        <4>5. /\ Cardinality(Since(post', a, now)) <= Cardinality(Since(post, a, now)) + 1
              /\ ~(from = a /\ clock > now - Window)
                    => Cardinality(Since(post', a, now)) <= Cardinality(Since(post, a, now))
          BY <3>1, OneMoreRequest
        <4> HIDE DEF key, caller
        <4>6. CASE from = a /\ clock > now - Window
          <5>1. key = caller /\ Allows(key)
            BY <2>5, <4>3, <4>6
          <5>2. Cardinality(Since(post', a, now)) <= Cardinality(InWindow(hits'[key], now))
            BY <4>1, <4>2, <4>4, <4>5, <4>6, <5>1
          <5> QED
            BY <5>2 DEF key
        <4>7. CASE ~(from = a /\ clock > now - Window)
          <5>1. Cardinality(InWindow(hits'[key], now)) = Cardinality(InWindow(hits[key], now))
            BY <4>3, <4>4, <4>7
          <5>2. Cardinality(Since(post', a, now)) <= Cardinality(InWindow(hits'[key], now))
            BY <4>1, <4>2, <4>5, <4>7, <5>1
          <5> QED
            BY <5>2 DEF key
        <4> QED
          BY <4>6, <4>7
      <3>5. RequestsAreCounted'
        BY <2>1, <3>4 DEF RequestsAreCounted
      <3>6. WindowsAreKept'
        <4> SUFFICES ASSUME NEW a \in Addresses, NEW t \in Int, t <= clock
                     PROVE  Cardinality(Ending(post', a, t)) <= LimitOf["codesByAddress"]
          BY <2>1 DEF WindowsAreKept
        <4>1. LimitOf["codesByAddress"] \in Nat /\ <<"codesByAddress", a>> \in Limits
          BY KeysAreLimits, SignInConstants
        <4>2. CASE t = clock
          <5>1. /\ Cardinality(Since(post', a, clock))
                     <= Cardinality(InWindow(hits'[<<"codesByAddress", a>>], clock))
                /\ Cardinality(InWindow(hits'[<<"codesByAddress", a>>], clock)) <= LimitOf["codesByAddress"]
                /\ hits'[<<"codesByAddress", a>>] \in Seq(Nat)
            BY <1>a, <3>2, <3>4, <4>1
          <5> QED
            BY <1>a, <4>1, <4>2, <5>1, NewestWindow
        <4>3. CASE t # clock
          <5>1. ~(post'[p].from = a /\ post'[p].counted <= t)
            BY <1>a, <3>1, <4>3
          <5>2. Cardinality(Ending(post', a, t)) <= Cardinality(Ending(post, a, t))
            BY <3>1, <5>1, OneMoreRequest
          <5>3. Cardinality(Ending(post, a, t)) <= LimitOf["codesByAddress"]
            BY <1>a DEF WindowsAreKept
          <5> QED
            BY <4>1, <5>2, <5>3, RequestsAreFinite
        <4> QED
          BY <4>2, <4>3
      <3>7. AnswersAreTimely'
        BY <1>a, <2>1, <3>1 DEF AnswersAreTimely
      <3>8. MailIsCounted'
        <4> SUFFICES ASSUME NEW e \in Emails, NEW now \in Nat, clock <= now
                     PROVE  Cardinality(MailedLately(e, now)')
                              <= Cardinality(InWindow(hits'[<<"byEmail", e>>], now))
          BY <2>1 DEF MailIsCounted
        <4> DEFINE key == <<"byEmail", e>>
        <4>1. key \in Limits /\ Cardinality(MailedLately(e, now)) <= Cardinality(InWindow(hits[key], now))
          BY <1>a, KeysAreLimits DEF MailIsCounted
        <4>2. key # caller
          OBVIOUS
        <4>3. Cardinality(InWindow(hits'[key], now)) = Cardinality(InWindow(hits[key], now))
          BY <3>2, <4>1, <4>2
        <4>4. MailedLately(e, now)' = MailedLately(e, now)
          BY <2>1 DEF MailedLately
        <4> QED
          BY <4>1, <4>3, <4>4
      <3>9. MailIsOfALife'
        BY <1>a, <2>1 DEF MailIsOfALife
      <3> QED
        BY <3>3, <3>5, <3>6, <3>7, <3>8, <3>9 DEF LimitInv
    <2> QED
      BY <2>1, <2>2, <2>3, <2>4, <2>5
  <1>4. ASSUME Restart PROVE LimitInv'
    <2>1. /\ clock' = clock /\ boots' = boots + 1 /\ inbox' = inbox
          /\ hits' = [key \in Limits |-> <<>>] /\ post' = [p \in Posts |-> None]
      BY <1>4 DEF Restart
    <2>2. \A now : Cardinality(InWindow(<<>>, now)) = 0
      <3>1. \A now : InWindow(<<>>, now) = {}
        BY DEF InWindow
      <3> QED
        BY <3>1, FS_EmptySet
    <2>3. MailIsOfALife'
      <3> SUFFICES ASSUME NEW e \in Emails, NEW i \in DOMAIN inbox[e]
                   PROVE  inbox[e][i].life <= boots + 1
        BY <2>1 DEF MailIsOfALife
      <3>1. inbox[e] \in Seq(Links) /\ inbox[e][i].life <= boots
        BY <1>a DEF TypesOK, MailIsOfALife
      <3>2. inbox[e][i] \in Links
        BY <3>1
      <3>3. inbox[e][i].life \in Nat
        BY <3>2 DEF Links
      <3> QED
        BY <1>a, <3>1, <3>3
    <2>4. ASSUME NEW e \in Emails, NEW now \in Nat
          PROVE  Cardinality(MailedLately(e, now)') = 0
      <3>1. inbox[e] \in Seq(Links) /\ \A i \in DOMAIN inbox[e] : inbox[e][i].life <= boots
        BY <1>a DEF TypesOK, MailIsOfALife
      <3>2. \A i \in DOMAIN inbox[e] : inbox[e][i].life # boots + 1
        BY <1>a, <3>1
      <3>3. MailedLately(e, now)' = {}
        BY <2>1, <3>2 DEF MailedLately
      <3> QED
        BY <3>3, FS_EmptySet
    <2>5. \A key \in Limits, now \in Nat : Cardinality(InWindow(hits'[key], now)) = 0
      BY <2>1, <2>2
    <2>6. \A a \in Addresses, t \in Int :
            Cardinality(Since(post', a, t)) = 0 /\ Cardinality(Ending(post', a, t)) = 0
      <3>1. \A p \in Posts : post'[p] = None
        BY <2>1
      <3>2. \A a \in Addresses, t \in Int : Since(post', a, t) = {} /\ Ending(post', a, t) = {}
        BY <3>1 DEF Since, Ending
      <3> QED
        BY <3>2, FS_EmptySet
    <2>7. CountersOK'
      BY <2>1 DEF CountersOK
    <2>8. HitsAreBounded'
      <3>1. clock' \in Nat /\ \A key \in Limits : 0 <= LimitOf[key[1]]
        BY <1>a, <2>1, KeysAreLimits
      <3> QED
        BY <2>5, <3>1 DEF HitsAreBounded
    <2>9. RequestsAreCounted' /\ WindowsAreKept' /\ MailIsCounted'
      <3>1. LimitOf["codesByAddress"] \in Nat
        BY SignInConstants
      <3> QED
        BY <2>4, <2>5, <2>6, <3>1, KeysAreLimits DEF RequestsAreCounted, WindowsAreKept, MailIsCounted
    <2>10. AnswersAreTimely'
      BY <2>1 DEF AnswersAreTimely
    <2> QED
      BY <2>3, <2>7, <2>8, <2>9, <2>10 DEF LimitInv
  <1>5. ASSUME Tick PROVE LimitInv'
    <2>1. /\ clock' = clock + 1 /\ boots' = boots /\ inbox' = inbox
          /\ hits' = [key \in Limits |-> Recent(hits[key], clock')]
          /\ \A p \in Posts : post'[p] = None \/ post'[p] = post[p]
      BY <1>5 DEF Tick, process
    <2>2. clock' \in Nat /\ clock <= clock'
      BY <1>a, <2>1
    <2>3. ASSUME NEW key \in Limits
          PROVE  /\ hits'[key] \in Seq(Nat)
                 /\ \A now \in Nat : clock' <= now =>
                      Cardinality(InWindow(hits'[key], now)) = Cardinality(InWindow(hits[key], now))
      <3>1. hits'[key] = Recent(hits[key], clock')
        BY <2>1
      <3> QED
        BY <1>b, <2>2, <3>1, RecentFits
    <2>4. SomeOf(post', post)
      BY <2>1 DEF SomeOf
    <2>5. CountersOK'
      BY <2>1, <2>3 DEF CountersOK
    <2>6. HitsAreBounded'
      <3> SUFFICES ASSUME NEW key \in Limits
                   PROVE  Cardinality(InWindow(hits'[key], clock')) <= LimitOf[key[1]]
        BY DEF HitsAreBounded
      <3>1. Cardinality(InWindow(hits'[key], clock')) = Cardinality(InWindow(hits[key], clock'))
        BY <2>2, <2>3
      <3>2. Cardinality(InWindow(hits[key], clock')) <= Cardinality(InWindow(hits[key], clock))
        BY <1>a, <1>b, <2>2, FewerLater
      <3>3. /\ Cardinality(InWindow(hits[key], clock')) \in Nat
            /\ Cardinality(InWindow(hits[key], clock)) \in Nat
            /\ Cardinality(InWindow(hits[key], clock)) <= LimitOf[key[1]]
            /\ LimitOf[key[1]] \in Nat
        BY <1>a, <1>c, <2>2, KeysAreLimits DEF HitsAreBounded
      <3> QED
        BY <3>1, <3>2, <3>3
    <2>7. \A a \in Addresses, now \in Nat : clock' <= now =>
            Cardinality(Since(post', a, now)) <= Cardinality(InWindow(hits'[<<"codesByAddress", a>>], now))
      <3> SUFFICES ASSUME NEW a \in Addresses, NEW now \in Nat, clock' <= now
                   PROVE  Cardinality(Since(post', a, now))
                            <= Cardinality(InWindow(hits'[<<"codesByAddress", a>>], now))
        OBVIOUS
      <3> DEFINE key == <<"codesByAddress", a>>
      <3>1. clock <= now /\ key \in Limits
        BY <1>a, <2>2, KeysAreLimits
      <3>2. Cardinality(Since(post, a, now)) <= Cardinality(InWindow(hits[key], now))
        BY <1>a, <3>1 DEF RequestsAreCounted
      <3>3. Cardinality(Since(post', a, now)) <= Cardinality(Since(post, a, now))
        BY <2>4, FewerRequests
      <3>4. /\ Cardinality(Since(post', a, now)) \in Nat /\ Cardinality(Since(post, a, now)) \in Nat
            /\ Cardinality(InWindow(hits[key], now)) \in Nat
        BY <1>c, <3>1, RequestsAreFinite
      <3>5. Cardinality(InWindow(hits'[key], now)) = Cardinality(InWindow(hits[key], now))
        BY <2>3, <3>1
      <3> HIDE DEF key
      <3>6. Cardinality(Since(post', a, now)) <= Cardinality(InWindow(hits'[key], now))
        BY <3>2, <3>3, <3>4, <3>5
      <3> QED
        BY <3>6 DEF key
    <2>10. RequestsAreCounted'
      BY <2>7 DEF RequestsAreCounted
    <2>11. WindowsAreKept'
      <3> SUFFICES ASSUME NEW a \in Addresses, NEW t \in Int, t <= clock'
                   PROVE  Cardinality(Ending(post', a, t)) <= LimitOf["codesByAddress"]
        BY DEF WindowsAreKept
      <3>1. CASE t <= clock
        BY <1>a, <2>4, <3>1, FewerKeep
      <3>2. CASE ~(t <= clock)
        <4>1. t = clock' /\ t \in Nat
          BY <1>a, <2>1, <3>2
        <4>2. LimitOf["codesByAddress"] \in Nat /\ <<"codesByAddress", a>> \in Limits
          BY KeysAreLimits, SignInConstants
        <4>3. /\ Cardinality(Since(post', a, t))
                   <= Cardinality(InWindow(hits'[<<"codesByAddress", a>>], t))
              /\ Cardinality(InWindow(hits'[<<"codesByAddress", a>>], t)) <= LimitOf["codesByAddress"]
              /\ hits'[<<"codesByAddress", a>>] \in Seq(Nat)
          BY <2>3, <2>6, <2>7, <4>1, <4>2 DEF HitsAreBounded
        <4> QED
          BY <4>1, <4>2, <4>3, NewestWindow
      <3> QED
        BY <3>1, <3>2
    <2>12. AnswersAreTimely'
      <3> SUFFICES ASSUME NEW p \in Posts, post'[p] # None
                   PROVE  /\ post'[p].counted <= clock'
                          /\ Answered(post'[p]) => post'[p].compared <= post'[p].counted + BodyWait
        BY DEF AnswersAreTimely, Answered
      <3>1. post'[p] = post[p]
        BY <2>1
      <3>2. post[p].counted \in Nat /\ post[p].counted <= clock
        BY <1>a, <3>1 DEF TypesOK, Requests, AnswersAreTimely
      <3>3. Answered(post[p]) => post[p].compared <= post[p].counted + BodyWait
        BY <1>a, <3>1 DEF AnswersAreTimely
      <3> QED
        BY <1>a, <2>2, <3>1, <3>2, <3>3
    <2>8. MailIsCounted'
      <3> SUFFICES ASSUME NEW e \in Emails, NEW now \in Nat, clock' <= now
                   PROVE  Cardinality(MailedLately(e, now)')
                            <= Cardinality(InWindow(hits'[<<"byEmail", e>>], now))
        BY DEF MailIsCounted
      <3>1. clock <= now /\ <<"byEmail", e>> \in Limits
        BY <1>a, <2>2, KeysAreLimits
      <3>2. Cardinality(MailedLately(e, now)) <= Cardinality(InWindow(hits[<<"byEmail", e>>], now))
        BY <1>a, <3>1 DEF MailIsCounted
      <3>3. MailedLately(e, now)' = MailedLately(e, now)
        BY <2>1 DEF MailedLately
      <3> QED
        BY <2>3, <3>1, <3>2, <3>3
    <2>9. MailIsOfALife'
      BY <1>a, <2>1 DEF MailIsOfALife
    <2> QED
      BY <2>5, <2>6, <2>8, <2>9, <2>10, <2>11, <2>12 DEF LimitInv
  <1>6. ASSUME NEW p \in Posts, NEW code, CheckCode(p, code) PROVE LimitInv'
    <2>1. /\ UNCHANGED <<clock, boots, hits, inbox>> /\ InHand(post[p])
          /\ post' = [post EXCEPT ![p].compared = clock]
      BY <1>6 DEF CheckCode, process
    <2>2. post[p] # None /\ post[p] \in Requests /\ RequestIsEarned(post[p])
      BY <1>a, <2>1 DEF InHand, TypesOK, SignInInv, RequestsAreEarned
    <2>3. post' = [post EXCEPT ![p] = [post[p] EXCEPT !.compared = clock]]
      BY <2>1
    <2>4. /\ \A q \in Posts : q # p => post'[q] = post[q]
          /\ post'[p].from = post[p].from /\ post'[p].counted = post[p].counted
          /\ post'[p].compared = clock
      BY <1>a, <2>2, <2>3 DEF TypesOK, Requests
    <2>5. SomeOf(post', post)
      BY <2>2, <2>4 DEF SomeOf
    <2>6. AnswersAreTimely'
      <3> SUFFICES ASSUME NEW q \in Posts, post'[q] # None
                   PROVE  /\ post'[q].counted <= clock
                          /\ Answered(post'[q]) => post'[q].compared <= post'[q].counted + BodyWait
        BY <2>1 DEF AnswersAreTimely, Answered
      <3>1. CASE q = p
        BY <2>2, <2>4, <3>1 DEF RequestIsEarned
      <3>2. CASE q # p
        BY <1>a, <2>4, <3>2 DEF AnswersAreTimely
      <3> QED
        BY <3>1, <3>2
    <2> QED
      BY <1>1, <2>1, <2>5, <2>6
  <1>7. ASSUME UNCHANGED <<clock, boots, hits, inbox, post>> PROVE LimitInv'
    <2>1. SomeOf(post', post) /\ AnswersAreTimely'
      BY <1>a, <1>7 DEF SomeOf, AnswersAreTimely
    <2> QED
      BY <1>1, <1>7, <2>1
  <1>8. \A b \in Browsers :
          (\E email \in Emails : CompleteSignIn(b, email)) \/ Logout(b) \/ Arrive(b) \/ Visit(b)
            => UNCHANGED <<clock, boots, hits, inbox, post>>
    BY DEF CompleteSignIn, Logout, Arrive, Visit, process
  <1>9. EnrollLink \/ Enroll \/ ReadCode \/ UNCHANGED vars
            => UNCHANGED <<clock, boots, hits, inbox, post>>
    BY DEF EnrollLink, Enroll, ReadCode, vars, process
  <1> QED
    BY <1>2, <1>3, <1>4, <1>5, <1>6, <1>7, <1>8, <1>9 DEF Next

\* For any limits, windows and callers, and whatever addresses they state: in no window
\* are more links mailed to one address, or more codes counted for one stated address, than
\* the limit, or more compared than twice the limit, unless the process was restarted in it
\* (rate-limit.ts allow; auth route requestLink, verifyCode).
THEOREM AttemptsAreLimited == Spec => []TriesAreBounded
  <1>1. ASSUME SignInInv, LimitInv PROVE TriesAreBounded
    <2>0. /\ TypesOK /\ clock \in Nat /\ CountersOK /\ HitsAreBounded /\ MailIsCounted
          /\ RequestsAreCounted /\ WindowsAreKept /\ AnswersAreTimely
      BY <1>1 DEF SignInInv, TypesOK, LimitInv
    <2>1. ASSUME NEW a \in Addresses
          PROVE  /\ Cardinality({p \in Posts : /\ post[p] # None /\ post[p].from = a
                                               /\ post[p].counted > clock - Window})
                       <= LimitOf["codesByAddress"]
                 /\ Cardinality({p \in Posts : /\ Answered(post[p]) /\ post[p].from = a
                                               /\ post[p].compared > clock - Window})
                       <= 2 * LimitOf["codesByAddress"]
      <3> DEFINE key   == <<"codesByAddress", a>>
                 limit == LimitOf["codesByAddress"]
                 late  == {p \in Posts : /\ Answered(post[p]) /\ post[p].from = a
                                         /\ post[p].compared > clock - Window}
                 now   == Ending(post, a, clock)
                 then  == Ending(post, a, clock - Window)
      <3>1. key \in Limits /\ limit \in Nat /\ Window \in Nat /\ BodyWait \in Nat /\ BodyWait <= Window
        BY KeysAreLimits, SignInConstants
      <3>2. Cardinality(Since(post, a, clock)) <= limit
        <4>1. /\ Cardinality(Since(post, a, clock)) <= Cardinality(InWindow(hits[key], clock))
              /\ Cardinality(InWindow(hits[key], clock)) <= limit /\ hits[key] \in Seq(Nat)
          BY <2>0, <3>1 DEF RequestsAreCounted, HitsAreBounded, CountersOK
        <4> QED
          BY <2>0, <3>1, <4>1, NewestWindow
      <3>3. late \subseteq now \cup then
        <4> SUFFICES ASSUME NEW p \in late PROVE p \in now \cup then
          OBVIOUS
        <4>1. /\ p \in Posts /\ post[p] # None /\ post[p].compared # None /\ post[p].from = a
              /\ post[p].compared > clock - Window
          BY DEF Answered
        <4>2. post[p] \in Requests
          BY <2>0, <4>1 DEF TypesOK
        <4>3. /\ post[p].counted \in Nat /\ post[p].compared \in Nat /\ post[p].counted <= clock
              /\ post[p].compared <= post[p].counted + BodyWait
          BY <2>0, <4>1, <4>2 DEF Requests, AnswersAreTimely, Answered
        <4>4. \/ post[p].counted > clock - Window
              \/ post[p].counted <= clock - Window /\ post[p].counted > clock - Window - Window
          BY <2>0, <3>1, <4>1, <4>3
        <4> QED
          BY <4>1, <4>3, <4>4 DEF Ending, Since
      <3>4. Cardinality(now) <= limit /\ Cardinality(then) <= limit
        <4>1. clock - Window \in Int /\ clock \in Int /\ clock - Window <= clock /\ clock <= clock
          BY <2>0, <3>1
        <4> QED
          BY <2>0, <4>1 DEF WindowsAreKept
      <3>5. /\ IsFiniteSet(now) /\ IsFiniteSet(then) /\ Cardinality(now) \in Nat
            /\ Cardinality(then) \in Nat
        BY RequestsAreFinite
      <3> HIDE DEF late, now, then, limit
      <3>6. /\ IsFiniteSet(now \cup then)
            /\ Cardinality(now \cup then) = Cardinality(now) + Cardinality(then) - Cardinality(now \cap then)
        BY <3>5, FS_Union
      <3>7. Cardinality(now \cap then) \in Nat
        BY <3>5, FS_Intersection, FS_CardinalityType
      <3>8. /\ Cardinality(late) <= Cardinality(now \cup then)
            /\ Cardinality(late) \in Nat
        BY <3>3, <3>6, FS_Subset, FS_CardinalityType
      <3>9. Cardinality(late) <= 2 * limit
        BY <3>1, <3>4, <3>5, <3>6, <3>7, <3>8
      <3> QED
        BY <3>2, <3>9 DEF late, limit, Since
    <2>2. ASSUME NEW e \in Emails
          PROVE  Cardinality({i \in DOMAIN inbox[e] :
                        inbox[e][i].life = boots /\ inbox[e][i].iat > clock - Window})
                   <= LimitOf["byEmail"]
      <3> DEFINE key == <<"byEmail", e>>
      <3>1. key \in Limits /\ LimitOf["byEmail"] \in Nat
        BY KeysAreLimits, SignInConstants
      <3>2. hits[key] \in Seq(Nat)
        BY <2>0, <3>1 DEF CountersOK
      <3>3. Cardinality(MailedLately(e, clock)) <= Cardinality(InWindow(hits[key], clock))
        BY <2>0 DEF MailIsCounted
      <3>4. Cardinality(InWindow(hits[key], clock)) <= LimitOf["byEmail"]
        BY <2>0, <3>1 DEF HitsAreBounded
      <3>5. Cardinality(MailedLately(e, clock)) \in Nat /\ Cardinality(InWindow(hits[key], clock)) \in Nat
        BY <2>0, <3>2, AppendCounts, MailIsFinite
      <3>6. Cardinality(MailedLately(e, clock)) <= LimitOf["byEmail"]
        BY <3>1, <3>3, <3>4, <3>5
      <3> QED
        BY <3>6 DEF MailedLately
    <2> QED
      BY <2>1, <2>2 DEF TriesAreBounded
  <1>2. Spec => [](SignInInv /\ LimitInv)
    <2>1. Init => SignInInv /\ LimitInv
      BY SignInInit, LimitInit
    <2>2. SignInInv /\ LimitInv /\ [Next]_vars => (SignInInv /\ LimitInv)'
      BY SignInStep, LimitStep
    <2> QED
      BY <2>1, <2>2, PTL DEF Spec
  <1> QED
    BY <1>1, <1>2, PTL
===============================================================================
