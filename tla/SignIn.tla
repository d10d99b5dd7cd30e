-------------------------------- MODULE SignIn --------------------------------
(* Signing in: a link by mail, then a code from the authenticator, then a    *)
(* session, all three signed values that only their own dates can end; and   *)
(* the process that answers, which keeps nothing but the counts of its rate  *)
(* limiters and reads who may sign in from its deployment                    *)
(*   - app/api/auth/[...route]/route.ts, lib/auth, lib/http/rate-limit.ts,   *)
(*     lib/http/guard.ts;                                                    *)
(*   - the pages app/login, app/login/code and app/login/enroll;             *)
(*   - starting: lib/config/env.ts, lib/config/startup.ts,                   *)
(*     instrumentation-node.ts.                                              *)
(*                                                                           *)
(* A signature is never forged: a value carries the key it was signed with;  *)
(* the address a request comes from can be, and is what the caller says.     *)
(* The server works on the cookies a browser sent and answers with others;   *)
(* answers to one browser may overtake each other, and the body of a request *)
(* may come long after its head.                                             *)
EXTENDS Integers, Sequences, FiniteSets

CONSTANTS
    Spellings,      \* of mail addresses, as people write them
    Plain,          \* the address a spelling stands for; None where it is none
    Asked,          \* the spellings people ask links for
    Browsers,
    Addresses,      \* callers' addresses, as they state them
    Deployments,    \* the settings an operator deploys
    UsableSeeds,    \* the TOTP secrets an authenticator can make codes of
    None,
    LinkTTL, PendingTTL, SessionTTL, EnrollTTL,     \* in ticks of the clock
    Second,         \* ticks of a second: cookies expire on whole seconds
    CodeStep, Drift,        \* how long a code is shown, how far a clock may be off
    Offsets,                \* how far the clocks of authenticators are off
    BodyWait,               \* how long the server waits for the body of a request
    Window, LimitOf,        \* of the rate limiters
    Posts,                  \* names of the requests that bring a code
    MaxClock, MaxLinks, MaxReads, MaxBoots, MaxWire     \* bounds

ASSUME SignInConstants ==
    /\ Asked \subseteq Spellings /\ Spellings = DOMAIN Plain
    /\ \A s \in Asked : Plain[s] # None
    /\ 1 \in DOMAIN Deployments /\ None \notin UsableSeeds
    /\ {LinkTTL, PendingTTL, SessionTTL, EnrollTTL, Drift, Window, BodyWait} \subseteq Nat
    /\ BodyWait <= Window /\ Offsets \subseteq Int /\ IsFiniteSet(Posts)
    /\ {Second, CodeStep} \subseteq Nat \ {0}
    /\ LimitOf \in [{"byEmail", "byAddress", "codesByAddress"} -> Nat \ {0}]

VARIABLES
    clock,
    deployed,   \* which of Deployments the container was last created with
    up,         \* whether the process answers
    boots,      \* how often it has been started
    hits,       \* its rate limiters: the times of the attempts they let through
    inbox,      \* the links in each mailbox
    jar,        \* each browser's cookies
    page,       \* the page each browser shows
    wire,       \* answers on their way to a browser
    enrolment,  \* the link that shows the installation's secret, if minted
    seed,       \* the secret in people's authenticators
    read,       \* the codes people have read off them
    post        \* requests that bring a code: counted, then compared once the body is in

process == <<deployed, up, boots>>
people == <<enrolment, seed, read>>
vars == <<clock, process, hits, inbox, jar, page, wire, people, post>>

Emails == {Plain[s] : s \in Asked}
Limits == ({"byEmail"} \X Emails) \cup ({"byAddress", "codesByAddress"} \X Addresses)
NoCookies == [pending |-> None, session |-> None]

------------------------------------------------------------------------------
\* The settings a process was started with

NormaliseAllowedEmails(listed) == {Plain[s] : s \in listed}

\* Every fault is found, not only the first: an empty or implausible list, a secret
\* too short to sign with, no seed.
FaultsOf(settings) ==
    {f \in {"ALLOWED_EMAILS", "SESSION_SECRET", "TOTP_SECRET"} :
        \/ f = "ALLOWED_EMAILS" /\ (settings.listed = {} \/ \E s \in settings.listed : Plain[s] = None)
        \/ f = "SESSION_SECRET" /\ settings.secret = None
        \/ f = "TOTP_SECRET" /\ settings.seed = None}

\* Read once per process.
Env == LET settings == Deployments[deployed]
       IN  [allowed |-> NormaliseAllowedEmails(settings.listed),
            secret |-> settings.secret, seed |-> settings.seed]

IsUsableTotpSecret(secret) == secret \in UsableSeeds

------------------------------------------------------------------------------
\* Rate limits

\* The attempts still in the window; refused ones were not recorded.
Recent(times, now) ==
    LET upTo[i \in 0 .. Len(times)] ==
            IF i = 0 THEN <<>>
            ELSE IF times[i] > now - Window THEN Append(upTo[i - 1], times[i]) ELSE upTo[i - 1]
    IN  upTo[Len(times)]

\* A bug Allows could have: one too many.
Allows_OneMore(key) == Len(Recent(hits[key], clock)) <= LimitOf[key[1]]
Allows(key) == Len(Recent(hits[key], clock)) < LimitOf[key[1]]

Counted(keys) ==
    hits' = [key \in Limits |->
                IF key \in keys /\ Allows(key)
                THEN Append(Recent(hits[key], clock), clock) ELSE hits[key]]

------------------------------------------------------------------------------
\* The signed values: a key of its own for each purpose, out of the one secret

LinkKey == <<Env.secret, "magic-link">>
PendingKey == <<Env.secret, "pending-session">>
SessionKey == <<Env.secret, "session">>
EnrollKey == <<Env.secret, "totp-enroll">>

Seconds(t) == t \div Second

IssueMagicLinkToken == [key |-> LinkKey, iat |-> clock, life |-> boots]
VerifyMagicLinkToken(link) ==
    link.key = LinkKey /\ clock >= link.iat /\ clock - link.iat <= LinkTTL

IssuePending(email) ==
    [key |-> PendingKey, email |-> email, expiresAt |-> Seconds(clock + PendingTTL)]

\* A bug VerifyPending could have: the cookie's own age is left to the browser.
VerifyPending_Ageless(cookie) == cookie # None /\ cookie.key = PendingKey
VerifyPending(cookie) ==
    /\ cookie # None /\ cookie.key = PendingKey
    /\ cookie.expiresAt * Second > clock

IssueSession(email) ==
    [key |-> SessionKey, email |-> email, expiresAt |-> Seconds(clock + SessionTTL)]
InspectSession(cookie) ==
    IF cookie = None \/ cookie.key # SessionKey THEN "invalid"
    ELSE IF cookie.expiresAt * Second <= clock THEN "expired" ELSE "ok"

\* Asked on every call; the addresses are the deployment's as it is now.
AuthorizeSession(cookie) ==
    IF InspectSession(cookie) # "ok" THEN InspectSession(cookie)
    ELSE IF cookie.email \in Env.allowed THEN "ok" ELSE "not_permitted"

RequireClient(b) == up /\ AuthorizeSession(jar[b].session) = "ok"

\* An authenticator shows one code at a time; the server takes those its seed showed
\* at any moment within the drift, as often as they are entered.
CodeAt(t) == t \div CodeStep
WrongCode == None
VerifyTotpCode(code) ==
    /\ code # WrongCode /\ IsUsableTotpSecret(Env.seed) /\ code.seed = Env.seed
    /\ code.step \in CodeAt(IF clock < Drift THEN 0 ELSE clock - Drift) .. CodeAt(clock + Drift)

IssueEnrollToken == [key |-> EnrollKey, iat |-> clock]
VerifyEnrollToken(link) ==
    /\ link # None /\ link.key = EnrollKey
    /\ clock >= link.iat /\ clock - link.iat <= EnrollTTL

------------------------------------------------------------------------------
\* The routes

\* What an answer does to the browser it reaches: the cookies it sets, None if it leaves
\* them as they are, and the page that follows.
Answer(cookies, then) == [cookies |-> cookies, then |-> then]
Refusal(then) == Answer(None, then)
Answers(b, answer) ==
    /\ Cardinality(wire[b]) < MaxWire
    /\ wire' = [wire EXCEPT ![b] = @ \cup {answer}]

\* POST request: both limits are asked and both count, whatever either says, the one
\* of the mailbox however the address was spelled.  The answer is the same for
\* everybody; a link is mailed to a permitted address, or the mail server refuses it.
RequestLink(b, from, spelling) ==
    /\ up /\ page[b] = "login"
    /\ LET email == Plain[spelling]
           caller == <<"byAddress", from>>
           mailbox == <<"byEmail", email>>
       IN  /\ Counted({caller, mailbox})
           /\ \/ /\ Allows(caller) /\ Allows(mailbox) /\ email \in Env.allowed
                 /\ Len(inbox[email]) < MaxLinks
                 /\ inbox' = [inbox EXCEPT ![email] =
                                 Append(@, IssueMagicLinkToken)]
              \/ UNCHANGED inbox
    /\ page' = [page EXCEPT ![b] = "sent"]
    /\ UNCHANGED <<clock, process, jar, wire, people, post>>

\* GET callback: half a sign-in, and the end of any session the browser had.
CompleteSignIn(b, email) ==
    /\ up
    /\ \E i \in DOMAIN inbox[email] :
        Answers(b, IF VerifyMagicLinkToken(inbox[email][i])
                   THEN Answer([pending |-> IssuePending(email), session |-> None], "code")
                   ELSE Refusal("login"))
    /\ UNCHANGED <<clock, process, hits, inbox, jar, page, people, post>>

\* A request that brings a code is in hand until the code has been compared.
InHand(request) == request # None /\ request.compared = None
Answered(request) == request # None /\ request.compared # None

\* POST code, as far as its head goes: the cookie is looked at, and the attempt counts,
\* before the code is asked for.
VerifyCode(b, from) ==
    /\ up /\ page[b] = "code"
    /\ LET pending == jar[b].pending
           caller == <<"codesByAddress", from>>
       IN  IF ~VerifyPending(pending)
           THEN Answers(b, Refusal("login")) /\ UNCHANGED <<hits, post>>
           ELSE /\ Counted({caller})
                /\ IF Allows(caller)
                   THEN /\ \E p \in Posts :
                            /\ post[p] = None
                            /\ post' = [post EXCEPT ![p] =
                                    [by |-> b, email |-> pending.email, from |-> from,
                                     counted |-> clock, compared |-> None]]
                        /\ UNCHANGED wire
                   ELSE Answers(b, Refusal("code")) /\ UNCHANGED post
    /\ UNCHANGED <<clock, process, inbox, jar, page, people>>

\* ... and once its body is in.  A code may be one that somebody read, at any time, or a
\* wrong one, or no code at all.
CheckCode(p, code) ==
    /\ InHand(post[p])
    /\ post' = [post EXCEPT ![p].compared = clock]
    /\ Answers(post[p].by,
               IF VerifyTotpCode(code)
               THEN Answer([pending |-> None, session |-> IssueSession(post[p].email)], "home")
               ELSE Refusal("code"))
    /\ UNCHANGED <<clock, process, hits, inbox, jar, page, people>>

\* POST logout, which asks for no session.
Logout(b) ==
    /\ up /\ page[b] = "home"
    /\ Answers(b, Answer(NoCookies, "login"))
    /\ UNCHANGED <<clock, process, hits, inbox, jar, page, people, post>>

------------------------------------------------------------------------------
\* The browser

\* An answer arrives; with two on their way, in either order.
Arrive(b) ==
    /\ \E answer \in wire[b] :
        /\ wire' = [wire EXCEPT ![b] = @ \ {answer}]
        /\ jar' = [jar EXCEPT ![b] = IF answer.cookies = None THEN @ ELSE answer.cookies]
        /\ page' = [page EXCEPT ![b] = answer.then]
    /\ UNCHANGED <<clock, process, hits, inbox, people, post>>

\* A page of the client's is asked for: it is shown, or the sign-in page is.
Visit(b) ==
    /\ up
    /\ page' = [page EXCEPT ![b] = IF RequireClient(b) THEN "home" ELSE "login"]
    /\ page' # page
    /\ UNCHANGED <<clock, process, hits, inbox, jar, wire, people, post>>

\* The operator mints the one link that shows the secret.
EnrollLink ==
    /\ enrolment = None
    /\ enrolment' = IssueEnrollToken
    /\ UNCHANGED <<clock, process, hits, inbox, jar, page, wire, seed, read, post>>

\* The page behind it shows the secret; an authenticator takes it.
Enroll ==
    /\ up /\ VerifyEnrollToken(enrolment) /\ seed # Env.seed
    /\ seed' = Env.seed
    /\ UNCHANGED <<clock, process, hits, inbox, jar, page, wire, enrolment, read, post>>

\* Somebody reads a code; the clock of an authenticator is its own.
ReadCode ==
    /\ seed # None /\ Cardinality(read) < MaxReads
    /\ \E off \in Offsets :
        /\ clock + off >= 0
        /\ read' = read \cup {[seed |-> seed, step |-> CodeAt(clock + off)]}
    /\ read' # read
    /\ UNCHANGED <<clock, process, hits, inbox, jar, page, wire, enrolment, seed, post>>

------------------------------------------------------------------------------
\* The process

CheckInstallation(silent) == "GITHUB_INSTALLATION_ID" \in silent
CheckRepository(silent) == "GITHUB_REPO" \in silent
CheckHostingSite(silent) == "NETLIFY_SITE_ID" \in silent

\* Every check runs, whatever another found; "silent" are the services that do not
\* answer as they should.
ValidateStartup(settings, silent) ==
    /\ ~CheckInstallation(silent) /\ ~CheckRepository(silent) /\ ~CheckHostingSite(silent)
    /\ IsUsableTotpSecret(settings.seed)
Services == {"GITHUB_INSTALLATION_ID", "GITHUB_REPO", "NETLIFY_SITE_ID"}

\* Settings without a fault are needed to ask at all.  A process that finds a fault
\* exits rather than serve, and is started again.
AssertStartupValid(settings, silent) ==
    FaultsOf(settings) = {} /\ ValidateStartup(settings, silent)

\* The process dies, or is stopped, and starts anew, as it was deployed or with other
\* settings; its counts are gone, and the requests it had.  How long it is away makes no
\* difference to what it finds.
Restart ==
    /\ boots < MaxBoots
    /\ boots' = boots + 1
    /\ \E d \in DOMAIN Deployments, silent \in SUBSET Services :
        /\ deployed' = d
        /\ up' = AssertStartupValid(Deployments[d], silent)
    /\ hits' = [key \in Limits |-> <<>>]
    /\ post' = [p \in Posts |-> None]
    /\ UNCHANGED <<clock, inbox, jar, page, wire, people>>

\* The body of a request did not come in time.
Overdue(request, now) == InHand(request) /\ now - request.counted > BodyWait
\* It was answered longer ago than any window.
Past(request, now) == Answered(request) /\ request.compared <= now - Window

\* The server gives up requests that are overdue.  What has left the window is dropped
\* here: no later question could see it.
Tick ==
    /\ clock < MaxClock
    /\ clock' = clock + 1
    /\ hits' = [key \in Limits |-> Recent(hits[key], clock')]
    /\ post' = [p \in Posts |->
                    IF Overdue(post[p], clock') \/ Past(post[p], clock') THEN None ELSE post[p]]
    /\ UNCHANGED <<process, inbox, jar, page, wire, people>>

------------------------------------------------------------------------------
Init ==
    /\ clock = 0
    /\ deployed = 1 /\ up = AssertStartupValid(Deployments[1], {}) /\ boots = 1
    /\ hits = [key \in Limits |-> <<>>]
    /\ inbox = [e \in Emails |-> <<>>]
    /\ jar = [b \in Browsers |-> NoCookies]
    /\ page = [b \in Browsers |-> "login"]
    /\ wire = [b \in Browsers |-> {}]
    /\ enrolment = None /\ seed = None /\ read = {}
    /\ post = [p \in Posts |-> None]

Next ==
    \/ EnrollLink \/ Enroll \/ ReadCode \/ Restart \/ Tick
    \/ \E p \in Posts, code \in read \cup {WrongCode} : CheckCode(p, code)
    \/ \E b \in Browsers :
        \/ \E from \in Addresses, spelling \in Asked : RequestLink(b, from, spelling)
        \/ \E email \in Emails : CompleteSignIn(b, email)
        \/ \E from \in Addresses : VerifyCode(b, from)
        \/ Logout(b) \/ Arrive(b) \/ Visit(b)

Spec == Init /\ [][Next]_vars

------------------------------------------------------------------------------
\* A browser that may act for an address holds a session for which, in this order, a
\* link was mailed to that address and opened before it expired, the code step was
\* reached in time, and a code was entered that somebody had read off an authenticator
\* with the seed that goes with the secret: while it was shown, give or take the drift,
\* and no later than a request may take from its head to its body.  And it holds nothing
\* of a second sign-in half done.  However old links, codes, requests and answers to
\* earlier requests are used again, and whatever was deployed in between: under a new
\* secret, everything starts again from a link.  (auth route completeSignIn, verifyCode;
\* magic-link.ts, pending.ts, session.ts, totp.ts, authorize.ts.)
SessionsAreEarned ==
    \A b \in Browsers : RequireClient(b) =>
        LET session == jar[b].session
        IN  /\ jar[b].pending = None
            /\ \E issued \in 0 .. clock :
                /\ session.expiresAt = Seconds(issued + SessionTTL)
                /\ clock < issued + SessionTTL
                /\ \E i \in DOMAIN inbox[session.email] :
                    LET link == inbox[session.email][i]
                    IN  /\ link.key = LinkKey
                        /\ link.iat <= issued
                        /\ issued < link.iat + LinkTTL + PendingTTL + BodyWait
                /\ \E code \in read :
                    /\ code.step * CodeStep <= issued + Drift
                    /\ issued < (code.step + 1) * CodeStep + Drift
                    /\ \E d \in DOMAIN Deployments :
                        Deployments[d].secret = Env.secret /\ Deployments[d].seed = code.seed

\* In no window of time, wherever it begins, are more links mailed to one address than
\* the limit, whatever addresses their callers state.  Of the codes, that holds by the
\* address the caller states, and of the moment they are counted: those that are compared
\* in one window may have been counted in two, and are no more than twice the limit.  All
\* save across a restart, which forgets the counts.  (rate-limit.ts; auth route
\* requestLink, verifyCode.)
TriesAreBounded ==
    /\ \A a \in Addresses :
        /\ Cardinality({p \in Posts : /\ post[p] # None /\ post[p].from = a
                                      /\ post[p].counted > clock - Window})
                <= LimitOf["codesByAddress"]
        /\ Cardinality({p \in Posts : /\ Answered(post[p]) /\ post[p].from = a
                                      /\ post[p].compared > clock - Window})
                <= 2 * LimitOf["codesByAddress"]
    /\ \A e \in Emails :
        Cardinality({i \in DOMAIN inbox[e] :
                        inbox[e][i].life = boots /\ inbox[e][i].iat > clock - Window})
            <= LimitOf["byEmail"]
===============================================================================
