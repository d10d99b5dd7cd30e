------------------------------ MODULE SiteMutex ------------------------------
(***************************************************************************)
(* What the site lock promises while nothing has outlived its time limit:  *)
(* at most one request works on the site, and only its own ending gives    *)
(* the site back.  A request may die, or its release may be lost, with the *)
(* site still held: that is what staleness exists for (SiteLock).          *)
(***************************************************************************)
CONSTANTS Requests, None

VARIABLES
    owner,      \* the request the site is held by, or None
    working     \* the requests that believe they may work on the site

vars == <<owner, working>>

Init ==
    /\ owner = None
    /\ working = {}

\* The site is claimed; a claim whose answer is lost is held by nobody at work.
Claim(r) ==
    /\ owner = None
    /\ owner' = r
    /\ working' \in {working, working \cup {r}}

\* The holder ends: its release gives the site back, or is lost.
Finish(r) ==
    /\ r \in working
    /\ working' = working \ {r}
    /\ owner' \in {owner, None}

Next == \E r \in Requests : Claim(r) \/ Finish(r)

Spec == Init /\ [][Next]_vars

\* Whoever works on the site holds it, so at most one request does.
Exclusive == \A r \in working : owner = r
==============================================================================
