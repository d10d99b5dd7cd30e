------------------------------- MODULE MCSignIn -------------------------------
(* A browser whose client spells the mail address in two ways, and whose       *)
(* requests state either of two addresses to come from.  A phone may be two    *)
(* steps ahead, which is more than the drift.  The operator may remove the     *)
(* client's address, put new secrets in place, or get the list or seed wrong.  *)
EXTENDS SignIn, TLC

CONSTANTS ann, Ann, bob, typo, s1, s2, seed1, seed2, short

MCPlain == (ann :> ann) @@ (Ann :> ann) @@ (bob :> bob) @@ (typo :> None)
MCDeployments ==
    << [listed |-> {Ann, bob}, secret |-> s1, seed |-> seed1],
       [listed |-> {bob}, secret |-> s1, seed |-> seed1],
       [listed |-> {ann, bob}, secret |-> s2, seed |-> seed2],
       [listed |-> {ann, typo}, secret |-> s1, seed |-> seed1],
       [listed |-> {ann, bob}, secret |-> s1, seed |-> short] >>
MCLimitOf == [byEmail |-> 1, byAddress |-> 1, codesByAddress |-> 1]

\* The callers' addresses that are still counted, or stated in a request in hand.
Stated == {key[2] : key \in {k \in Limits : hits[k] # <<>>}}
            \cup {post[p].from : p \in {q \in Posts : post[q] # None}}

\* Where the run stops following: a second address while there is a way to a code, or
\* after a restart; a secret first shown after time 0; a process down for good.
MCBounds ==
    /\ Cardinality(Stated \cap Addresses) > 1 => enrolment = None /\ boots = 1
    /\ enrolment # None => enrolment.iat = 0
    /\ up \/ boots < MaxBoots

MCSymmetry == Permutations(Addresses) \cup Permutations(Posts)
===============================================================================
