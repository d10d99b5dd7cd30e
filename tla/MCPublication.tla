----------------------------- MODULE MCPublication -----------------------------
(* Two requests of one conversation, two presses of its buttons, and a developer,
   who stands for whatever else moves the site: other conversations, too. *)
EXTENDS Publication, TLC

CONSTANTS a, r1, r2, p1, p2, d1

MCConversations == {a}
MCRequests      == {r1, r2}
MCOf            == [r \in MCRequests |-> a]
MCPublications  == {p1, p2}
MCDevelopers    == {d1}
Symmetry        == Permutations({r1, r2}) \cup Permutations({p1, p2})
===============================================================================
