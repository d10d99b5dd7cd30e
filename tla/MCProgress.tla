------------------------------ MODULE MCProgress ------------------------------
(* A change and a publish in one conversation, one reader. *)
EXTENDS Progress

CONSTANTS c1, p

MCKinds == [r \in Requests |-> IF r = p THEN "publish" ELSE "change"]
===============================================================================
