----------------------------- MODULE MCRequestRun -----------------------------
(* The change requests of one conversation, or of two that share the site.  *)
EXTENDS RequestRun

CONSTANTS home, away

MCShared == [r \in Requests |-> home]
MCApart  == [r \in Requests |->
                IF r = CHOOSE s \in Requests : TRUE THEN home ELSE away]
===============================================================================
