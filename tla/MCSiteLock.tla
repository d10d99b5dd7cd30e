------------------------------ MODULE MCSiteLock ------------------------------
(* Small instances of SiteLock for TLC; requests are not made interchangeable, *)
(* for a symmetric instance is not sound for liveness.                         *)
EXTENDS SiteLock
===============================================================================
