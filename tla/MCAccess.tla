------------------------------ MODULE MCAccess ------------------------------
(* Two concurrent requests, two passwords and one API token. *)
EXTENDS Access, TLC

\* Requests and passwords are interchangeable: nothing compares them but for
\* equality, and only safety is checked.
Interchangeable == Permutations(Requests) \cup Permutations(Passwords)
=============================================================================
