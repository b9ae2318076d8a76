---------------------------- MODULE ThreeValued ----------------------------
(***************************************************************************)
(* Trilean (internal/facts/types.go): the answer of a condition or of a    *)
(* feed's status, where "unavailable" is an answer of its own and not a    *)
(* kind of false.                                                          *)
(***************************************************************************)

Trilean == {"unavailable", "false", "true"}

And(a, b) ==
    IF a = "false" \/ b = "false" THEN "false"
    ELSE IF a = "unavailable" \/ b = "unavailable" THEN "unavailable"
    ELSE "true"

Or(a, b) ==
    IF a = "true" \/ b = "true" THEN "true"
    ELSE IF a = "unavailable" \/ b = "unavailable" THEN "unavailable"
    ELSE "false"

Not(a) == IF a = "true" THEN "false" ELSE IF a = "false" THEN "true" ELSE "unavailable"

\* A loop of And over the answers in S, from true; of Or, from false.
AndAll(S) ==
    IF "false" \in S THEN "false" ELSE IF "unavailable" \in S THEN "unavailable" ELSE "true"
OrAll(S) ==
    IF "true" \in S THEN "true" ELSE IF "unavailable" \in S THEN "unavailable" ELSE "false"

BoolToTrilean(b) == IF b THEN "true" ELSE "false"
=============================================================================
