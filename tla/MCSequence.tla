----------------------------- MODULE MCSequence -----------------------------
(* Small plans for SequenceRun: an application server that depends on a     *)
(* storage server.                                                          *)
EXTENDS SequenceClaims

Apps == "app"
Storage == "nas"
Both == {Apps, Storage}
One == {Storage}
JustStorage == <<One>>
\* A stage whose tag matches no client, then the storage.
NoneThenStorage == <<{}, One>>

\* Applications first, then the storage they use.
TwoStages == <<{Apps}, {Storage}>>
\* ... and a last stage whose tag matches no client.
TwoStagesAndNone == TwoStages \o <<{}>>
NoWakeStages == <<>>
\* A plan that only brings the storage back by itself.
WakeStorage == <<{Storage}>>

AppNeedsStorage == [c \in Both |-> IF c = Apps THEN {Storage} ELSE {}]
NoDependencies == [c \in Both |-> {}]
Alone == [c \in One |-> {}]
==============================================================================
