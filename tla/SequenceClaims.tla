--------------------------- MODULE SequenceClaims ---------------------------
(***************************************************************************)
(* Statements the repository's comments and documents make about a         *)
(* sequence that the code does not keep.  Each is checked by one run that  *)
(* is expected to find the counterexample.                                 *)
(***************************************************************************)
EXTENDS SequenceRun

\* "Every terminal path calls this" (releaseSequence, on dropping the client
\* locks): with no sequence active, no client is locked.
NoLockWithoutSequence == pc = "idle" => \A c \in Clients : db.lock[c] = 0

\* handleAbort "hands over to the wake plan": a sequence stopped by an abort
\* after it told hosts to shut down is not closed at the wake gate by the same
\* request that stopped it.  (In the run that checks this an abort has no other
\* cause.)
AbortHandsOverToWake ==
    [][\A s \in calledOff :
          told[s] # {} /\ db.row[s].state = "wake_gate" => db'.row[s].state \in {"wake_gate", "waking"}]_vars
==============================================================================
