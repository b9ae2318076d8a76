-------------------------- MODULE SequenceLifecycle --------------------------
(***************************************************************************)
(* What the sequences table promises its readers (the API, the journal and *)
(* a restarted daemon): a sequence moves through its phases in one         *)
(* direction only, ends in one final state and stays there; one that was   *)
(* called off never reports a clean completion; and no sequence begins     *)
(* while another is unfinished.                                            *)
(***************************************************************************)
EXTENDS Naturals

CONSTANT Ids        \* sequence identifiers

VARIABLES phase,    \* the state column of each row, "none" before the first save
          aborted   \* the aborted column

vars == <<phase, aborted>>

Unfinished == {"shutting_down", "aborting", "wake_gate", "waking"}
Final == {"completed", "aborted", "failed"}

\* The phases a sequence in a given phase may be saved in next.
Successors(p) ==
    CASE p = "shutting_down" -> {"aborting", "wake_gate", "failed"}
      [] p = "aborting" -> {"wake_gate", "failed"}
      [] p = "wake_gate" -> {"waking", "aborted", "failed"}
      [] p = "waking" -> {"completed", "aborted", "failed"}
      [] OTHER -> {}

Init ==
    /\ phase = [s \in Ids |-> "none"]
    /\ aborted = [s \in Ids |-> FALSE]

Begin(s) ==
    /\ phase[s] = "none"
    /\ \A t \in Ids : phase[t] \notin Unfinished
    /\ phase' = [phase EXCEPT ![s] = "shutting_down"]
    /\ UNCHANGED aborted

Advance(s) ==
    /\ \E p \in Successors(phase[s]) :
          /\ phase' = [phase EXCEPT ![s] = p]
          /\ p = "completed" => ~aborted[s]
          /\ aborted' = [aborted EXCEPT ![s] = @ \/ p \in {"aborting", "aborted"}]

Next == \E s \in Ids : Begin(s) \/ Advance(s)

Spec == Init /\ [][Next]_vars
==============================================================================
