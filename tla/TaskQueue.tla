------------------------------ MODULE TaskQueue ------------------------------
(***************************************************************************)
(* What a thread that works on a queue of tasks promises: the tasks run one *)
(* at a time and in order, each of them once, and nothing runs once the     *)
(* queue was ended.  A patient queue ends only when nothing is left to do.  *)
(***************************************************************************)
EXTENDS Sequences, SequencesExt

VARIABLES
  waiting,    (* tasks not started                                         *)
  current,    (* the task that runs, if any, as a sequence                 *)
  patient,
  ended
queueVars == <<waiting, current, patient, ended>>

Init == waiting = <<>> /\ current = <<>> /\ patient \in BOOLEAN /\ ended = FALSE

Put ==
  /\ Len(waiting') = Len(waiting) + 1 /\ IsPrefix(waiting, waiting')
  /\ ended' = FALSE
  /\ UNCHANGED <<current, patient>>
Start ==
  /\ waiting # <<>> /\ current = <<>> /\ ~ended
  /\ current' = <<Head(waiting)>> /\ waiting' = Tail(waiting)
  /\ UNCHANGED <<patient, ended>>
Finish ==
  /\ current # <<>>
  /\ current' = <<>>
  /\ UNCHANGED <<waiting, patient, ended>>
End ==
  /\ current = <<>> /\ (patient => waiting = <<>>)
  /\ ended' = TRUE
  /\ UNCHANGED <<waiting, current, patient>>

Next == Put \/ Start \/ Finish \/ End
Spec == Init /\ [][Next]_queueVars
===============================================================================
