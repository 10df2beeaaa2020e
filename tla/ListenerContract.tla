--------------------------- MODULE ListenerContract ---------------------------
(***************************************************************************)
(* What a listener of the client, or of a subscription, may rely on: it is  *)
(* told that it starts before anything else and that it ends after          *)
(* everything else, once for each time it is added and removed, and once it *)
(* was removed no callback but the last begins.                             *)
(***************************************************************************)
EXTENDS Naturals

CONSTANT Listeners

VARIABLES
  adds, removes,   (* times each listener was added, and removed      *)
  starts, ends,    (* times it was told so                            *)
  busy             (* listeners in the middle of some other callback  *)
contractVars == <<adds, removes, starts, ends, busy>>

Once(f, l) == [f EXCEPT ![l] = @ + 1]

Init ==
  /\ adds = [l \in Listeners |-> 0] /\ removes = adds
  /\ starts = adds /\ ends = adds
  /\ busy = {}

Add(l) ==
  /\ adds[l] = removes[l]
  /\ adds' = Once(adds, l)
  /\ UNCHANGED <<removes, starts, ends, busy>>
Remove(l) ==
  /\ adds[l] > removes[l]
  /\ removes' = Once(removes, l)
  /\ UNCHANGED <<adds, starts, ends, busy>>

OnListenStart(l) ==
  /\ starts[l] = ends[l] /\ starts[l] < adds[l]
  /\ starts' = Once(starts, l)
  /\ UNCHANGED <<adds, removes, ends, busy>>
OnListenEnd(l) ==
  /\ starts[l] > ends[l] /\ ends[l] < removes[l] /\ l \notin busy
  /\ ends' = Once(ends, l)
  /\ UNCHANGED <<adds, removes, starts, busy>>

OnEvent(l) ==
  /\ adds[l] > removes[l] /\ starts[l] = adds[l] /\ l \notin busy
  /\ busy' = busy \cup {l}
  /\ UNCHANGED <<adds, removes, starts, ends>>
Return(l) ==
  /\ busy' = busy \ {l}
  /\ UNCHANGED <<adds, removes, starts, ends>>

Next == \E l \in Listeners :
  Add(l) \/ Remove(l) \/ OnListenStart(l) \/ OnListenEnd(l) \/ OnEvent(l) \/ Return(l)

Spec == Init /\ [][Next]_contractVars
===============================================================================
