------------------------------ MODULE SlotPool ------------------------------
(***************************************************************************)
(* What the run scheduler promises about provider keys, independently of   *)
(* how it keeps its accounts: a slot is given only to a run when no other  *)
(* run holds it, and may be given back at any time.                        *)
(***************************************************************************)
EXTENDS Integers

CONSTANTS Runs, Slots

VARIABLE held   \* the pairs <<run, slot>> in force

Init == held = {}

(* A run that already holds a slot exchanges it for the new one.           *)
Take(r, s) ==
  /\ \A h \in held : h[2] = s => h[1] = r
  /\ held' = {h \in held : h[1] # r} \union {<<r, s>>}

GiveBack == held' \in SUBSET held

Next ==
  \/ \E r \in Runs, s \in Slots : Take(r, s)
  \/ GiveBack

Spec == Init /\ [][Next]_held

(* Two entries in force never share a slot, nor a run.                     *)
Exclusive == \A g, h \in held : g[1] = h[1] \/ g[2] = h[2] => g = h

=============================================================================
