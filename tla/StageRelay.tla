----------------------------- MODULE StageRelay -----------------------------
(***************************************************************************)
(* What a migration run promises about its stages: there is one baton. It  *)
(* goes down the line of stages, skipping at most an optional one; the     *)
(* judge may send it back to the maker, once per unit of a budget; and no  *)
(* stage has it twice in the same cycle.                                   *)
(***************************************************************************)
EXTENDS Integers, Sequences

CONSTANTS
  Line,           \* the stages in order
  Optional,       \* stages that may be left out
  Judge, Maker,   \* who may send the baton back, and to whom
  Budget          \* how often

VARIABLES baton, had   \* <<stage, cycle>>, and every earlier value

First == <<Line[1], 0>>

After(i) ==
  {j \in {i + 1, i + 2} \cap DOMAIN Line : j = i + 2 => Line[i + 1] \in Optional}

Init == baton = First /\ had = {First}

Take(next) ==
  /\ next \notin had
  /\ baton' = next
  /\ had'   = had \union {next}

Forward == \E i \in DOMAIN Line :
             /\ baton[1] = Line[i]
             /\ \E j \in After(i) : Take(<<Line[j], baton[2]>>)

SendBack == /\ baton[1] = Judge
            /\ baton[2] < Budget
            /\ Take(<<Maker, baton[2] + 1>>)

Next == Forward \/ SendBack

Spec == Init /\ [][Next]_<<baton, had>>

=============================================================================
