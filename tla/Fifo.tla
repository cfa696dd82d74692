---------------------------------- MODULE Fifo ----------------------------------
(***************************************************************************)
(* What a command queue of the bridge promises its two ends: a bounded     *)
(* first-in first-out queue whose producer may hold back the entries it    *)
(* has put (`held`) until it publishes them, all at once and in order, to  *)
(* the consumer (`visible`).  Nothing is lost, duplicated, reordered or    *)
(* invented, and the producer never gets more than Capacity entries ahead. *)
(***************************************************************************)
EXTENDS Naturals, Sequences

CONSTANTS Values,    \* what the entries can be
          Capacity   \* the most entries put and not yet taken

VARIABLES held,      \* put and not yet published
          visible    \* published and not yet taken

fifoVars == <<held, visible>>

Init == held = <<>> /\ visible = <<>>

Put(v) ==
  /\ Len(held) + Len(visible) < Capacity
  /\ held' = Append(held, v)
  /\ UNCHANGED visible

Publish ==
  /\ visible' = visible \o held
  /\ held' = <<>>

Take ==
  /\ visible # <<>>
  /\ visible' = Tail(visible)
  /\ UNCHANGED held

Next ==
  \/ \E v \in Values : Put(v)
  \/ Publish
  \/ Take

Spec == Init /\ [][Next]_fifoVars
=================================================================================
