---------------------------- MODULE MCEngineStack ----------------------------
(* Stacks with the view tracking layer, alone and around batching. *)
EXTENDS EngineStack, TLC

AllStacks ==
  {<<"observer", "views">>, <<"views", "batching">>, <<"batching", "views">>}

ViewsOnly == {<<"views">>}

Symmetry == Permutations(Server)
==============================================================================
