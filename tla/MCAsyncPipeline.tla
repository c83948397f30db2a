-------------------------- MODULE MCAsyncPipeline --------------------------
(* Instances of AsyncPipeline for TLC: a root branch whose last node has    *)
(* every other branch as a child, the shape init_branches gives to a        *)
(* pipeline that forks once.                                                *)
EXTENDS AsyncPipeline, TLC

ForkOnce == [b \in Branches |-> IF b = Root THEN Branches \ {Root} ELSE {}]

(* Sound where the children all fail or none does.                          *)
ChildrenAlike == Permutations(Branches \ {Root})
============================================================================
