--------------------------- MODULE MCPagesDeployment ---------------------------
(* One official run of two attempts, one code push and two deployments, one *)
(* of them retried, all of it; and three deployments, one inside the group, *)
(* one waiting and one more to take its place, beside a bounded number of   *)
(* code pushes, reruns and retries.  What the bound cuts off is the         *)
(* maintainers' to do or not, and never a step fairness asks for.           *)
EXTENDS PagesDeployment

CONSTANT MaxDisturbances   \* bound: pushes, reruns and retries beside three

Disturbances ==
  Cardinality({c \in Code \ {Root} : OnMain(c)})
    + Cardinality({<<r, n>> \in Result : n < attempt[r]}) + retries

Bounded ==
  (\A d \in Deployments : stage[d] # "none") => Disturbances <= MaxDisturbances

BoundedStep == Bounded'
===============================================================================
