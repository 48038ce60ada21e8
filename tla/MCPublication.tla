----------------------------- MODULE MCPublication -----------------------------
(* Two runs of two attempts each with two code pushes, all of it; and three *)
(* runs, one active, one queued and one more to take its place, beside a    *)
(* bounded number of code pushes and reruns.  What the bound cuts off is    *)
(* the maintainers' to do or not, and never a step fairness asks for.       *)
EXTENDS Publication, FiniteSets

CONSTANT MaxDisturbances   \* bound: code pushes and reruns beside three runs

Disturbances ==
  Cardinality({c \in Code \ {Root} : OnMain(c)})
    + Cardinality({<<r, n>> \in Result : n < attempt[r]})

Bounded ==
  (\A r \in Runs : phase[r] # "idle") => Disturbances <= MaxDisturbances

BoundedStep == Bounded'
===============================================================================
