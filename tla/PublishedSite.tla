----------------------------- MODULE PublishedSite -----------------------------
(***************************************************************************)
(* What readers of the repository and of its site are promised, with no    *)
(* run, job, queue or retry in it: main only grows, one commit at a time,  *)
(* and the site only ever moves to a commit of main that is not older than *)
(* the one it shows.                                                       *)
(***************************************************************************)
EXTENDS Naturals, Sequences

CONSTANTS Commit, Root

VARIABLES
  main,   \* the branch, oldest commit first
  shown   \* the position on main of the commit the site shows

Init == main = <<Root>> /\ shown = 1

Extend ==
  /\ \E c \in Commit : main' = Append(main, c)
  /\ UNCHANGED shown

Show ==
  /\ shown' \in shown .. Len(main)
  /\ UNCHANGED main

Spec == Init /\ [][Extend \/ Show]_<<main, shown>>
===============================================================================
