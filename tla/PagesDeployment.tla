---------------------------- MODULE PagesDeployment ----------------------------
(***************************************************************************)
(* Deployments of the site: pages.yml (successful CI of main, or explicit  *)
(* recovery), the pages job of an official run, the reusable workflow      *)
(* pages-deploy.yml (build, then deploy inside the concurrency group       *)
(* `pages`) and benchmark/pages_handoff.py, composed with Publication.     *)
(***************************************************************************)
EXTENDS Publication, FiniteSets

CONSTANTS
  NoRun,           \* the caller of an ordinary deployment
  MaxHistory,      \* MAX_HISTORY_FILES: 128 in the code
  MaxDeployments,  \* bound: calls of pages-deploy.yml
  MaxRetries       \* bound: deploy jobs run again

ASSUME DeploymentAssumption ==
  /\ NoRun \notin Runs
  /\ MaxHistory \in Nat
  /\ MaxDeployments \in Nat
  /\ MaxRetries \in Nat

\* Calls are numbered in the order they are made.
Deployments == 1 .. MaxDeployments

\* "requested": the build job is next; "built": its artifact is uploaded;
\* "waiting": queued in the group; "holding" and "verified": inside the group.
Inside == {"holding", "verified"}
Over == {"deployed", "refused", "failed", "cancelled"}
Stages == {"none", "requested", "built", "waiting"} \cup Inside \cup Over

VARIABLES
  stage,    \* the stage of each deployment
  target,   \* its target_sha
  caller,   \* the official run that called it, or NoRun
  built,    \* deployments whose artifact exists
  retries,  \* deploy jobs run again so far
  site      \* the commit the site shows

deploymentVars == <<stage, target, caller, built, retries>>
vars == <<publicationVars, deploymentVars, site>>

Init ==
  /\ PublicationInit
  /\ stage = [d \in Deployments |-> "none"]
  /\ target = [d \in Deployments |-> Root]
  /\ caller = [d \in Deployments |-> NoRun]
  /\ built = {} /\ retries = 0
  /\ site = Root

Moves(d, from, to) ==
  /\ stage[d] = from
  /\ stage' = [stage EXCEPT ![d] = to]

-------------------------------------------------------------------------------
(* Callers.                                                                *)

\* The next call is d.
Called(d) ==
  /\ \A e \in Deployments : e < d => stage[e] # "none"
  /\ Moves(d, "none", "requested")

\* pages.yml: CI has succeeded for a push that is still main, or a maintainer
\* dispatches it; github.sha is main at that time.
Request(d) ==
  /\ Called(d)
  /\ target' = [target EXCEPT ![d] = Tip]
  /\ UNCHANGED <<publicationVars, caller, built, retries, site>>

\* The pages job of an official run calls with the outputs of publish.
OfficialCall(d, r) ==
  /\ HandOff(r)
  /\ \A e \in built : caller[e] # r
  /\ Called(d)
  /\ target' = [target EXCEPT ![d] = <<r, outputs[r]>>]
  /\ caller' = [caller EXCEPT ![d] = r]
  /\ UNCHANGED <<built, retries, site>>

\* Re-run failed jobs once the build has succeeded: only the deploy job, with
\* the artifact of the earlier attempt.
Redeploy(d) ==
  /\ d \in built /\ stage[d] \in Over \ {"deployed"} /\ retries < MaxRetries
  /\ IF caller[d] = NoRun THEN UNCHANGED publicationVars ELSE HandOff(caller[d])
  /\ stage' = [stage EXCEPT ![d] = "built"]
  /\ retries' = retries + 1
  /\ UNCHANGED <<target, caller, built, site>>

-------------------------------------------------------------------------------
(* pages-deploy.yml.                                                       *)

\* The controller fetched main and found the target there, and an official
\* target directly on the commit its run measured.
Authorized(d) ==
  /\ target[d] = Tip
  /\ caller[d] # NoRun =>
       Len(main) > 1 /\ main[Len(main) - 1] = source[caller[d]]

\* build_site refuses a tree with too many history files.
HistoryFits ==
  Cardinality({i \in 1 .. Len(main) : main[i] \in Result}) <= MaxHistory

Build(d) ==
  /\ \/ /\ Authorized(d) /\ HistoryFits
        /\ Moves(d, "requested", "built")
        /\ built' = built \cup {d}
     \/ /\ ~(Authorized(d) /\ HistoryFits)
        /\ Moves(d, "requested", "refused")
        /\ UNCHANGED built
  /\ UNCHANGED <<publicationVars, target, caller, retries, site>>

\* A seeded mistake: each caller has its own group.
NoOtherCallerInside(d) ==
  \A e \in Deployments : stage[e] \in Inside => caller[e] # caller[d]

\* A seeded mistake: a refused deployment keeps the group.
HeldAfterRefusal(d) ==
  \A e \in Deployments : stage[e] \notin Inside \cup {"refused"}

\* The group runs one job at a time.
GroupFree(d) == \A e \in Deployments : stage[e] \notin Inside

NobodyWaits == \A e \in Deployments : stage[e] # "waiting"

\* The deploy job joins the group: it starts at once when the group is free (one
\* that waits there goes first), and otherwise waits and cancels the one that
\* was waiting.
Queue(d) ==
  /\ \/ /\ GroupFree(d) /\ NobodyWaits
        /\ Moves(d, "built", "holding")
     \/ /\ stage[d] = "built" /\ ~GroupFree(d)
        /\ stage' = [e \in Deployments |-> IF e = d THEN "waiting"
                                           ELSE IF stage[e] = "waiting" THEN "cancelled"
                                           ELSE stage[e]]
  /\ UNCHANGED <<publicationVars, target, caller, built, retries, site>>

\* The one that waits starts as soon as the group is free.
Enter(d) ==
  /\ GroupFree(d)
  /\ Moves(d, "waiting", "holding")
  /\ UNCHANGED <<publicationVars, target, caller, built, retries, site>>

\* A seeded mistake: the check before the build is enough.
CheckedAtBuild(d) == d \in built

\* The check inside the group.
StillAuthorized(d) == Authorized(d)

Verify(d) ==
  /\ \/ StillAuthorized(d) /\ Moves(d, "holding", "verified")
     \/ ~StillAuthorized(d) /\ Moves(d, "holding", "refused")
  /\ UNCHANGED <<publicationVars, target, caller, built, retries, site>>

Deploy(d) ==
  /\ Moves(d, "verified", "deployed")
  /\ site' = target[d]
  /\ UNCHANGED <<publicationVars, target, caller, built, retries>>

\* A job fails, is cancelled or reaches its timeout-minutes.
Break(d) ==
  /\ stage[d] \in {"requested", "built", "waiting"} \cup Inside
  /\ stage' = [stage EXCEPT ![d] = "failed"]
  /\ UNCHANGED <<publicationVars, target, caller, built, retries, site>>

-------------------------------------------------------------------------------
\* An official run ends once its deployment is over.
FinishRun(r) ==
  /\ Finish(r)
  /\ \A d \in Deployments : caller[d] = r => stage[d] \in Over
  /\ UNCHANGED <<deploymentVars, site>>

PublicationStep ==
  /\ \/ \E c \in Code : PushCode(c)
     \/ \E r \in Runs : Dispatch(r) \/ RerunFailed(r) \/ RerunAll(r) \/ RunStep(r)
  /\ UNCHANGED <<deploymentVars, site>>

DeploymentStep(d) ==
  Build(d) \/ Queue(d) \/ Enter(d) \/ Verify(d) \/ Deploy(d)

Next ==
  \/ PublicationStep
  \/ \E r \in Runs : FinishRun(r) \/ \E d \in Deployments : OfficialCall(d, r)
  \/ \E d \in Deployments : Request(d) \/ Redeploy(d) \/ DeploymentStep(d) \/ Break(d)

Spec == Init /\ [][Next]_vars

\* Jobs that can run do run; nothing says that they succeed.
FairSpec ==
  /\ Spec
  /\ \A d \in Deployments : WF_vars(DeploymentStep(d))

-------------------------------------------------------------------------------
(* Properties.                                                             *)

\* Every variable has its type.
TypeOK ==
  /\ PublicationTypeOK
  /\ stage \in [Deployments -> Stages]
  /\ target \in [Deployments -> Commit]
  /\ caller \in [Deployments -> Runs \cup {NoRun}]
  /\ built \subseteq Deployments
  /\ retries \in 0 .. MaxRetries
  /\ site \in Commit

\* Once a deployment of main's tip has ended well the site shows that tip until
\* main moves, whatever older deployments are still on their way.
TipStaysShown ==
  \A d \in Deployments : stage[d] = "deployed" /\ target[d] = Tip => site = Tip

\* A deployment that is asked for is settled: the group is never blocked by
\* one that was refused, failed or cancelled.
EveryDeploymentSettles ==
  \A d \in Deployments : stage[d] = "requested" ~> stage[d] \in Over

\* The automation implements PublishedSite: main only moves forward and so
\* does the site.
Shown == CHOOSE i \in 1 .. Len(main) : main[i] = site
Promised == INSTANCE PublishedSite WITH shown <- Shown
ImplementsPublishedSite == Promised!Spec

\* docs/AUTOMATION.md: ineligible runs cannot cancel a valid deployment, and an
\* update of main is handled by the newer eligible one.  The deployment of
\* main's tip is never cancelled to make room for one of an older commit.
StaleRunsCannotCancel ==
  [][\A d \in Deployments :
       stage[d] = "waiting" /\ stage'[d] = "cancelled" /\ target[d] = Tip =>
         \E e \in Deployments : stage'[e] = "waiting" /\ target[e] = Tip]_vars

\* docs/AUTOMATION.md: when a publication's own deployment fails, recover Pages
\* by dispatching its workflow.  The tip of main can always be built.
PublishedTipIsBuildable ==
  \A d \in Deployments : stage[d] = "requested" /\ Authorized(d) => HistoryFits
===============================================================================
