------------------------- MODULE PagesDeploymentProofs -------------------------
(***************************************************************************)
(* Theorems about PagesDeployment, for every set of runs and commits and   *)
(* every number of attempts, deployments, retries and history files: what  *)
(* is shown stays shown, and the automation implements PublishedSite.      *)
(***************************************************************************)
EXTENDS PagesDeployment, PublicationProofs, FiniteSetTheorems

\* Commit a is not newer than commit b.
NotNewer(a, b) ==
  \E i, j \in 1 .. Len(main) : i <= j /\ main[i] = a /\ main[j] = b

DeploymentTypes ==
  /\ stage \in [Deployments -> Stages]
  /\ target \in [Deployments -> Commit]
  /\ caller \in [Deployments -> Runs \cup {NoRun}]
  /\ site \in Commit

\* One deployment at a time is between its last check and its end.
OneInside ==
  \A d, e \in Deployments : stage[d] \in Inside /\ stage[e] \in Inside => d = e

\* What is shown, asked for or verified is on main, and in order.
SiteInv ==
  /\ OnMain(site)
  /\ \A d \in Deployments : OnMain(target[d])
  /\ \A d \in Deployments : stage[d] = "verified" => NotNewer(site, target[d])

DeploymentInv ==
  /\ PublicationInv
  /\ DeploymentTypes
  /\ OneInside
  /\ SiteInv
  /\ TipStaysShown

-------------------------------------------------------------------------------
(* What a step does to Publication, and to main.                           *)

\* The deployments change nothing Publication does not allow.
LEMMA StepsOfPublication ==
  ASSUME DeploymentTypes, [Next]_vars
  PROVE  [PublicationNext]_publicationVars
  <1>1. CASE PublicationStep
    BY <1>1 DEF PublicationStep, PublicationNext
  <1>2. ASSUME NEW r \in Runs, FinishRun(r) PROVE PublicationNext
    BY <1>2 DEF FinishRun, PublicationNext
  <1>3. ASSUME NEW r \in Runs, NEW d \in Deployments, OfficialCall(d, r)
        PROVE  PublicationNext
    BY <1>3 DEF OfficialCall, PublicationNext
  <1>4. ASSUME NEW d \in Deployments, Redeploy(d)
        PROVE  [PublicationNext]_publicationVars
    <2>1. CASE caller[d] = NoRun
      BY <1>4, <2>1 DEF Redeploy
    <2>2. CASE caller[d] # NoRun
      <3>1. caller[d] \in Runs
        BY <2>2 DEF DeploymentTypes
      <3> QED
        BY <1>4, <2>2, <3>1 DEF Redeploy, PublicationNext
    <2> QED
      BY <2>1, <2>2
  <1>5. ASSUME NEW d \in Deployments, Request(d) \/ DeploymentStep(d) \/ Break(d)
        PROVE  UNCHANGED publicationVars
    BY <1>5 DEF Request, DeploymentStep, Build, Queue, Enter, Verify, Deploy, Break
  <1>6. CASE UNCHANGED vars
    BY <1>6 DEF vars
  <1> QED
    BY <1>1, <1>2, <1>3, <1>4, <1>5, <1>6 DEF Next

\* A step of Publication leaves main alone or adds one new commit.
LEMMA MainGrows ==
  ASSUME PublicationInv, [PublicationNext]_publicationVars
  PROVE  \/ main' = main
         \/ \E c \in Commit : main' = Append(main, c) /\ ~OnMain(c)
  <1>1. ASSUME NEW c \in Code, PushCode(c)
        PROVE  c \in Commit /\ main' = Append(main, c) /\ ~OnMain(c)
    BY <1>1 DEF PushCode, Commit
  <1>2. ASSUME NEW r \in Runs, Push(r)
        PROVE  \E c \in Commit : main' = Append(main, c) /\ ~OnMain(c)
    <2>1. attempt[r] \in Attempts /\ <<r, attempt[r]>> \in Commit
      BY DEF PublicationInv, PublicationTypeOK, Commit, Result
    <2>2. main' = Append(main, <<r, attempt[r]>>) /\ MainIsSource(r)
      BY <1>2 DEF Push, Published
    <2> QED
      BY <2>1, <2>2, FreshPublication DEF PublicationInv
  <1>3. ASSUME NEW r \in Runs,
               \/ Dispatch(r) \/ RerunFailed(r) \/ RerunAll(r) \/ Start(r)
               \/ Measure(r) \/ Audit(r) \/ CheckRemote(r) \/ Emit(r)
               \/ HandOff(r) \/ Finish(r) \/ Fail(r)
        PROVE  main' = main
    BY <1>3 DEF Dispatch, RerunFailed, RerunAll, Start, Measure, Audit,
       CheckRemote, Emit, HandOff, Finish, Fail
  <1>4. CASE UNCHANGED publicationVars
    BY <1>4 DEF publicationVars
  <1> QED
    BY <1>1, <1>2, <1>3, <1>4 DEF PublicationNext, RunStep

\* What is on main stays on main, in its order, and a new tip is new.
LEMMA OrderKept ==
  ASSUME PublicationInv,
         \/ main' = main
         \/ \E c \in Commit : main' = Append(main, c) /\ ~OnMain(c)
  PROVE  /\ \A x : OnMain(x) => OnMain(x)'
         /\ \A x, y : NotNewer(x, y) => NotNewer(x, y)'
         /\ \A x : OnMain(x) /\ x = Tip' => main' = main
  <1>1. CASE main' = main
    BY <1>1 DEF OnMain, NotNewer
  <1>2. ASSUME NEW c \in Commit, main' = Append(main, c), ~OnMain(c)
        PROVE  /\ \A x : OnMain(x) => OnMain(x)'
               /\ \A x, y : NotNewer(x, y) => NotNewer(x, y)'
               /\ \A x : OnMain(x) => x # Tip'
    <2>1. /\ Len(main') = Len(main) + 1 /\ Len(main) \in Nat
          /\ \A i \in 1 .. Len(main) : main'[i] = main[i]
          /\ main'[Len(main) + 1] = c
      BY <1>2, Appended DEF PublicationInv, PublicationTypeOK
    <2>2. \A i \in 1 .. Len(main) : i \in 1 .. Len(main')
      BY <2>1
    <2>3. \A x : OnMain(x) => OnMain(x)'
      BY <2>1, <2>2 DEF OnMain
    <2>4. \A x, y : NotNewer(x, y) => NotNewer(x, y)'
      BY <2>1, <2>2 DEF NotNewer
    <2>5. Tip' = c
      BY <2>1 DEF Tip
    <2> QED
      BY <1>2, <2>3, <2>4, <2>5
  <1> QED
    BY <1>1, <1>2

\* The tip is not older than anything on main, and only itself is not older
\* than the tip.
LEMMA TipIsNewest ==
  ASSUME PublicationInv
  PROVE  /\ \A x : OnMain(x) => NotNewer(x, Tip)
         /\ \A x : NotNewer(Tip, x) => x = Tip
         /\ OnMain(Tip)
  <1>1. Len(main) \in Nat /\ Len(main) >= 1 /\ OnMain(Tip)
    BY TipOnMain DEF PublicationInv, PublicationTypeOK
  <1>2. ASSUME NEW x, OnMain(x) PROVE NotNewer(x, Tip)
    <2>1. PICK i \in 1 .. Len(main) : main[i] = x
      BY <1>2 DEF OnMain
    <2> QED
      BY <1>1, <2>1 DEF NotNewer, Tip
  <1>3. ASSUME NEW x, NotNewer(Tip, x) PROVE x = Tip
    <2>1. PICK i, j \in 1 .. Len(main) : i <= j /\ main[i] = Tip /\ main[j] = x
      BY <1>3 DEF NotNewer
    <2>2. i = Len(main)
      BY <1>1, <2>1 DEF PublicationInv, Distinct, Tip
    <2> QED
      BY <1>1, <2>1, <2>2
  <1> QED
    BY <1>1, <1>2, <1>3

-------------------------------------------------------------------------------
(* The invariant.                                                          *)

\* A step that neither verifies nor deploys, and targets only what is on main.
LEMMA SiteKept ==
  ASSUME DeploymentInv, site' = site,
         \/ main' = main
         \/ \E c \in Commit : main' = Append(main, c) /\ ~OnMain(c),
         \A d \in Deployments : target'[d] = target[d] \/ OnMain(target[d])',
         \A d \in Deployments : stage'[d] \in {"verified", "deployed"} =>
           stage'[d] = stage[d] /\ target'[d] = target[d]
  PROVE  SiteInv' /\ TipStaysShown'
  <1>1. /\ \A x : OnMain(x) => OnMain(x)'
        /\ \A x, y : NotNewer(x, y) => NotNewer(x, y)'
        /\ \A x : OnMain(x) /\ x = Tip' => main' = main
    BY OrderKept DEF DeploymentInv
  <1>2. OnMain(site)'
    BY <1>1 DEF DeploymentInv, SiteInv, OnMain
  <1>3. ASSUME NEW d \in Deployments PROVE OnMain(target[d])'
    <2>1. CASE target'[d] = target[d]
      BY <1>1, <2>1 DEF DeploymentInv, SiteInv, OnMain
    <2> QED
      BY <2>1
  <1>4. ASSUME NEW d \in Deployments, stage'[d] = "verified"
        PROVE  NotNewer(site, target[d])'
    <2>1. NotNewer(site, target[d]) /\ target'[d] = target[d]
      BY <1>4 DEF DeploymentInv, SiteInv
    <2> QED
      BY <1>1, <2>1 DEF NotNewer
  <1>5. ASSUME NEW d \in Deployments, stage'[d] = "deployed", target'[d] = Tip'
        PROVE  site' = Tip'
    <2>1. stage[d] = "deployed" /\ target'[d] = target[d] /\ OnMain(target[d])
      BY <1>5 DEF DeploymentInv, SiteInv
    <2>2. main' = main
      BY <1>1, <1>5, <2>1
    <2> QED
      BY <1>5, <2>1, <2>2 DEF DeploymentInv, TipStaysShown, Tip
  <1> QED
    BY <1>2, <1>3, <1>4, <1>5 DEF SiteInv, TipStaysShown

\* Nothing enters a group that is taken, and nobody else becomes an insider.
LEMMA InsideKept ==
  ASSUME OneInside, NEW d \in Deployments, stage \in [Deployments -> Stages],
         \A e \in Deployments \ {d} : stage'[e] \in Inside => stage[e] \in Inside,
         stage'[d] \in Inside => stage[d] \in Inside \/ GroupFree(d)
  PROVE  OneInside'
  BY DEF OneInside, GroupFree

\* The check inside the group: the target is the tip, and nothing is newer.
LEMMA VerifyStep ==
  ASSUME DeploymentInv, NEW d \in Deployments, Verify(d)
  PROVE  OneInside' /\ SiteInv' /\ TipStaysShown'
  <1>1. /\ main' = main /\ target' = target /\ site' = site
        /\ stage[d] = "holding"
        /\ \/ stage' = [stage EXCEPT ![d] = "verified"] /\ target[d] = Tip
           \/ stage' = [stage EXCEPT ![d] = "refused"]
    BY DEF Verify, Moves, StillAuthorized, Authorized, publicationVars
  <1>2. OneInside'
    BY <1>1, InsideKept DEF DeploymentInv, DeploymentTypes, Inside
  <1>3. \A e \in Deployments \ {d} : stage'[e] = stage[e]
    BY <1>1 DEF DeploymentInv, DeploymentTypes
  <1>4. stage'[d] \in {"verified", "refused"} /\ (stage'[d] = "verified" => target[d] = Tip)
    BY <1>1 DEF DeploymentInv, DeploymentTypes
  <1>5. ASSUME NEW e \in Deployments, stage'[e] = "verified"
        PROVE  NotNewer(site, target[e])
    <2>1. CASE e = d
      <3>1. target[d] = Tip /\ OnMain(site)
        BY <1>4, <1>5, <2>1 DEF DeploymentInv, SiteInv
      <3> QED
        BY <2>1, <3>1, TipIsNewest DEF DeploymentInv
    <2>2. CASE e # d
      BY <1>3, <1>5, <2>2 DEF DeploymentInv, SiteInv
    <2> QED
      BY <2>1, <2>2
  <1>6. SiteInv'
    BY <1>1, <1>5 DEF DeploymentInv, SiteInv, OnMain, NotNewer
  <1>7. TipStaysShown'
    BY <1>1, <1>3, <1>4 DEF DeploymentInv, TipStaysShown, Tip
  <1> QED
    BY <1>2, <1>6, <1>7

\* The site moves to a commit that is not older; if the tip was shown and an
\* earlier deployment of it has ended, that commit is the tip again.
LEMMA DeployStep ==
  ASSUME DeploymentInv, NEW d \in Deployments, Deploy(d)
  PROVE  /\ OneInside' /\ SiteInv' /\ TipStaysShown'
         /\ NotNewer(site, target[d]) /\ site' = target[d] /\ main' = main
  <1>1. /\ main' = main /\ target' = target /\ site' = target[d]
        /\ stage[d] = "verified" /\ stage' = [stage EXCEPT ![d] = "deployed"]
    BY DEF Deploy, Moves, publicationVars
  <1>2. /\ stage'[d] = "deployed"
        /\ \A e \in Deployments \ {d} : stage'[e] = stage[e]
    BY <1>1 DEF DeploymentInv, DeploymentTypes
  <1>3. NotNewer(site, target[d])
    BY <1>1 DEF DeploymentInv, SiteInv
  <1>4. OneInside'
    BY <1>2, InsideKept DEF DeploymentInv, DeploymentTypes, Inside
  <1>5. ASSUME NEW e \in Deployments PROVE stage'[e] # "verified"
    BY <1>1, <1>2 DEF DeploymentInv, OneInside, Inside
  <1>6. SiteInv'
    BY <1>1, <1>5 DEF DeploymentInv, SiteInv, OnMain
  <1>7. ASSUME NEW e \in Deployments, stage'[e] = "deployed", target[e] = Tip
        PROVE  target[d] = Tip
    <2>1. CASE e = d
      BY <1>7, <2>1
    <2>2. CASE e # d
      <3>1. site = Tip
        BY <1>2, <1>7, <2>2 DEF DeploymentInv, TipStaysShown
      <3> QED
        BY <1>3, <3>1, TipIsNewest DEF DeploymentInv
    <2> QED
      BY <2>1, <2>2
  <1>8. TipStaysShown'
    BY <1>1, <1>7 DEF TipStaysShown, Tip
  <1> QED
    BY <1>1, <1>3, <1>4, <1>6, <1>8

\* A new call targets a commit of main: the tip, or what an official run has
\* just published.
LEMMA CallStep ==
  ASSUME DeploymentInv, NEW d \in Deployments,
         Request(d) \/ \E r \in Runs : OfficialCall(d, r)
  PROVE  DeploymentTypes' /\ OneInside' /\ SiteInv' /\ TipStaysShown'
  <1>1. PICK t : /\ OnMain(t) /\ main' = main /\ site' = site
                 /\ target' = [target EXCEPT ![d] = t]
                 /\ stage[d] = "none" /\ stage' = [stage EXCEPT ![d] = "requested"]
    <2>1. CASE Request(d)
      BY <2>1, TipIsNewest
         DEF Request, Called, Moves, DeploymentInv, publicationVars
    <2>2. ASSUME NEW r \in Runs, OfficialCall(d, r)
          PROVE  /\ OnMain(<<r, outputs[r]>>) /\ main' = main /\ site' = site
                 /\ target' = [target EXCEPT ![d] = <<r, outputs[r]>>]
                 /\ stage[d] = "none" /\ stage' = [stage EXCEPT ![d] = "requested"]
      <3>1. phase[r] = "pages" /\ main' = main
        BY <2>2 DEF OfficialCall, HandOff, Goes
      <3>2. OnMain(<<r, outputs[r]>>)
        BY <3>1 DEF DeploymentInv, PublicationInv, ProgressInv, OutputsAreOnMain
      <3> QED
        BY <2>2, <3>1, <3>2 DEF OfficialCall, Called, Moves
    <2> QED
      BY <2>1, <2>2
  <1>2. t \in Commit
    BY <1>1 DEF OnMain, DeploymentInv, PublicationInv, PublicationTypeOK
  <1>3. caller' \in [Deployments -> Runs \cup {NoRun}]
    BY DEF Request, OfficialCall, DeploymentInv, DeploymentTypes
  <1>4. stage' \in [Deployments -> Stages]
    BY <1>1 DEF DeploymentInv, DeploymentTypes, Stages
  <1>5. DeploymentTypes'
    BY <1>1, <1>2, <1>3, <1>4 DEF DeploymentInv, DeploymentTypes
  <1>6. OneInside'
    BY <1>1, InsideKept DEF DeploymentInv, DeploymentTypes, Inside
  <1>7. \A e \in Deployments : target'[e] = target[e] \/ OnMain(target[e])'
    BY <1>1 DEF DeploymentInv, DeploymentTypes, OnMain
  <1>8. \A e \in Deployments : stage'[e] \in {"verified", "deployed"} =>
          stage'[e] = stage[e] /\ target'[e] = target[e]
    BY <1>1 DEF DeploymentInv, DeploymentTypes
  <1> QED
    BY <1>1, <1>5, <1>6, <1>7, <1>8, SiteKept

\* The other steps of a deployment only move it, outside or into the group.
LEMMA QueueingStep ==
  ASSUME DeploymentInv, NEW d \in Deployments,
         Redeploy(d) \/ Build(d) \/ Queue(d) \/ Enter(d) \/ Break(d)
  PROVE  DeploymentTypes' /\ OneInside' /\ SiteInv' /\ TipStaysShown'
  <1>1. main' = main /\ target' = target /\ caller' = caller /\ site' = site
    BY DEF Redeploy, Build, Queue, Enter, Break, HandOff, publicationVars
  <1>2. /\ stage' \in [Deployments -> Stages]
        /\ \A e \in Deployments \ {d} :
             stage'[e] = stage[e] \/ (stage[e] = "waiting" /\ stage'[e] = "cancelled")
        /\ stage'[d] \notin {"verified", "deployed"}
        /\ stage'[d] \in Inside => GroupFree(d)
    BY DEF Redeploy, Build, Queue, Enter, Break, Moves, DeploymentInv,
       DeploymentTypes, Stages, Inside, Over
  <1>3. DeploymentTypes'
    BY <1>1, <1>2 DEF DeploymentInv, DeploymentTypes
  <1>4. OneInside'
    BY <1>2, InsideKept DEF DeploymentInv, DeploymentTypes, Inside
  <1>5. \A e \in Deployments : stage'[e] \in {"verified", "deployed"} =>
          stage'[e] = stage[e] /\ target'[e] = target[e]
    BY <1>1, <1>2
  <1> QED
    BY <1>1, <1>3, <1>4, <1>5, SiteKept

LEMMA DeploymentStepKeeps ==
  ASSUME DeploymentInv, [Next]_vars
  PROVE  DeploymentInv'
  <1>1. [PublicationNext]_publicationVars
    BY StepsOfPublication DEF DeploymentInv
  <1>2. PublicationInv'
    BY <1>1, PublicationStepKeeps DEF DeploymentInv
  <1>3. CASE UNCHANGED <<deploymentVars, site>>
    <2>1. stage' = stage /\ target' = target /\ caller' = caller /\ site' = site
      BY <1>3 DEF deploymentVars
    <2>2. DeploymentTypes' /\ OneInside'
      BY <2>1 DEF DeploymentInv, DeploymentTypes, OneInside
    <2>3. SiteInv' /\ TipStaysShown'
      BY <1>1, <2>1, MainGrows, SiteKept DEF DeploymentInv
    <2> QED
      BY <1>2, <2>2, <2>3 DEF DeploymentInv
  <1>4. ASSUME NEW d \in Deployments, Request(d) \/ \E r \in Runs : OfficialCall(d, r)
        PROVE  DeploymentInv'
    BY <1>2, <1>4, CallStep DEF DeploymentInv
  <1>5. ASSUME NEW d \in Deployments,
               Redeploy(d) \/ Build(d) \/ Queue(d) \/ Enter(d) \/ Break(d)
        PROVE  DeploymentInv'
    BY <1>2, <1>5, QueueingStep DEF DeploymentInv
  <1>6. ASSUME NEW d \in Deployments, Verify(d) PROVE DeploymentInv'
    <2>1. DeploymentTypes'
      BY <1>6 DEF Verify, Moves, DeploymentInv, DeploymentTypes, Stages, Inside, Over
    <2> QED
      BY <1>2, <1>6, <2>1, VerifyStep DEF DeploymentInv
  <1>7. ASSUME NEW d \in Deployments, Deploy(d) PROVE DeploymentInv'
    <2>1. DeploymentTypes'
      BY <1>7 DEF Deploy, Moves, DeploymentInv, DeploymentTypes, Stages, Over
    <2> QED
      BY <1>2, <1>7, <2>1, DeployStep DEF DeploymentInv
  <1> QED
    BY <1>3, <1>4, <1>5, <1>6, <1>7
       DEF Next, PublicationStep, FinishRun, DeploymentStep, vars

LEMMA DeploymentStart == Init => DeploymentInv
  <1> SUFFICES ASSUME Init PROVE DeploymentInv
    OBVIOUS
  <1>1. PublicationInv /\ main = <<Root>>
    BY PublicationStart DEF Init, PublicationInit
  <1>2. Root \in Commit /\ OnMain(Root) /\ Tip = Root
    BY <1>1, PublicationAssumption DEF Commit, OnMain, Tip
  <1>3. DeploymentTypes
    BY <1>2 DEF Init, DeploymentTypes, Stages
  <1>4. OneInside
    BY DEF Init, OneInside, Inside
  <1>5. SiteInv /\ TipStaysShown
    BY <1>2 DEF Init, SiteInv, TipStaysShown
  <1> QED
    BY <1>1, <1>3, <1>4, <1>5 DEF DeploymentInv

\* At any time one deployment at most is between its last check and its end,
\* and what it has verified is not older than what the site shows.
THEOREM DeploymentCorrect == Spec => []DeploymentInv
  <1>1. DeploymentInv /\ [Next]_vars => DeploymentInv'
    BY DeploymentStepKeeps
  <1> QED
    BY <1>1, DeploymentStart, PTL DEF Spec

\* Once main's tip has been deployed the site shows it until main moves.
THEOREM ShownTipStays == Spec => []TipStaysShown
  <1>1. DeploymentInv => TipStaysShown
    BY DEF DeploymentInv
  <1> QED
    BY <1>1, DeploymentCorrect, PTL

\* Every variable has its type, the built artifacts and the retries included.
THEOREM DeploymentTypeCorrect == Spec => []TypeOK
  <1> DEFINE Counted == built \subseteq Deployments /\ retries \in 0 .. MaxRetries
  <1>1. Init => Counted
    BY DeploymentAssumption DEF Init
  <1>2. Counted /\ [Next]_vars => Counted'
    <2> SUFFICES ASSUME Counted, [Next]_vars PROVE Counted'
      OBVIOUS
    <2>1. CASE UNCHANGED <<built, retries>>
      BY <2>1
    <2>2. ASSUME NEW d \in Deployments, Redeploy(d) PROVE Counted'
      BY <2>2, DeploymentAssumption DEF Redeploy
    <2>3. ASSUME NEW d \in Deployments, Build(d) PROVE Counted'
      BY <2>3 DEF Build
    <2> QED
      BY <2>1, <2>2, <2>3
         DEF Next, PublicationStep, FinishRun, OfficialCall, Request, Queue,
         Enter, Verify, Deploy, Break, DeploymentStep, vars, deploymentVars
  <1>3. DeploymentInv /\ Counted => TypeOK
    BY DEF DeploymentInv, DeploymentTypes, PublicationInv, TypeOK
  <1>4. Spec => []Counted
    BY <1>1, <1>2, PTL DEF Spec
  <1> QED
    BY <1>3, <1>4, DeploymentCorrect, PTL

-------------------------------------------------------------------------------
(* The automation implements PublishedSite.                                *)

\* The position of a commit is unique, so Shown is the site's.
LEMMA ShownIs ==
  ASSUME Distinct, NEW i \in 1 .. Len(main), main[i] = site
  PROVE  Shown = i
  BY DEF Shown, Distinct

\* A step that leaves the site alone leaves its position alone.
LEMMA ShownKept ==
  ASSUME DeploymentInv, DeploymentInv', site' = site,
         \/ main' = main
         \/ \E c \in Commit : main' = Append(main, c)
  PROVE  Shown' = Shown
  <1>1. PICK i \in 1 .. Len(main) : main[i] = site
    BY DEF DeploymentInv, SiteInv, OnMain
  <1>2. Shown = i
    BY <1>1, ShownIs DEF DeploymentInv, PublicationInv
  <1>3. i \in 1 .. Len(main') /\ main'[i] = main[i]
    BY <1>1, Appended DEF DeploymentInv, PublicationInv, PublicationTypeOK
  <1>4. \A j \in 1 .. Len(main') : main'[j] = site' => j = i
    BY <1>1, <1>3 DEF DeploymentInv, PublicationInv, Distinct
  <1>5. Shown' = i
    BY <1>1, <1>3, <1>4 DEF Shown
  <1> QED
    BY <1>2, <1>5

\* A deployment moves the position forward or not at all.
LEMMA ShownMoves ==
  ASSUME DeploymentInv, DeploymentInv', NEW d \in Deployments, Deploy(d)
  PROVE  main' = main /\ Shown' \in Shown .. Len(main)
  <1>1. NotNewer(site, target[d]) /\ site' = target[d] /\ main' = main
    BY DeployStep
  <1>2. PICK i, j \in 1 .. Len(main) :
             i <= j /\ main[i] = site /\ main[j] = target[d]
    BY <1>1 DEF NotNewer
  <1>3. Shown = i
    BY <1>2, ShownIs DEF DeploymentInv, PublicationInv
  <1>4. Shown' = j
    <2>1. \A k \in 1 .. Len(main') : main'[k] = site' <=> k = j
      BY <1>1, <1>2 DEF DeploymentInv, PublicationInv, Distinct
    <2> QED
      BY <1>1, <1>2, <2>1 DEF Shown
  <1> QED
    BY <1>1, <1>2, <1>3, <1>4

\* Only Deploy moves the site.
LEMMA SiteMoves ==
  ASSUME [Next]_vars
  PROVE  site' = site \/ \E d \in Deployments : Deploy(d)
  BY DEF Next, PublicationStep, FinishRun, OfficialCall, Request, Redeploy,
     DeploymentStep, Build, Queue, Enter, Verify, Break, vars

LEMMA StepsOfPromise ==
  ASSUME DeploymentInv, DeploymentInv', [Next]_vars
  PROVE  [Promised!Extend \/ Promised!Show]_<<main, Shown>>
  <1>1. CASE site' = site
    <2>1. \/ main' = main
          \/ \E c \in Commit : main' = Append(main, c) /\ ~OnMain(c)
      BY StepsOfPublication, MainGrows DEF DeploymentInv
    <2>2. Shown' = Shown
      BY <1>1, <2>1, ShownKept
    <2> QED
      BY <2>1, <2>2 DEF Promised!Extend
  <1>2. ASSUME NEW d \in Deployments, Deploy(d)
        PROVE  Promised!Show
    BY <1>2, ShownMoves DEF Promised!Show
  <1> QED
    BY <1>1, <1>2, SiteMoves

\* Whatever is pushed, published, called, retried, refused or cancelled, main
\* only moves forward and so does the site.
THEOREM PromiseKept == Spec => ImplementsPublishedSite
  <1>1. Init => Promised!Init
    <2> SUFFICES ASSUME Init PROVE Promised!Init
      OBVIOUS
    <2>1. main = <<Root>> /\ site = Root /\ Distinct
      BY DeploymentStart DEF Init, PublicationInit, DeploymentInv, PublicationInv
    <2>2. Shown = 1
      BY <2>1, ShownIs
    <2> QED
      BY <2>1, <2>2 DEF Promised!Init
  <1>2. DeploymentInv /\ DeploymentInv' /\ [Next]_vars =>
          [Promised!Extend \/ Promised!Show]_<<main, Shown>>
    BY StepsOfPromise
  <1>3. Spec => []DeploymentInv
    BY DeploymentCorrect
  <1> QED
    BY <1>1, <1>2, <1>3, PTL DEF Spec, ImplementsPublishedSite, Promised!Spec

-------------------------------------------------------------------------------
(* The composition: what holds of the runs holds of the whole, and what the *)
(* deployments owe to it.                                                   *)

\* Deployments, retries and rerun pages jobs add nothing to what the runs do:
\* the composed system implements Publication, so all its theorems hold of it.
THEOREM PublicationImplemented == Spec => PublicationSpec
  <1>1. Init => PublicationInit
    BY DEF Init
  <1>2. DeploymentInv /\ [Next]_vars => [PublicationNext]_publicationVars
    BY StepsOfPublication DEF DeploymentInv
  <1> QED
    BY <1>1, <1>2, DeploymentCorrect, PTL DEF Spec, PublicationSpec

\* What the pages job of a run deploys is a publication of this run.
OfficialInv ==
  \A d \in Deployments :
    /\ stage[d] = "none" => caller[d] = NoRun
    /\ caller[d] # NoRun => \E n \in Attempts : target[d] = <<caller[d], n>>

LEMMA OfficialStep ==
  ASSUME DeploymentInv, OfficialInv, [Next]_vars
  PROVE  OfficialInv'
  <1>0. stage \in [Deployments -> Stages] /\ target \in [Deployments -> Commit]
        /\ caller \in [Deployments -> Runs \cup {NoRun}]
    BY DEF DeploymentInv, DeploymentTypes
  <1>1. CASE UNCHANGED <<stage, target, caller>>
    BY <1>1 DEF OfficialInv
  <1>2. ASSUME NEW d \in Deployments, Request(d) PROVE OfficialInv'
    <2>1. /\ stage[d] = "none" /\ stage' = [stage EXCEPT ![d] = "requested"]
          /\ target' = [target EXCEPT ![d] = Tip] /\ caller' = caller
      BY <1>2 DEF Request, Called, Moves
    <2> QED
      BY <1>0, <2>1 DEF OfficialInv
  <1>3. ASSUME NEW d \in Deployments, NEW r \in Runs, OfficialCall(d, r)
        PROVE  OfficialInv'
    <2>1. /\ stage[d] = "none" /\ stage' = [stage EXCEPT ![d] = "requested"]
          /\ target' = [target EXCEPT ![d] = <<r, outputs[r]>>]
          /\ caller' = [caller EXCEPT ![d] = r] /\ phase[r] = "pages"
      BY <1>3 DEF OfficialCall, HandOff, Goes, Called, Moves
    <2>2. outputs[r] \in Attempts
      <3>1. outputs[r] # 0 /\ outputs[r] \in 0 .. MaxAttempts
        BY <2>1 DEF DeploymentInv, PublicationInv, ProgressInv, PublicationTypeOK
      <3> QED
        BY <3>1, PublicationAssumption DEF Attempts
    <2> QED
      BY <1>0, <2>1, <2>2 DEF OfficialInv
  <1>4. ASSUME NEW d \in Deployments,
               \/ Redeploy(d) \/ DeploymentStep(d) \/ Break(d)
        PROVE  OfficialInv'
    <2>1. target' = target /\ caller' = caller
      BY <1>4 DEF Redeploy, DeploymentStep, Build, Queue, Enter, Verify, Deploy, Break
    <2>2. \A e \in Deployments : stage'[e] = "none" => stage[e] = "none"
      BY <1>0, <1>4 DEF Redeploy, DeploymentStep, Build, Queue, Enter, Verify, Deploy,
        Break, Moves
    <2> QED
      BY <2>1, <2>2 DEF OfficialInv
  <1> QED
    BY <1>1, <1>2, <1>3, <1>4
       DEF Next, PublicationStep, FinishRun, deploymentVars, vars

LEMMA OfficialCorrect == Spec => []OfficialInv
  <1>1. Init => OfficialInv
    BY DEF Init, OfficialInv
  <1>2. DeploymentInv /\ OfficialInv /\ [Next]_vars => OfficialInv'
    BY OfficialStep
  <1> QED
    BY <1>1, <1>2, DeploymentCorrect, PTL DEF Spec

\* The second check of pages_handoff.py, that an official target sits directly
\* on the commit its run measured, never stands in the way: a deployment is
\* authorized exactly while its target is the tip of main.
THEOREM TipIsAuthorized ==
  Spec => [](\A d \in Deployments : Authorized(d) <=> target[d] = Tip)
  <1>1. ASSUME DeploymentInv, OfficialInv, NEW d \in Deployments, target[d] = Tip
        PROVE  Authorized(d)
    <2>1. CASE caller[d] = NoRun
      BY <1>1, <2>1 DEF Authorized
    <2>2. CASE caller[d] # NoRun
      <3>1. PICK n \in Attempts : target[d] = <<caller[d], n>>
        BY <1>1, <2>2 DEF OfficialInv
      <3>2. caller[d] \in Runs
        BY <1>1, <2>2 DEF DeploymentInv, DeploymentTypes
      <3>3. Len(main) \in Nat /\ Len(main) >= 1
        BY <1>1, TipOnMain DEF DeploymentInv, PublicationInv, PublicationTypeOK
      <3>4. Len(main) \in 1 .. Len(main) /\ main[Len(main)] = <<caller[d], n>>
        BY <1>1, <3>1, <3>3 DEF Tip
      <3>5. Len(main) > 1 /\ main[Len(main) - 1] = source[caller[d]]
        BY <1>1, <3>2, <3>4 DEF DeploymentInv, PublicationInv, ResultsExtendTheirSource
      <3> QED
        BY <1>1, <3>5 DEF Authorized
    <2> QED
      BY <2>1, <2>2
  <1>2. DeploymentInv /\ OfficialInv =>
          (\A d \in Deployments : Authorized(d) <=> target[d] = Tip)
    BY <1>1 DEF Authorized
  <1> QED
    BY <1>2, DeploymentCorrect, OfficialCorrect, PTL

\* From the measurement to the reader: a publication the site shows was measured
\* by the attempt it is named after and is the child of the commit that was
\* measured, whatever was rerun, cancelled or retried on the way.
THEOREM SiteShowsMeasured ==
  Spec => [](\A r \in Runs, n \in Attempts :
               site = <<r, n>> =>
                 /\ n \in artifacts[r]
                 /\ \E i \in 2 .. Len(main) : main[i] = site /\ main[i - 1] = source[r])
  <1>1. DeploymentInv =>
          \A r \in Runs, n \in Attempts :
            site = <<r, n>> =>
              /\ n \in artifacts[r]
              /\ \E i \in 2 .. Len(main) : main[i] = site /\ main[i - 1] = source[r]
    <2> SUFFICES ASSUME DeploymentInv, NEW r \in Runs, NEW n \in Attempts,
                        site = <<r, n>>
                 PROVE  /\ n \in artifacts[r]
                        /\ \E i \in 2 .. Len(main) :
                             main[i] = site /\ main[i - 1] = source[r]
      OBVIOUS
    <2>1. OnMain(<<r, n>>)
      BY DEF DeploymentInv, SiteInv
    <2>2. n \in artifacts[r]
      BY <2>1 DEF DeploymentInv, PublicationInv, PublishedByItsMeasurement
    <2>3. PICK i \in 1 .. Len(main) : main[i] = <<r, n>>
      BY <2>1 DEF OnMain
    <2>4. i > 1 /\ main[i - 1] = source[r]
      BY <2>3 DEF DeploymentInv, PublicationInv, ResultsExtendTheirSource
    <2> QED
      BY <2>2, <2>3, <2>4
  <1> QED
    BY <1>1, DeploymentCorrect, PTL

\* The site changes only to the target of the deployment that ends, and the
\* deployment of an official run shows a publication of this run.
THEOREM DeployedIsOwn ==
  Spec => [][\A d \in Deployments :
               stage[d] = "verified" /\ stage'[d] = "deployed" =>
                 /\ site' = target[d]
                 /\ caller[d] # NoRun => \E n \in Attempts : site' = <<caller[d], n>>]_vars
  <1>1. ASSUME DeploymentInv, OfficialInv, [Next]_vars, NEW d \in Deployments,
               stage[d] = "verified", stage'[d] = "deployed"
        PROVE  /\ site' = target[d]
               /\ caller[d] # NoRun => \E n \in Attempts : site' = <<caller[d], n>>
    <2>1. stage \in [Deployments -> Stages]
      BY <1>1 DEF DeploymentInv, DeploymentTypes
    <2>2. \E e \in Deployments : Deploy(e)
      <3>1. CASE UNCHANGED stage
        BY <1>1, <3>1
      <3>2. ASSUME NEW e \in Deployments,
                   \/ Request(e) \/ Redeploy(e) \/ Build(e) \/ Queue(e) \/ Enter(e)
                   \/ Verify(e) \/ Break(e) \/ \E r \in Runs : OfficialCall(e, r)
            PROVE  FALSE
        BY <1>1, <2>1, <3>2 DEF Request, Redeploy, Build, Queue, Enter, Verify, Break,
          OfficialCall, Called, Moves
      <3> QED
        BY <1>1, <3>1, <3>2
           DEF Next, PublicationStep, FinishRun, DeploymentStep, deploymentVars, vars
    <2>3. PICK e \in Deployments : Deploy(e)
      BY <2>2
    <2>4. site' = target[d]
      BY <1>1, <2>1, <2>3 DEF Deploy, Moves
    <2> QED
      BY <1>1, <2>4 DEF OfficialInv
  <1>2. DeploymentInv /\ OfficialInv /\ [Next]_vars =>
          [\A d \in Deployments :
             stage[d] = "verified" /\ stage'[d] = "deployed" =>
               /\ site' = target[d]
               /\ caller[d] # NoRun => \E n \in Attempts : site' = <<caller[d], n>>]_vars
    BY <1>1
  <1> QED
    BY <1>2, DeploymentCorrect, OfficialCorrect, PTL DEF Spec

-------------------------------------------------------------------------------
(* The concurrency group.                                                   *)

OneWaiting ==
  \A d, e \in Deployments : stage[d] = "waiting" /\ stage[e] = "waiting" => d = e

\* What has come to the group has been built, so it was authorized at that time.
GroupInv ==
  /\ OneWaiting
  /\ \A d \in Deployments :
       stage[d] \in {"built", "waiting", "deployed"} \cup Inside => d \in built

LEMMA GroupStep ==
  ASSUME DeploymentTypes, GroupInv, [Next]_vars
  PROVE  GroupInv'
  <1>0. stage \in [Deployments -> Stages]
    BY DEF DeploymentTypes
  <1>1. CASE UNCHANGED deploymentVars
    BY <1>1 DEF GroupInv, OneWaiting, deploymentVars
  <1>2. ASSUME NEW d \in Deployments,
               \/ Request(d) \/ Redeploy(d) \/ Enter(d) \/ Verify(d) \/ Deploy(d)
               \/ Break(d) \/ \E r \in Runs : OfficialCall(d, r)
        PROVE  GroupInv'
    <2>1. /\ built' = built /\ stage'[d] # "waiting"
          /\ stage'[d] \in {"built", "deployed"} \cup Inside => d \in built
          /\ \A e \in Deployments \ {d} : stage'[e] = stage[e]
      BY <1>0, <1>2 DEF Request, Redeploy, Enter, Verify, Deploy, Break, OfficialCall,
        Called, Moves, GroupInv, Inside
    <2> QED
      BY <2>1 DEF GroupInv, OneWaiting
  <1>3. ASSUME NEW d \in Deployments, Build(d)
        PROVE  GroupInv'
    <2>1. /\ built \subseteq built' /\ stage'[d] \in {"built", "refused"}
          /\ stage'[d] = "built" => d \in built'
          /\ \A e \in Deployments \ {d} : stage'[e] = stage[e]
      BY <1>0, <1>3 DEF Build, Moves
    <2> QED
      BY <2>1 DEF GroupInv, OneWaiting, Inside
  <1>4. ASSUME NEW d \in Deployments, Queue(d)
        PROVE  GroupInv'
    <2>1. stage[d] = "built" /\ d \in built /\ built' = built
      BY <1>4 DEF Queue, Moves, GroupInv
    <2>2. CASE NobodyWaits /\ stage' = [stage EXCEPT ![d] = "holding"]
      BY <1>0, <2>1, <2>2 DEF NobodyWaits, GroupInv, OneWaiting, Inside
    <2>3. CASE stage' = [e \in Deployments |-> IF e = d THEN "waiting"
                                   ELSE IF stage[e] = "waiting" THEN "cancelled"
                                   ELSE stage[e]]
      <3>1. /\ stage'[d] = "waiting"
            /\ \A e \in Deployments \ {d} :
                 stage'[e] # "waiting" /\ stage'[e] \in {stage[e], "cancelled"}
        BY <2>3
      <3> QED
        BY <2>1, <3>1 DEF GroupInv, OneWaiting, Inside
    <2> QED
      BY <1>4, <2>2, <2>3 DEF Queue, Moves
  <1> QED
    BY <1>1, <1>2, <1>3, <1>4
       DEF Next, PublicationStep, FinishRun, DeploymentStep, vars, deploymentVars

LEMMA GroupCorrect == Spec => []GroupInv
  <1>1. Init => GroupInv
    BY DEF Init, GroupInv, OneWaiting, Inside
  <1>2. DeploymentInv /\ GroupInv /\ [Next]_vars => GroupInv'
    BY GroupStep DEF DeploymentInv
  <1> QED
    BY <1>1, <1>2, DeploymentCorrect, PTL DEF Spec

\* Manual, pushed and official deployments, retries and reruns included, share
\* one place in the group and one in front of it (pages-deploy.yml).
THEOREM GroupIsExclusive == Spec => [](OneInside /\ OneWaiting)
  <1>1. DeploymentInv /\ GroupInv => OneInside /\ OneWaiting
    BY DEF DeploymentInv, GroupInv
  <1> QED
    BY <1>1, DeploymentCorrect, GroupCorrect, PTL

\* Only a deployment that waits while another holds the group is cancelled, and
\* only by one that takes its place and has passed the check of its own build:
\* one that was refused there, or never was main's tip, cancels nothing.  That a deployment of an older
\* commit, built in its time, cancels the tip's is not excluded.
THEOREM CancelledByEligible ==
  Spec => [][\A d \in Deployments :
               stage[d] # "cancelled" /\ stage'[d] = "cancelled" =>
                 /\ stage[d] = "waiting"
                 /\ \E x \in Deployments : stage[x] \in Inside
                 /\ \E e \in built \ {d} : stage[e] = "built" /\ stage'[e] = "waiting"]_vars
  <1>1. ASSUME DeploymentTypes, GroupInv, [Next]_vars, NEW d \in Deployments,
               stage[d] # "cancelled", stage'[d] = "cancelled"
        PROVE  /\ stage[d] = "waiting"
               /\ \E x \in Deployments : stage[x] \in Inside
               /\ \E e \in built \ {d} : stage[e] = "built" /\ stage'[e] = "waiting"
    <2>0. stage \in [Deployments -> Stages]
      BY <1>1 DEF DeploymentTypes
    <2>1. CASE UNCHANGED stage
      BY <1>1, <2>1
    <2>2. ASSUME NEW e \in Deployments,
                 \/ Request(e) \/ Redeploy(e) \/ Build(e) \/ Enter(e) \/ Verify(e)
                 \/ Deploy(e) \/ Break(e) \/ \E r \in Runs : OfficialCall(e, r)
          PROVE  FALSE
      BY <1>1, <2>0, <2>2 DEF Request, Redeploy, Build, Enter, Verify, Deploy, Break,
        OfficialCall, Called, Moves
    <2>3. PICK e \in Deployments : Queue(e)
      BY <1>1, <2>1, <2>2
         DEF Next, PublicationStep, FinishRun, DeploymentStep, deploymentVars, vars
    <2>4. stage' # [stage EXCEPT ![e] = "holding"]
      BY <1>1, <2>0
    <2>5. /\ stage[e] = "built" /\ ~GroupFree(e)
          /\ stage' = [x \in Deployments |-> IF x = e THEN "waiting"
                                 ELSE IF stage[x] = "waiting" THEN "cancelled"
                                 ELSE stage[x]]
      BY <2>3, <2>4 DEF Queue, Moves
    <2>6. stage'[e] = "waiting" /\ e # d /\ stage[d] = "waiting"
      BY <1>1, <2>5
    <2>7. e \in built
      BY <1>1, <2>5 DEF GroupInv
    <2> QED
      BY <2>5, <2>6, <2>7 DEF GroupFree
  <1>2. DeploymentInv /\ GroupInv /\ [Next]_vars =>
          [\A d \in Deployments :
             stage[d] # "cancelled" /\ stage'[d] = "cancelled" =>
               /\ stage[d] = "waiting"
               /\ \E x \in Deployments : stage[x] \in Inside
               /\ \E e \in built \ {d} : stage[e] = "built" /\ stage'[e] = "waiting"]_vars
    BY <1>1 DEF DeploymentInv
  <1> QED
    BY <1>2, DeploymentCorrect, GroupCorrect, PTL DEF Spec

-------------------------------------------------------------------------------
(* The limit on history files.                                              *)

Publications == {i \in 1 .. Len(main) : main[i] \in Result}

\* There are no more publications than runs.
LEMMA PublicationsBounded ==
  ASSUME IsFiniteSet(Runs), PublicationInv
  PROVE  Cardinality(Publications) <= Cardinality(Runs)
  <1> DEFINE f == [i \in Publications |-> main[i][1]]
  <1>1. \A i \in Publications :
           main[i] \in Runs \X Attempts /\ main[i] = <<main[i][1], main[i][2]>>
    BY DEF Publications, Result
  <1>2. f \in [Publications -> Runs]
    BY <1>1
  <1>3. \A i, j \in Publications : f[i] = f[j] => i = j
    <2> SUFFICES ASSUME NEW i \in Publications, NEW j \in Publications, f[i] = f[j]
                 PROVE  i = j
      OBVIOUS
    <2> DEFINE r == main[i][1]
    <2>1. /\ r \in Runs /\ main[i][2] \in Attempts /\ main[j][2] \in Attempts
          /\ main[i] = <<r, main[i][2]>> /\ main[j] = <<r, main[j][2]>>
      BY <1>1
    <2>2. i \in 1 .. Len(main) /\ j \in 1 .. Len(main)
      BY DEF Publications
    <2> HIDE DEF r
    <2> QED
      BY <2>1, <2>2, OnlyPublication DEF OnePublicationPerRun
  <1> HIDE DEF f
  <1>4. f \in Injection(Publications, Runs)
    BY <1>2, <1>3 DEF Injection, IsInjective
  <1> QED
    BY <1>4, FS_Injection

\* docs/AUTOMATION.md's recovery by dispatching the Pages workflow works as long
\* as there have not been more official runs than history files are allowed:
\* build_site's limit is the only thing in its way.
THEOREM RecoveryWhileHistoryFits ==
  ASSUME IsFiniteSet(Runs), Cardinality(Runs) <= MaxHistory
  PROVE  Spec => []PublishedTipIsBuildable
  <1>1. DeploymentInv => PublishedTipIsBuildable
    <2> SUFFICES ASSUME DeploymentInv PROVE HistoryFits
      BY DEF PublishedTipIsBuildable
    <2>1. Cardinality(Publications) <= Cardinality(Runs)
      BY PublicationsBounded DEF DeploymentInv
    <2>2. Cardinality(Runs) \in Nat
      BY FS_CardinalityType
    <2>3. Cardinality(Publications) \in Nat
      <3>1. Publications \subseteq 1 .. Len(main) /\ Len(main) \in Nat
        BY TipOnMain DEF Publications, DeploymentInv, PublicationInv, PublicationTypeOK
      <3> QED
        <4>1. IsFiniteSet(1 .. Len(main))
          BY <3>1, FS_Interval
        <4>2. IsFiniteSet(Publications)
          BY <3>1, <4>1, FS_Subset
        <4> QED
          BY <4>2, FS_CardinalityType
    <2> QED
      BY <2>1, <2>2, <2>3, DeploymentAssumption DEF HistoryFits, Publications
  <1> QED
    BY <1>1, DeploymentCorrect, PTL
===============================================================================
