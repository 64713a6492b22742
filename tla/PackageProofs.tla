---------------------------- MODULE PackageProofs ----------------------------
(***************************************************************************)
(* Proofs about Package for any requests, packages, manifests and bounds:  *)
(* what is staged is removed, what is mounted is what was uploaded, and no *)
(* two units of a deploy fall on one Function.                             *)
(***************************************************************************)
EXTENDS Package, UnitsProofs, TLAPS

-----------------------------------------------------------------------------
(* Units run the configurations they are made of.                          *)

\* A unit of its own runs its configuration.
LEMMA LegacyRuns ==
  ASSUME NEW tree, IsTree(tree), NEW c \in FoundConfigs(tree), Deployable(tree, c),
         NEW u, NEW deploymentID, UnitOf(u, tree, deploymentID, c)
  PROVE  Runs(u, tree, c)
<1> DEFINE root == SourceRoot(tree, c)
           config == tree[c]
<1>1. /\ u.language = config.language /\ u.entrypoint = c
      /\ u.files = SourceFiles(tree, c)
  BY DEF UnitOf
<1>2. u.files[u.entrypoint] = Rewritten(tree, c)
  BY <1>1 DEF SourceFiles
<1>3. config = Config(config.language, config.path, config.scripts, config.extras)
  <2>1. c \in DOMAIN tree /\ IsConfig(config)
    BY DEF FoundConfigs, Walked, Regular, Deployable
  <2> QED
    BY <2>1 DEF IsTree
<1>4. /\ Rewritten(tree, c).language = config.language
      /\ Rewritten(tree, c).extras = config.extras
      /\ Rewritten(tree, c).path = root
      /\ Rewritten(tree, c).scripts = {Resolve(<<>>, s) : s \in config.scripts}
  <2> DEFINE scripts == {Resolve(<<>>, s) : s \in config.scripts}
  <2>1. Rewritten(tree, c) = [config EXCEPT !.path = root, !.scripts = scripts,
                                            !.written = "by the server"]
    BY DEF Rewritten
  <2> HIDE DEF config, root, scripts
  <2>2. config = [language |-> config.language, path |-> config.path,
                  scripts |-> config.scripts, extras |-> config.extras, written |-> "by hand"]
    BY <1>3 DEF Config
  <2> QED
    BY <2>1, <2>2 DEF scripts, config
<1>5. Carries(u.files, tree, c)
  BY <1>1, SourcesCarried
<1> DEFINE entry == u.files[u.entrypoint]
<1>6. /\ entry.language = config.language /\ u.language = config.language
      /\ entry.extras = config.extras
      /\ \A s \in config.scripts : \E t \in entry.scripts : entry.path \o t = ScriptPath(tree, c, s)
  <2>1. /\ entry.language = config.language /\ u.language = config.language
        /\ entry.extras = config.extras /\ entry.path = root
        /\ entry.scripts = {Resolve(<<>>, s) : s \in config.scripts}
    BY <1>1, <1>2, <1>4
  <2>2. \A s \in config.scripts : root \o Resolve(<<>>, s) = ScriptPath(tree, c, s)
    BY DEF ScriptPath
  <2> HIDE DEF entry, config, root
  <2> QED
    BY <2>1, <2>2
<1> QED
  BY <1>5, <1>6, Zenon DEF Runs, Carries

\* A merged unit runs the configurations of all the units it is made of.
LEMMA MergedRuns ==
  ASSUME NEW tree, IsTree(tree), \A c \in FoundConfigs(tree) : Deployable(tree, c),
         NEW u, NEW deploymentID, NEW legacy, NEW pod, NEW group,
         MergedFrom(u, deploymentID, legacy, pod, group),
         PlannedConfig[pod.language][pod.id] \in ConfigNames,
         NEW v \in group, NEW c \in FoundConfigs(tree), UnitOf(v, tree, deploymentID, c)
  PROVE  Runs(u, tree, c)
<1> DEFINE entrypoint == <<PlannedConfig[pod.language][pod.id]>>
           scripts == UNION {w.scripts : w \in group}
           extras == (CHOOSE w \in group : TRUE).extras
           config == [Config(pod.language, <<>>, scripts, extras)
                         EXCEPT !.written = "by the server"]
           entry == u.files[u.entrypoint]
<1>1. /\ u.language = pod.language /\ u.entrypoint = entrypoint
      /\ u.files[entrypoint] = config
  <2> DEFINE paths == {entrypoint} \cup UNION {DOMAIN w.files : w \in group}
             Content(p) == IF p = entrypoint THEN config
                           ELSE (CHOOSE w \in group : p \in DOMAIN w.files).files[p]
             files == [p \in paths |-> Content(p)]
  <2>1. files[entrypoint] = config
    <3> HIDE DEF entrypoint, config
    <3> QED OBVIOUS
  <2> HIDE DEF entrypoint, config, scripts, extras, files, paths, Content
  <2>2. u = [name |-> PlannedName(deploymentID, Letters[pod.language], pod.id),
             language |-> pod.language,
             entrypoint |-> entrypoint,
             files |-> files,
             scripts |-> scripts,
             extras |-> extras]
    BY DEF MergedFrom, Merged, entrypoint, config, scripts, extras, files, paths, Content
  <2> QED
    BY <2>1, <2>2
<1>2. /\ config.language = pod.language /\ config.path = <<>>
      /\ config.scripts = scripts /\ config.extras = extras
  <2> HIDE DEF scripts, extras
  <2> QED
    BY DEF Config
<1>3. pod.language = tree[c].language /\ extras = tree[c].extras
  <2>1. v.language = pod.language /\ v.language = tree[c].language /\ v.extras = tree[c].extras
    BY DEF MergedFrom, UnitOf
  <2>2. Agree(group)
    BY DEF MergedFrom
  <2>3. (CHOOSE w \in group : TRUE) \in group
    OBVIOUS
  <2>4. extras = v.extras
    BY <2>2, <2>3 DEF Agree
  <2> HIDE DEF extras
  <2> QED
    BY <2>1, <2>4
<1>4. \A s \in tree[c].scripts :
         /\ ScriptPath(tree, c, s) \in scripts
         /\ <<>> \o ScriptPath(tree, c, s) = ScriptPath(tree, c, s)
  <2> TAKE s \in tree[c].scripts
  <2>1. ScriptPath(tree, c, s) \in v.scripts
    BY DEF UnitOf
  <2>2. ScriptPath(tree, c, s) \in Regular(tree)
    BY DEF Deployable
  <2>3. ScriptPath(tree, c, s) \in Seq(STRING)
    BY <2>2 DEF Regular, IsTree
  <2> QED
    BY <2>1, <2>3, ConcatEmptySeq
<1>5. Carries(u.files, tree, c)
  <2>1. v.files = SourceFiles(tree, c)
    BY DEF UnitOf
  <2> QED
    BY <2>1, MergedCarries
<1>6. /\ entry.language = tree[c].language /\ u.language = tree[c].language
      /\ entry.extras = tree[c].extras
      /\ \A s \in tree[c].scripts :
            \E t \in entry.scripts : entry.path \o t = ScriptPath(tree, c, s)
  <2>1. entry = config
    BY <1>1
  <2> HIDE DEF entry, config, scripts, extras
  <2> QED
    BY <1>1, <1>2, <1>3, <1>4, <2>1
<1> QED
  BY <1>5, <1>6, Zenon DEF Runs, Carries

\* All configurations are run, and no script that none of them names.
AllRun(set, tree) ==
    /\ \A c \in FoundConfigs(tree) : \E u \in set : Runs(u, tree, c)
    /\ \A u \in set : \A s \in u.scripts :
          \E c \in FoundConfigs(tree) :
              /\ tree[c].language = u.language
              /\ s \in {ScriptPath(tree, c, t) : t \in tree[c].scripts}

LEMMA LegacyAllRun ==
  ASSUME NEW tree, IsTree(tree), NEW deploymentID, LegacyUnits(tree, deploymentID) # NoUnits
  PROVE  AllRun(LegacyUnits(tree, deploymentID), tree)
<1> DEFINE legacy == LegacyUnits(tree, deploymentID)
<1>1. /\ \A c \in FoundConfigs(tree) :
            Deployable(tree, c) /\ \E u \in legacy : UnitOf(u, tree, deploymentID, c)
      /\ \A u \in legacy : \E c \in FoundConfigs(tree) : UnitOf(u, tree, deploymentID, c)
  BY LegacyUnitsOf DEF IsTree
<1> HIDE DEF legacy
<1>2. \A c \in FoundConfigs(tree) : \E u \in legacy : Runs(u, tree, c)
  BY <1>1, LegacyRuns
<1>3. ASSUME NEW u \in legacy, NEW s \in u.scripts
      PROVE  \E c \in FoundConfigs(tree) :
                 /\ tree[c].language = u.language
                 /\ s \in {ScriptPath(tree, c, t) : t \in tree[c].scripts}
  BY <1>1 DEF UnitOf
<1> QED
  BY <1>2, <1>3 DEF AllRun, legacy

\* Every planned unit has the name of a configuration for its entrypoint.
Numbered == \A l \in Eligible, n \in Nat : PlannedConfig[l][n] \in ConfigNames

LEMMA PlannedAllRun ==
  ASSUME Numbered, NEW tree, IsTree(tree), NEW deploymentID,
         LegacyUnits(tree, deploymentID) # NoUnits,
         NEW manifest, ValidManifest(tree, manifest),
         PlannedUnits(deploymentID, LegacyUnits(tree, deploymentID), manifest) # NoUnits
  PROVE  AllRun(PlannedUnits(deploymentID, LegacyUnits(tree, deploymentID), manifest), tree)
<1> DEFINE legacy == LegacyUnits(tree, deploymentID)
           result == PlannedUnits(deploymentID, legacy, manifest)
           From(u, pod, group) == MergedFrom(u, deploymentID, legacy, pod, group)
<1>1. /\ \A c \in FoundConfigs(tree) :
            Deployable(tree, c) /\ \E u \in legacy : UnitOf(u, tree, deploymentID, c)
      /\ \A u \in legacy : \E c \in FoundConfigs(tree) : UnitOf(u, tree, deploymentID, c)
  BY LegacyUnitsOf DEF IsTree
<1>2. /\ \A u \in result : u \in legacy \/ \E pod, group : From(u, pod, group)
      /\ \A v \in legacy :
            v \in result \/ \E u \in result : \E pod, group : v \in group /\ From(u, pod, group)
  BY PlannedUnitsOf
<1>3. AllRun(legacy, tree)
  BY LegacyAllRun
<1> HIDE DEF legacy, result
<1>4. ASSUME NEW c \in FoundConfigs(tree)
      PROVE  \E u \in result : Runs(u, tree, c)
  <2>1. PICK v \in legacy : UnitOf(v, tree, deploymentID, c)
    BY <1>1
  <2>2. CASE v \in result
    BY <1>1, <2>1, <2>2, LegacyRuns
  <2>3. CASE \E u \in result : \E pod, group : v \in group /\ From(u, pod, group)
    <3>1. PICK u \in result : \E pod, group : v \in group /\ From(u, pod, group)
      BY <2>3
    <3>2. PICK pod, group : v \in group /\ From(u, pod, group)
      BY <3>1
    <3>3. PlannedConfig[pod.language][pod.id] \in ConfigNames
      BY <3>2 DEF MergedFrom, Numbered
    <3> QED
      BY <1>1, <2>1, <3>2, <3>3, MergedRuns
  <2> QED
    BY <1>2, <2>1, <2>2, <2>3
<1>5. ASSUME NEW u \in result, NEW s \in u.scripts
      PROVE  \E c \in FoundConfigs(tree) :
                 /\ tree[c].language = u.language
                 /\ s \in {ScriptPath(tree, c, t) : t \in tree[c].scripts}
  <2>1. CASE u \in legacy
    BY <1>3, <2>1 DEF AllRun
  <2>2. CASE \E pod, group : From(u, pod, group)
    <3>1. PICK pod, group : From(u, pod, group)
      BY <2>2
    <3>2. u.language = pod.language /\ u.scripts = UNION {w.scripts : w \in group}
      BY <3>1 DEF MergedFrom, Merged
    <3>3. PICK v \in group : s \in v.scripts
      BY <3>2
    <3>4. v \in legacy /\ v.language = u.language
      BY <3>1, <3>2 DEF MergedFrom
    <3> QED
      BY <1>3, <3>3, <3>4 DEF AllRun
  <2> QED
    BY <1>2, <2>1, <2>2
<1> QED
  BY <1>4, <1>5 DEF AllRun, legacy, result

-----------------------------------------------------------------------------
(* The invariant.                                                          *)

Shape == DOMAIN pc = Req /\ DOMAIN input = Req /\ DOMAIN id = Req /\ DOMAIN units = Req

\* What is on disk at each point of a request, so that whatever way it ends the
\* cleanup of that way removes all of it.
StageInv(r) ==
    /\ pc[r] # "new" => input[r] \in Inputs[r]
    /\ pc[r] \notin {"planning", "held planning", "lost"} => <<r, "plan">> \notin dirs
    /\ pc[r] \in {"new", "acknowledging", "deleting", "succeeded", "rejected"} =>
          <<r, "staged">> \notin dirs
    /\ pc[r] \in {"fetching", "held fetching"} =>
          <<r, "staged">> \in dirs /\ input[r].kind # "path"
    /\ pc[r] \in {"building", "inspecting", "planning", "held planning"} => SourceDir(r) \in dirs
    /\ pc[r] # "new" /\ input[r].kind = "path" => <<r, "path">> \in dirs

\* Units are functions all along, and valid when they are applied.
UnitsInv(r) ==
    /\ units[r] # NoUnits => Well(units[r])
    /\ pc[r] \in Locking => units[r] # NoUnits
    /\ pc[r] = "applying" => ValidUnits(units[r])

\* Whoever has units has a name, and the units have names made from it.
NameInv(r) ==
    /\ id[r] = <<>> \/ IsName(id[r])
    /\ pc[r] = "new" => units[r] = NoUnits
    /\ pc[r] \in {"fetching", "held fetching"} /\ input[r].kind # "list" => IsName(id[r])
    /\ pc[r] \in {"building"} \cup Locking => IsName(id[r])
    /\ units[r] # NoUnits => IsName(id[r]) /\ \A u \in units[r] : HasOwnName(u, id[r])

\* What is planned from are the configured units, and what is applied runs the
\* package, whether a plan was made or not.
PlanInv(r) ==
    /\ pc[r] \in {"inspecting", "planning", "held planning"} =>
          units[r] = LegacyUnits(input[r].tree, id[r])
    /\ pc[r] \in {"validating", "applying"} /\ Numbered => AllRun(units[r], input[r].tree)

RequestInv(r) == StageInv(r) /\ UnitsInv(r) /\ NameInv(r) /\ PlanInv(r)

IInv == Shape /\ \A r \in Req : RequestInv(r)

\* What a step of r leaves alone: every other request and its directories.
Others(r) ==
    \A q \in Req \ {r} :
        /\ pc'[q] = pc[q] /\ input'[q] = input[q] /\ id'[q] = id[q] /\ units'[q] = units[q]
        /\ \A k \in {"staged", "plan", "path"} : <<q, k>> \in dirs' <=> <<q, k>> \in dirs

LEMMA InitIInv == Init => IInv
BY DEF Init, IInv, Shape, RequestInv, StageInv, UnitsInv, NameInv, PlanInv, Locking

LEMMA StepOf ==
  ASSUME IInv, NEW r \in Req, Shape', Others(r),
         StageInv(r)', UnitsInv(r)', NameInv(r)', PlanInv(r)'
  PROVE  IInv'
<1>1. ASSUME NEW q \in Req \ {r}
      PROVE  RequestInv(q)'
  <2>1. StageInv(q) /\ UnitsInv(q) /\ NameInv(q) /\ PlanInv(q)
    BY DEF IInv, RequestInv
  <2>2. /\ pc'[q] = pc[q] /\ input'[q] = input[q] /\ id'[q] = id[q] /\ units'[q] = units[q]
        /\ \A k \in {"staged", "plan", "path"} : <<q, k>> \in dirs' <=> <<q, k>> \in dirs
    BY DEF Others
  <2>3. SourceDir(q)' = SourceDir(q) /\ (SourceDir(q) \in dirs' <=> SourceDir(q) \in dirs)
    BY <2>2 DEF SourceDir
  <2>4. StageInv(q)'
    BY <2>1, <2>2, <2>3 DEF StageInv
  <2>5. UnitsInv(q)'
    BY <2>1, <2>2 DEF UnitsInv
  <2>6. NameInv(q)'
    BY <2>1, <2>2 DEF NameInv
  <2>7. PlanInv(q)'
    BY <2>1, <2>2 DEF PlanInv
  <2> QED
    BY <2>4, <2>5, <2>6, <2>7 DEF RequestInv
<1> QED
  BY <1>1 DEF IInv, RequestInv

-----------------------------------------------------------------------------
(* The steps of a request.                                                 *)

\* The handlers, up to the sources.
LEMMA ArriveStep ==
  ASSUME IInv, NEW r \in Req, Arrive(r)
  PROVE  IInv'
<1>1. StageInv(r) /\ UnitsInv(r) /\ NameInv(r) /\ PlanInv(r) /\ Shape /\ units' = units
  BY DEF IInv, RequestInv, Arrive, PackageCreate, RepositoryAdd, FileList, DeployCreate
<1>2. PICK in, name :
         /\ in \in Inputs[r]
         /\ pc[r] = "new" /\ input' = [input EXCEPT ![r] = in] /\ id' = [id EXCEPT ![r] = name]
         /\ IsName(name) \/ (in.kind = "list" /\ name = <<>>)
         /\ \/ /\ in.kind # "path"
               /\ \/ pc' = [pc EXCEPT ![r] = "fetching"] /\ dirs' = dirs \cup {<<r, "staged">>}
                  \/ pc' = [pc EXCEPT ![r] = "rejected"] /\ dirs' = dirs
            \/ /\ in.kind = "path"
               /\ pc' = [pc EXCEPT ![r] = "building"] /\ dirs' = dirs \cup {<<r, "path">>}
            \/ /\ in.kind \in {"acknowledge", "delete"}
               /\ \/ pc' = [pc EXCEPT ![r] = "acknowledging"]
                  \/ pc' = [pc EXCEPT ![r] = "deleting"]
               /\ dirs' = dirs
  <2>1. CASE PackageCreate(r)
    <3>1. PICK in \in Inputs[r] :
             in.kind = "package" /\ Begin(r, in, PackageId(in.id, in.suffix, in.second))
      BY <2>1 DEF PackageCreate
    <3>2. IsName(PackageId(in.id, in.suffix, in.second))
      BY InputsAssumption, PackageIdIs
    <3> QED
      BY <2>1, <3>1, <3>2 DEF PackageCreate, Begin, MakeStagingDir, Goto
  <2>2. CASE RepositoryAdd(r)
    <3>1. PICK in \in Inputs[r] :
             in.kind = "repository" /\ Begin(r, in, RepositoryId(in.suffix, in.id))
      BY <2>2 DEF RepositoryAdd
    <3>2. IsName(RepositoryId(in.suffix, in.id))
      BY InputsAssumption, RepositoryIdIs
    <3> QED
      BY <2>2, <3>1, <3>2 DEF RepositoryAdd, Begin, MakeStagingDir, Goto
  <2>3. CASE FileList(r)
    <3>1. PICK in \in Inputs[r] : in.kind = "list" /\ Begin(r, in, <<>>)
      BY <2>3 DEF FileList
    <3> QED
      BY <2>3, <3>1 DEF FileList, Begin, MakeStagingDir, Goto
  <2>4. CASE DeployCreate(r)
    <3>1. PICK in \in Inputs[r] :
             /\ in.kind \in {"path", "acknowledge", "delete"}
             /\ Begin(r, in, Sanitize(in.suffix))
             /\ Goto(r, CASE in.kind = "path" -> "building"
                          [] in.kind = "acknowledge" -> "acknowledging"
                          [] in.kind = "delete" -> "deleting")
             /\ dirs' = IF in.kind = "path" THEN dirs \cup {<<r, "path">>} ELSE dirs
      BY <2>4 DEF DeployCreate
    <3>2. IsName(Sanitize(in.suffix))
      BY InputsAssumption, SanitizeIs
    <3> QED
      BY <3>1, <3>2 DEF Begin, Goto
  <2> QED
    BY <2>1, <2>2, <2>3, <2>4 DEF Arrive
<1>3. /\ pc[r] = "new" /\ input'[r] = in /\ id'[r] = name /\ units'[r] = NoUnits
      /\ <<r, "staged">> \notin dirs /\ <<r, "plan">> \notin dirs
  BY <1>1, <1>2 DEF Shape, StageInv, NameInv
<1>4. Shape' /\ Others(r)
  BY <1>1, <1>2 DEF Shape, Others
<1>5. StageInv(r)'
  BY <1>1, <1>2, <1>3 DEF StageInv, SourceDir, Shape
<1>6. UnitsInv(r)'
  BY <1>1, <1>2 DEF UnitsInv, Locking, Shape
<1>7. NameInv(r)'
  BY <1>1, <1>2, <1>3 DEF NameInv, Locking, Shape
<1>8. PlanInv(r)'
  BY <1>1, <1>2, <1>3 DEF PlanInv, Shape
<1> QED
  BY <1>4, <1>5, <1>6, <1>7, <1>8, StepOf

\* The configured units run the package whatever becomes of the plan.
LEMMA LegacyApplied ==
  ASSUME IInv, NEW r \in Req, pc[r] \in {"inspecting", "planning", "held planning"}
  PROVE  AllRun(units[r], input[r].tree)
<1>1. input[r] \in Inputs[r] /\ units[r] # NoUnits /\ units[r] = LegacyUnits(input[r].tree, id[r])
  BY DEF IInv, RequestInv, StageInv, UnitsInv, PlanInv, Locking
<1>2. IsTree(input[r].tree)
  BY <1>1, InputsAssumption
<1> QED
  BY <1>1, <1>2, LegacyAllRun

\* A request that goes on with the units it has, and leaves its directories as
\* its next state needs them.
LEMMA QuietStep ==
  ASSUME IInv, NEW r \in Req, UNCHANGED request,
         \/ Fetch(r) \/ FetchFails(r) \/ StartPlanner(r) \/ PlannerFails(r) \/ Hold(r) \/ LetGo(r)
         \/ Validate(r) \/ ApplyDeploymentUnits(r) \/ ApplyFails(r)
         \/ Acknowledge(r) \/ DeployDelete(r)
  PROVE  IInv'
<1>1. StageInv(r) /\ UnitsInv(r) /\ NameInv(r) /\ PlanInv(r) /\ Shape
  BY DEF IInv, RequestInv
<1>2. units' = units /\ input' = input /\ id' = id
  BY DEF request
<1>3. CASE Fetch(r) \/ FetchFails(r)
  <2>1. Shape' /\ Others(r)
    BY <1>1, <1>2, <1>3 DEF Shape, Others, Fetch, FetchFails, Return, Goto
  <2>2. StageInv(r)'
    BY <1>1, <1>2, <1>3 DEF Shape, StageInv, SourceDir, Fetch, FetchFails, Return, Goto
  <2>3. UnitsInv(r)'
    BY <1>1, <1>2, <1>3 DEF Shape, UnitsInv, Locking, Fetch, FetchFails, Return, Goto
  <2>4. NameInv(r)' /\ PlanInv(r)'
    BY <1>1, <1>2, <1>3
    DEF Shape, NameInv, PlanInv, Locking, Fetch, FetchFails, Return, Goto
  <2> QED
    BY <2>1, <2>2, <2>3, <2>4, StepOf
<1>4. CASE StartPlanner(r) \/ PlannerFails(r) \/ Hold(r) \/ LetGo(r)
  <2>1. Shape' /\ Others(r)
    BY <1>1, <1>2, <1>4
    DEF Shape, Others, StartPlanner, PlannerFails, Hold, LetGo, PlanFails, Return, Goto
  <2>2. StageInv(r)'
    BY <1>1, <1>2, <1>4
    DEF Shape, StageInv, SourceDir, StartPlanner, PlannerFails, Hold, LetGo, PlanFails, Return, Goto
  <2>3. UnitsInv(r)'
    BY <1>1, <1>2, <1>4
    DEF Shape, UnitsInv, Locking, StartPlanner, PlannerFails, Hold, LetGo, PlanFails, Return, Goto
  <2>4. NameInv(r)'
    BY <1>1, <1>2, <1>4
    DEF Shape, NameInv, Locking, StartPlanner, PlannerFails, Hold, LetGo, PlanFails, Return, Goto
  <2>5. pc'[r] = "validating" => pc[r] \in {"inspecting", "planning", "held planning"}
    BY <1>1, <1>4
    DEF Shape, StartPlanner, PlannerFails, Hold, LetGo, PlanFails, Return, Goto
  <2>6. PlanInv(r)'
    BY <1>1, <1>2, <1>4, <2>5, LegacyApplied
    DEF Shape, PlanInv, StartPlanner, PlannerFails, Hold, LetGo, PlanFails, Return, Goto
  <2> QED
    BY <2>1, <2>2, <2>3, <2>4, <2>6, StepOf
<1>5. CASE Validate(r) \/ ApplyDeploymentUnits(r) \/ ApplyFails(r)
  <2>1. Shape' /\ Others(r)
    BY <1>1, <1>2, <1>5
    DEF Shape, Others, Validate, ApplyDeploymentUnits, ApplyFails, Return, Goto
  <2>2. StageInv(r)'
    BY <1>1, <1>2, <1>5
    DEF Shape, StageInv, SourceDir, Validate, ApplyDeploymentUnits, ApplyFails, Return, Goto
  <2>3. UnitsInv(r)'
    BY <1>1, <1>2, <1>5
    DEF Shape, UnitsInv, Locking, Validate, ApplyDeploymentUnits, ApplyFails, Return, Goto
  <2>4. NameInv(r)' /\ PlanInv(r)'
    BY <1>1, <1>2, <1>5
    DEF Shape, NameInv, PlanInv, Locking, Validate, ApplyDeploymentUnits, ApplyFails, Return, Goto
  <2> QED
    BY <2>1, <2>2, <2>3, <2>4, StepOf
<1>6. CASE Acknowledge(r) \/ DeployDelete(r)
  <2>1. Shape' /\ Others(r)
    BY <1>1, <1>2, <1>6 DEF Shape, Others, Acknowledge, DeployDelete, Goto
  <2>2. StageInv(r)'
    BY <1>1, <1>2, <1>6 DEF Shape, StageInv, SourceDir, Acknowledge, DeployDelete, Goto
  <2>3. UnitsInv(r)'
    BY <1>1, <1>2, <1>6 DEF Shape, UnitsInv, Locking, Acknowledge, DeployDelete, Goto
  <2>4. NameInv(r)' /\ PlanInv(r)'
    BY <1>1, <1>2, <1>6 DEF Shape, NameInv, PlanInv, Locking, Acknowledge, DeployDelete, Goto
  <2> QED
    BY <2>1, <2>2, <2>3, <2>4, StepOf
<1> QED
  BY <1>3, <1>4, <1>5, <1>6

\* The configured units are built.
LEMMA BuildStep ==
  ASSUME IInv, NEW r \in Req, Build(r)
  PROVE  IInv'
<1>1. StageInv(r) /\ UnitsInv(r) /\ NameInv(r) /\ PlanInv(r) /\ Shape /\ pc[r] = "building"
  BY DEF IInv, RequestInv, Build
<1> DEFINE legacy == LegacyUnits(input[r].tree, id[r])
<1>2. /\ input' = input /\ id' = id
      /\ \/ /\ legacy # NoUnits /\ dirs' = dirs
            /\ units' = [units EXCEPT ![r] = legacy]
            /\ \/ pc' = [pc EXCEPT ![r] = "inspecting"]
               \/ pc' = [pc EXCEPT ![r] = "validating"]
         \/ /\ units' = units
            /\ pc' = [pc EXCEPT ![r] = "rejected"] /\ dirs' = dirs \ {<<r, "staged">>}
  <2> HIDE DEF legacy
  <2> QED
    BY DEF Build, Refuse, Return, Goto, legacy
<1>3. legacy # NoUnits =>
         /\ Well(legacy) /\ AllRun(legacy, input[r].tree)
         /\ \A u \in legacy : HasOwnName(u, id[r])
  <2>1. input[r] \in Inputs[r]
    BY <1>1 DEF StageInv
  <2>2. IsTree(input[r].tree) /\ IsFiniteSet(DOMAIN input[r].tree)
    BY <2>1, InputsAssumption DEF IsTree
  <2> QED
    BY <2>2, LegacyUnitsWell, LegacyUnitsNamed, LegacyAllRun
<1>4. legacy' = legacy
  BY <1>2
<1> HIDE DEF legacy
<1>5. Shape' /\ Others(r)
  BY <1>1, <1>2 DEF Shape, Others
<1>6. StageInv(r)'
  BY <1>1, <1>2 DEF Shape, StageInv, SourceDir
<1>7. UnitsInv(r)'
  BY <1>1, <1>2, <1>3 DEF Shape, UnitsInv, Locking
<1>8. NameInv(r)'
  BY <1>1, <1>2, <1>3 DEF Shape, NameInv, Locking
<1>9. PlanInv(r)'
  <2>1. pc'[r] \in {"inspecting", "validating"} => units'[r] = legacy /\ legacy # NoUnits
    BY <1>1, <1>2 DEF Shape
  <2>2. pc'[r] \in {"inspecting", "validating", "rejected"}
    BY <1>1, <1>2 DEF Shape
  <2> QED
    BY <1>2, <1>3, <2>1, <2>2 DEF PlanInv, legacy
<1> QED
  BY <1>5, <1>6, <1>7, <1>8, <1>9, StepOf

\* The units of a pod are merged, or the plan is refused.
LEMMA PlanStep ==
  ASSUME IInv, NEW r \in Req, PlannerAnswers(r)
  PROVE  IInv'
<1>1. /\ StageInv(r) /\ UnitsInv(r) /\ NameInv(r) /\ PlanInv(r) /\ Shape /\ pc[r] = "planning"
      /\ units[r] # NoUnits /\ Well(units[r])
  BY DEF IInv, RequestInv, PlannerAnswers, UnitsInv, Locking
<1>2. PICK manifest \in input[r].manifests :
         LET planned == UnitsOfPlan(r, manifest) IN
         \/ /\ planned # NoUnits
            /\ units' = [units EXCEPT ![r] = planned]
            /\ Goto(r, "validating")
            /\ dirs' = dirs \ {<<r, "plan">>}
         \/ PlanFails(r) /\ UNCHANGED units
  BY DEF PlannerAnswers
<1> DEFINE planned == UnitsOfPlan(r, manifest)
<1>3. planned # NoUnits =>
         /\ Well(planned) /\ \A u \in planned : HasOwnName(u, id[r])
         /\ Numbered => AllRun(planned, input[r].tree)
  <2>1. input[r] \in Inputs[r] /\ units[r] = LegacyUnits(input[r].tree, id[r])
    BY <1>1 DEF StageInv, PlanInv
  <2>2. IsFiniteSet(DOMAIN manifest.pods) /\ IsTree(input[r].tree)
    BY <2>1, InputsAssumption
  <2>3. planned # NoUnits =>
            /\ ValidManifest(input[r].tree, manifest)
            /\ planned = PlannedUnits(id[r], units[r], manifest)
            /\ PlannedUnits(id[r], units[r], manifest) # NoUnits
    BY DEF UnitsOfPlan
  <2>4. \A u \in units[r] : HasOwnName(u, id[r])
    BY <1>1 DEF NameInv
  <2> HIDE DEF planned
  <2>5. planned # NoUnits => Well(planned)
    BY <1>1, <2>2, <2>3, PlannedUnitsWell
  <2>6. planned # NoUnits => \A u \in planned : HasOwnName(u, id[r])
    BY <2>3, <2>4, PlannedUnitsNamed
  <2>7. planned # NoUnits /\ Numbered => AllRun(planned, input[r].tree)
    BY <1>1, <2>1, <2>2, <2>3, PlannedAllRun
  <2> QED
    BY <2>5, <2>6, <2>7
<1>4. /\ input' = input /\ id' = id
      /\ \/ /\ planned # NoUnits
            /\ units' = [units EXCEPT ![r] = planned]
            /\ pc' = [pc EXCEPT ![r] = "validating"] /\ dirs' = dirs \ {<<r, "plan">>}
         \/ /\ units' = units
            /\ \/ /\ pc' = [pc EXCEPT ![r] = "rejected"]
                  /\ dirs' = dirs \ {<<r, "plan">>, <<r, "staged">>}
               \/ pc' = [pc EXCEPT ![r] = "validating"] /\ dirs' = dirs \ {<<r, "plan">>}
  BY <1>2 DEF PlannerAnswers, PlanFails, Goto
<1> HIDE DEF planned
<1>5. Shape' /\ Others(r)
  BY <1>1, <1>4 DEF Shape, Others
<1>6. StageInv(r)'
  BY <1>1, <1>4 DEF Shape, StageInv, SourceDir
<1>7. UnitsInv(r)'
  BY <1>1, <1>3, <1>4 DEF Shape, UnitsInv, Locking
<1>8. NameInv(r)'
  BY <1>1, <1>3, <1>4 DEF Shape, NameInv, Locking
<1>9. PlanInv(r)'
  <2>1. AllRun(units[r], input[r].tree)
    BY <1>1, LegacyApplied
  <2>2. /\ pc'[r] \in {"validating", "rejected"}
        /\ units'[r] = units[r] \/ (planned # NoUnits /\ units'[r] = planned)
    BY <1>1, <1>4 DEF Shape
  <2> QED
    BY <1>3, <1>4, <2>1, <2>2 DEF PlanInv
<1> QED
  BY <1>5, <1>6, <1>7, <1>8, <1>9, StepOf

\* The server process ends: every request under way is lost.
LEMMA CrashStep ==
  ASSUME IInv, Crash
  PROVE  IInv'
<1>1. Shape'
  BY DEF IInv, Shape, Crash, request
<1>2. ASSUME NEW r \in Req
      PROVE  RequestInv(r)'
  <2>1. /\ StageInv(r) /\ UnitsInv(r) /\ NameInv(r) /\ PlanInv(r) /\ Shape
        /\ units' = units /\ input' = input /\ id' = id /\ dirs' = dirs
        /\ pc'[r] # pc[r] => pc'[r] = "lost" /\ pc[r] # "new"
    BY DEF IInv, RequestInv, Crash, request, Working, Held
  <2>2. StageInv(r)'
    BY <2>1 DEF StageInv, SourceDir
  <2>3. UnitsInv(r)'
    BY <2>1 DEF UnitsInv, Locking
  <2>4. NameInv(r)' /\ PlanInv(r)'
    BY <2>1 DEF NameInv, PlanInv, Locking
  <2> QED
    BY <2>2, <2>3, <2>4 DEF RequestInv
<1> QED
  BY <1>1, <1>2 DEF IInv

-----------------------------------------------------------------------------
(* The theorems.                                                           *)

LEMMA NextIInv == IInv /\ [Next]_vars => IInv'
<1> SUFFICES ASSUME IInv, [Next]_vars
             PROVE  IInv'
  OBVIOUS
<1>1. CASE Crash
  BY <1>1, CrashStep
<1>2. ASSUME NEW r \in Req, Arrive(r)
      PROVE  IInv'
  BY <1>2, ArriveStep
<1>3. ASSUME NEW r \in Req, Work(r)
      PROVE  IInv'
  <2>1. CASE Build(r)
    BY <2>1, BuildStep
  <2>2. CASE PlannerAnswers(r)
    BY <2>2, PlanStep
  <2>3. CASE ~Build(r) /\ ~PlannerAnswers(r)
    <3>1. UNCHANGED request
      BY <1>3, <2>3 DEF Work, Fetch, FetchFails, StartPlanner, PlannerFails, Validate,
         ApplyDeploymentUnits, ApplyFails, Acknowledge, DeployDelete
    <3> QED
      BY <1>3, <2>3, <3>1, QuietStep DEF Work
  <2> QED
    BY <2>1, <2>2, <2>3
<1>4. ASSUME NEW r \in Req, Hold(r) \/ LetGo(r)
      PROVE  IInv'
  <2>1. UNCHANGED request
    BY <1>4 DEF Hold, LetGo
  <2> QED
    BY <1>4, <2>1, QuietStep
<1>5. CASE UNCHANGED vars
  BY <1>5
  DEF vars, IInv, Shape, RequestInv, StageInv, UnitsInv, NameInv, PlanInv, SourceDir, Locking
<1> QED
  BY <1>1, <1>2, <1>3, <1>4, <1>5 DEF Next

THEOREM InductiveInvariant == Spec => []IInv
BY InitIInv, NextIInv, PTL DEF Spec

\* Whichever way a request ends, nothing of what the server staged for it is left,
\* and sources are there as long as units are built or planned from them
\* (server.go:234, 320, 581-638, exec.go:74).
THEOREM StagingCorrect == Spec => []StagingIsRemoved
<1>1. IInv => StagingIsRemoved
  BY DEF IInv, RequestInv, StageInv, StagingIsRemoved
<1> QED
  BY <1>1, InductiveInvariant, PTL

\* The pod finds the files of its unit as they were, for any package and plan
\* (sourcebundle.go:20-86).
THEOREM BundlesOpenCorrect == Spec => []BundlesOpen
<1>1. IInv => BundlesOpen
  <2> SUFFICES ASSUME IInv, NEW r \in Req, pc[r] = "applying", NEW u \in units[r]
               PROVE  Mounted(Encode(u.files)) = u.files
    BY DEF BundlesOpen
  <2>1. IsFunction(u.files)
    BY DEF IInv, RequestInv, UnitsInv, Locking, Well
  <2> QED
    BY <2>1, MountedInvertsEncode
<1> QED
  BY <1>1, InductiveInvariant, PTL

\* Valid units have as many Functions as they are.
LEMMA AppliedWhole ==
  ASSUME NEW r \in Req, Well(units[r]), ValidUnits(units[r]),
         cluster' = Put(r, units[r]) \ Stale(r)
  PROVE  Cardinality({f \in cluster' : f.group = id[r]}) = Cardinality(units[r])
<1> DEFINE own == units[r]
           group == {f \in cluster' : f.group = id[r]}
           object == [u \in own |-> Object(r, u)]
<1>1. \A u, v \in own : u.name = v.name => u = v
  BY DEF ValidUnits
<1>2. \A u \in own : object[u].name = u.name /\ object[u].group = id[r]
  BY DEF Object
<1>3. Put(r, own) =
          {f \in cluster : f.name \notin {u.name : u \in own}} \cup {object[u] : u \in own}
  <2> DEFINE names == {u.name : u \in own}
             Named(n) == Object(r, CHOOSE u \in own : u.name = n)
  <2>1. \A u \in own : Named(u.name) = object[u]
    <3> DEFINE Of(n) == CHOOSE u \in own : u.name = n
    <3> TAKE u \in own
    <3>2. Of(u.name) = u
      <4> HIDE DEF own
      <4> QED
        BY <1>1
    <3>3. Named(u.name) = Object(r, Of(u.name)) /\ object[u] = Object(r, u)
      OBVIOUS
    <3> HIDE DEF Of, Named, object, own
    <3> QED
      BY <3>2, <3>3
  <2>2. Put(r, own) = {f \in cluster : f.name \notin names} \cup {Named(n) : n \in names}
    BY DEF Put
  <2> HIDE DEF own, Named, object
  <2>3. {Named(n) : n \in names} = {object[u] : u \in own}
    BY <2>1
  <2> QED
    BY <2>2, <2>3
<1>4. group = {object[u] : u \in own}
  <2> HIDE DEF own, object
  <2>1. Stale(r) = {f \in cluster : f.group = id[r] /\ \A u \in own : u.name # f.name}
    BY DEF Stale, GroupOf, own
  <2>2. cluster' = Put(r, own) \ Stale(r)
    BY DEF own
  <2> QED
    BY <1>2, <1>3, <2>1, <2>2
<1>5. object \in Bijection(own, group)
  <2> HIDE DEF own, group
  <2>1. object \in [own -> group]
    BY <1>4
  <2>2. IsInjective(object)
    <3>1. DOMAIN object = own
      OBVIOUS
    <3> HIDE DEF object
    <3> QED
      BY <1>1, <1>2, <3>1 DEF IsInjective
  <2>3. \A f \in group : \E u \in own : object[u] = f
    BY <1>4
  <2> QED
    BY <2>1, <2>2, <2>3 DEF Bijection, Injection, Surjection
<1> HIDE DEF group
<1>6. ExistsBijection(own, group) /\ IsFiniteSet(own)
  BY <1>5 DEF ExistsBijection, Well
<1> QED
  BY <1>6, FS_Bijection DEF group

\* No two units of a deploy fall on one Function, whatever the package and the
\* plan: the group has as many as there are units (deploy_plan.go:349-354).
THEOREM DeployedWholeCorrect == Spec => DeployedWhole
<1>1. IInv /\ [Next]_vars =>
          [\A r \in Req :
              pc[r] = "applying" /\ pc'[r] = "succeeded" =>
                  Cardinality({f \in cluster' : f.group = id[r]}) = Cardinality(units[r])]_vars
  <2> SUFFICES ASSUME IInv, Next, NEW r \in Req, pc[r] = "applying", pc'[r] = "succeeded"
               PROVE  Cardinality({f \in cluster' : f.group = id[r]}) = Cardinality(units[r])
    OBVIOUS
  <2>1. Well(units[r]) /\ ValidUnits(units[r]) /\ Shape
    BY DEF IInv, RequestInv, UnitsInv, Locking
  <2>2. ~Crash
    BY DEF Crash, Working
  <2>3. PICK q \in Req : Arrive(q) \/ Work(q) \/ Hold(q) \/ LetGo(q)
    BY <2>2 DEF Next
  <2>4. q = r
    BY <2>1, <2>3
    DEF Shape, Arrive, PackageCreate, RepositoryAdd, FileList, DeployCreate, MakeStagingDir, Begin,
        Work, Fetch, FetchFails, Build, StartPlanner, PlannerAnswers, PlannerFails, PlanFails,
        Validate, ApplyDeploymentUnits, ApplyFails, Acknowledge, DeployDelete, Hold, LetGo,
        Refuse, Return, Goto
  <2>5. ApplyDeploymentUnits(r)
    BY <2>1, <2>3, <2>4
    DEF Shape, Arrive, PackageCreate, RepositoryAdd, FileList, DeployCreate, Begin,
        Work, Fetch, FetchFails, Build, StartPlanner, PlannerAnswers, PlannerFails,
        Validate, ApplyFails, Return, Acknowledge, DeployDelete, Hold, LetGo, Goto
  <2>6. cluster' = Put(r, units[r]) \ Stale(r)
    BY <2>5 DEF ApplyDeploymentUnits
  <2> QED
    BY <2>1, <2>6, AppliedWhole
<1> QED
  BY <1>1, InductiveInvariant, PTL DEF Spec, DeployedWhole

\* An answered id is a name, and a name names itself, whatever characters the
\* id and the suffix of the request are made of (deploy.go:415, server.go:354-367).
THEOREM IdNamesItselfCorrect == Spec => []IdNamesItself
<1>1. IInv => IdNamesItself
  <2> SUFFICES ASSUME IInv, NEW r \in Req, id[r] # <<>>
               PROVE  Sanitize(id[r]) = id[r]
    BY DEF IdNamesItself
  <2>1. IsName(id[r])
    BY DEF IInv, RequestInv, NameInv
  <2> QED
    BY <2>1, SanitizeKeeps
<1> QED
  BY <1>1, InductiveInvariant, PTL

\* Planned or not, what is applied runs every configuration of the package and no
\* script that none of them names, for any package and any manifest, if every
\* number of a pod has a configuration's name (deploy_plan.go:189-316).
THEOREM EveryConfigRunsCorrect ==
  ASSUME Numbered
  PROVE  Spec => []EveryConfigRuns
<1>1. IInv => EveryConfigRuns
  <2> SUFFICES ASSUME IInv, NEW r \in Req, pc[r] = "applying"
               PROVE  AllRun(units[r], input[r].tree)
    BY Zenon DEF EveryConfigRuns, AllRun
  <2> QED
    BY DEF IInv, RequestInv, PlanInv
<1> QED
  BY <1>1, InductiveInvariant, PTL

\* Deployments with different short ids have no unit name in common, for any
\* languages and any ids, if every number has a character (deploy_plan.go:166,
\* 318-332).
THEOREM ShortIdsStayApartCorrect ==
  ASSUME Nat \subseteq DOMAIN Digit
  PROVE  Spec => []ShortIdsStayApart
<1>1. IInv => ShortIdsStayApart
  <2> SUFFICES ASSUME IInv, NEW q \in Req, NEW r \in Req,
                      units[q] # NoUnits, units[r] # NoUnits,
                      Short(id[q]), Short(id[r]), id[q] # id[r],
                      NEW u \in units[q], NEW v \in units[r], u.name = v.name
               PROVE  FALSE
    BY DEF ShortIdsStayApart
  <2>1. /\ IsName(id[q]) /\ HasOwnName(u, id[q])
        /\ IsName(id[r]) /\ HasOwnName(v, id[r])
    BY DEF IInv, RequestInv, NameInv
  <2>2. /\ \A l \in DOMAIN Letters : Len(id[q]) + Len(PodSuffix(Letters[l], 0)) <= Limit
        /\ \A l \in DOMAIN Letters : Len(id[r]) + Len(PodSuffix(Letters[l], 0)) <= Limit
    BY DEF Short
  <2>3. /\ u.language \in DOMAIN Letters /\ OwnName(u.name, id[q], Letters[u.language])
        /\ v.language \in DOMAIN Letters /\ OwnName(u.name, id[r], Letters[v.language])
    BY <2>1 DEF HasOwnName
  <2> QED
    BY <2>1, <2>2, <2>3, ShortNamesApart
<1> QED
  BY <1>1, InductiveInvariant, PTL

-----------------------------------------------------------------------------
(* Type correctness.                                                       *)

\* One name, one Function, however much of the units is put.
LEMMA PutIsApart ==
  ASSUME \A f, g \in cluster : f.name = g.name => f = g, NEW r \in Req, NEW done
  PROVE  \A f, g \in Put(r, done) : f.name = g.name => f = g
<1> DEFINE names == {u.name : u \in done}
           Chosen(n) == CHOOSE u \in done : u.name = n
           kept == {f \in cluster : f.name \notin names}
           new == {Object(r, Chosen(n)) : n \in names}
<1>1. Put(r, done) = kept \cup new
  BY DEF Put
<1>2. \A n \in names : Object(r, Chosen(n)).name = n
  <2> TAKE n \in names
  <2>1. Chosen(n) \in done /\ Chosen(n).name = n
    OBVIOUS
  <2>2. Object(r, Chosen(n)).name = Chosen(n).name
    BY DEF Object
  <2> QED
    BY <2>1, <2>2
<1> HIDE DEF names, Chosen
<1>3. \A f \in kept : f.name \notin names /\ f \in cluster
  OBVIOUS
<1>4. \A f \in new : f.name \in names /\ f = Object(r, Chosen(f.name))
  BY <1>2
<1> HIDE DEF kept, new
<1> QED
  BY <1>1, <1>3, <1>4

\* No step gives two Functions one name.
LEMMA ApartStep ==
  ASSUME TypeOK, Next
  PROVE  \A f, g \in cluster' : f.name = g.name => f = g
<1>1. \A f, g \in cluster : f.name = g.name => f = g
  BY DEF TypeOK
<1>2. \/ cluster' \subseteq cluster
      \/ \E r \in Req : \E done : cluster' \subseteq Put(r, done)
  <2>1. CASE Crash
    BY <2>1 DEF Crash
  <2>2. ASSUME NEW r \in Req, Arrive(r)
        PROVE  cluster' \subseteq cluster
    BY <2>2 DEF Arrive, PackageCreate, RepositoryAdd, FileList, DeployCreate
  <2>3. ASSUME NEW r \in Req, Hold(r) \/ LetGo(r)
        PROVE  cluster' \subseteq cluster
    BY <2>3 DEF Hold, LetGo
  <2>4. ASSUME NEW r \in Req, ApplyDeploymentUnits(r) \/ ApplyFails(r)
        PROVE  \E done : cluster' \subseteq Put(r, done)
    BY <2>4 DEF ApplyDeploymentUnits, ApplyFails
  <2>5. ASSUME NEW r \in Req, Work(r), ~(ApplyDeploymentUnits(r) \/ ApplyFails(r))
        PROVE  cluster' \subseteq cluster
    BY <2>5 DEF Work, Fetch, FetchFails, Build, StartPlanner, PlannerAnswers, PlannerFails,
       Validate, Acknowledge, DeployDelete
  <2> QED
    BY <2>1, <2>2, <2>3, <2>4, <2>5 DEF Next
<1> QED
  BY <1>1, <1>2, PutIsApart

\* What a step does to where requests stand, to the disk and to the bounds.
LEMMA TypeStep ==
  ASSUME IInv, TypeOK, Next
  PROVE  /\ enabled' \in BOOLEAN
         /\ pc' \in [Req -> {"new"} \cup Working \cup Finished]
         /\ \A r \in Req : input'[r] \in Inputs[r] \cup {None}
         /\ dirs' \subseteq Dirs
         /\ crashes' \in 0 .. MaxCrashes /\ helds' \in 0 .. MaxHeld
<1>1. /\ enabled \in BOOLEAN
      /\ pc \in [Req -> {"new"} \cup Working \cup Finished]
      /\ \A r \in Req : input[r] \in Inputs[r] \cup {None}
      /\ dirs \subseteq Dirs
      /\ crashes \in 0 .. MaxCrashes /\ helds \in 0 .. MaxHeld
  BY Zenon DEF TypeOK
<1>2. CASE Crash
  <2>1. /\ enabled' = enabled /\ input' = input /\ dirs' = dirs /\ helds' = helds
        /\ crashes < MaxCrashes /\ crashes' = crashes + 1
        /\ pc' = [r \in Req |-> IF pc[r] \in Working THEN "lost" ELSE pc[r]]
    BY <1>2 DEF Crash, request
  <2>2. pc' \in [Req -> {"new"} \cup Working \cup Finished]
    BY <1>1, <2>1 DEF Finished
  <2>3. crashes' \in 0 .. MaxCrashes
    <3>1. crashes \in Nat
      BY <1>1
    <3> QED
      BY <2>1, <3>1, BoundsAssumption
  <2> QED
    BY <1>1, <2>1, <2>2, <2>3
<1>3. ASSUME NEW r \in Req, NEW next \in Working \cup Finished, Goto(r, next)
      PROVE  pc' \in [Req -> {"new"} \cup Working \cup Finished]
  BY <1>1, <1>3 DEF Goto
<1>4. ASSUME NEW r \in Req, Arrive(r)
      PROVE  /\ enabled' = enabled /\ crashes' = crashes /\ helds' = helds
             /\ pc' \in [Req -> {"new"} \cup Working \cup Finished]
             /\ \A q \in Req : input'[q] \in Inputs[q] \cup {None}
             /\ dirs' \subseteq Dirs
  <2>1. enabled' = enabled /\ crashes' = crashes /\ helds' = helds
    BY <1>4 DEF Arrive, PackageCreate, RepositoryAdd, FileList, DeployCreate, bounds
  <2>2. \E in \in Inputs[r], next \in Working \cup Finished :
           Goto(r, next) /\ input' = [input EXCEPT ![r] = in]
    <3>1. CASE DeployCreate(r)
      BY <3>1 DEF DeployCreate, Begin, Working
    <3>2. CASE ~DeployCreate(r)
      BY <1>4, <3>2 DEF Arrive, PackageCreate, RepositoryAdd, FileList, MakeStagingDir, Begin,
         Working, Finished
    <3> QED
      BY <3>1, <3>2
  <2>3. dirs' \subseteq dirs \cup {<<r, "staged">>, <<r, "path">>}
    BY <1>4 DEF Arrive, PackageCreate, RepositoryAdd, FileList, DeployCreate, MakeStagingDir
  <2>4. pc' \in [Req -> {"new"} \cup Working \cup Finished]
    BY <1>3, <2>2
  <2>5. \A q \in Req : input'[q] \in Inputs[q] \cup {None}
    <3>1. DOMAIN input = Req
      BY DEF IInv, Shape
    <3> QED
      BY <1>1, <2>2, <3>1
  <2> QED
    BY <1>1, <2>1, <2>3, <2>4, <2>5 DEF Dirs
<1>5. ASSUME NEW r \in Req, Work(r)
      PROVE  /\ enabled' = enabled /\ crashes' = crashes /\ helds' = helds /\ input' = input
             /\ pc' \in [Req -> {"new"} \cup Working \cup Finished]
             /\ dirs' \subseteq Dirs
  <2>1. enabled' = enabled /\ crashes' = crashes /\ helds' = helds /\ input' = input
    BY <1>5 DEF Work, Fetch, FetchFails, Build, StartPlanner, PlannerAnswers, PlannerFails,
       Validate, ApplyDeploymentUnits, ApplyFails, Acknowledge, DeployDelete, request, bounds
  <2>2. \E next \in Working \cup Finished : Goto(r, next)
    BY <1>5 DEF Working, Finished, Work, Fetch, FetchFails, Build, Refuse, StartPlanner,
       PlannerAnswers, PlannerFails, PlanFails, Validate, ApplyDeploymentUnits, ApplyFails, Acknowledge, DeployDelete, Return
  <2>3. dirs' \subseteq dirs \cup {<<r, "plan">>}
    BY <1>5 DEF Work, Fetch, FetchFails, Build, Refuse, StartPlanner, PlannerAnswers, PlannerFails,
       PlanFails, Validate, ApplyDeploymentUnits, ApplyFails, Acknowledge, DeployDelete, Return
  <2>4. pc' \in [Req -> {"new"} \cup Working \cup Finished]
    BY <1>3, <2>2
  <2> QED
    BY <1>1, <2>1, <2>3, <2>4 DEF Dirs
<1>6. ASSUME NEW r \in Req, Hold(r) \/ LetGo(r)
      PROVE  /\ enabled' = enabled /\ crashes' = crashes /\ helds' \in 0 .. MaxHeld
             /\ input' = input
             /\ pc' \in [Req -> {"new"} \cup Working \cup Finished]
             /\ dirs' \subseteq Dirs
  <2>1. /\ enabled' = enabled /\ crashes' = crashes /\ input' = input /\ dirs' \subseteq dirs
        /\ helds' = helds \/ (helds < MaxHeld /\ helds' = helds + 1)
    BY <1>6 DEF Hold, LetGo, PlanFails, Return, request, bounds
  <2>2. \E next \in Working \cup Finished : Goto(r, next)
    BY <1>6 DEF Working, Held, Finished, Hold, LetGo, PlanFails, Return
  <2>3. pc' \in [Req -> {"new"} \cup Working \cup Finished]
    BY <1>3, <2>2
  <2>4. helds' \in 0 .. MaxHeld
    <3>1. helds \in 0 .. MaxHeld
      BY <1>1
    <3> QED
      BY <2>1, <3>1, BoundsAssumption
  <2> QED
    BY <1>1, <2>1, <2>3, <2>4
<1> QED
  BY <1>1, <1>2, <1>4, <1>5, <1>6 DEF Next

\* The variables have their types, ids are no longer than a name may be, units
\* are of supported languages, and one name has one Function.
THEOREM TypeCorrect == Spec => []TypeOK
<1>1. Init => TypeOK
  BY LimitAssumption, BoundsAssumption DEF Init, TypeOK
<1>2. IInv /\ IInv' /\ TypeOK /\ [Next]_vars => TypeOK'
  <2> SUFFICES ASSUME IInv, IInv', TypeOK, [Next]_vars
               PROVE  TypeOK'
    OBVIOUS
  <2>1. CASE UNCHANGED vars
    BY <2>1 DEF TypeOK, vars
  <2>2. CASE Next
    <3>1. \A r \in Req : Len(id'[r]) <= Limit
      <4>1. \A r \in Req : id'[r] = <<>> \/ IsName(id'[r])
        BY DEF IInv, RequestInv, NameInv
      <4> QED
        BY <4>1, LimitAssumption DEF IsName
    <3>2. \A r \in Req : units'[r] # NoUnits => \A u \in units'[r] : u.language \in DOMAIN Letters
      BY DEF IInv, RequestInv, NameInv, HasOwnName
    <3>3. \A f, g \in cluster' : f.name = g.name => f = g
      BY <2>2, ApartStep
    <3> QED
      BY <2>2, <3>1, <3>2, <3>3, TypeStep DEF TypeOK
  <2> QED
    BY <2>1, <2>2
<1> QED
  BY <1>1, <1>2, InductiveInvariant, PTL DEF Spec
=============================================================================
