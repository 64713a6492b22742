------------------------------ MODULE Package ------------------------------
(***************************************************************************)
(* The requests of the API server that bring sources along                 *)
(* (src/internal/api/server.go, deploy_plan.go, src/internal/planner/      *)
(* exec.go): from the upload to the units in the cluster.                  *)
(*                                                                         *)
(* A request stages its sources in a directory of its own, builds the      *)
(* configured units, lets the planner process write its manifest into      *)
(* another directory, validates the units and applies them.  Fetching and  *)
(* planning may fail; every error path must remove what it staged.         *)
(*                                                                         *)
(* How an apply can be interrupted, and the lock of a deployment id, are   *)
(* the subject of module Deploy; here units reach the cluster in one step. *)
(***************************************************************************)
EXTENDS Units

CONSTANTS
    Req,        \* requests
    Inputs,     \* Inputs[r]: what request r may ask for
    None,       \* no input yet
    MaxCrashes, \* bound: ends of the server process
    MaxHeld     \* bound: killed processes whose output stays open

\* An input: the kind of the request, the id and the suffix it names (for a
\* repository, its name as the id), the second it arrives in, the files it
\* brings, the planning mode and the manifests the planner may write.
Kinds == {"package", "repository", "list", "path", "acknowledge", "delete"}
ASSUME InputsAssumption ==
    \A r \in Req :
        /\ None \notin Inputs[r]
        /\ \A in \in Inputs[r] :
              /\ in.kind \in Kinds
              /\ in.id \in Seq(STRING) /\ in.suffix \in Seq(STRING)
              /\ in.second \in DOMAIN Digit
              /\ IsTree(in.tree)
              /\ \A manifest \in in.manifests : IsFiniteSet(DOMAIN manifest.pods)
ASSUME BoundsAssumption == MaxCrashes \in Nat /\ MaxHeld \in Nat

VARIABLES
    enabled,  \* the server has a planner
    pc,       \* where each request stands
    input,    \* what it asks for
    id,       \* the deployment id it works on
    units,    \* its units: the configured ones, then the planned ones
    dirs,     \* directories on the server's disk: <<request, purpose>>
    cluster,  \* the Functions
    crashes,
    helds     \* processes killed so far whose output stayed open

vars == <<enabled, pc, input, id, units, dirs, cluster, crashes, helds>>
request == <<enabled, input, id, units>>
bounds == <<crashes, helds>>

Modes == {"off", "auto", "required"}
Held == {"held fetching", "held planning"}
Working == Held \cup {"fetching", "building", "inspecting", "planning", "validating", "applying",
                    "acknowledging", "deleting"}
Finished == {"succeeded", "rejected", "lost"}

\* "staged": the unpacked upload or clone; "plan": the planner's output; "path":
\* a directory of the client's own, named in deploy/create.
Dirs == Req \X {"staged", "plan", "path"}
SourceDir(r) == <<r, IF input[r].kind = "path" THEN "path" ELSE "staged">>

TypeOK ==
    /\ enabled \in BOOLEAN
    /\ pc \in [Req -> {"new"} \cup Working \cup Finished]
    /\ \A r \in Req : input[r] \in Inputs[r] \cup {None} /\ Len(id[r]) <= Limit
    /\ dirs \subseteq Dirs
    /\ \A r \in Req : units[r] # NoUnits => \A u \in units[r] : u.language \in DOMAIN Letters
    /\ \A f, g \in cluster : f.name = g.name => f = g
    /\ crashes \in 0 .. MaxCrashes /\ helds \in 0 .. MaxHeld

Init ==
    /\ enabled \in BOOLEAN
    /\ pc = [r \in Req |-> "new"]
    /\ input = [r \in Req |-> None]
    /\ id = [r \in Req |-> <<>>]
    /\ units = [r \in Req |-> NoUnits]
    /\ dirs = {}
    /\ cluster = {}
    /\ crashes = 0
    /\ helds = 0

-----------------------------------------------------------------------------
(* The handlers, up to the sources.                                        *)

Begin(r, in, deploymentID) ==
    /\ pc[r] = "new"
    /\ input' = [input EXCEPT ![r] = in]
    /\ id' = [id EXCEPT ![r] = deploymentID]

Goto(r, next) == pc' = [pc EXCEPT ![r] = next]

\* os.MkdirTemp: without a directory the request is refused at once.
MakeStagingDir(r) ==
    \/ /\ Goto(r, "fetching")
       /\ dirs' = dirs \cup {<<r, "staged">>}
    \/ /\ Goto(r, "rejected")
       /\ UNCHANGED dirs

PackageCreate(r) ==
    /\ \E in \in Inputs[r] :
          /\ in.kind = "package"
          /\ Begin(r, in, PackageId(in.id, in.suffix, in.second))
    /\ MakeStagingDir(r)
    /\ UNCHANGED <<enabled, units, cluster, bounds>>

RepositoryAdd(r) ==
    /\ \E in \in Inputs[r] :
          /\ in.kind = "repository"
          /\ Begin(r, in, RepositoryId(in.suffix, in.id))
    /\ MakeStagingDir(r)
    /\ UNCHANGED <<enabled, units, cluster, bounds>>

\* A repository is cloned only to list its files.
FileList(r) ==
    /\ \E in \in Inputs[r] :
          /\ in.kind = "list"
          /\ Begin(r, in, <<>>)
    /\ MakeStagingDir(r)
    /\ UNCHANGED <<enabled, units, cluster, bounds>>

\* deploy/create of a directory on the server, or of a deployment that exists.
DeployCreate(r) ==
    /\ \E in \in Inputs[r] :
          /\ in.kind \in {"path", "acknowledge", "delete"}
          /\ Begin(r, in, Sanitize(in.suffix))
          /\ Goto(r, CASE in.kind = "path" -> "building"
                       [] in.kind = "acknowledge" -> "acknowledging"
                       [] in.kind = "delete" -> "deleting")
          /\ dirs' = IF in.kind = "path" THEN dirs \cup {<<r, "path">>} ELSE dirs
    /\ UNCHANGED <<enabled, units, cluster, bounds>>

\* The handler returns: its deferred cleanup removes the sources it staged.
Return(r, outcome) ==
    /\ Goto(r, outcome)
    /\ dirs' = dirs \ {<<r, "staged">>}

\* The archive is unpacked, the repository cloned.
Fetch(r) ==
    /\ pc[r] = "fetching"
    /\ \/ input[r].kind = "list" /\ Return(r, "succeeded")
       \/ input[r].kind # "list" /\ Goto(r, "building") /\ UNCHANGED dirs
    /\ UNCHANGED <<request, cluster, bounds>>

FetchFailsLeaving(r) ==  \* faulty: what was unpacked so far is left
    /\ pc[r] = "fetching"
    /\ Goto(r, "rejected")
    /\ UNCHANGED <<request, dirs, cluster, bounds>>

\* Not an archive, a path out of it, a clone that fails, a client gone: what is
\* there already is removed.
FetchFails(r) ==
    /\ pc[r] = "fetching"
    /\ Return(r, "rejected")
    /\ UNCHANGED <<request, cluster, bounds>>

-----------------------------------------------------------------------------
(* deployFromSourceWithPlan.                                               *)

Refuse(r) == Return(r, "rejected") /\ UNCHANGED units

Locking == {"inspecting", "planning", "held planning", "validating", "applying"}

\* Faulty: a request that is refused keeps the lock.
LockFreeUnlessRefused(r) ==
    \A q \in Req \ {r} : id[q] = id[r] => pc[q] \notin Locking \cup {"rejected"}

\* lockDeployment: one request at a time works on a deployment id.
LockFree(r) == \A q \in Req \ {r} : id[q] = id[r] => pc[q] \notin Locking

\* The mode is looked at; under the lock the configured units are built, and
\* without a planner a required plan is refused.
Build(r) ==
    /\ pc[r] = "building"
    /\ LET mode == input[r].mode
           legacy == LegacyUnits(input[r].tree, id[r])
           impossible == legacy = NoUnits \/ (mode = "required" /\ ~enabled)
       IN  \/ /\ mode \notin Modes
              /\ Refuse(r)
           \/ /\ mode \in Modes /\ LockFree(r) /\ impossible
              /\ Refuse(r)
           \/ /\ mode \in Modes /\ LockFree(r) /\ ~impossible
              /\ units' = [units EXCEPT ![r] = legacy]
              /\ Goto(r, IF mode # "off" /\ enabled THEN "inspecting" ELSE "validating")
              /\ UNCHANGED dirs
    /\ UNCHANGED <<enabled, input, id, cluster, bounds>>

\* No plan: an optional one falls back to the configured units.
PlanFails(r) ==
    \/ /\ input[r].mode = "required"
       /\ Goto(r, "rejected")
       /\ dirs' = dirs \ {<<r, "plan">>, <<r, "staged">>}
    \/ /\ input[r].mode = "auto"
       /\ Goto(r, "validating")
       /\ dirs' = dirs \ {<<r, "plan">>}

\* The input is measured, then the planner gets a directory for its output.
StartPlanner(r) ==
    /\ pc[r] = "inspecting"
    /\ \/ /\ ValidateInput(input[r].tree)
          /\ Goto(r, "planning")
          /\ dirs' = dirs \cup {<<r, "plan">>}
       \/ PlanFails(r)
    /\ UNCHANGED <<request, cluster, bounds>>

\* The units of a manifest, if it is valid and they are.
UnitsOfPlan(r, manifest) ==
    LET planned == IF ValidManifest(input[r].tree, manifest)
                   THEN PlannedUnits(id[r], units[r], manifest) ELSE NoUnits
    IN  IF planned # NoUnits /\ ValidUnits(planned) THEN planned ELSE NoUnits

\* The planner process ends with its files written.
PlannerAnswers(r) ==
    /\ pc[r] = "planning"
    /\ \E manifest \in input[r].manifests :
          LET planned == UnitsOfPlan(r, manifest) IN
          \/ /\ planned # NoUnits
             /\ units' = [units EXCEPT ![r] = planned]
             /\ Goto(r, "validating")
             /\ dirs' = dirs \ {<<r, "plan">>}
          \/ /\ planned = NoUnits
             /\ PlanFails(r)
             /\ UNCHANGED units
    /\ UNCHANGED <<enabled, input, id, cluster, bounds>>

\* It ends with an error, is killed when its time is up, or leaves a file
\* missing, cut off or too large.
PlannerFails(r) ==
    /\ pc[r] = "planning"
    /\ PlanFails(r)
    /\ UNCHANGED <<request, cluster, bounds>>

\* The client goes, or the planner's time is up: git or the planner is killed.
\* Run goes on waiting if a child of it has the output still open,
Hold(r) ==
    /\ helds < MaxHeld
    /\ helds' = helds + 1
    /\ \/ pc[r] = "fetching" /\ input[r].kind # "package" /\ Goto(r, "held fetching")
       \/ pc[r] = "planning" /\ Goto(r, "held planning")
    /\ UNCHANGED <<request, dirs, cluster, crashes>>

\* and ends when that one does, if it does.
LetGo(r) ==
    /\ \/ pc[r] = "held fetching" /\ Return(r, "rejected")
       \/ pc[r] = "held planning" /\ PlanFails(r)
    /\ UNCHANGED <<request, cluster, bounds>>

Validate(r) ==
    /\ pc[r] = "validating"
    /\ \/ ValidUnits(units[r]) /\ Goto(r, "applying") /\ UNCHANGED dirs
       \/ ~ValidUnits(units[r]) /\ Return(r, "rejected")
    /\ UNCHANGED <<request, cluster, bounds>>

-----------------------------------------------------------------------------
(* The cluster.                                                            *)

Object(r, u) ==
    [name |-> u.name, group |-> id[r], language |-> u.language, entrypoint |-> u.entrypoint]

GroupOf(r) == {f \in cluster : f.group = id[r]}

\* Some units are put under their names, whoever has the names.
Put(r, done) ==
    LET names == {u.name : u \in done}
    IN  {f \in cluster : f.name \notin names}
            \cup {Object(r, CHOOSE u \in done : u.name = n) : n \in names}

\* What the group no longer has.
Stale(r) == {f \in GroupOf(r) : \A u \in units[r] : u.name # f.name}

\* Every unit is put, then what is stale is removed.
ApplyDeploymentUnits(r) ==
    /\ pc[r] = "applying"
    /\ cluster' = Put(r, units[r]) \ Stale(r)
    /\ Return(r, "succeeded")
    /\ UNCHANGED <<request, bounds>>

\* A call to the cluster fails somewhere on the way.
ApplyFails(r) ==
    /\ pc[r] = "applying"
    /\ \/ \E done \in SUBSET units[r] : cluster' = Put(r, done)
       \/ \E gone \in SUBSET Stale(r) : cluster' = Put(r, units[r]) \ gone
    /\ Return(r, "rejected")
    /\ UNCHANGED <<request, bounds>>

\* deploymentExists; without a suffix the answer is an error.
Acknowledge(r) ==
    /\ pc[r] = "acknowledging"
    /\ \/ id[r] # Fallback /\ GroupOf(r) # {} /\ Goto(r, "succeeded")
       \/ Goto(r, "rejected")  \* not found, no suffix, or no answer of the cluster
    /\ UNCHANGED <<request, dirs, cluster, bounds>>

DeployDelete(r) ==
    /\ pc[r] = "deleting"
    /\ \/ cluster' = cluster \ GroupOf(r) /\ Goto(r, "succeeded")
       \/ \E gone \in SUBSET GroupOf(r) :  \* a call fails on the way
             cluster' = cluster \ gone /\ Goto(r, "rejected")
    /\ UNCHANGED <<request, dirs, bounds>>

\* The server process ends; its disk, which may be a volume, is not cleaned up.
Crash ==
    /\ crashes < MaxCrashes
    /\ crashes' = crashes + 1
    /\ \E r \in Req : pc[r] \in Working
    /\ pc' = [r \in Req |-> IF pc[r] \in Working THEN "lost" ELSE pc[r]]
    /\ UNCHANGED <<request, dirs, cluster, helds>>

Arrive(r) == PackageCreate(r) \/ RepositoryAdd(r) \/ FileList(r) \/ DeployCreate(r)

Work(r) ==
    \/ Fetch(r) \/ FetchFails(r)
    \/ Build(r) \/ StartPlanner(r) \/ PlannerAnswers(r) \/ PlannerFails(r)
    \/ Validate(r) \/ ApplyDeploymentUnits(r) \/ ApplyFails(r)
    \/ Acknowledge(r) \/ DeployDelete(r)

Next == Crash \/ \E r \in Req : Arrive(r) \/ Work(r) \/ Hold(r) \/ LetGo(r)

Spec == Init /\ [][Next]_vars

\* A request that can go on, does: it holds the lock or finds it free, and waits
\* for no process that was killed.
GoesOn(r) ==
    /\ pc[r] \in Working \ Held
    /\ pc[r] = "building" /\ input[r].mode \in Modes => LockFree(r)
    /\ \E next \in (Working \cup Finished) \ {pc[r]} : Goto(r, next)

\* Handlers run; git ends, or is killed once its client has gone, and the planner
\* within its time.  Calls to the cluster return; those that do not are Deploy's.
\* Nothing is assumed of a child that keeps its output open.
FairSpec == Spec /\ \A r \in Req : WF_pc(GoesOn(r))

-----------------------------------------------------------------------------
(* Properties.                                                             *)

\* Staged files live exactly as long as they are needed: sources are there while
\* units are built and planned from them, nothing the server made is left once a
\* request has ended, by whatever error (only a crash leaves it), and a client's
\* own directory is never removed (server.go:234, 320, 581-638, exec.go:74).
StagingIsRemoved ==
    \A r \in Req :
        /\ pc[r] \in {"building", "inspecting", "planning", "held planning"} =>
              SourceDir(r) \in dirs
        /\ pc[r] \in {"succeeded", "rejected"} => {<<r, "staged">>, <<r, "plan">>} \cap dirs = {}
        /\ pc[r] # "new" /\ input[r].kind = "path" => <<r, "path">> \in dirs

\* u runs config c of the tree: from u's entrypoint its language, its scripts and
\* its settings are found, and in u's bundle all files below its sources as they
\* were uploaded, and at the root the manifests nearest to the sources.
Runs(u, tree, c) ==
    LET entry == u.files[u.entrypoint]
        root == SourceRoot(tree, c)
    IN  /\ entry.language = tree[c].language /\ u.language = tree[c].language
        /\ entry.extras = tree[c].extras
        /\ \A s \in tree[c].scripts :
              \E t \in entry.scripts : entry.path \o t = ScriptPath(tree, c, s)
        /\ \A p \in Walked(tree, root) \cup {ScriptPath(tree, c, s) : s \in tree[c].scripts} :
              ~IsConfig(tree[p]) => p \in DOMAIN u.files /\ u.files[p] = tree[p]
        /\ \A n \in DependencyNames, k \in 0 .. Len(root) :
              LET nearest == SubSeq(root, 1, k) \o <<n>> IN
              /\ nearest \in Regular(tree)
              /\ \A j \in k + 1 .. Len(root) : SubSeq(root, 1, j) \o <<n>> \notin Regular(tree)
              => <<n>> \in DOMAIN u.files /\ u.files[<<n>>] = tree[nearest]

\* Planned or not, what is applied runs every configuration of the package,
\* unchanged, and loads no script that none of them names: merging by pod may
\* neither lose nor mix configurations (deploy_plan.go:189-316, deploy.go:171-187).
EveryConfigRuns ==
    \A r \in Req :
        pc[r] = "applying" =>
            LET tree == input[r].tree IN
            /\ \A c \in FoundConfigs(tree) : \E u \in units[r] : Runs(u, tree, c)
            /\ \A u \in units[r] : \A s \in u.scripts :
                  \E c \in FoundConfigs(tree) :
                      /\ tree[c].language = u.language
                      /\ s \in {ScriptPath(tree, c, t) : t \in tree[c].scripts}

\* The pod finds the files the server put into the ConfigMap, each where it was
\* in the package and the entrypoint among them, whatever names the package has
\* (sourcebundle.go:20-86).
BundlesOpen ==
    \A r \in Req : pc[r] = "applying" =>
        \A u \in units[r] : Mounted(Encode(u.files)) = u.files

\* An answered id is a name that names itself: deletes, acknowledgements, logs
\* and calls sanitize it again and must come to the same group (deploy.go:415).
IdNamesItself ==
    \A r \in Req : id[r] # <<>> => Sanitize(id[r]) = id[r]

\* Short enough to carry the longest suffix of a unit ("-node-p0") uncut.
Short(deploymentID) ==
    \A l \in DOMAIN Letters : Len(deploymentID) + Len(PodSuffix(Letters[l], 0)) <= Limit

\* Deployments with different short ids have no unit name in common, planned or
\* not: what module Deploy assumes of names (deploy_plan.go:166, 318-332).
ShortIdsStayApart ==
    \A q, r \in Req :
        /\ pc[q] \in {"applying", "succeeded"} /\ pc[r] \in {"applying", "succeeded"}
        /\ units[q] # NoUnits /\ units[r] # NoUnits
        /\ Short(id[q]) /\ Short(id[r]) /\ id[q] # id[r]
        => {u.name : u \in units[q]} \cap {u.name : u \in units[r]} = {}

\* A deploy leaves as many Functions in its group as it has units: no two of
\* them, legacy, planned or mixed, fall on one name (deploy_plan.go:349-354).
DeployedWhole ==
    [][\A r \in Req :
          pc[r] = "applying" /\ pc'[r] = "succeeded" =>
              Cardinality({f \in cluster' : f.group = id[r]}) = Cardinality(units[r])]_vars

\* Every request comes to an answer, by whatever path, unless a process it
\* started, or that the holder of its lock started, is killed and keeps its output
\* open: nothing else may keep the lock of an id (deploy_plan.go:73, exec.go:83,
\* server.go:591).
RequestsAnswered ==
    \A r \in Req :
        <>[]( \/ pc[r] \in {"new"} \cup Finished \cup Held
             \/ \E q \in Req : pc[q] = "held planning" /\ id[q] = id[r])

\* "The `id` acts as a deployment sandbox" (README.md:48): a Function changes or
\* goes only by a request for its own id.
Sandbox ==
    [][\A f \in cluster \ cluster' :
          \E r \in Req : pc'[r] # pc[r] /\ id[r] = f.group]_vars
=============================================================================
