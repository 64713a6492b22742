------------------------------- MODULE Units -------------------------------
(***************************************************************************)
(* From the files of a package to the units of a deployment                *)
(* (src/internal/api/deploy.go, deploy_plan.go, src/internal/planner/      *)
(* exec.go): the configured units, the planner's manifest, and the units   *)
(* merged by pod.                                                          *)
(*                                                                         *)
(* A tree is a function from paths to contents.  Contents are records: a   *)
(* link is a symbolic link, a config a MetaCall configuration, text        *)
(* anything else.                                                          *)
(***************************************************************************)
EXTENDS UnitNames, SourceBundle

CONSTANTS
    ConfigNames,      \* file names metacall*.json
    DependencyNames,  \* depManifests: package.json, requirements.txt, Gemfile
    Skipped,          \* directories no walk enters: .git, node_modules, __pycache__
    Letters,          \* Letters[l]: the name of language l, for supported languages
    Eligible,         \* the languages the planner may merge: py and node
    PlannedConfig,    \* PlannedConfig[l][n]: the config file of the unit of pod n
    SchemaVersion,    \* SupportedSchemaVersion of a manifest
    MaxConfigMapBytes,\* bound of the code: size of a bundle
    MaxInputFiles,    \* bound of the code: files the planner may be given
    NoUnits           \* the package or the plan is unusable

\* A language is named by a word without a dash that ends in a letter.
ASSUME LettersAssumption ==
    \A l \in DOMAIN Letters :
        LET word == Letters[l] IN
        /\ IsName(word) /\ \A i \in DOMAIN word : word[i] # Dash
        /\ \A n \in DOMAIN Digit : word[Len(word)] # Digit[n]

\* Manifests are not configurations; what the server writes is one.
ASSUME NamesAssumption ==
    /\ ConfigNames \subseteq STRING /\ DependencyNames \subseteq STRING
    /\ ConfigNames \cap DependencyNames = {}
    /\ \A l \in DOMAIN PlannedConfig :
          \A n \in DOMAIN PlannedConfig[l] : PlannedConfig[l][n] \in ConfigNames

Text(content) == [text |-> content]
Link == [link |-> TRUE]
Config(language, path, scripts, extras) ==
    [language |-> language, path |-> path, scripts |-> scripts, extras |-> extras,
     written |-> "by hand"]
IsConfig(content) == "language" \in DOMAIN content

-----------------------------------------------------------------------------
(* Paths.                                                                  *)

\* What has climbed above the root stays outside.
Outside == <<"..">>

\* One component on from d.
Entered(d, c) ==
    IF d = Outside \/ (c = ".." /\ d = <<>>) THEN Outside
    ELSE IF c = ".." THEN Front(d)
    ELSE IF c = "." THEN d ELSE Append(d, c)

\* filepath.Join and NormalizePath: from dir along the components of path.
Resolve(dir, path) ==
    LET at[i \in 0 .. Len(path)] == IF i = 0 THEN dir ELSE Entered(at[i - 1], path[i])
    IN  at[Len(path)]

\* What can be unpacked or cloned: a file has a name and nothing below it, and
\* a configuration gives paths.
IsTree(tree) ==
    /\ IsFiniteSet(DOMAIN tree)
    /\ DOMAIN tree \subseteq Seq(STRING) \ {<<>>}
    /\ \A p, q \in DOMAIN tree : IsPrefix(p, q) => p = q
    /\ \A p \in DOMAIN tree : IsConfig(tree[p]) =>
          LET config == tree[p] IN
          /\ config = Config(config.language, config.path, config.scripts, config.extras)
          /\ config.path \in Seq(STRING) /\ config.scripts \subseteq Seq(STRING)

Regular(tree) == {p \in DOMAIN tree : tree[p] # Link}

\* ensureContainedPath, for a directory or a file.
Contained(tree, p) == p # Outside /\ \E q \in Regular(tree) : IsPrefix(p, q)

\* The files a walk from root visits.
Walked(tree, root) ==
    {p \in Regular(tree) :
        /\ IsPrefix(root, p)
        /\ \A i \in 1 .. Len(p) - 1 : i >= Len(root) => p[i] \notin Skipped}

-----------------------------------------------------------------------------
(* buildLegacyUnits.                                                       *)

\* findMetaCallConfigs; their order is one fixed order, as sorting gives.
FoundConfigs(tree) == {p \in Walked(tree, <<>>) : p[Len(p)] \in ConfigNames}

SourceRoot(tree, config) == Resolve(Front(config), tree[config].path)
ScriptPath(tree, config, script) == SourceRoot(tree, config) \o Resolve(<<>>, script)

\* The directory of the dependency manifest nearest to the sources, searched
\* upward to the package root.
NearestManifest(tree, root, name) ==
    {SubSeq(root, 1, i) : i \in {j \in 0 .. Len(root) :
        /\ SubSeq(root, 1, j) \o <<name>> \in Regular(tree)
        /\ \A k \in j + 1 .. Len(root) : SubSeq(root, 1, k) \o <<name>> \notin Regular(tree)}}

\* readMetaCallConfig and the error paths of sourceFiles.
Deployable(tree, config) ==
    /\ IsConfig(tree[config])
    /\ tree[config].language \in DOMAIN Letters
    /\ Contained(tree, SourceRoot(tree, config))
    /\ \A s \in tree[config].scripts :
          /\ Resolve(<<>>, s) \notin {<<>>, Outside}
          /\ ScriptPath(tree, config, s) \in Regular(tree)

\* The config as the bundle has it: its path and scripts from the bundle's root.
Rewritten(tree, config) ==
    [tree[config] EXCEPT !.path = SourceRoot(tree, config),
                         !.scripts = {Resolve(<<>>, s) : s \in @},
                         !.written = "by the server"]

\* sourceFiles: the files below the source root, the nearest manifests at the
\* root of the bundle, the scripts even where no walk goes, the config rewritten.
SourceFiles(tree, config) ==
    LET root == SourceRoot(tree, config)
        walked == Walked(tree, root)
        manifests == {<<n>> : n \in {m \in DependencyNames : NearestManifest(tree, root, m) # {}}}
        scripts == {ScriptPath(tree, config, s) : s \in tree[config].scripts}
    IN  [p \in {config} \cup walked \cup manifests \cup scripts |->
            IF p = config THEN Rewritten(tree, config)
            ELSE IF p \in manifests \ walked
            THEN tree[(CHOOSE d \in NearestManifest(tree, root, p[1]) : TRUE) \o p]
            ELSE tree[p]]

LegacyUnits(tree, id) ==
    LET configs == SetToSeq(FoundConfigs(tree))
        Base(i) == LegacyBase(id, Letters[tree[configs[i]].language])
        Unit(i) ==
            [name |-> LegacyName(Base(i), Cardinality({j \in 1 .. i : Base(j) = Base(i)})),
             language |-> tree[configs[i]].language,
             entrypoint |-> configs[i],
             files |-> SourceFiles(tree, configs[i]),
             scripts |-> {ScriptPath(tree, configs[i], s) : s \in tree[configs[i]].scripts},
             extras |-> tree[configs[i]].extras]
    IN  IF configs = <<>> \/ \E c \in FoundConfigs(tree) : ~Deployable(tree, c) THEN NoUnits
        ELSE {Unit(i) : i \in DOMAIN configs}

-----------------------------------------------------------------------------
(* The planner's input and its manifest.                                   *)

ValidateInput(tree) == Cardinality(Walked(tree, <<>>)) <= MaxInputFiles

\* A manifest is [version, pods, edges]; a pod of the sequence pods is
\* [id, language, files], its files a sequence of paths as the planner wrote them.
PodIds(manifest) == {manifest.pods[i].id : i \in DOMAIN manifest.pods}

\* normalizeAndValidate.
ValidManifest(tree, manifest) ==
    /\ manifest.version = SchemaVersion
    /\ IsInjective([i \in DOMAIN manifest.pods |-> manifest.pods[i].id])
    /\ \A i \in DOMAIN manifest.pods :
          LET pod == manifest.pods[i]
              paths == [j \in DOMAIN pod.files |-> Resolve(<<>>, pod.files[j])]
          IN  /\ pod.id \in Nat
              /\ pod.language # ""
              /\ paths # <<>>
              /\ IsInjective(paths)
              /\ Range(paths) \subseteq Regular(tree)
    /\ \A e \in manifest.edges : e[1] \in PodIds(manifest) /\ e[2] \in PodIds(manifest)

\* The pods whose files the overlay looks at, with their paths normalized.
EligiblePods(manifest) ==
    {[id |-> pod.id, language |-> pod.language,
      files |-> {Resolve(<<>>, f) : f \in Range(pod.files)}] :
        pod \in {q \in Range(manifest.pods) : q.language \in Eligible}}

-----------------------------------------------------------------------------
(* applyPlannerOverlay.                                                    *)

PodsOf(unit, pods) == {p \in pods : p.files \cap unit.scripts # {}}

\* Faulty: what one unit has, another overwrites.
AgreeAlways(group) == \A u, v \in group : u.extras = v.extras

\* The units of a pod may be merged: same settings, no file with two contents.
Agree(group) ==
    \A u, v \in group :
        /\ u.extras = v.extras
        /\ \A p \in DOMAIN u.files \cap DOMAIN v.files : u.files[p] = v.files[p]

\* mergePlannerGroup.
Merged(id, pod, group) ==
    LET entrypoint == <<PlannedConfig[pod.language][pod.id]>>
        scripts == UNION {u.scripts : u \in group}
        extras == (CHOOSE u \in group : TRUE).extras
        config == [Config(pod.language, <<>>, scripts, extras) EXCEPT !.written = "by the server"]
    IN  [name |-> PlannedName(id, Letters[pod.language], pod.id),
         language |-> pod.language,
         entrypoint |-> entrypoint,
         files |-> [p \in {entrypoint} \cup UNION {DOMAIN u.files : u \in group} |->
                       IF p = entrypoint THEN config
                       ELSE (CHOOSE u \in group : p \in DOMAIN u.files).files[p]],
         scripts |-> scripts,
         extras |-> extras]

\* Units of other languages, or with no script in a pod, stay as they are; the
\* others are merged by pod, if each is of one pod, which has its language.
PlannedUnits(id, legacy, manifest) ==
    LET pods == EligiblePods(manifest)
        planned == {u \in legacy : u.language \in Eligible /\ PodsOf(u, pods) # {}}
        Group(p) == {u \in planned : PodsOf(u, pods) = {p}}
    IN  IF /\ \A p, q \in pods : p # q => p.files \cap q.files = {}
           /\ \A u \in planned : \E p \in pods : PodsOf(u, pods) = {p} /\ p.language = u.language
           /\ \A p \in pods : Agree(Group(p))
        THEN (legacy \ planned) \cup
                {Merged(id, p, Group(p)) : p \in {q \in pods : Group(q) # {}}}
        ELSE NoUnits

-----------------------------------------------------------------------------
(* validateDeploymentUnits.                                                *)

ValidAnyNames(units) ==  \* faulty: names are not compared
    \A u \in units : EstimateSize(Encode(u.files)) <= MaxConfigMapBytes

ValidUnits(units) ==
    /\ \A u, v \in units : u.name = v.name => u = v
    /\ \A u \in units :
          /\ u.language \in DOMAIN Letters
          /\ u.entrypoint \in DOMAIN u.files
          /\ EstimateSize(Encode(u.files)) <= MaxConfigMapBytes
=============================================================================
