------------------------------ MODULE MCPackage ------------------------------
(***************************************************************************)
(* Packages, manifests and requests for TLC.                               *)
(***************************************************************************)
EXTENDS Package

Chars == {"a", "b", "c", "d", "e", "p", "y", "r", "n", "o", "f", "k", "g", "-",
          "0", "1", "2", "3"}
LowerCase == [c \in Chars \cup {"A", "B"} |-> CASE c = "A" -> "a" [] c = "B" -> "b" [] OTHER -> c]
Digits == [n \in 0 .. 3 |-> <<"0", "1", "2", "3">>[n + 1]]
NoName == <<"f", "n">>
LanguageNames == ("py" :> <<"p", "y">>) @@ ("rb" :> <<"r", "b">>)
PlannedConfigs ==
    [l \in {"py", "node"} |-> [n \in 0 .. 3 |->
        IF l = "py" THEN <<"metacall-py-0", "metacall-py-1">>[IF n = 0 THEN 1 ELSE 2]
        ELSE "metacall-node"]]

A == <<"a">>
AB == <<"a", "b">>
Upper == <<"A", " ", " ", "B", "-">>           \* becomes a-b
Long1 == <<"a", "b", "c", "d", "e", "a", "b">>
Long2 == <<"a", "b", "c", "d", "e", "a", "c">>
Dashed == <<"a", "b", "c", "d", "e", "a", "b", "c", "d", "-", "a">>  \* cut at the dash
Twice == <<"a", "b", "c", "d", "-", "p", "y", "-", "p", "0">>  \* the name of a planned unit of abcd...

-----------------------------------------------------------------------------
(* Trees.                                                                  *)

Py(path, scripts) == Config("py", path, scripts, "none")
Rb(path, scripts) == Config("rb", path, scripts, "none")
Main == <<"main">>
Other == <<"other">>

Simple == (<<"metacall">> :> Py(<<".">>, {Main})) @@ (Main :> Text("m"))
              @@ (<<"requirements">> :> Text("r"))

\* A configuration above its sources, a script in a skipped directory, a file
\* with the name of the index, and a configuration that must not be found.
Nested == (<<"metacall">> :> Py(<<"src">>, {Main, <<"node_modules", "x">>}))
              @@ (<<"src", "main">> :> Text("m"))
              @@ (<<"src", "node_modules", "x">> :> Text("x"))
              @@ (<<"src", "node_modules", "metacall">> :> Py(<<".">>, {<<"x">>}))
              @@ (<<"source-index.json">> :> Text("i"))
              @@ (<<"src", "link">> :> Link)
              @@ (<<"package">> :> Text("p"))

Root == (<<"metacall">> :> Py(<<".">>, {Main})) @@ (Main :> Text("m"))
            @@ (<<"source-index.json">> :> Text("i"))

\* Two services: their manifests are the package's, or one has its own.
Shared == (<<"s1", "metacall">> :> Py(<<".">>, {Main})) @@ (<<"s1", "main">> :> Text("1"))
              @@ (<<"s2", "metacall">> :> Py(<<"..", "lib">>, {Main}))
              @@ (<<"lib", "main">> :> Text("2"))
              @@ (<<"requirements">> :> Text("r"))
Own == Shared @@ (<<"s1", "requirements">> :> Text("r1"))
Settings == (<<"s2", "metacall">> :> Config("py", <<"..", "lib">>, {Main}, "env")) @@ Shared
Mixed == (<<"s2", "metacall">> :> Rb(<<"..", "lib">>, {Main})) @@ Shared
Three == Shared @@ (<<"s3", "metacall">> :> Py(<<".">>, {Other})) @@ (<<"s3", "other">> :> Text("3"))

Broken ==
    { Main :> Text("m"),                                     \* no configuration
      <<"metacall">> :> Text("not json"),
      <<"metacall">> :> Config("cob", <<".">>, {}, "none"),  \* language not supported
      <<"metacall">> :> Py(<<"..">>, {}),                    \* sources outside
      <<"metacall">> :> Py(<<".">>, {Main}),                 \* script missing
      (<<"metacall">> :> Py(<<".">>, {Main})) @@ (Main :> Link),
      (<<"metacall">> :> Py(<<".">>, {<<"..", "main">>})) @@ (Main :> Text("m")) }

\* Too large for a ConfigMap; too many files for the planner.
Large == Simple @@ [p \in {<<"d">> \o <<n>> : n \in {"1", "2", "3", "4", "5"}} |-> Text("d")]
Many == Shared @@ [p \in {<<"d">> \o <<n>> : n \in {"1", "2", "3", "4"}} |-> Text("d")]

-----------------------------------------------------------------------------
(* Manifests.                                                              *)

Manifest(pods) == [version |-> "1", pods |-> pods, edges |-> {}]
Pod(n, files) == [id |-> n, language |-> "py", files |-> files]

S1 == <<"s1", "main">>
S2 == <<"lib", "main">>
S3 == <<"s3", "other">>

OfSimple == { Manifest(<<Pod(0, <<Main>>)>>) }
Together == Manifest(<<Pod(0, <<S1, <<"s1", ".", "..", "lib", "main">>>>)>>)
Apart == [Manifest(<<Pod(0, <<S1>>), Pod(1, <<S2>>)>>) EXCEPT !.edges = {<<0, 1>>}]
Partial == { Manifest(<<Pod(0, <<s>>)>>) : s \in {S1, S2} }

Unusable ==
    { [Together EXCEPT !.version = "2"],
      [Together EXCEPT !.edges = {<<0, 7>>}],
      Manifest(<<Pod(0, <<S1>>), Pod(0, <<S2>>)>>),       \* one id twice
      Manifest(<<Pod(0, <<S1, S1>>)>>),                   \* one file twice
      Manifest(<<Pod(0, <<>>)>>),
      Manifest(<<Pod(0, <<<<"..", "main">>>>)>>),         \* a file outside
      Manifest(<<Pod(0, <<<<"gone">>>>)>>),
      Manifest(<<Pod(0, <<S1, S2>>), Pod(1, <<S2>>)>>),   \* a file in two pods
      Manifest(<<[Pod(0, <<S1>>) EXCEPT !.language = "node"]>>) }

-----------------------------------------------------------------------------
(* Inputs.                                                                 *)

Input(kind, name, tree, mode, manifests) ==
    [kind |-> kind, id |-> name, suffix |-> name, second |-> 1, tree |-> tree, mode |-> mode,
     manifests |-> manifests]
Package1(name, tree, mode, manifests) == Input("package", name, tree, mode, manifests)

AllInputs ==
    { Package1(A, Nested, "off", {}),
      Package1(<<>>, Root, "on", {}),                      \* no id; no such mode
      [Package1(<<>>, Root, "off", {}) EXCEPT !.suffix = Dashed],
      [Package1(<<>>, Root, "off", {}) EXCEPT !.id = NoName],
      Package1(A, Simple, "auto", OfSimple),
      Package1(AB, Simple, "required", OfSimple),
      Package1(A, Shared, "auto", {Together, Apart} \cup Partial \cup Unusable),
      Package1(A, Shared, "required", {Together} \cup Unusable),
      Package1(A, Own, "auto", {Together, Apart}),
      Package1(A, Settings, "auto", {Together, Apart}),
      Package1(A, Mixed, "auto", {Together} \cup Partial),
      Package1(A, Three, "auto", {Together, Manifest(<<Pod(0, <<S1, S2, S3>>)>>),
                                  Manifest(<<Pod(0, <<S1, S3>>), Pod(1, <<S2>>)>>)}),
      Package1(Twice, Shared, "auto", {Together} \cup Partial),
      Package1(Long1, Mixed, "auto", Partial),
      Package1(A, Large, "off", {}),
      Package1(A, Many, "auto", {Together}),
      Input("path", A, Shared, "auto", {Together}) }
    \cup { Package1(A, tree, "off", {}) : tree \in Broken }

\* The other request meets the first one's deployment.
OtherInputs ==
    { Input("repository", Upper, Simple, "auto", OfSimple),
      Package1(A, Simple, "off", {}),
      Input("list", A, Simple, "off", {}),
      Input("acknowledge", A, <<>>, "off", {}),
      Input("acknowledge", <<>>, <<>>, "off", {}),
      Input("delete", A, <<>>, "off", {}) }

DeployedInputs ==
    [r \in Req |-> IF r = "r1" THEN AllInputs
                   ELSE OtherInputs \cup {in \in AllInputs : in.tree \notin Broken}]

\* Two ids that differ in their last letter, both planned.
SandboxInputs ==
    [r \in Req |-> {Package1(IF r = "r1" THEN Long1 ELSE Long2, Simple, "required", OfSimple)}]
=============================================================================
