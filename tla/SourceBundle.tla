---------------------------- MODULE SourceBundle ----------------------------
(***************************************************************************)
(* Source files as the data of a ConfigMap                                 *)
(* (src/internal/sourcebundle/sourcebundle.go).                            *)
(*                                                                         *)
(* The API server encodes the files of a unit, whose paths may be nested,  *)
(* into flat keys and an index; the operator reads the index to mount each *)
(* file where it was.  A path is the sequence of its components.  The      *)
(* digest of a path stands for the path: two never share one.              *)
(***************************************************************************)
EXTENDS Naturals, Sequences, FiniteSets

CONSTANT KeySafe  \* file names that are ConfigMap keys as they are

IndexPath == <<"source-index.json">>
IndexKey == [name |-> IndexPath]

\* Faulty: the name of the index is not reserved.
ConfigMapKeyAny(path) ==
    IF Len(path) = 1 /\ path[1] \in KeySafe THEN [name |-> path] ELSE [digest |-> path]

ConfigMapKey(path) ==
    IF path # IndexPath /\ Len(path) = 1 /\ path[1] \in KeySafe
    THEN [name |-> path] ELSE [digest |-> path]

\* Each file under its key, and the index from keys to paths.
Encode(files) ==
    LET index == [key \in {ConfigMapKey(p) : p \in DOMAIN files} |->
                     CHOOSE p \in DOMAIN files : ConfigMapKey(p) = key]
    IN  [key \in {IndexKey} \cup DOMAIN index |->
            IF key = IndexKey THEN index ELSE files[index[key]]]

\* EstimateSize, with every entry of the same weight.
EstimateSize(data) == Cardinality(DOMAIN data)

\* VolumeItems: what a pod finds mounted, or nothing if the index does not
\* describe every other entry by a path of its own.
Sound(data) ==
    LET index == data[IndexKey]
    IN  /\ DOMAIN index = DOMAIN data \ {IndexKey}
        /\ \A j, k \in DOMAIN index : index[j] = index[k] => j = k

Mounted(data) ==
    LET index == data[IndexKey]
    IN  IF ~Sound(data) THEN <<>>
        ELSE [p \in {index[k] : k \in DOMAIN index} |->
                 data[CHOOSE k \in DOMAIN index : index[k] = p]]
=============================================================================
