----------------------------- MODULE UnitNames -----------------------------
(***************************************************************************)
(* How the API server names deployments and their units                    *)
(* (src/internal/api/deploy.go, deploy_plan.go, server.go).                *)
(*                                                                         *)
(* A name is a sequence of characters, since what matters is where it is   *)
(* cut: the limit of 52 characters is a parameter, to be small enough for  *)
(* names to be cut in small instances.                                     *)
(***************************************************************************)
EXTENDS Naturals, Sequences, SequencesExt

CONSTANTS
    Limit,     \* the longest name: 52
    Fallback,  \* the name of what has no name: "function"
    Lower,     \* Lower[c]: the lower case of c, for the characters a name may have
    Digit      \* Digit[n]: the character of the number n

\* There is room for the id of a package without a name.
ASSUME LimitAssumption == Limit \in Nat /\ Limit >= 5

Valid == DOMAIN Lower
Dash == "-"

\* The characters a name is made of, and the names that are names already.
Kept == {c \in Valid : Lower[c] = c}
IsName(s) ==
    /\ s \in Seq(Kept) /\ s # <<>> /\ Len(s) <= Limit
    /\ s[1] # Dash /\ s[Len(s)] # Dash

ASSUME CharactersAssumption ==
    /\ Dash \in Kept /\ {"p", "k", "g"} \subseteq Kept
    /\ \A c \in Valid : Lower[c] \in Kept
    /\ \A n \in DOMAIN Digit : Digit[n] \in Kept \ {Dash}
    /\ IsName(Fallback)

-----------------------------------------------------------------------------
(* sanitizeName.                                                           *)

\* Lower case, and one dash for every run of characters no name may have.
Cleaned(value) ==
    LET Starts(i) == value[i] \in Valid \/ i = 1 \/ value[i - 1] \in Valid
        starts == {i \in DOMAIN value : Starts(i)}
        Nth(j) == CHOOSE i \in starts : Cardinality(starts \cap (1 .. i)) = j
    IN  [j \in 1 .. Cardinality(starts) |->
            IF value[Nth(j)] \in Valid THEN Lower[value[Nth(j)]] ELSE Dash]

Solid(s) == {i \in DOMAIN s : s[i] # Dash}

TrimRight(s) == IF Solid(s) = {} THEN <<>> ELSE SubSeq(s, 1, Max(Solid(s)))
Trim(s) == IF Solid(s) = {} THEN <<>> ELSE SubSeq(s, Min(Solid(s)), Max(Solid(s)))

First(s, n) == SubSeq(s, 1, IF Len(s) < n THEN Len(s) ELSE n)

CutRaw(s) == First(s, Limit)  \* faulty: a dash may be left at the end
CutNever(s) == s              \* faulty
Cut(s) == TrimRight(First(s, Limit))

Sanitize(value) ==
    LET name == Cut(Trim(Cleaned(value)))
    IN  IF name = <<>> THEN Fallback ELSE name

-----------------------------------------------------------------------------
(* Deployment ids.                                                         *)

\* handlePackageCreate: the id, else the suffix, else the second of the arrival.
PackageId(id, suffix, second) ==
    IF Sanitize(id) # Fallback THEN Sanitize(id)
    ELSE IF Sanitize(suffix) # Fallback THEN Sanitize(suffix)
    ELSE <<"p", "k", "g", Dash, Digit[second]>>

\* deploymentID: the suffix, else the name of the repository.
RepositoryId(suffix, repository) == Sanitize(IF suffix # <<>> THEN suffix ELSE repository)

-----------------------------------------------------------------------------
(* Units.                                                                  *)

\* The nth unit of its language in a package.
LegacyBase(id, language) == Sanitize(id \o <<Dash>> \o language)
LegacyName(base, n) == IF n = 1 THEN base ELSE base \o <<Dash, Digit[n]>>

PodSuffix(language, pod) == <<Dash>> \o Sanitize(language) \o <<Dash, "p", Digit[pod]>>

\* Faulty: the suffix is counted twice.
PlannedNameShort(id, language, pod) ==
    LET suffix == PodSuffix(language, pod)
    IN  First(Sanitize(id), IF Limit > 2 * Len(suffix) THEN Limit - 2 * Len(suffix) ELSE 1)
            \o suffix

\* The unit of a planner pod: the id gives way to the suffix.
PlannedName(id, language, pod) ==
    LET suffix == PodSuffix(language, pod)
        prefix == Sanitize(id)
    IN  IF Len(suffix) >= Limit THEN Sanitize(Fallback \o suffix)
        ELSE (IF Len(prefix) + Len(suffix) > Limit
              THEN TrimRight(First(prefix, Limit - Len(suffix))) ELSE prefix) \o suffix
=============================================================================
