----------------------------- MODULE UnitsProofs -----------------------------
(***************************************************************************)
(* Proofs about the operators of Units, UnitNames and SourceBundle, for    *)
(* any names, packages and manifests.                                      *)
(***************************************************************************)
EXTENDS Units, FiniteSetTheorems, SequenceTheorems, WellFoundedInduction, TLAPS

-----------------------------------------------------------------------------
(* Bundles.                                                                *)

IsFunction(f) == f = [x \in DOMAIN f |-> f[x]]

\* A key tells its path, and no path has the key of the index.
LEMMA KeysApart ==
    ASSUME NEW p, NEW q
    PROVE  /\ ConfigMapKey(p) = ConfigMapKey(q) => p = q
           /\ ConfigMapKey(p) # IndexKey
<1>1. \A x, y : [name |-> x] = [name |-> y] => x = y
  <2> SUFFICES ASSUME NEW x, NEW y, [name |-> x] = [name |-> y] PROVE x = y
    OBVIOUS
  <2>1. [name |-> x].name = [name |-> y].name
    OBVIOUS
  <2> QED BY <2>1
<1>2. \A x, y : [digest |-> x] = [digest |-> y] => x = y
  <2> SUFFICES ASSUME NEW x, NEW y, [digest |-> x] = [digest |-> y] PROVE x = y
    OBVIOUS
  <2>1. [digest |-> x].digest = [digest |-> y].digest
    OBVIOUS
  <2> QED BY <2>1
<1>3. \A x, y : [name |-> x] # [digest |-> y]
  <2> SUFFICES ASSUME NEW x, NEW y, [name |-> x] = [digest |-> y] PROVE FALSE
    OBVIOUS
  <2>1. DOMAIN [name |-> x] = {"name"} /\ DOMAIN [digest |-> y] = {"digest"}
    OBVIOUS
  <2>2. "name" # "digest"
    OBVIOUS
  <2> QED BY <2>1, <2>2
<1> QED BY <1>1, <1>2, <1>3 DEF ConfigMapKey, IndexKey

\* What Encode makes of files, said without CHOOSE.
LEMMA Encoded ==
    ASSUME NEW files, NEW keys, keys = {ConfigMapKey(p) : p \in DOMAIN files}
    PROVE  LET index == Encode(files)[IndexKey] IN
           /\ DOMAIN Encode(files) = keys \cup {IndexKey}
           /\ IndexKey \notin keys
           /\ DOMAIN index = keys
           /\ \A p \in DOMAIN files :
                 /\ index[ConfigMapKey(p)] = p
                 /\ Encode(files)[ConfigMapKey(p)] = files[p]
<1> DEFINE index == [key \in keys |-> CHOOSE p \in DOMAIN files : ConfigMapKey(p) = key]
<1>1. IndexKey \notin keys
  BY KeysApart
<1>2. \A p \in DOMAIN files : ConfigMapKey(p) \in keys /\ index[ConfigMapKey(p)] = p
  BY KeysApart
<1>3. DOMAIN index = keys
  OBVIOUS
<1>4. Encode(files) = [key \in {IndexKey} \cup DOMAIN index |->
                          IF key = IndexKey THEN index ELSE files[index[key]]]
  BY DEF Encode
<1>5. /\ DOMAIN Encode(files) = keys \cup {IndexKey}
      /\ Encode(files)[IndexKey] = index
      /\ \A k \in keys : Encode(files)[k] = files[index[k]]
  <2> HIDE DEF index
  <2> QED BY <1>1, <1>3, <1>4
<1> QED BY <1>1, <1>2, <1>3, <1>5

\* A pod finds mounted exactly the files that were encoded, each at its path and
\* with its content: VolumeItems inverts Encode (sourcebundle.go:22-86).
THEOREM MountedInvertsEncode ==
    ASSUME NEW files, IsFunction(files)
    PROVE  Mounted(Encode(files)) = files
<1> DEFINE keys == {ConfigMapKey(p) : p \in DOMAIN files}
           data == Encode(files)
           index == data[IndexKey]
           paths == {index[k] : k \in DOMAIN index}
<1>1. /\ DOMAIN data = keys \cup {IndexKey}
      /\ IndexKey \notin keys
      /\ DOMAIN index = keys
      /\ \A p \in DOMAIN files : index[ConfigMapKey(p)] = p /\ data[ConfigMapKey(p)] = files[p]
  BY Encoded
<1> HIDE DEF data
<1>2. Sound(data)
  <2>1. DOMAIN index = DOMAIN data \ {IndexKey}
    BY <1>1
  <2>2. \A j, k \in DOMAIN index : index[j] = index[k] => j = k
    BY <1>1
  <2> QED BY <2>1, <2>2 DEF Sound
<1>3. paths = DOMAIN files
  BY <1>1
<1>4. \A p \in DOMAIN files :
         data[CHOOSE k \in DOMAIN index : index[k] = p] = files[p]
  <2> SUFFICES ASSUME NEW p \in DOMAIN files
               PROVE  data[CHOOSE k \in DOMAIN index : index[k] = p] = files[p]
    OBVIOUS
  <2>1. \E k \in DOMAIN index : index[k] = p
    BY <1>1
  <2>2. \A k \in DOMAIN index : index[k] = p => k = ConfigMapKey(p)
    BY <1>1
  <2> QED BY <2>1, <2>2, <1>1
<1>5. Mounted(data) = [p \in DOMAIN files |-> files[p]]
  BY <1>2, <1>3, <1>4 DEF Mounted
<1> QED BY <1>5 DEF IsFunction, data

-----------------------------------------------------------------------------
(* Names.                                                                  *)

\* A set of numbers has a least one.
LEMMA LeastNumber ==
  ASSUME NEW T \in SUBSET Nat, T # {}
  PROVE  \E x \in T : \A y \in T : x <= y
<1>1. PICK x \in T : \A y \in T : ~(<<y, x>> \in OpToRel(<, Nat))
  BY NatLessThanWellFounded, WFMin, Zenon
<1>2. ASSUME NEW y \in T
      PROVE  x <= y
  <2>1. ~(y < x)
    BY <1>1, Zenon DEF OpToRel
  <2> QED
    BY <2>1
<1> QED
  BY <1>2

\* What Max and Min choose of positions.
LEMMA Extremes ==
  ASSUME NEW n \in Nat, NEW S \in SUBSET (1 .. n), S # {}
  PROVE  /\ Max(S) \in S /\ \A i \in S : i <= Max(S)
         /\ Min(S) \in S /\ \A i \in S : Min(S) <= i
<1>1. PICK i \in S : \A j \in S : i <= j
  BY LeastNumber
<1> DEFINE T == {n - j : j \in S}
<1>2. T \in SUBSET Nat /\ T # {}
  OBVIOUS
<1>3. PICK k \in T : \A j \in T : k <= j
  <2> HIDE DEF T
  <2> QED
    BY <1>2, LeastNumber
<1>4. PICK m \in S : k = n - m
  OBVIOUS
<1>5. \A j \in S : j <= m
  <2> TAKE j \in S
  <2>1. n - j \in T
    OBVIOUS
  <2>2. n - m <= n - j
    BY <1>3, <1>4, <2>1
  <2> QED
    BY <2>2
<1>6. Min(S) \in S /\ \A j \in S : Min(S) <= j
  BY <1>1 DEF Min
<1>7. Max(S) \in S /\ \A j \in S : j <= Max(S)
  <2>1. \A j \in S : m >= j
    BY <1>5
  <2>2. Max(S) \in S /\ \A j \in S : Max(S) >= j
    BY <2>1, Zenon DEF Max
  <2> QED
    BY <2>2
<1> QED
  BY <1>6, <1>7

\* A function from positions is a sequence.
LEMMA FunctionIsSeq ==
  ASSUME NEW n \in Nat, NEW S, NEW f \in [1 .. n -> S]
  PROVE  f \in Seq(S) /\ Len(f) = n
<1>1. f \in Seq(S)
  BY SeqDef
<1> QED
  BY <1>1, LenProperties

\* What is cleaned consists of characters that are kept.
LEMMA CleanedIs ==
  ASSUME NEW S, NEW value \in Seq(S)
  PROVE  Cleaned(value) \in Seq(Kept)
<1> DEFINE Starts(i) == value[i] \in Valid \/ i = 1 \/ value[i - 1] \in Valid
           starts == {i \in DOMAIN value : Starts(i)}
           Nth(j) == CHOOSE i \in starts : Cardinality(starts \cap (1 .. i)) = j
           Char(j) == IF value[Nth(j)] \in Valid THEN Lower[value[Nth(j)]] ELSE Dash
<1>1. Cardinality(starts) \in Nat
  <2>1. DOMAIN value = 1 .. Len(value) /\ Len(value) \in Nat
    BY LenProperties
  <2>2. IsFiniteSet(1 .. Len(value))
    BY <2>1, FS_Interval
  <2>3. starts \in SUBSET (1 .. Len(value))
    BY <2>1
  <2> HIDE DEF starts
  <2> QED
    BY <2>2, <2>3, FS_Subset, FS_CardinalityType
<1>2. Cleaned(value) = [j \in 1 .. Cardinality(starts) |-> Char(j)]
  BY DEF Cleaned
<1>3. \A j : Char(j) \in Kept
  <2> HIDE DEF Nth
  <2> QED
    BY CharactersAssumption
<1> HIDE DEF starts, Char
<1>4. [j \in 1 .. Cardinality(starts) |-> Char(j)] \in [1 .. Cardinality(starts) -> Kept]
  BY <1>3
<1> QED
  BY <1>1, <1>2, <1>4, FunctionIsSeq

\* What is clean already stays as it is.
LEMMA CleanedKeeps ==
  ASSUME NEW s \in Seq(Kept)
  PROVE  Cleaned(s) = s
<1> DEFINE Starts(i) == s[i] \in Valid \/ i = 1 \/ s[i - 1] \in Valid
           starts == {i \in DOMAIN s : Starts(i)}
           Nth(j) == CHOOSE i \in starts : Cardinality(starts \cap (1 .. i)) = j
           Char(j) == IF s[Nth(j)] \in Valid THEN Lower[s[Nth(j)]] ELSE Dash
<1>1. Len(s) \in Nat /\ DOMAIN s = 1 .. Len(s) /\ \A i \in 1 .. Len(s) : s[i] \in Kept
  BY LenProperties, ElementOfSeq
<1>2. starts = 1 .. Len(s)
  BY <1>1 DEF Kept
<1>3. Cleaned(s) = [j \in 1 .. Cardinality(starts) |-> Char(j)]
  BY DEF Cleaned
<1> HIDE DEF starts
<1>4. Cardinality(starts) = Len(s)
  BY <1>1, <1>2, FS_Interval
<1>5. \A i \in 1 .. Len(s) : Cardinality(starts \cap (1 .. i)) = i
  <2> TAKE i \in 1 .. Len(s)
  <2>1. starts \cap (1 .. i) = 1 .. i /\ i \in Int /\ 1 <= i
    BY <1>1, <1>2
  <2>2. Cardinality(1 .. i) = i
    BY <2>1, FS_Interval
  <2> QED
    BY <2>1, <2>2
<1>6. \A j \in 1 .. Len(s) : Nth(j) = j
  BY <1>2, <1>5
<1>7. \A j \in 1 .. Len(s) : Char(j) = s[j]
  <2> HIDE DEF Nth
  <2> QED
    BY <1>1, <1>6 DEF Kept
<1> HIDE DEF Char
<1>8. s = [j \in 1 .. Len(s) |-> s[j]]
  BY <1>1, LenProperties
<1> QED
  BY <1>3, <1>4, <1>7, <1>8

\* A piece of a sequence.
LEMMA Piece ==
  ASSUME NEW S, NEW s \in Seq(S), NEW m \in 1 .. Len(s), NEW n \in m .. Len(s)
  PROVE  /\ SubSeq(s, m, n) \in Seq(S)
         /\ Len(SubSeq(s, m, n)) = n - m + 1
         /\ \A i \in 1 .. n - m + 1 : SubSeq(s, m, n)[i] = s[m + i - 1]
<1>1. Len(s) \in Nat /\ m \in Int /\ n \in Int /\ m <= n
  BY LenProperties
<1>2. \A i \in m .. n : s[i] \in S
  BY <1>1, ElementOfSeq
<1> QED
  BY <1>1, <1>2, SubSeqProperties

\* The beginning of a sequence.
LEMMA FirstIs ==
  ASSUME NEW S, NEW s \in Seq(S), s # <<>>, NEW n \in Nat, n >= 1
  PROVE  /\ First(s, n) \in Seq(S) /\ First(s, n) # <<>>
         /\ Len(First(s, n)) <= n /\ Len(First(s, n)) <= Len(s)
         /\ First(s, n)[1] = s[1]
         /\ Len(s) <= n => First(s, n) = s
<1>1. Len(s) \in Nat /\ Len(s) >= 1
  BY EmptySeq
<1> DEFINE k == IF Len(s) < n THEN Len(s) ELSE n
<1>2. k \in 1 .. Len(s) /\ k <= n /\ First(s, n) = SubSeq(s, 1, k)
  BY <1>1 DEF First
<1>3. Len(s) <= n => k = Len(s)
  BY <1>1
<1> HIDE DEF k
<1>4. SubSeq(s, 1, k) \in Seq(S) /\ Len(SubSeq(s, 1, k)) = k /\ SubSeq(s, 1, k)[1] = s[1]
  <2>1. 1 \in 1 .. Len(s) /\ k \in 1 .. Len(s) /\ 1 \in 1 .. k - 1 + 1
    BY <1>1, <1>2
  <2> QED
    BY <1>1, <2>1, Piece
<1>5. SubSeq(s, 1, Len(s)) = s
  BY SubSeqFull
<1>6. SubSeq(s, 1, k) # <<>>
  BY <1>2, <1>4, EmptySeq
<1>7. k <= Len(s) /\ k \in Nat
  BY <1>1, <1>2
<1> HIDE DEF First
<1> QED
  BY <1>2, <1>3, <1>4, <1>5, <1>6, <1>7

\* Cutting dashes off the end.
LEMMA TrimRightIs ==
  ASSUME NEW S, NEW s \in Seq(S), s # <<>>, s[1] # Dash
  PROVE  /\ TrimRight(s) \in Seq(S) /\ TrimRight(s) # <<>>
         /\ TrimRight(s)[1] = s[1] /\ TrimRight(s)[Len(TrimRight(s))] # Dash
         /\ Len(TrimRight(s)) <= Len(s)
         /\ s[Len(s)] # Dash => TrimRight(s) = s
<1>1. Len(s) \in Nat /\ Len(s) >= 1 /\ DOMAIN s = 1 .. Len(s)
  BY EmptySeq, LenProperties
<1>2. Solid(s) \in SUBSET (1 .. Len(s)) /\ 1 \in Solid(s)
  BY <1>1 DEF Solid
<1> DEFINE m == Max(Solid(s))
<1>3. m \in Solid(s) /\ \A i \in Solid(s) : i <= m
  BY <1>1, <1>2, Extremes
<1>4. TrimRight(s) = SubSeq(s, 1, m)
  BY <1>2 DEF TrimRight
<1> HIDE DEF m
<1>5. m \in 1 .. Len(s) /\ s[m] # Dash
  BY <1>2, <1>3 DEF Solid
<1>6. s[Len(s)] # Dash => m = Len(s)
  BY <1>1, <1>3, <1>5 DEF Solid
<1>7. /\ SubSeq(s, 1, m) \in Seq(S) /\ Len(SubSeq(s, 1, m)) = m
      /\ SubSeq(s, 1, m)[1] = s[1] /\ SubSeq(s, 1, m)[m] = s[m]
  <2>1. 1 \in 1 .. Len(s) /\ 1 \in 1 .. m - 1 + 1 /\ m \in 1 .. m - 1 + 1 /\ 1 + m - 1 = m
    BY <1>1, <1>5
  <2> QED
    BY <1>1, <1>5, <2>1, Piece
<1>8. SubSeq(s, 1, m) # <<>> /\ m <= Len(s)
  BY <1>1, <1>5, <1>7, EmptySeq
<1>9. m = Len(s) => SubSeq(s, 1, m) = s
  BY SubSeqFull
<1> QED
  BY <1>4, <1>5, <1>6, <1>7, <1>8, <1>9

\* Cutting dashes off both ends.
LEMMA TrimIs ==
  ASSUME NEW S, NEW s \in Seq(S)
  PROVE  /\ Trim(s) \in Seq(S)
         /\ Trim(s) # <<>> => Trim(s)[1] # Dash /\ Trim(s)[Len(Trim(s))] # Dash
         /\ s # <<>> /\ s[1] # Dash /\ s[Len(s)] # Dash => Trim(s) = s
<1>1. Len(s) \in Nat /\ DOMAIN s = 1 .. Len(s) /\ (s # <<>> => Len(s) >= 1)
  BY EmptySeq, LenProperties
<1>2. CASE Solid(s) = {}
  <2>1. Trim(s) = <<>>
    BY <1>2 DEF Trim
  <2>2. ~(s # <<>> /\ s[1] # Dash)
    BY <1>1, <1>2 DEF Solid
  <2> QED
    BY <2>1, <2>2, EmptySeq
<1>3. CASE Solid(s) # {}
  <2> DEFINE m == Min(Solid(s))
             n == Max(Solid(s))
  <2>1. Solid(s) \in SUBSET (1 .. Len(s))
    BY <1>1 DEF Solid
  <2>2. m \in Solid(s) /\ n \in Solid(s) /\ \A i \in Solid(s) : m <= i /\ i <= n
    BY <1>1, <1>3, <2>1, Extremes
  <2>3. Trim(s) = SubSeq(s, m, n)
    BY <1>3 DEF Trim
  <2> HIDE DEF m, n
  <2>4. m \in 1 .. Len(s) /\ n \in m .. Len(s) /\ s[m] # Dash /\ s[n] # Dash
    BY <2>1, <2>2 DEF Solid
  <2>5. s[1] # Dash /\ s[Len(s)] # Dash => m = 1 /\ n = Len(s)
    BY <1>1, <2>1, <2>2, <2>4 DEF Solid
  <2>6. /\ SubSeq(s, m, n) \in Seq(S) /\ Len(SubSeq(s, m, n)) = n - m + 1
        /\ SubSeq(s, m, n)[1] = s[m] /\ SubSeq(s, m, n)[n - m + 1] = s[n]
    <3>1. 1 \in 1 .. n - m + 1 /\ n - m + 1 \in 1 .. n - m + 1
      BY <1>1, <2>4
    <3>2. m + 1 - 1 = m /\ m + (n - m + 1) - 1 = n
      BY <1>1, <2>4
    <3> QED
      BY <2>4, <3>1, <3>2, Piece
  <2> QED
    BY <1>1, <2>3, <2>4, <2>5, <2>6, SubSeqFull
<1> QED
  BY <1>2, <1>3

\* Whatever it is made from, a sanitized name is a name ...
LEMMA SanitizeIs ==
  ASSUME NEW S, NEW value \in Seq(S)
  PROVE  IsName(Sanitize(value))
<1> DEFINE trimmed == Trim(Cleaned(value))
           name == Cut(trimmed)
<1>1. /\ trimmed \in Seq(Kept)
      /\ trimmed # <<>> => trimmed[1] # Dash /\ trimmed[Len(trimmed)] # Dash
  BY CleanedIs, TrimIs
<1>2. Sanitize(value) = IF name = <<>> THEN Fallback ELSE name
  BY DEF Sanitize
<1> HIDE DEF trimmed
<1>3. CASE trimmed = <<>>
  <2>1. Len(<<>>) = 0 /\ 0 < Limit
    BY LimitAssumption, EmptySeq
  <2>2. First(<<>>, Limit) = <<>>
    BY <2>1, SubSeqEmpty DEF First
  <2>3. name = <<>>
    <3>1. Solid(<<>>) = {}
      BY DEF Solid
    <3> QED
      BY <1>3, <2>2, <3>1 DEF Cut, TrimRight
  <2> QED
    BY <1>2, <2>3, CharactersAssumption
<1>4. CASE trimmed # <<>>
  <2> DEFINE first == First(trimmed, Limit)
  <2>1. first \in Seq(Kept) /\ first # <<>> /\ Len(first) <= Limit /\ first[1] # Dash
    BY <1>1, <1>4, FirstIs, LimitAssumption
  <2>2. name = TrimRight(first)
    BY DEF Cut
  <2> HIDE DEF first, name
  <2>3. /\ name \in Seq(Kept) /\ name # <<>> /\ name[1] # Dash /\ name[Len(name)] # Dash
        /\ Len(name) <= Len(first)
    BY <2>1, <2>2, TrimRightIs
  <2>4. Len(name) <= Limit
    BY <2>1, <2>3, LenProperties, LimitAssumption
  <2> QED
    BY <1>2, <2>3, <2>4 DEF IsName
<1> QED
  BY <1>3, <1>4

\* ... and a name is sanitized already.
LEMMA SanitizeKeeps ==
  ASSUME NEW s, IsName(s)
  PROVE  Sanitize(s) = s
<1>1. /\ s \in Seq(Kept) /\ s # <<>> /\ Len(s) <= Limit /\ s[1] # Dash /\ s[Len(s)] # Dash
  BY DEF IsName
<1>2. Cleaned(s) = s
  BY <1>1, CleanedKeeps
<1>3. Trim(s) = s
  BY <1>1, TrimIs
<1>4. First(s, Limit) = s
  BY <1>1, FirstIs, LimitAssumption
<1>5. TrimRight(s) = s
  BY <1>1, TrimRightIs
<1> QED
  BY <1>1, <1>2, <1>3, <1>4, <1>5 DEF Sanitize, Cut

\* The id of a package, named, suffixed or anonymous, is a name.
LEMMA PackageIdIs ==
  ASSUME NEW S, NEW value \in Seq(S), NEW suffix \in Seq(S), NEW second \in DOMAIN Digit
  PROVE  IsName(PackageId(value, suffix, second))
<1>1. IsName(Sanitize(value)) /\ IsName(Sanitize(suffix))
  BY SanitizeIs
<1> DEFINE name == <<"p", "k", "g", Dash, Digit[second]>>
<1>2. IsName(name)
  <2>1. Digit[second] \in Kept /\ Digit[second] # Dash /\ Dash \in Kept
    BY CharactersAssumption
  <2>2. "p" \in Kept /\ "k" \in Kept /\ "g" \in Kept
    BY CharactersAssumption
  <2>3. name \in Seq(Kept) /\ name # <<>> /\ Len(name) = 5
    BY <2>1, <2>2
  <2>4. name[1] = "p" /\ name[5] = Digit[second] /\ "p" # Dash
    BY DEF Dash
  <2> QED
    BY <2>1, <2>3, <2>4, LimitAssumption DEF IsName
<1> QED
  BY <1>1, <1>2 DEF PackageId

LEMMA RepositoryIdIs ==
  ASSUME NEW S, NEW value \in Seq(S), NEW suffix \in Seq(S)
  PROVE  IsName(RepositoryId(suffix, value))
BY SanitizeIs DEF RepositoryId

-----------------------------------------------------------------------------
(* Names of units.                                                         *)

\* A name a unit of a deployment may get: configured or planned, and numbered.
OwnName(name, deploymentID, word) ==
    \E n \in Nat :
        \/ name = LegacyName(LegacyBase(deploymentID, word), n)
        \/ name = PlannedName(deploymentID, word, n)

\* What follows the word of the language.
Tails ==
    {<<>>} \cup {<<Dash, Digit[n]>> : n \in Nat} \cup {<<Dash, "p", Digit[n]>> : n \in Nat}

\* Two sequences, one after the other.
LEMMA Joined ==
  ASSUME NEW S, NEW s \in Seq(S), NEW t \in Seq(S)
  PROVE  /\ s \o t \in Seq(S) /\ Len(s \o t) = Len(s) + Len(t)
         /\ \A i \in 1 .. Len(s) : (s \o t)[i] = s[i]
         /\ \A i \in 1 .. Len(t) : (s \o t)[Len(s) + i] = t[i]
<1> DEFINE st == s \o t
<1>1. Len(s) \in Nat /\ Len(t) \in Nat
  BY LenProperties
<1>2. /\ st \in Seq(S) /\ Len(st) = Len(s) + Len(t)
      /\ \A i \in 1 .. Len(s) + Len(t) : st[i] = IF i <= Len(s) THEN s[i] ELSE t[i - Len(s)]
  BY ConcatProperties
<1> HIDE DEF st
<1>3. \A i \in 1 .. Len(s) : st[i] = s[i]
  BY <1>1, <1>2
<1>4. \A i \in 1 .. Len(t) : st[Len(s) + i] = t[i]
  <2> TAKE i \in 1 .. Len(t)
  <2>1. Len(s) + i \in 1 .. Len(s) + Len(t) /\ ~(Len(s) + i <= Len(s)) /\ Len(s) + i - Len(s) = i
    BY <1>1
  <2> QED
    BY <1>2, <2>1
<1> QED
  BY <1>2, <1>3, <1>4 DEF st

\* Where the parts of the name of a unit are.
MadeOf(name, id, word, tail) ==
    /\ Len(name) = Len(id) + 1 + Len(word) + Len(tail)
    /\ \A i \in 1 .. Len(id) : name[i] = id[i]
    /\ name[Len(id) + 1] = Dash
    /\ \A i \in 1 .. Len(word) : name[Len(id) + 1 + i] = word[i]
    /\ \A i \in 1 .. Len(tail) : name[Len(id) + 1 + Len(word) + i] = tail[i]

LEMMA Parts ==
  ASSUME NEW id \in Seq(Kept), NEW word \in Seq(Kept), NEW tail \in Seq(Kept)
  PROVE  MadeOf(((id \o <<Dash>>) \o word) \o tail, id, word, tail)
<1> DEFINE dash == <<Dash>>
           front == id \o dash
           stem == front \o word
           name == stem \o tail
<1>1. Len(id) \in Nat /\ Len(word) \in Nat /\ Len(tail) \in Nat
  BY LenProperties
<1>2. dash \in Seq(Kept) /\ Len(dash) = 1 /\ dash[1] = Dash
  BY CharactersAssumption
<1> HIDE DEF dash
<1>3. \A s, t \in Seq(Kept) :
         /\ s \o t \in Seq(Kept) /\ Len(s \o t) = Len(s) + Len(t)
         /\ \A i \in 1 .. Len(s) : (s \o t)[i] = s[i]
         /\ \A i \in 1 .. Len(t) : (s \o t)[Len(s) + i] = t[i]
  BY Joined
<1>4. /\ front \in Seq(Kept) /\ Len(front) = Len(id) + Len(dash)
      /\ \A i \in 1 .. Len(id) : front[i] = id[i]
      /\ \A i \in 1 .. Len(dash) : front[Len(id) + i] = dash[i]
  BY <1>2, <1>3
<1>5. Len(front) = Len(id) + 1 /\ front[Len(id) + 1] = Dash
  BY <1>1, <1>2, <1>4
<1> HIDE DEF front
<1>6. /\ stem \in Seq(Kept) /\ Len(stem) = Len(front) + Len(word)
      /\ \A i \in 1 .. Len(front) : stem[i] = front[i]
      /\ \A i \in 1 .. Len(word) : stem[Len(front) + i] = word[i]
  BY <1>3, <1>4
<1> HIDE DEF stem
<1>7. /\ Len(name) = Len(stem) + Len(tail)
      /\ \A i \in 1 .. Len(stem) : name[i] = stem[i]
      /\ \A i \in 1 .. Len(tail) : name[Len(stem) + i] = tail[i]
  BY <1>3, <1>6
<1> HIDE DEF name
<1>8. Len(stem) = Len(id) + 1 + Len(word)
  BY <1>5, <1>6, Zenon
<1>9. \A i \in 1 .. Len(id) : name[i] = id[i]
  <2> TAKE i \in 1 .. Len(id)
  <2>1. i \in 1 .. Len(front) /\ i \in 1 .. Len(stem)
    BY <1>1, <1>5, <1>8
  <2> QED
    BY <1>4, <1>6, <1>7, <2>1
<1>10. name[Len(id) + 1] = Dash
  BY <1>1, <1>5, <1>6, <1>7, <1>8
<1>11. \A i \in 1 .. Len(word) : name[Len(id) + 1 + i] = word[i]
  <2> TAKE i \in 1 .. Len(word)
  <2>1. Len(id) + 1 + i \in 1 .. Len(stem)
    BY <1>1, <1>8
  <2> QED
    BY <1>5, <1>6, <1>7, <2>1
<1>12. /\ Len(name) = Len(id) + 1 + Len(word) + Len(tail)
       /\ \A i \in 1 .. Len(tail) : name[Len(id) + 1 + Len(word) + i] = tail[i]
  BY <1>7, <1>8
<1>13. MadeOf(name, id, word, tail)
  BY <1>9, <1>10, <1>11, <1>12 DEF MadeOf
<1> QED
  BY <1>13 DEF name, stem, front, dash

\* The tail is told by the end: only a tail ends in a digit.
LEMMA TailTold ==
  ASSUME NEW name, NEW id \in Seq(Kept), NEW word \in Seq(Kept), NEW tail \in Tails,
         Len(word) >= 1, \A n \in Nat : word[Len(word)] # Digit[n],
         MadeOf(name, id, word, tail)
  PROVE  LET last == name[Len(name)]
             before == name[Len(name) - 1] IN
         \/ Len(tail) = 0 /\ \A n \in Nat : last # Digit[n]
         \/ Len(tail) = 2 /\ before = Dash /\ \E n \in Nat : last = Digit[n]
         \/ Len(tail) = 3 /\ before = "p" /\ \E n \in Nat : last = Digit[n]
<1>1. Len(id) \in Nat /\ Len(word) \in Nat
  BY LenProperties
<1>2. /\ Len(name) = Len(id) + 1 + Len(word) + Len(tail)
      /\ \A i \in 1 .. Len(word) : name[Len(id) + 1 + i] = word[i]
      /\ \A i \in 1 .. Len(tail) : name[Len(id) + 1 + Len(word) + i] = tail[i]
  BY DEF MadeOf
<1>3. CASE tail = <<>>
  <2>1. Len(tail) = 0 /\ Len(name) = Len(id) + 1 + Len(word) /\ Len(word) \in 1 .. Len(word)
    BY <1>1, <1>2, <1>3
  <2> QED
    BY <1>2, <2>1
<1>4. CASE \E n \in Nat : tail = <<Dash, Digit[n]>>
  <2>1. PICK n \in Nat : tail = <<Dash, Digit[n]>>
    BY <1>4
  <2>2. Len(tail) = 2 /\ tail[1] = Dash /\ tail[2] = Digit[n]
    BY <2>1
  <2>3. Len(name) = Len(id) + 1 + Len(word) + 2 /\ Len(name) - 1 = Len(id) + 1 + Len(word) + 1
    BY <1>1, <1>2, <2>2
  <2>4. name[Len(id) + 1 + Len(word) + 2] = tail[2] /\ name[Len(id) + 1 + Len(word) + 1] = tail[1]
    BY <1>2, <2>2
  <2> QED
    BY <2>2, <2>3, <2>4
<1>5. CASE \E n \in Nat : tail = <<Dash, "p", Digit[n]>>
  <2>1. PICK n \in Nat : tail = <<Dash, "p", Digit[n]>>
    BY <1>5
  <2>2. Len(tail) = 3 /\ tail[2] = "p" /\ tail[3] = Digit[n]
    BY <2>1
  <2>3. Len(name) = Len(id) + 1 + Len(word) + 3 /\ Len(name) - 1 = Len(id) + 1 + Len(word) + 2
    BY <1>1, <1>2, <2>2
  <2>4. name[Len(id) + 1 + Len(word) + 3] = tail[3] /\ name[Len(id) + 1 + Len(word) + 2] = tail[2]
    BY <1>2, <2>2
  <2> QED
    BY <2>2, <2>3, <2>4
<1> QED
  BY <1>3, <1>4, <1>5 DEF Tails

LEMMA SumsAgree ==
  ASSUME NEW a \in Nat, NEW b \in Nat, NEW c \in Nat, NEW d \in Nat, NEW n \in Nat, NEW m \in Nat,
         n = m, a + 1 + b + n = c + 1 + d + m
  PROVE  a + b = c + d
OBVIOUS

\* The id is told by the last dash before the tail.
LEMMA IdTold ==
  ASSUME NEW name, NEW i \in Seq(Kept), NEW j \in Seq(Kept),
         NEW w \in Seq(Kept), NEW v \in Seq(Kept), NEW s, NEW t,
         Len(s) \in Nat, Len(t) \in Nat, Len(s) = Len(t),
         \A k \in 1 .. Len(w) : w[k] # Dash, \A k \in 1 .. Len(v) : v[k] # Dash,
         MadeOf(name, i, w, s), MadeOf(name, j, v, t)
  PROVE  i = j
<1>1. Len(i) \in Nat /\ Len(j) \in Nat /\ Len(w) \in Nat /\ Len(v) \in Nat
  BY LenProperties
<1>2. /\ Len(name) = Len(i) + 1 + Len(w) + Len(s)
      /\ \A k \in 1 .. Len(i) : name[k] = i[k]
      /\ name[Len(i) + 1] = Dash
      /\ \A k \in 1 .. Len(w) : name[Len(i) + 1 + k] = w[k]
  BY DEF MadeOf
<1>3. /\ Len(name) = Len(j) + 1 + Len(v) + Len(t)
      /\ \A k \in 1 .. Len(j) : name[k] = j[k]
      /\ name[Len(j) + 1] = Dash
      /\ \A k \in 1 .. Len(v) : name[Len(j) + 1 + k] = v[k]
  BY DEF MadeOf
<1>4. Len(i) + Len(w) = Len(j) + Len(v)
  <2>1. Len(i) + 1 + Len(w) + Len(s) = Len(j) + 1 + Len(v) + Len(t)
    BY <1>2, <1>3, Zenon
  <2>2. /\ Len(i) \in Nat /\ Len(j) \in Nat /\ Len(w) \in Nat /\ Len(v) \in Nat
        /\ Len(s) \in Nat /\ Len(t) \in Nat /\ Len(s) = Len(t)
    BY <1>1
  <2> QED
    BY ONLY <2>1, <2>2, SumsAgree
<1>5. ~(Len(i) < Len(j))
  <2> SUFFICES ASSUME Len(i) < Len(j) PROVE FALSE
    OBVIOUS
  <2>1. Len(j) - Len(i) \in 1 .. Len(w) /\ Len(i) + 1 + (Len(j) - Len(i)) = Len(j) + 1
    BY <1>1, <1>4
  <2> QED
    BY <1>2, <1>3, <2>1
<1>6. ~(Len(j) < Len(i))
  <2> SUFFICES ASSUME Len(j) < Len(i) PROVE FALSE
    OBVIOUS
  <2>1. Len(i) - Len(j) \in 1 .. Len(v) /\ Len(j) + 1 + (Len(i) - Len(j)) = Len(i) + 1
    BY <1>1, <1>4
  <2> QED
    BY <1>2, <1>3, <2>1
<1>7. Len(i) = Len(j)
  BY <1>1, <1>5, <1>6
<1>8. \A k \in 1 .. Len(i) : i[k] = j[k]
  BY <1>2, <1>3, <1>7
<1> QED
  BY <1>7, <1>8, SeqEqual

\* Two names of units that are the same are of one deployment.
LEMMA NamesTell ==
  ASSUME NEW i \in Seq(Kept), NEW j \in Seq(Kept),
         NEW l \in DOMAIN Letters, NEW m \in DOMAIN Letters,
         NEW s \in Tails, NEW t \in Tails, Nat \subseteq DOMAIN Digit,
         ((i \o <<Dash>>) \o Letters[l]) \o s = ((j \o <<Dash>>) \o Letters[m]) \o t
  PROVE  i = j
<1> DEFINE name == ((i \o <<Dash>>) \o Letters[l]) \o s
           w == Letters[l]
           v == Letters[m]
<1>1. /\ w \in Seq(Kept) /\ Len(w) >= 1 /\ v \in Seq(Kept) /\ Len(v) >= 1
      /\ \A k \in 1 .. Len(w) : w[k] # Dash
      /\ \A k \in 1 .. Len(v) : v[k] # Dash
      /\ \A n \in Nat : w[Len(w)] # Digit[n]
      /\ \A n \in Nat : v[Len(v)] # Digit[n]
  BY LettersAssumption, LenProperties, EmptySeq DEF IsName
<1>2. s \in Seq(Kept) /\ t \in Seq(Kept)
  <2>1. \A n \in Nat : <<Dash, Digit[n]>> \in Seq(Kept) /\ <<Dash, "p", Digit[n]>> \in Seq(Kept)
    <3>1. \A n \in Nat : Digit[n] \in Kept
      BY CharactersAssumption
    <3> QED
      BY <3>1, CharactersAssumption
  <2>2. <<>> \in Seq(Kept)
    OBVIOUS
  <2> QED
    BY <2>1, <2>2 DEF Tails
<1>3. MadeOf(name, i, w, s)
  BY <1>1, <1>2, Parts, Zenon
<1>4. name = ((j \o <<Dash>>) \o v) \o t
  OBVIOUS
<1> HIDE DEF name
<1>5. MadeOf(name, j, v, t)
  BY <1>1, <1>2, <1>4, Parts, Zenon
<1> HIDE DEF w, v
<1>6. Len(s) = Len(t) /\ Len(s) \in Nat
  <2> DEFINE last == name[Len(name)]
             before == name[Len(name) - 1]
  <2>1. \/ Len(s) = 0 /\ \A n \in Nat : last # Digit[n]
        \/ Len(s) = 2 /\ before = Dash /\ \E n \in Nat : last = Digit[n]
        \/ Len(s) = 3 /\ before = "p" /\ \E n \in Nat : last = Digit[n]
    BY <1>1, <1>3, TailTold
  <2>2. \/ Len(t) = 0 /\ \A n \in Nat : last # Digit[n]
        \/ Len(t) = 2 /\ before = Dash /\ \E n \in Nat : last = Digit[n]
        \/ Len(t) = 3 /\ before = "p" /\ \E n \in Nat : last = Digit[n]
    BY <1>1, <1>5, TailTold
  <2>3. "p" # Dash
    BY DEF Dash
  <2> HIDE DEF last, before
  <2> QED
    BY <2>1, <2>2, <2>3
<1> QED
  BY <1>1, <1>3, <1>5, <1>6, IdTold

\* The word of a language is a name, and the suffix of a planned unit has a
\* length that does not depend on its number.
LEMMA SuffixIs ==
  ASSUME NEW l \in DOMAIN Letters, NEW n \in Nat, Nat \subseteq DOMAIN Digit
  PROVE  LET word == Letters[l]
             tail == <<Dash, "p", Digit[n]>> IN
         /\ word \in Seq(Kept) /\ Len(word) >= 1
         /\ word[1] # Dash /\ word[Len(word)] # Dash
         /\ tail \in Seq(Kept) /\ tail \in Tails
         /\ PodSuffix(word, n) = (<<Dash>> \o word) \o tail
         /\ Len(PodSuffix(word, n)) = Len(word) + 4
<1> DEFINE word == Letters[l]
           tail == <<Dash, "p", Digit[n]>>
<1>1. IsName(word)
  BY LettersAssumption
<1>2. word \in Seq(Kept) /\ Len(word) >= 1 /\ word[1] # Dash /\ word[Len(word)] # Dash
  BY <1>1, EmptySeq DEF IsName
<1>3. tail \in Seq(Kept) /\ Len(tail) = 3 /\ tail \in Tails
  BY CharactersAssumption DEF Tails
<1>4. Sanitize(word) = word
  BY <1>1, SanitizeKeeps
<1>5. <<Dash>> \in Seq(Kept) /\ Len(<<Dash>>) = 1
  BY CharactersAssumption
<1>6. PodSuffix(word, n) = (<<Dash>> \o word) \o tail
  BY <1>4 DEF PodSuffix
<1> HIDE DEF word, tail
<1> DEFINE front == <<Dash>> \o word
<1>7. front \in Seq(Kept) /\ Len(front) = 1 + Len(word)
  BY <1>2, <1>5, ConcatProperties
<1>8. PodSuffix(word, n) = front \o tail
  BY <1>6
<1> HIDE DEF front
<1>9. Len(front \o tail) = Len(front) + Len(tail)
  BY <1>3, <1>7, ConcatProperties
<1>10. Len(PodSuffix(word, n)) = 1 + Len(word) + 3
  BY <1>3, <1>7, <1>8, <1>9, Zenon
<1>11. Len(PodSuffix(word, n)) = Len(word) + 4
  BY <1>2, <1>10, LenProperties
<1> QED
  BY <1>2, <1>3, <1>6, <1>11 DEF word, tail

\* An id that is short enough is in every name of its units, uncut.
LEMMA OwnNameWhole ==
  ASSUME NEW id, IsName(id), NEW l \in DOMAIN Letters, Nat \subseteq DOMAIN Digit,
         Len(id) + Len(PodSuffix(Letters[l], 0)) <= Limit,
         NEW name, OwnName(name, id, Letters[l])
  PROVE  \E t \in Tails : name = ((id \o <<Dash>>) \o Letters[l]) \o t
<1> DEFINE word == Letters[l]
           stem == (id \o <<Dash>>) \o word
<1>1. /\ word \in Seq(Kept) /\ Len(word) >= 1 /\ word[1] # Dash /\ word[Len(word)] # Dash
      /\ Len(PodSuffix(word, 0)) = Len(word) + 4
  BY SuffixIs
<1>2. /\ id \in Seq(Kept) /\ Len(id) >= 1 /\ id[1] # Dash /\ Sanitize(id) = id
      /\ Len(id) \in Nat /\ Len(word) \in Nat
  BY <1>1, SanitizeKeeps, EmptySeq, LenProperties DEF IsName
<1>3. Len(id) + (Len(word) + 4) <= Limit /\ Limit \in Nat
  BY <1>1, LimitAssumption
<1> HIDE DEF word
<1>4. stem \in Seq(Kept) /\ MadeOf(stem \o <<>>, id, word, <<>>)
  <2>1. <<>> \in Seq(Kept) /\ <<Dash>> \in Seq(Kept)
    BY CharactersAssumption
  <2>2. id \o <<Dash>> \in Seq(Kept)
    BY <1>2, <2>1, ConcatProperties
  <2>3. stem \in Seq(Kept)
    BY <1>1, <2>2, ConcatProperties
  <2> QED
    BY <1>1, <1>2, <2>1, <2>3, Parts, Zenon
<1>5. stem \o <<>> = stem
  BY <1>4, ConcatEmptySeq
<1>6. IsName(stem)
  <2>1. MadeOf(stem, id, word, <<>>)
    BY <1>4, <1>5
  <2> HIDE DEF stem
  <2>2. Len(stem) = Len(id) + 1 + Len(word) /\ stem[1] = id[1] /\ stem[Len(stem)] = word[Len(word)]
    <3>1. Len(<<>>) = 0
      OBVIOUS
    <3>2. /\ Len(stem) = Len(id) + 1 + Len(word) + 0
          /\ \A i \in 1 .. Len(id) : stem[i] = id[i]
          /\ \A i \in 1 .. Len(word) : stem[Len(id) + 1 + i] = word[i]
      BY <2>1, <3>1 DEF MadeOf
    <3>3. 1 \in 1 .. Len(id) /\ Len(word) \in 1 .. Len(word)
      BY <1>1, <1>2
    <3>4. Len(stem) = Len(id) + 1 + Len(word)
      BY <1>2, <3>2
    <3> QED
      BY <3>2, <3>3, <3>4
  <2>3. stem # <<>>
    BY <1>2, <1>4, <2>2, EmptySeq
  <2> QED
    BY <1>1, <1>2, <1>3, <1>4, <2>2, <2>3 DEF IsName
<1>7. LegacyBase(id, word) = stem
  BY <1>6, SanitizeKeeps DEF LegacyBase
<1> HIDE DEF stem
<1>8. PICK n \in Nat : name = LegacyName(LegacyBase(id, word), n) \/ name = PlannedName(id, word, n)
  BY DEF OwnName, word
<1>9. CASE name = LegacyName(stem, n) /\ n = 1
  <2>1. name = stem \o <<>> /\ <<>> \in Tails
    BY <1>5, <1>9 DEF LegacyName, Tails
  <2> QED
    BY <2>1 DEF stem, word
<1>10. CASE name = LegacyName(stem, n) /\ n # 1
  <2>1. name = stem \o <<Dash, Digit[n]>> /\ <<Dash, Digit[n]>> \in Tails
    BY <1>10 DEF LegacyName, Tails
  <2> QED
    BY <2>1 DEF stem, word
<1>11. CASE name = PlannedName(id, word, n)
  <2> DEFINE tail == <<Dash, "p", Digit[n]>>
             suffix == PodSuffix(word, n)
  <2>1. /\ suffix = (<<Dash>> \o word) \o tail /\ Len(suffix) = Len(word) + 4
        /\ tail \in Seq(Kept) /\ tail \in Tails
    BY SuffixIs DEF word
  <2> HIDE DEF suffix, tail
  <2>2. ~(Len(suffix) >= Limit) /\ ~(Len(id) + Len(suffix) > Limit)
    BY <1>2, <1>3, <2>1
  <2>3. name = id \o suffix
    BY <1>2, <1>11, <2>2 DEF PlannedName, suffix
  <2>4. <<Dash>> \in Seq(Kept) /\ <<Dash>> \o word \in Seq(Kept)
    <3>1. <<Dash>> \in Seq(Kept)
      BY CharactersAssumption
    <3> QED
      BY <1>1, <3>1, ConcatProperties
  <2>5. id \o ((<<Dash>> \o word) \o tail) = (id \o (<<Dash>> \o word)) \o tail
    <3> DEFINE front == <<Dash>> \o word
    <3>1. front \in Seq(Kept)
      BY <2>4
    <3> HIDE DEF front
    <3>2. \A x, y, z \in Seq(Kept) : (x \o y) \o z = x \o (y \o z)
      BY ConcatAssociative
    <3>3. id \o (front \o tail) = (id \o front) \o tail
      BY <1>2, <2>1, <3>1, <3>2, Zenon
    <3> QED
      BY <3>3 DEF front
  <2>6. id \o (<<Dash>> \o word) = (id \o <<Dash>>) \o word
    BY <1>1, <1>2, <2>4, ConcatAssociative
  <2> QED
    BY <2>1, <2>3, <2>5, <2>6 DEF word
<1> QED
  BY <1>7, <1>8, <1>9, <1>10, <1>11

\* Units of deployments with different short ids have different names.
LEMMA ShortNamesApart ==
  ASSUME NEW i, IsName(i), NEW j, IsName(j), i # j, Nat \subseteq DOMAIN Digit,
         \A k \in DOMAIN Letters : Len(i) + Len(PodSuffix(Letters[k], 0)) <= Limit,
         \A k \in DOMAIN Letters : Len(j) + Len(PodSuffix(Letters[k], 0)) <= Limit,
         NEW l \in DOMAIN Letters, NEW m \in DOMAIN Letters, NEW name,
         OwnName(name, i, Letters[l])
  PROVE  ~OwnName(name, j, Letters[m])
<1> SUFFICES ASSUME OwnName(name, j, Letters[m]) PROVE FALSE
  OBVIOUS
<1>1. /\ Len(i) + Len(PodSuffix(Letters[l], 0)) <= Limit
      /\ Len(j) + Len(PodSuffix(Letters[m], 0)) <= Limit
  OBVIOUS
<1> DEFINE Made(id, k, t) == name = ((id \o <<Dash>>) \o Letters[k]) \o t
<1>2. \A id, k : /\ IsName(id) /\ k \in DOMAIN Letters
                 /\ Len(id) + Len(PodSuffix(Letters[k], 0)) <= Limit
                 /\ OwnName(name, id, Letters[k])
                 => \E t \in Tails : Made(id, k, t)
  BY OwnNameWhole
<1> HIDE DEF Made
<1>3. PICK s \in Tails : Made(i, l, s)
  BY <1>1, <1>2, Zenon
<1>4. PICK t \in Tails : Made(j, m, t)
  BY <1>1, <1>2, Zenon
<1>5. ((i \o <<Dash>>) \o Letters[l]) \o s = ((j \o <<Dash>>) \o Letters[m]) \o t
  BY <1>3, <1>4, Zenon DEF Made
<1>6. i \in Seq(Kept) /\ j \in Seq(Kept)
  BY DEF IsName
<1> QED
  BY <1>5, <1>6, NamesTell, Zenon

-----------------------------------------------------------------------------
(* Units.                                                                  *)

\* Finitely many units, each with a function from paths to contents.
Well(set) == IsFiniteSet(set) /\ \A u \in set : IsFunction(u.files)

LEMMA ImageFinite ==
  ASSUME NEW S, IsFiniteSet(S), NEW f
  PROVE  IsFiniteSet({f[x] : x \in S})
<1> DEFINE T == {f[x] : x \in S}
           g == [x \in S |-> f[x]]
<1>1. g \in Surjection(S, T)
  BY DEF Surjection
<1> QED
  BY <1>1, FS_Surjection

\* The configurations, in whatever order, are finitely many.
LEMMA OrderedFinite ==
  ASSUME NEW S, IsFiniteSet(S)
  PROVE  IsFiniteSet(DOMAIN SetToSeq(S))
<1>1. Cardinality(S) \in Nat /\ ExistsBijection(1 .. Cardinality(S), S)
  BY FS_CardinalityType
<1>2. PICK f \in [1 .. Cardinality(S) -> S] : IsInjective(f)
  BY <1>1 DEF ExistsBijection, Bijection, Injection, IsInjective
<1>3. SetToSeq(S) \in [1 .. Cardinality(S) -> S]
  BY <1>2 DEF SetToSeq
<1>4. IsFiniteSet(1 .. Cardinality(S))
  BY <1>1, FS_Interval
<1> QED
  BY <1>3, <1>4

LEMMA SourceFilesFunction ==
  ASSUME NEW tree, NEW config
  PROVE  IsFunction(SourceFiles(tree, config))
BY DEF SourceFiles, IsFunction

LEMMA LegacyUnitsWell ==
  ASSUME NEW tree, NEW deploymentID, IsFiniteSet(DOMAIN tree),
         LegacyUnits(tree, deploymentID) # NoUnits
  PROVE  Well(LegacyUnits(tree, deploymentID))
<1> DEFINE configs == SetToSeq(FoundConfigs(tree))
           Base(i) == LegacyBase(deploymentID, Letters[tree[configs[i]].language])
           Unit(i) ==
               [name |-> LegacyName(Base(i), Cardinality({j \in 1 .. i : Base(j) = Base(i)})),
                language |-> tree[configs[i]].language,
                entrypoint |-> configs[i],
                files |-> SourceFiles(tree, configs[i]),
                scripts |-> {ScriptPath(tree, configs[i], s) : s \in tree[configs[i]].scripts},
                extras |-> tree[configs[i]].extras]
           unit == [i \in DOMAIN configs |-> Unit(i)]
<1>1. LegacyUnits(tree, deploymentID) = {Unit(i) : i \in DOMAIN configs}
  BY DEF LegacyUnits
<1>2. IsFiniteSet(DOMAIN configs)
  <2>1. FoundConfigs(tree) \subseteq DOMAIN tree
    BY DEF FoundConfigs, Walked, Regular
  <2> QED
    BY <2>1, FS_Subset, OrderedFinite
<1>3. IsFiniteSet({unit[i] : i \in DOMAIN configs})
  <2> HIDE DEF unit, configs
  <2> QED
    BY <1>2, ImageFinite
<1>4. \A i \in DOMAIN configs : unit[i] = Unit(i) /\ IsFunction(Unit(i).files)
  <2> TAKE i \in DOMAIN configs
  <2>1. Unit(i).files = SourceFiles(tree, configs[i])
    OBVIOUS
  <2> QED
    BY <2>1, SourceFilesFunction
<1>5. {Unit(i) : i \in DOMAIN configs} = {unit[i] : i \in DOMAIN configs}
  OBVIOUS
<1> HIDE DEF Unit, unit, configs
<1> QED
  BY <1>1, <1>3, <1>4, <1>5 DEF Well

LEMMA MergedFunction ==
  ASSUME NEW deploymentID, NEW pod, NEW group
  PROVE  IsFunction(Merged(deploymentID, pod, group).files)
<1> DEFINE entrypoint == <<PlannedConfig[pod.language][pod.id]>>
           scripts == UNION {u.scripts : u \in group}
           extras == (CHOOSE u \in group : TRUE).extras
           config == [Config(pod.language, <<>>, scripts, extras)
                         EXCEPT !.written = "by the server"]
           paths == {entrypoint} \cup UNION {DOMAIN u.files : u \in group}
           Content(p) == IF p = entrypoint THEN config
                         ELSE (CHOOSE u \in group : p \in DOMAIN u.files).files[p]
           files == [p \in paths |-> Content(p)]
<1>1. Merged(deploymentID, pod, group).files = files
  <2> HIDE DEF entrypoint, scripts, extras, config, paths, Content, files
  <2>1. Merged(deploymentID, pod, group) =
            [name |-> PlannedName(deploymentID, Letters[pod.language], pod.id),
             language |-> pod.language,
             entrypoint |-> entrypoint,
             files |-> files,
             scripts |-> scripts,
             extras |-> extras]
    BY DEF Merged, entrypoint, scripts, extras, config, paths, Content, files
  <2> QED
    BY <2>1
<1>2. IsFunction(files)
  <2> HIDE DEF paths, Content
  <2> QED
    BY DEF IsFunction
<1> QED
  BY <1>1, <1>2

LEMMA PlannedUnitsWell ==
  ASSUME NEW deploymentID, NEW legacy, Well(legacy),
         NEW manifest, IsFiniteSet(DOMAIN manifest.pods),
         PlannedUnits(deploymentID, legacy, manifest) # NoUnits
  PROVE  Well(PlannedUnits(deploymentID, legacy, manifest))
<1> DEFINE pods == EligiblePods(manifest)
           planned == {u \in legacy : u.language \in Eligible /\ PodsOf(u, pods) # {}}
           Group(p) == {u \in planned : PodsOf(u, pods) = {p}}
           used == {q \in pods : Group(q) # {}}
           merged == [p \in used |-> Merged(deploymentID, p, Group(p))]
           Read(pod) == [id |-> pod.id, language |-> pod.language,
                         files |-> {Resolve(<<>>, f) : f \in Range(pod.files)}]
           eligible == {q \in Range(manifest.pods) : q.language \in Eligible}
           read == [pod \in eligible |-> Read(pod)]
<1>1. PlannedUnits(deploymentID, legacy, manifest) =
          (legacy \ planned) \cup {Merged(deploymentID, p, Group(p)) : p \in used}
  BY DEF PlannedUnits
<1>2. IsFiniteSet(used)
  <2>1. IsFiniteSet(Range(manifest.pods))
    BY ImageFinite DEF Range
  <2>2. IsFiniteSet(eligible)
    BY <2>1, FS_Subset
  <2>3. IsFiniteSet({read[pod] : pod \in eligible})
    <3> HIDE DEF read, eligible
    <3> QED
      BY <2>2, ImageFinite
  <2>4. pods = {read[pod] : pod \in eligible}
    BY DEF EligiblePods
  <2> QED
    BY <2>3, <2>4, FS_Subset
<1>3. IsFiniteSet({merged[p] : p \in used})
  <2> HIDE DEF merged, used
  <2> QED
    BY <1>2, ImageFinite
<1>4. {Merged(deploymentID, p, Group(p)) : p \in used} = {merged[p] : p \in used}
  <2> HIDE DEF used, Group
  <2> QED OBVIOUS
<1>5. \A p \in used : IsFunction(merged[p].files)
  <2> HIDE DEF Group, used
  <2>1. \A p \in used : merged[p] = Merged(deploymentID, p, Group(p))
    OBVIOUS
  <2> QED
    BY <2>1, MergedFunction
<1>6. IsFiniteSet(legacy \ planned) /\ legacy \ planned \subseteq legacy
  BY FS_Subset DEF Well
<1> HIDE DEF planned, merged, used
<1>7. IsFiniteSet((legacy \ planned) \cup {merged[p] : p \in used})
  BY <1>3, <1>6, FS_Union
<1> QED
  BY <1>1, <1>4, <1>5, <1>6, <1>7 DEF Well

\* The unit of a configuration.
UnitOf(u, tree, deploymentID, c) ==
    /\ c \in FoundConfigs(tree)
    /\ u.language = tree[c].language
    /\ u.entrypoint = c
    /\ u.files = SourceFiles(tree, c)
    /\ u.scripts = {ScriptPath(tree, c, s) : s \in tree[c].scripts}
    /\ u.extras = tree[c].extras
    /\ OwnName(u.name, deploymentID, Letters[u.language])

\* Every configuration of a package has a unit, and every unit a configuration.
LEMMA LegacyUnitsOf ==
  ASSUME NEW tree, NEW deploymentID, IsFiniteSet(DOMAIN tree),
         LegacyUnits(tree, deploymentID) # NoUnits
  PROVE  LET legacy == LegacyUnits(tree, deploymentID) IN
         /\ \A c \in FoundConfigs(tree) :
               Deployable(tree, c) /\ \E u \in legacy : UnitOf(u, tree, deploymentID, c)
         /\ \A u \in legacy : \E c \in FoundConfigs(tree) : UnitOf(u, tree, deploymentID, c)
<1> DEFINE found == FoundConfigs(tree)
           configs == SetToSeq(found)
           Base(i) == LegacyBase(deploymentID, Letters[tree[configs[i]].language])
           Count(i) == Cardinality({j \in 1 .. i : Base(j) = Base(i)})
           Unit(i) ==
               [name |-> LegacyName(Base(i), Count(i)),
                language |-> tree[configs[i]].language,
                entrypoint |-> configs[i],
                files |-> SourceFiles(tree, configs[i]),
                scripts |-> {ScriptPath(tree, configs[i], s) : s \in tree[configs[i]].scripts},
                extras |-> tree[configs[i]].extras]
<1>1. /\ LegacyUnits(tree, deploymentID) = {Unit(i) : i \in DOMAIN configs}
      /\ \A c \in found : Deployable(tree, c)
  BY DEF LegacyUnits
<1>2. IsFiniteSet(found)
  <2>1. found \subseteq DOMAIN tree
    BY DEF FoundConfigs, Walked, Regular
  <2> QED
    BY <2>1, FS_Subset
<1> HIDE DEF found
<1>3. /\ DOMAIN configs \subseteq Nat
      /\ \A i \in DOMAIN configs : configs[i] \in found
      /\ \A c \in found : \E i \in DOMAIN configs : configs[i] = c
  <2>1. configs \in [1 .. Cardinality(found) -> found] /\ IsInjective(configs)
    <3>1. PICK f \in [1 .. Cardinality(found) -> found] : IsInjective(f)
      BY <1>2, FS_CardinalityType DEF ExistsBijection, Bijection, Injection, IsInjective
    <3> QED
      BY <3>1 DEF SetToSeq
  <2>2. configs \in Surjection(1 .. Cardinality(found), found)
    <3>1. configs \in Injection(1 .. Cardinality(found), found)
      BY <2>1 DEF Injection, IsInjective
    <3>2. /\ IsFiniteSet(1 .. Cardinality(found))
          /\ Cardinality(1 .. Cardinality(found)) = Cardinality(found)
      <4>1. Cardinality(found) \in Nat
        BY <1>2, FS_CardinalityType
      <4> QED
        BY <4>1, FS_Interval
    <3> QED
      BY <1>2, <3>1, <3>2, FS_Injection
  <2> HIDE DEF configs
  <2> QED
    BY <2>1, <2>2 DEF Surjection
<1>4. \A i \in DOMAIN configs : Count(i) \in Nat
  <2> TAKE i \in DOMAIN configs
  <2>1. i \in Int /\ IsFiniteSet(1 .. i)
    BY <1>3, FS_Interval
  <2>2. {j \in 1 .. i : Base(j) = Base(i)} \in SUBSET (1 .. i)
    OBVIOUS
  <2> HIDE DEF Base
  <2> QED
    BY <2>1, <2>2, FS_Subset, FS_CardinalityType
<1>5. \A i \in DOMAIN configs : UnitOf(Unit(i), tree, deploymentID, configs[i])
  <2> TAKE i \in DOMAIN configs
  <2>1. OwnName(LegacyName(Base(i), Count(i)), deploymentID, Letters[tree[configs[i]].language])
    BY <1>4 DEF OwnName
  <2>2. configs[i] \in FoundConfigs(tree)
    BY <1>3 DEF found
  <2> HIDE DEF Base, Count, configs
  <2> QED
    BY <2>1, <2>2 DEF UnitOf
<1> HIDE DEF Unit, configs
<1>6. \A c \in found : \E u \in LegacyUnits(tree, deploymentID) : UnitOf(u, tree, deploymentID, c)
  BY <1>1, <1>3, <1>5
<1>7. \A u \in LegacyUnits(tree, deploymentID) : \E c \in found : UnitOf(u, tree, deploymentID, c)
  BY <1>1, <1>3, <1>5
<1> QED
  BY <1>1, <1>6, <1>7 DEF found

-----------------------------------------------------------------------------
(* Names and languages of the units of a deployment.                       *)

HasOwnName(u, deploymentID) ==
    u.language \in DOMAIN Letters /\ OwnName(u.name, deploymentID, Letters[u.language])

LEMMA LegacyUnitsNamed ==
  ASSUME NEW tree, NEW deploymentID, IsFiniteSet(DOMAIN tree),
         LegacyUnits(tree, deploymentID) # NoUnits
  PROVE  \A u \in LegacyUnits(tree, deploymentID) : HasOwnName(u, deploymentID)
<1> TAKE u \in LegacyUnits(tree, deploymentID)
<1>1. PICK c \in FoundConfigs(tree) :
         Deployable(tree, c) /\ UnitOf(u, tree, deploymentID, c)
  BY LegacyUnitsOf
<1> QED
  BY <1>1 DEF HasOwnName, UnitOf, Deployable

\* The units of pods: the pod is numbered, and of the language of its units.
LEMMA MergedNamed ==
  ASSUME NEW deploymentID, NEW pod, NEW group,
         pod.id \in Nat, pod.language \in DOMAIN Letters
  PROVE  HasOwnName(Merged(deploymentID, pod, group), deploymentID)
<1> DEFINE unit == Merged(deploymentID, pod, group)
<1>1. /\ unit.name = PlannedName(deploymentID, Letters[pod.language], pod.id)
      /\ unit.language = pod.language
  BY DEF Merged
<1> HIDE DEF unit
<1> QED
  BY <1>1 DEF HasOwnName, OwnName, unit

\* What PlannedUnits makes of units, said without its definitions: a unit stays,
\* or is one of a group that a pod merges.
MergedFrom(u, deploymentID, legacy, p, group) ==
    /\ p.id \in Nat /\ p.language \in Eligible
    /\ group \subseteq legacy /\ group # {} /\ Agree(group)
    /\ \A v \in group : v.language = p.language
    /\ u = Merged(deploymentID, p, group)

LEMMA PlannedUnitsOf ==
  ASSUME NEW deploymentID, NEW legacy, NEW tree, NEW manifest, ValidManifest(tree, manifest),
         PlannedUnits(deploymentID, legacy, manifest) # NoUnits
  PROVE  LET result == PlannedUnits(deploymentID, legacy, manifest)
             MergedOf(u, p, group) == MergedFrom(u, deploymentID, legacy, p, group)
         IN  /\ \A u \in result : u \in legacy \/ \E p, group : MergedOf(u, p, group)
             /\ \A v \in legacy :
                   v \in result \/ \E u \in result : \E p, group : v \in group /\ MergedOf(u, p, group)
<1> DEFINE pods == EligiblePods(manifest)
           planned == {u \in legacy : u.language \in Eligible /\ PodsOf(u, pods) # {}}
           Group(p) == {u \in planned : PodsOf(u, pods) = {p}}
           used == {q \in pods : Group(q) # {}}
           result == PlannedUnits(deploymentID, legacy, manifest)
           MergedOf(u, p, group) == MergedFrom(u, deploymentID, legacy, p, group)
<1>1. /\ result = (legacy \ planned) \cup {Merged(deploymentID, p, Group(p)) : p \in used}
      /\ \A u \in planned : \E p \in pods : PodsOf(u, pods) = {p} /\ p.language = u.language
      /\ \A p \in pods : Agree(Group(p))
  BY DEF PlannedUnits
<1>2. \A p \in pods : p.id \in Nat /\ p.language \in Eligible
  <2> TAKE p \in pods
  <2>1. PICK q \in Range(manifest.pods) :
           /\ q.language \in Eligible
           /\ p = [id |-> q.id, language |-> q.language,
                   files |-> {Resolve(<<>>, f) : f \in Range(q.files)}]
    BY DEF EligiblePods
  <2>2. PICK i \in DOMAIN manifest.pods : q = manifest.pods[i]
    BY <2>1 DEF Range
  <2>3. q.id \in Nat
    BY <2>2 DEF ValidManifest
  <2> QED
    BY <2>1, <2>3
<1> HIDE DEF pods, result
<1>3. \A p \in used : MergedOf(Merged(deploymentID, p, Group(p)), p, Group(p))
  <2> TAKE p \in used
  <2>1. \A v \in Group(p) : v.language = p.language
    <3> TAKE v \in Group(p)
    <3>1. PICK q \in pods : PodsOf(v, pods) = {q} /\ q.language = v.language
      BY <1>1
    <3>2. q = p
      BY <3>1
    <3> QED
      BY <3>1, <3>2
  <2> QED
    BY <1>1, <1>2, <2>1 DEF MergedFrom
<1>4. \A u \in planned : \E p \in used : u \in Group(p)
  BY <1>1
<1> HIDE DEF MergedOf, Group
<1>5. \A u \in result : u \in legacy \/ \E p, group : MergedOf(u, p, group)
  BY <1>1, <1>3
<1>6. \A v \in legacy :
         v \in result \/ \E u \in result : \E p, group : v \in group /\ MergedOf(u, p, group)
  BY <1>1, <1>3, <1>4
<1> QED
  BY <1>5, <1>6 DEF MergedOf, result

LEMMA PlannedUnitsNamed ==
  ASSUME NEW deploymentID, NEW legacy, \A u \in legacy : HasOwnName(u, deploymentID),
         NEW tree, NEW manifest, ValidManifest(tree, manifest),
         PlannedUnits(deploymentID, legacy, manifest) # NoUnits
  PROVE  \A u \in PlannedUnits(deploymentID, legacy, manifest) : HasOwnName(u, deploymentID)
<1> DEFINE result == PlannedUnits(deploymentID, legacy, manifest)
<1> TAKE u \in result
<1>1. CASE u \in legacy
  BY <1>1
<1>2. CASE u \notin legacy
  <2>1. PICK p, group :
           /\ p.id \in Nat
           /\ group \subseteq legacy /\ group # {}
           /\ \A v \in group : v.language = p.language
           /\ u = Merged(deploymentID, p, group)
    BY <1>2, PlannedUnitsOf DEF MergedFrom
  <2>2. p.language \in DOMAIN Letters
    BY <2>1 DEF HasOwnName
  <2> QED
    BY <2>1, <2>2, MergedNamed
<1> QED
  BY <1>1, <1>2

-----------------------------------------------------------------------------
(* Paths.                                                                  *)

\* The places along a path, from dir to the nth component, exist ...
Along(dir, path, n, at) ==
    [i \in 0 .. n |-> IF i = 0 THEN dir ELSE Entered(at[i - 1], path[i])]

LEMMA PlacesExist ==
  ASSUME NEW dir, NEW path, NEW n \in Nat
  PROVE  \E at : at = Along(dir, path, n, at)
<1> DEFINE T == {m \in Nat : ~\E at : at = Along(dir, path, m, at)}
<1>1. T \in SUBSET Nat
  OBVIOUS
<1>2. ASSUME NEW m \in T, \A k \in T : m <= k
      PROVE  FALSE
  <2>1. CASE m = 0
    <3> DEFINE at == [i \in 0 .. 0 |-> dir]
    <3>1. at = Along(dir, path, 0, at)
      BY DEF Along
    <3> HIDE DEF at
    <3> QED
      BY <2>1, <3>1
  <2>2. CASE m # 0
    <3>1. m - 1 \in Nat /\ ~(m <= m - 1)
      BY <2>2
    <3>2. PICK old : old = Along(dir, path, m - 1, old)
      <4>1. m - 1 \notin T
        BY <1>2, <3>1
      <4> QED
        BY <3>1, <4>1
    <3> DEFINE at == [i \in 0 .. m |->
                        IF i <= m - 1 THEN old[i] ELSE Entered(old[m - 1], path[m])]
    <3>3. \A i \in 0 .. m : at[i] = IF i = 0 THEN dir ELSE Entered(at[i - 1], path[i])
      <4> TAKE i \in 0 .. m
      <4>1. CASE i = 0
        <5>1. 0 \in 0 .. m - 1 /\ 0 <= m - 1
          BY <3>1
        <5>2. old[0] = dir
          BY <3>2, <5>1 DEF Along
        <5> QED
          BY <4>1, <5>1, <5>2
      <4>2. CASE i # 0 /\ i <= m - 1
        <5>1. i \in 0 .. m - 1 /\ i - 1 \in 0 .. m /\ i - 1 <= m - 1
          BY <3>1, <4>2
        <5>2. old[i] = Entered(old[i - 1], path[i])
          BY <3>2, <4>2, <5>1 DEF Along
        <5> QED
          BY <4>2, <5>1, <5>2
      <4>3. CASE i = m
        <5>1. m - 1 \in 0 .. m /\ m - 1 <= m - 1 /\ ~(m <= m - 1)
          BY <3>1
        <5> QED
          BY <2>2, <4>3, <5>1
      <4> QED
        BY <3>1, <4>1, <4>2, <4>3
    <3>4. at = [i \in 0 .. m |-> at[i]]
      OBVIOUS
    <3> HIDE DEF at
    <3>5. at = Along(dir, path, m, at)
      BY <3>3, <3>4 DEF Along
    <3> QED
      BY <3>5
  <2> QED
    BY <2>1, <2>2
<1>3. T = {}
  <2> HIDE DEF T
  <2> QED
    BY <1>1, <1>2, LeastNumber
<1>4. n \notin T
  BY <1>3
<1> QED
  BY <1>4

\* ... and are paths, if the components are names and so are the dots.
LEMMA ResolveIs ==
  ASSUME NEW S, ".." \in S, NEW dir \in Seq(S), NEW path \in Seq(S)
  PROVE  Resolve(dir, path) \in Seq(S)
<1> DEFINE n == Len(path)
           places == CHOOSE at : at = Along(dir, path, n, at)
<1>1. n \in Nat
  BY LenProperties
<1>2. Resolve(dir, path) = places[n]
  BY DEF Resolve, Along
<1>3. places = Along(dir, path, n, places)
  BY <1>1, PlacesExist
<1> HIDE DEF places
<1>4. /\ places[0] = dir
      /\ \A i \in 1 .. n : places[i] = Entered(places[i - 1], path[i])
  BY <1>1, <1>3 DEF Along
<1>5. \A d \in Seq(S), c \in S : Entered(d, c) \in Seq(S)
  <2> TAKE d \in Seq(S), c \in S
  <2>1. Outside \in Seq(S)
    BY DEF Outside
  <2>2. d # <<>> => Front(d) \in Seq(S)
    <3> SUFFICES ASSUME d # <<>> PROVE Front(d) \in Seq(S)
      OBVIOUS
    <3>1. Len(d) \in Nat /\ \A i \in 1 .. Len(d) - 1 : d[i] \in S
      BY LenProperties, ElementOfSeq
    <3> QED
      BY <3>1, SubSeqProperties DEF Front
  <2>3. Append(d, c) \in Seq(S)
    OBVIOUS
  <2> QED
    BY <2>1, <2>2, <2>3 DEF Entered
<1> HIDE DEF n
<1> DEFINE T == {i \in 0 .. n : places[i] \notin Seq(S)}
<1>6. T \in SUBSET Nat
  BY <1>1
<1>7. ASSUME NEW i \in T, \A k \in T : i <= k
      PROVE  FALSE
  <2>1. i \in 0 .. n /\ i # 0
    BY <1>4
  <2>2. i - 1 \in 0 .. n /\ ~(i <= i - 1) /\ i \in 1 .. n
    BY <1>1, <2>1
  <2>3. places[i - 1] \in Seq(S)
    BY <1>7, <2>2
  <2>4. path[i] \in S
    BY <2>2, ElementOfSeq DEF n
  <2> QED
    BY <1>4, <1>5, <2>2, <2>3, <2>4
<1>8. T = {}
  <2> HIDE DEF T
  <2> QED
    BY <1>6, <1>7, LeastNumber
<1> QED
  BY <1>1, <1>2, <1>8

\* What paths consist of: the provers do not see that ".." is in STRING.
Part == STRING \cup {".."}

\* A path of one name.
LEMMA OneName ==
  ASSUME NEW n \in Part, NEW root \in Seq(Part)
  PROVE  /\ <<n>> \in Seq(Part) /\ Len(<<n>>) = 1 /\ <<n>>[1] = n /\ <<n>> # <<>>
         /\ IsPrefix(root, <<n>>) <=> root = <<>> \/ root = <<n>>
<1> DEFINE one == <<n>>
<1>1. one \in Seq(Part) /\ Len(one) = 1 /\ one[1] = n /\ one # <<>>
  <2>1. Len(one) = 1 /\ one[1] = n
    OBVIOUS
  <2>2. one \in Seq(Part)
    OBVIOUS
  <2> QED
    BY <2>1, <2>2, EmptySeq
<1> HIDE DEF one
<1>2. ASSUME root = <<>>
      PROVE  IsPrefix(root, one)
  <2>1. Len(root) = 0 /\ SubSeq(root, 1, 0) = <<>> /\ SubSeq(one, 1, 0) = <<>>
    BY <1>2, SubSeqEmpty
  <2> QED
    BY <1>1, <2>1 DEF IsPrefix
<1>3. ASSUME root = one
      PROVE  IsPrefix(root, one)
  <2>1. Len(root) <= Len(one)
    <3>1. Len(root) = 1
      BY <1>1, <1>3, Zenon
    <3> QED
      BY <1>1, <3>1
  <2>2. SubSeq(root, 1, Len(root)) = SubSeq(one, 1, Len(root))
    BY <1>3, Zenon
  <2> QED
    BY <2>1, <2>2, Zenon DEF IsPrefix
<1>4. ASSUME IsPrefix(root, one), root # <<>>
      PROVE  root = one
  <2>1. Len(root) = 1
    BY <1>1, <1>4, EmptySeq DEF IsPrefix
  <2>2. SubSeq(root, 1, 1) = SubSeq(one, 1, 1)
    BY <1>1, <1>4, <2>1 DEF IsPrefix
  <2> QED
    BY <1>1, <2>1, <2>2, SubSeqFull
<1>5. one \in Seq(Part) /\ (IsPrefix(root, one) <=> root = <<>> \/ root = one)
  BY <1>1, <1>2, <1>3, <1>4
<1> QED
  BY <1>1, <1>5 DEF one

\* What a bundle has of a configuration: the files below its sources and its
\* scripts, as they are in the package, and the nearest manifests.
Carries(files, tree, c) ==
    LET root == SourceRoot(tree, c) IN
    /\ \A p \in Walked(tree, root) \cup {ScriptPath(tree, c, s) : s \in tree[c].scripts} :
          ~IsConfig(tree[p]) => p \in DOMAIN files /\ files[p] = tree[p]
    /\ \A n \in DependencyNames, k \in 0 .. Len(root) :
          LET nearest == SubSeq(root, 1, k) \o <<n>> IN
          /\ nearest \in Regular(tree)
          /\ \A j \in k + 1 .. Len(root) : SubSeq(root, 1, j) \o <<n>> \notin Regular(tree)
          => <<n>> \in DOMAIN files /\ files[<<n>>] = tree[nearest]

\* The paths of a deployable configuration.
LEMMA DeployablePaths ==
  ASSUME NEW tree, IsTree(tree), NEW c \in DOMAIN tree, Deployable(tree, c)
  PROVE  /\ SourceRoot(tree, c) \in Seq(Part)
         /\ \A s \in tree[c].scripts :
               /\ Resolve(<<>>, s) \in Seq(Part) /\ Resolve(<<>>, s) # <<>>
               /\ ScriptPath(tree, c, s) \in Regular(tree)
         /\ IsConfig(tree[c]) /\ tree[c].language \in DOMAIN Letters
<1>1. ".." \in Part
  BY DEF Part
<1>2. /\ c \in Seq(Part) /\ c # <<>> /\ IsConfig(tree[c])
      /\ tree[c].path \in Seq(Part) /\ tree[c].scripts \subseteq Seq(Part)
      /\ tree[c].language \in DOMAIN Letters
  <2>1. STRING \subseteq Part
    BY DEF Part
  <2> QED
    BY <2>1, SeqMonotonic DEF IsTree, Deployable
<1>3. Front(c) \in Seq(Part)
  <2>1. Len(c) \in Nat /\ \A i \in 1 .. Len(c) - 1 : c[i] \in Part
    BY <1>2, LenProperties, ElementOfSeq
  <2> QED
    BY <2>1, SubSeqProperties DEF Front
<1>4. SourceRoot(tree, c) \in Seq(Part)
  BY <1>1, <1>2, <1>3, ResolveIs DEF SourceRoot
<1>5. \A s \in tree[c].scripts : Resolve(<<>>, s) \in Seq(Part)
  <2>1. <<>> \in Seq(Part)
    BY EmptySeq
  <2> QED
    BY <1>1, <1>2, <2>1, ResolveIs
<1> QED
  BY <1>2, <1>4, <1>5 DEF Deployable

\* A script at the root of the package is walked from the root.
LEMMA RootScriptWalked ==
  ASSUME NEW tree, NEW root \in Seq(Part), NEW script \in Seq(Part), script # <<>>,
         NEW n \in Part, root \o script = <<n>>, <<n>> \in Regular(tree)
  PROVE  <<n>> \in Walked(tree, root)
<1>1. Len(root) \in Nat /\ Len(script) \in Nat /\ Len(script) >= 1
  BY LenProperties, EmptySeq
<1>2. Len(root \o script) = Len(root) + Len(script) /\ Len(<<n>>) = 1
  BY ConcatProperties, OneName
<1>3. Len(root) = 0
  BY <1>1, <1>2
<1>4. root = <<>>
  BY <1>3, EmptySeq
<1>5. IsPrefix(root, <<n>>) /\ Len(<<n>>) - 1 = 0
  <2>1. IsPrefix(root, <<n>>)
    BY <1>4, OneName
  <2> QED
    BY <1>2, <2>1
<1>6. \A i \in 1 .. Len(<<n>>) - 1 : i >= Len(root) => <<n>>[i] \notin Skipped
  BY <1>5
<1> QED
  BY <1>5, <1>6 DEF Walked

\* sourceFiles loses nothing of a configuration.
LEMMA SourcesCarried ==
  ASSUME NEW tree, IsTree(tree), NEW c \in FoundConfigs(tree), Deployable(tree, c)
  PROVE  Carries(SourceFiles(tree, c), tree, c)
<1> DEFINE root == SourceRoot(tree, c)
           walked == Walked(tree, root)
           manifests == {<<n>> : n \in {m \in DependencyNames : NearestManifest(tree, root, m) # {}}}
           scripts == {ScriptPath(tree, c, s) : s \in tree[c].scripts}
           Nearest(p) == CHOOSE d \in NearestManifest(tree, root, p[1]) : TRUE
           files == SourceFiles(tree, c)
<1>1. /\ DOMAIN files = {c} \cup walked \cup manifests \cup scripts
      /\ \A p \in DOMAIN files \ {c} :
            files[p] = IF p \in manifests \ walked THEN tree[Nearest(p) \o p] ELSE tree[p]
  BY DEF SourceFiles
<1>2. /\ c \in DOMAIN tree /\ c[Len(c)] \in ConfigNames /\ IsConfig(tree[c])
  BY DEF FoundConfigs, Walked, Regular, Deployable
<1>3. /\ root \in Seq(Part) /\ Len(root) \in Nat
      /\ \A s \in tree[c].scripts :
            /\ Resolve(<<>>, s) \in Seq(Part) /\ Resolve(<<>>, s) # <<>>
            /\ ScriptPath(tree, c, s) \in Regular(tree)
  BY <1>2, DeployablePaths, LenProperties
<1>4. \A n \in DependencyNames : n \in Part /\ n \notin ConfigNames /\ <<n>> # c
  <2> TAKE n \in DependencyNames
  <2>1. n \in Part /\ n \notin ConfigNames
    BY NamesAssumption DEF Part
  <2>2. Len(<<n>>) = 1 /\ <<n>>[1] = n
    OBVIOUS
  <2> QED
    BY <1>2, <2>1, <2>2
<1> HIDE DEF files
<1>5. ASSUME NEW p \in walked \cup scripts, ~IsConfig(tree[p])
      PROVE  p \in DOMAIN files /\ files[p] = tree[p]
  <2>1. p \notin manifests \ walked
    <3> SUFFICES ASSUME p \in manifests, p \in scripts PROVE p \in walked
      BY <1>5
    <3>1. PICK n \in DependencyNames : p = <<n>>
      OBVIOUS
    <3>2. PICK s \in tree[c].scripts : p = root \o Resolve(<<>>, s) /\ p \in Regular(tree)
      BY <1>3 DEF ScriptPath
    <3>3. n \in Part
      BY <1>4
    <3> HIDE DEF root
    <3> QED
      BY <1>3, <3>1, <3>2, <3>3, RootScriptWalked
  <2>2. p # c
    BY <1>2, <1>5
  <2> HIDE DEF walked, manifests, scripts
  <2> QED
    BY <1>1, <1>5, <2>1, <2>2
<1>6. ASSUME NEW n \in DependencyNames, NEW k \in 0 .. Len(root),
             SubSeq(root, 1, k) \o <<n>> \in Regular(tree),
             \A j \in k + 1 .. Len(root) : SubSeq(root, 1, j) \o <<n>> \notin Regular(tree)
      PROVE  <<n>> \in DOMAIN files /\ files[<<n>>] = tree[SubSeq(root, 1, k) \o <<n>>]
  <2> DEFINE one == <<n>>
  <2>1. NearestManifest(tree, root, n) = {SubSeq(root, 1, k)}
    <3> DEFINE IsNearest(j) == /\ SubSeq(root, 1, j) \o <<n>> \in Regular(tree)
                               /\ \A m \in j + 1 .. Len(root) :
                                     SubSeq(root, 1, m) \o <<n>> \notin Regular(tree)
    <3>1. NearestManifest(tree, root, n) =
              {SubSeq(root, 1, i) : i \in {j \in 0 .. Len(root) : IsNearest(j)}}
      BY DEF NearestManifest
    <3>2. IsNearest(k)
      BY <1>6
    <3>3. \A j \in 0 .. Len(root) : IsNearest(j) => j = k
      <4> TAKE j \in 0 .. Len(root)
      <4> SUFFICES ASSUME IsNearest(j), j # k PROVE FALSE
        OBVIOUS
      <4>1. j \in k + 1 .. Len(root) \/ k \in j + 1 .. Len(root)
        BY <1>3
      <4> QED
        BY <1>6, <4>1
    <3> HIDE DEF IsNearest, root
    <3> QED
      BY <3>1, <3>2, <3>3
  <2>2. one \in manifests /\ one[1] = n
    BY <2>1
  <2>3. Nearest(one) = SubSeq(root, 1, k)
    <3>1. one[1] = n
      BY <2>2
    <3> HIDE DEF one, root
    <3> QED
      BY <2>1, <3>1
  <2>4. one \in walked => SubSeq(root, 1, k) \o one = one
    <3> SUFFICES ASSUME one \in walked PROVE SubSeq(root, 1, k) \o one = one
      OBVIOUS
    <3>1. IsPrefix(root, one) /\ one \in DOMAIN tree
      BY DEF Walked, Regular
    <3>2. root = <<>> \/ root = one
      BY <1>3, <1>4, <3>1, OneName
    <3>3. n \in Part /\ one \in Seq(Part) /\ Len(one) = 1
      BY <1>4, OneName
    <3>4. CASE k = 0
      <4>1. SubSeq(root, 1, 0) = <<>>
        BY SubSeqEmpty
      <4> HIDE DEF one, root
      <4> QED
        BY <3>3, <3>4, <4>1, ConcatEmptySeq
    <3>5. CASE k # 0
      <4>1. root = one /\ k = 1
        <5>1. Len(root) >= 1
          BY <1>3, <3>5
        <5> HIDE DEF one, root
        <5>2. root = one
          BY <1>3, <3>2, <5>1, EmptySeq
        <5>3. Len(root) = 1
          BY <3>3, <5>2, Zenon
        <5>4. k \in 0 .. Len(root)
          BY DEF root
        <5>5. k \in 0 .. 1
          BY <5>3, <5>4, Zenon
        <5> QED
          BY <3>5, <5>2, <5>5
      <4>2. SubSeq(root, 1, k) = one
        BY <3>3, <4>1, SubSeqFull
      <4>3. one \o one \in DOMAIN tree
        BY <1>6, <4>2 DEF Regular
      <4>4. one \o one # one /\ IsPrefix(one, one \o one)
        <5> HIDE DEF one
        <5>1. Len(one \o one) = 2
          BY <3>3, ConcatProperties
        <5>2. SubSeq(one \o one, 1, 1) = SubSeq(one, 1, 1)
          <6>1. 1 \in 1 .. Len(one)
            BY <3>3
          <6> QED
            BY <3>3, <6>1, SubSeqOfConcat1, Zenon
        <5> QED
          BY <3>3, <5>1, <5>2 DEF IsPrefix
      <4> QED
        BY <3>1, <4>3, <4>4 DEF IsTree
    <3> QED
      BY <3>4, <3>5
  <2>5. one # c
    BY <1>4
  <2> HIDE DEF one, root, walked, manifests, scripts, Nearest
  <2>6. one \in DOMAIN files
    BY <1>1, <2>2
  <2>7. files[one] = tree[SubSeq(root, 1, k) \o one]
    BY <1>1, <2>2, <2>3, <2>4, <2>5, <2>6
  <2> QED
    BY <2>6, <2>7 DEF one
<1> QED
  BY <1>5, <1>6 DEF Carries, files

\* What a unit has of its configuration, the merged unit has.
LEMMA MergedCarries ==
  ASSUME NEW tree, IsTree(tree), \A c \in FoundConfigs(tree) : Deployable(tree, c),
         NEW u, NEW deploymentID, NEW legacy, NEW pod, NEW group,
         MergedFrom(u, deploymentID, legacy, pod, group),
         PlannedConfig[pod.language][pod.id] \in ConfigNames,
         NEW v \in group, NEW c \in FoundConfigs(tree), v.files = SourceFiles(tree, c)
  PROVE  Carries(u.files, tree, c)
<1> DEFINE name == PlannedConfig[pod.language][pod.id]
           entrypoint == <<name>>
           Owner(p) == CHOOSE w \in group : p \in DOMAIN w.files
           files == u.files
           root == SourceRoot(tree, c)
           scripts == {ScriptPath(tree, c, s) : s \in tree[c].scripts}
<1>1. /\ entrypoint \in DOMAIN files
      /\ \A p \in DOMAIN v.files \ {entrypoint} :
            p \in DOMAIN files /\ files[p] = Owner(p).files[p]
  <2> DEFINE paths == {entrypoint} \cup UNION {DOMAIN w.files : w \in group}
             config == [Config(pod.language, <<>>, UNION {w.scripts : w \in group},
                               (CHOOSE w \in group : TRUE).extras)
                           EXCEPT !.written = "by the server"]
  <2>1. files = [p \in paths |-> IF p = entrypoint THEN config ELSE Owner(p).files[p]]
    <3> HIDE DEF paths, config, Owner, entrypoint
    <3>1. u = [name |-> PlannedName(deploymentID, Letters[pod.language], pod.id),
               language |-> pod.language,
               entrypoint |-> entrypoint,
               files |-> [p \in paths |-> IF p = entrypoint THEN config ELSE Owner(p).files[p]],
               scripts |-> UNION {w.scripts : w \in group},
               extras |-> (CHOOSE w \in group : TRUE).extras]
      BY DEF MergedFrom, Merged, paths, config, Owner, entrypoint
    <3> QED
      BY <3>1
  <2> HIDE DEF config, Owner, entrypoint, files
  <2> QED
    BY <2>1
<1>2. \A p \in DOMAIN v.files : Owner(p).files[p] = v.files[p]
  <2> TAKE p \in DOMAIN v.files
  <2>1. Owner(p) \in group /\ p \in DOMAIN Owner(p).files
    OBVIOUS
  <2> HIDE DEF Owner
  <2>2. Agree(group)
    BY DEF MergedFrom
  <2> QED
    BY <2>1, <2>2 DEF Agree
<1>3. \A p \in DOMAIN v.files \ {entrypoint} : p \in DOMAIN files /\ files[p] = v.files[p]
  <2> HIDE DEF Owner, files, entrypoint
  <2> QED
    BY <1>1, <1>2
\* The entrypoint has the name of a configuration, and is in the way of none.
<1>4. entrypoint \in Regular(tree) => IsConfig(tree[entrypoint])
  <2> SUFFICES ASSUME entrypoint \in Regular(tree) PROVE IsConfig(tree[entrypoint])
    OBVIOUS
  <2>1. name \in Part /\ name \in ConfigNames
    BY NamesAssumption DEF Part
  <2>2. Len(entrypoint) = 1 /\ entrypoint[1] = name
    OBVIOUS
  <2>3. IsPrefix(<<>>, entrypoint)
    <3>1. <<>> \in Seq(Part)
      BY EmptySeq
    <3> HIDE DEF name
    <3> QED
      BY <2>1, <3>1, OneName
  <2>4. entrypoint \in FoundConfigs(tree)
    <3> HIDE DEF entrypoint
    <3>1. \A i \in 1 .. Len(entrypoint) - 1 : i >= Len(<<>>) => entrypoint[i] \notin Skipped
      BY <2>2
    <3> QED
      BY <2>1, <2>2, <2>3, <3>1 DEF FoundConfigs, Walked
  <2> QED
    BY <2>4 DEF Deployable
<1>5. Carries(v.files, tree, c)
  BY SourcesCarried
<1>6. \A p \in Walked(tree, root) \cup scripts : p \in Regular(tree)
  BY DEF Walked, Deployable
<1>7. \A n \in DependencyNames : <<n>> # entrypoint
  <2> TAKE n \in DependencyNames
  <2>1. n # name
    BY NamesAssumption
  <2>2. <<n>>[1] = n /\ entrypoint[1] = name
    OBVIOUS
  <2> QED
    BY <2>1, <2>2
<1> HIDE DEF entrypoint, files
<1>8. \A p \in Walked(tree, root) \cup scripts :
         ~IsConfig(tree[p]) => p \in DOMAIN files /\ files[p] = tree[p]
  <2> TAKE p \in Walked(tree, root) \cup scripts
  <2> SUFFICES ASSUME ~IsConfig(tree[p]) PROVE p \in DOMAIN files /\ files[p] = tree[p]
    OBVIOUS
  <2>1. p \in DOMAIN v.files /\ v.files[p] = tree[p]
    BY <1>5 DEF Carries
  <2>2. p # entrypoint
    BY <1>4, <1>6
  <2> QED
    BY <1>3, <2>1, <2>2
<1>9. \A n \in DependencyNames, k \in 0 .. Len(root) :
         LET nearest == SubSeq(root, 1, k) \o <<n>> IN
         /\ nearest \in Regular(tree)
         /\ \A j \in k + 1 .. Len(root) : SubSeq(root, 1, j) \o <<n>> \notin Regular(tree)
         => <<n>> \in DOMAIN files /\ files[<<n>>] = tree[nearest]
  <2> TAKE n \in DependencyNames, k \in 0 .. Len(root)
  <2> DEFINE nearest == SubSeq(root, 1, k) \o <<n>>
  <2> SUFFICES ASSUME nearest \in Regular(tree),
                      \A j \in k + 1 .. Len(root) :
                          SubSeq(root, 1, j) \o <<n>> \notin Regular(tree)
               PROVE  <<n>> \in DOMAIN files /\ files[<<n>>] = tree[nearest]
    OBVIOUS
  <2>1. <<n>> \in DOMAIN v.files /\ v.files[<<n>>] = tree[nearest]
    BY <1>5, Zenon DEF Carries
  <2> HIDE DEF nearest
  <2> QED
    BY <1>3, <1>7, <2>1
<1> QED
  BY <1>8, <1>9, Zenon DEF Carries, files
=============================================================================
