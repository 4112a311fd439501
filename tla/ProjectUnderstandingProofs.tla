--------------------- MODULE ProjectUnderstandingProofs ---------------------
(***************************************************************************)
(* What holds of the classification of every manifest, and of every scan    *)
(* and analysis, however large the workspace and however often others edit  *)
(* it.                                                                      *)
(***************************************************************************)
EXTENDS ProjectUnderstanding, FiniteSetTheorems, TLAPS

(***************************************************************************)
(* Sets                                                                    *)
(***************************************************************************)
LEMMA FiniteImage ==
    ASSUME NEW S, IsFiniteSet(S), NEW f
    PROVE  IsFiniteSet({f[x] : x \in S})
<1>. DEFINE T == {f[x] : x \in S}
            g == [x \in S |-> f[x]]
<1>1. g \in Surjection(S, T)
  BY DEF Surjection
<1>. QED BY <1>1, FS_Surjection

LEMMA LeastOfFive ==
    ASSUME NEW G \in SUBSET (1 .. 5), G # {}
    PROVE  Min(G) \in G /\ \A j \in G : Min(G) <= j
<1>1. \A i \in G : i = 1 \/ i = 2 \/ i = 3 \/ i = 4 \/ i = 5
  OBVIOUS
<1>2. \E i \in G : \A j \in G : i <= j
  <2>1. CASE 1 \in G
    BY <1>1, <2>1
  <2>2. CASE 1 \notin G /\ 2 \in G
    BY <1>1, <2>2
  <2>3. CASE 1 \notin G /\ 2 \notin G /\ 3 \in G
    BY <1>1, <2>3
  <2>4. CASE 1 \notin G /\ 2 \notin G /\ 3 \notin G /\ 4 \in G
    BY <1>1, <2>4
  <2>5. CASE 1 \notin G /\ 2 \notin G /\ 3 \notin G /\ 4 \notin G
    <3>1. \A i \in G : i = 5
      BY <1>1, <2>5
    <3>2. PICK i \in G : TRUE
      OBVIOUS
    <3>3. i = 5 /\ \A j \in G : 5 <= j
      BY <3>1
    <3>. QED BY <3>2, <3>3
  <2>. QED BY <2>1, <2>2, <2>3, <2>4, <2>5
<1>. QED BY <1>2 DEF Min

(* Of five numbers some is the greatest, and some the first such.           *)
LEMMA BestIsGreatest ==
    ASSUME NEW a \in Int, NEW b \in Int, NEW c \in Int, NEW d \in Int, NEW h \in Int
    PROVE  LET scores == <<a, b, c, d, h>>
           IN /\ Best(scores) \in 1 .. 5
              /\ \A j \in 1 .. 5 : scores[j] <= scores[Best(scores)]
<1>. DEFINE scores == <<a, b, c, d, h>>
            G == {i \in DOMAIN scores : \A j \in DOMAIN scores : scores[j] <= scores[i]}
<1>1. DOMAIN scores = 1 .. 5
  OBVIOUS
<1>2. \A i \in 1 .. 5 : i = 1 \/ i = 2 \/ i = 3 \/ i = 4 \/ i = 5
  OBVIOUS
<1>3. scores[1] = a /\ scores[2] = b /\ scores[3] = c /\ scores[4] = d /\ scores[5] = h
  OBVIOUS
<1>4. \E i \in 1 .. 5 : \A j \in 1 .. 5 : scores[j] <= scores[i]
  BY <1>2, <1>3
<1>5. G \in SUBSET (1 .. 5) /\ G # {}
  BY <1>1, <1>4
<1>6. Min(G) \in G
  <2>. HIDE DEF G
  <2>. QED BY <1>5, LeastOfFive
<1>. QED BY <1>1, <1>6 DEF Best

LEMMA MaxIsUpperBound ==
    ASSUME NEW a \in Int, NEW b \in Int, NEW c \in Int, NEW d \in Int
    PROVE  \A x \in {a, b, c, d} : Max({a, b, c, d}) \in Int /\ x <= Max({a, b, c, d})
<1>. DEFINE S == {a, b, c, d}
<1>1. \E x \in S : \A y \in S : x >= y
  OBVIOUS
<1>2. Max(S) \in S /\ \A y \in S : Max(S) >= y
  BY <1>1 DEF Max
<1>3. S \subseteq Int
  OBVIOUS
<1>. HIDE DEF S
<1>4. \A x \in S : Max(S) \in Int /\ x <= Max(S)
  BY <1>2, <1>3
<1>. QED BY <1>4 DEF S

(***************************************************************************)
(* The evidence of a manifest                                              *)
(***************************************************************************)
ManifestOK(m) == m.files \in [Path -> Nat] /\ Readings(m.top) /\ Readings(AsDict(m.notes))

LEMMA UnresolvedIsNat ==
    ASSUME NEW top, NEW notes, Readings(top), Readings(notes)
    PROVE  ExtractUnresolved(top, notes) \in Nat
<1>. DEFINE at(d, k) == IF k \in DOMAIN d THEN d[k] ELSE Str("")
            direct == <<at(top, "unresolved_requirements"), at(top, "unresolved_count"),
                        at(notes, "unresolved_requirements"), at(notes, "unresolved_count")>>
            counts == {i \in DOMAIN direct : IsCount(direct[i])}
            demanded == at(top, "requirements")
            Sound(v) == /\ v.kind \in {"int", "float"} => v.n \in Int
                        /\ v.kind = "list" => v.items \in Seq({v.items[i] : i \in DOMAIN v.items})
<1>1. \A k : Sound(at(top, k)) /\ Sound(at(notes, k))
  BY DEF Readings, Str
<1>2. \A i \in DOMAIN direct : Sound(direct[i])
  <2>1. /\ Sound(at(top, "unresolved_requirements")) /\ Sound(at(top, "unresolved_count"))
        /\ Sound(at(notes, "unresolved_requirements")) /\ Sound(at(notes, "unresolved_count"))
    BY <1>1
  <2>. HIDE DEF at, Sound
  <2>2. \A x1, x2, x3, x4 : \A i \in DOMAIN <<x1, x2, x3, x4>> :
            <<x1, x2, x3, x4>>[i] = x1 \/ <<x1, x2, x3, x4>>[i] = x2
            \/ <<x1, x2, x3, x4>>[i] = x3 \/ <<x1, x2, x3, x4>>[i] = x4
    OBVIOUS
  <2>. QED BY <2>1, <2>2
<1>3. \A v : Sound(v) /\ IsCount(v) => CountOf(v) \in Nat
  BY DEF IsCount, CountOf
<1>4. DOMAIN direct = 1 .. 4
  OBVIOUS
<1>5. CASE counts # {}
  <2>. HIDE DEF direct
  <2>1. counts \in SUBSET (1 .. 5)
    BY <1>4
  <2>2. Min(counts) \in counts
    <3>. HIDE DEF counts
    <3>. QED BY <1>5, <2>1, LeastOfFive
  <2>3. CountOf(direct[Min(counts)]) \in Nat
    BY <2>2, <1>2, <1>3
  <2>4. ExtractUnresolved(top, notes) = CountOf(direct[Min(counts)])
    BY <1>5, Zenon DEF ExtractUnresolved, direct
  <2>. QED BY <2>3, <2>4
<1>6. CASE counts = {} /\ demanded.kind = "list"
  <2>. DEFINE open == {i \in DOMAIN demanded.items : IsOpen(demanded.items[i])}
  <2>1. Sound(demanded)
    BY <1>1
  <2>2. IsFiniteSet(open)
    <3>1. PICK S : demanded.items \in Seq(S)
      BY <2>1, <1>6
    <3>2. DOMAIN demanded.items = 1 .. Len(demanded.items) /\ Len(demanded.items) \in Int
      <4>. HIDE DEF demanded
      <4>. QED BY <3>1
    <3>3. IsFiniteSet(1 .. Len(demanded.items))
      <4>. HIDE DEF demanded
      <4>. QED BY <3>2, FS_Interval
    <3>4. open \in SUBSET DOMAIN demanded.items
      OBVIOUS
    <3>. HIDE DEF open, demanded
    <3>. QED BY <3>2, <3>3, <3>4, FS_Subset
  <2>3. Cardinality(open) \in Nat
    BY <2>2, FS_CardinalityType
  <2>4. ExtractUnresolved(top, notes) = Cardinality(open)
    BY <1>6, Zenon DEF ExtractUnresolved
  <2>. QED BY <2>3, <2>4
<1>7. CASE counts = {} /\ demanded.kind # "list"
  <2>1. ExtractUnresolved(top, notes) = 0
    BY <1>7, Zenon DEF ExtractUnresolved
  <2>. QED BY <2>1
<1>. QED BY <1>5, <1>6, <1>7

LEMMA FileEntriesAreFinite ==
    ASSUME NEW m, m.files \in [Path -> Nat], NEW P \in SUBSET Path
    PROVE  Cardinality(FileEntries(m, P)) \in Nat
<1>. DEFINE f == [p \in P |-> {p} \X (1 .. m.files[p])]
<1>1. IsFiniteSet(P)
  BY FilesAssumption, FS_Subset
<1>2. \A T \in {f[p] : p \in P} : IsFiniteSet(T)
  <2>1. ASSUME NEW p \in P PROVE IsFiniteSet({p} \X (1 .. m.files[p]))
    <3>1. m.files[p] \in Int
      OBVIOUS
    <3>2. IsFiniteSet(1 .. m.files[p])
      BY <3>1, FS_Interval
    <3>3. IsFiniteSet({p})
      BY FS_Singleton
    <3>. QED BY <3>2, <3>3, FS_Product
  <2>. QED BY <2>1
<1>3. IsFiniteSet({f[p] : p \in P})
  <2>. HIDE DEF f
  <2>. QED BY <1>1, FiniteImage
<1>4. FileEntries(m, P) = UNION {f[p] : p \in P}
  BY DEF FileEntries
<1>. QED BY <1>2, <1>3, <1>4, FS_UNION, FS_CardinalityType

LEMMA EvidenceIsTyped ==
    ASSUME NEW m, ManifestOK(m)
    PROVE  /\ Evidence(m).implementation_files \in Nat
           /\ Evidence(m).unresolved_requirements \in Nat
<1>. DEFINE relevant == {p \in Path : m.files[p] > 0 /\ ~Has(p, "generated_dir")}
            P == {p \in relevant : Has(p, "implementation")}
<1>1. Evidence(m).implementation_files = Cardinality(FileEntries(m, P))
  BY DEF Evidence
<1>2. Evidence(m).unresolved_requirements = ExtractUnresolved(m.top, AsDict(m.notes))
  BY DEF Evidence
<1>3. P \in SUBSET Path /\ m.files \in [Path -> Nat]
  BY DEF ManifestOK
<1>. HIDE DEF P
<1>4. Cardinality(FileEntries(m, P)) \in Nat
  BY <1>3, FileEntriesAreFinite
<1>5. ExtractUnresolved(m.top, AsDict(m.notes)) \in Nat
  BY UnresolvedIsNat DEF ManifestOK
<1>. QED BY <1>1, <1>2, <1>4, <1>5

(* The classifier lists the keys that score and those that confirm twice.  *)
LEMMA KeysAgree == FailureKeys = ScoreKeys
BY DEF FailureKeys, ScoreKeys

LEMMA ScoredFailureIsConfirmed ==
    ASSUME NEW m
    PROVE  LET e == Evidence(m)
           IN e.tests_failed \/ e.build_failure \/ e.syntax_error \/ e.explicit_broken =>
                e.confirmed_failure
<1>. DEFINE e == Evidence(m)
            tests == AsDict(m.tests)
<1>1. /\ e.tests_failed = DetectBool(tests, ScoreKeys.tests_failed)
      /\ e.build_failure = DetectBool(tests, ScoreKeys.build_failure)
      /\ e.syntax_error = DetectBool(tests, ScoreKeys.syntax_error)
      /\ e.explicit_broken = DetectBool(m.top, ScoreKeys.explicit_broken)
      /\ e.confirmed_failure = DetectFailure(m.top, tests, AsDict(m.notes))
  BY DEF Evidence
<1>2. \/ DetectBool(tests, ScoreKeys.tests_failed)
      \/ DetectBool(tests, ScoreKeys.build_failure)
      \/ DetectBool(tests, ScoreKeys.syntax_error)
      \/ DetectBool(m.top, ScoreKeys.explicit_broken)
      => DetectFailure(m.top, tests, AsDict(m.notes))
  BY KeysAgree, Zenon DEF DetectFailure
<1>. QED BY <1>1, <1>2, Zenon

TypedEvidence(e) == e.implementation_files \in Nat /\ e.unresolved_requirements \in Nat

LEMMA ScoresAreNumbers ==
    ASSUME NEW e, TypedEvidence(e)
    PROVE  /\ ScoreBuild(e) \in Int /\ ScoreContinue(e) \in Int /\ ScoreMaintain(e) \in Int
           /\ ScoreRepair(e) \in Int /\ Scores(e)[1] \in Int /\ Points(e.spec_conflict, 200) \in Int
<1>1. ScoreBuild(e) \in Int
  BY DEF ScoreBuild, Points
<1>2. ScoreMaintain(e) \in Int
  BY DEF ScoreMaintain, Points
<1>3. ScoreRepair(e) \in Int
  BY DEF ScoreRepair, Points
<1>4. Points(e.spec_conflict, 200) \in Int
  BY DEF Points
<1>5. \A a, b \in Int : Min({a, b}) \in Int /\ Max({a, b}) \in Int
  <2>1. ASSUME NEW a \in Int, NEW b \in Int PROVE Min({a, b}) \in {a, b} /\ Max({a, b}) \in {a, b}
    <3>1. /\ \E x \in {a, b} : \A y \in {a, b} : x <= y
          /\ \E x \in {a, b} : \A y \in {a, b} : x >= y
      OBVIOUS
    <3>2. /\ (CHOOSE x \in {a, b} : \A y \in {a, b} : x <= y) \in {a, b}
          /\ (CHOOSE x \in {a, b} : \A y \in {a, b} : x >= y) \in {a, b}
      BY <3>1
    <3>. QED BY <3>2 DEF Min, Max
  <2>. QED BY <2>1
<1>6. ScoreContinue(e) \in Int
  <2>1. Min({80, e.unresolved_requirements * 10}) \in Int
    BY <1>5 DEF TypedEvidence
  <2>2. \A x, y, z \in Int : x + y + z \in Int
    OBVIOUS
  <2>3. /\ Points(e.implementation_files > 0 /\ e.has_specification, 60) \in Int
        /\ Points(e.explicit_partial, 50) \in Int
    BY DEF Points
  <2>. QED BY <2>1, <2>2, <2>3 DEF ScoreContinue
<1>7. Scores(e)[1] \in Int
  <2>1. Max({ScoreBuild(e), 120}) \in Int
    BY <1>1, <1>5
  <2>2. Scores(e)[1] = (IF e.implementation_files = 0 /\ HasDesignDocs(e)
                          THEN Max({ScoreBuild(e), 120}) ELSE ScoreBuild(e))
    BY DEF Scores
  <2>. QED BY <1>1, <2>1, <2>2
<1>. QED BY <1>1, <1>2, <1>3, <1>4, <1>6, <1>7

(* The state chosen by score is the candidate of a greatest score.          *)
LEMMA BestOfScores ==
    ASSUME NEW e, TypedEvidence(e)
    PROVE  /\ Best(Scores(e)) \in 1 .. 5
           /\ DOMAIN Scores(e) = 1 .. 5
           /\ \A j \in 1 .. 5 : Scores(e)[j] \in Int /\ Scores(e)[j] <= Scores(e)[Best(Scores(e))]
           /\ Scores(e)[4] = ScoreRepair(e)
<1>. DEFINE a == Scores(e)[1]
            b == ScoreContinue(e)
            c == ScoreMaintain(e)
            d == ScoreRepair(e)
            h == Points(e.spec_conflict, 200)
<1>1. a \in Int /\ b \in Int /\ c \in Int /\ d \in Int /\ h \in Int
  BY ScoresAreNumbers
<1>2. Scores(e) = <<a, b, c, d, h>>
  BY DEF Scores
<1>. HIDE DEF a, b, c, d, h
<1>3. /\ Best(<<a, b, c, d, h>>) \in 1 .. 5
      /\ \A j \in 1 .. 5 : <<a, b, c, d, h>>[j] <= <<a, b, c, d, h>>[Best(<<a, b, c, d, h>>)]
  BY <1>1, BestIsGreatest
<1>4. /\ DOMAIN <<a, b, c, d, h>> = 1 .. 5
      /\ \A j \in 1 .. 5 : <<a, b, c, d, h>>[j] \in Int
      /\ <<a, b, c, d, h>>[4] = d
  BY <1>1
<1>. QED BY <1>2, <1>3, <1>4 DEF d

(* REPAIR is chosen by score only with points for a failure. *)
LEMMA RepairScore ==
    ASSUME NEW e, TypedEvidence(e), ~Insufficient(e), Candidates[Best(Scores(e))] = "REPAIR"
    PROVE  e.tests_failed \/ e.build_failure \/ e.syntax_error \/ e.explicit_broken
<1>. DEFINE best == Best(Scores(e))
<1>1. best \in 1 .. 5 /\ Scores(e)[4] = ScoreRepair(e) /\ Scores(e)[best] \in Int
  BY BestOfScores
<1>2. best = 4
  <2>1. \A i \in 1 .. 5 : i = 1 \/ i = 2 \/ i = 3 \/ i = 4 \/ i = 5
    OBVIOUS
  <2>. HIDE DEF best
  <2>2. Candidates[best] = "REPAIR"
    BY DEF best
  <2>. QED BY <1>1, <2>1, <2>2 DEF Candidates
<1>3. ScoreRepair(e) > 0
  BY <1>1, <1>2 DEF Insufficient
<1>. QED BY <1>3 DEF ScoreRepair, Points

LEMMA StateLemma ==
    ASSUME NEW e
    PROVE  /\ e.spec_conflict => StateOf(e) = "CONFLICT"
           /\ ~e.spec_conflict /\ e.confirmed_failure => StateOf(e) = "REPAIR"
           /\ ~e.spec_conflict /\ ~e.confirmed_failure /\ Insufficient(e) => StateOf(e) = "UNKNOWN"
           /\ ~e.spec_conflict /\ ~e.confirmed_failure /\ ~Insufficient(e) =>
                  StateOf(e) = Candidates[Best(Scores(e))]
BY Zenon DEF StateOf

LEMMA RepairLemma ==
    ASSUME NEW e, TypedEvidence(e),
           e.tests_failed \/ e.build_failure \/ e.syntax_error \/ e.explicit_broken =>
               e.confirmed_failure
    PROVE  StateOf(e) = "REPAIR" <=> e.confirmed_failure /\ ~e.spec_conflict
<1>1. ~e.confirmed_failure /\ ~Insufficient(e) => Candidates[Best(Scores(e))] # "REPAIR"
  BY RepairScore
<1>2. "REPAIR" # "CONFLICT" /\ "REPAIR" # "UNKNOWN"
  OBVIOUS
<1>. QED BY <1>1, <1>2, StateLemma, Zenon

LEMMA RestOfFive ==
    ASSUME NEW s, DOMAIN s = 1 .. 5, \A j \in 1 .. 5 : s[j] \in Int, NEW best \in 1 .. 5
    PROVE  LET rest == {s[j] : j \in DOMAIN s \ {best}}
           IN \A x \in rest : Max(rest) \in Int /\ x <= Max(rest)
<1>. DEFINE rest == {s[j] : j \in DOMAIN s \ {best}}
<1>1. ASSUME NEW i1 \in 1 .. 5, NEW i2 \in 1 .. 5, NEW i3 \in 1 .. 5, NEW i4 \in 1 .. 5,
             (1 .. 5) \ {best} = {i1, i2, i3, i4}
      PROVE  \A x \in rest : Max(rest) \in Int /\ x <= Max(rest)
  <2>1. rest = {s[i1], s[i2], s[i3], s[i4]}
    <3>1. rest = {s[j] : j \in {i1, i2, i3, i4}}
      BY <1>1
    <3>. QED BY <3>1
  <2>2. s[i1] \in Int /\ s[i2] \in Int /\ s[i3] \in Int /\ s[i4] \in Int
    OBVIOUS
  <2>. HIDE DEF rest
  <2>. QED BY <2>1, <2>2, MaxIsUpperBound
<1>2. \/ best = 1 /\ (1 .. 5) \ {best} = {2, 3, 4, 5}
      \/ best = 2 /\ (1 .. 5) \ {best} = {1, 3, 4, 5}
      \/ best = 3 /\ (1 .. 5) \ {best} = {1, 2, 4, 5}
      \/ best = 4 /\ (1 .. 5) \ {best} = {1, 2, 3, 5}
      \/ best = 5 /\ (1 .. 5) \ {best} = {1, 2, 3, 4}
  OBVIOUS
<1>3. 1 \in 1 .. 5 /\ 2 \in 1 .. 5 /\ 3 \in 1 .. 5 /\ 4 \in 1 .. 5 /\ 5 \in 1 .. 5
  OBVIOUS
<1>. HIDE DEF rest
<1>4. \A x \in rest : Max(rest) \in Int /\ x <= Max(rest)
  BY <1>1, <1>2, <1>3, Zenon
<1>. QED BY <1>4 DEF rest

(* With over a fifth less than the best, no other candidate is near.        *)
LEMMA ConfidentIsClear ==
    ASSUME NEW e, TypedEvidence(e), ~Insufficient(e), Confident(Scores(e), Best(Scores(e)))
    PROVE  \A j \in DOMAIN Scores(e) \ {Best(Scores(e))} :
               5 * Scores(e)[j] < 4 * Scores(e)[Best(Scores(e))]
<1>. DEFINE s == Scores(e)
            best == Best(s)
            rest == {s[j] : j \in DOMAIN s \ {best}}
            second == Max(rest)
<1>1. /\ best \in 1 .. 5 /\ DOMAIN s = 1 .. 5
      /\ \A j \in 1 .. 5 : s[j] \in Int
  BY BestOfScores
<1>2. s[best] > 0
  BY <1>1 DEF Insufficient
<1>3. 9000 * (s[best] - second) >= 1999 * s[best]
  BY DEF Confident
<1>4. \A x \in rest : second \in Int /\ x <= second
  <2>. HIDE DEF s, best
  <2>. QED BY <1>1, RestOfFive
<1>5. ASSUME NEW j \in DOMAIN s \ {best} PROVE 5 * s[j] < 4 * s[best]
  <2>1. s[j] \in rest /\ s[j] \in Int /\ s[best] \in Int
    BY <1>1
  <2>2. second \in Int /\ s[j] <= second
    BY <2>1, <1>4
  <2>. HIDE DEF s, best, rest, second
  <2>. QED BY <2>1, <2>2, <1>2, <1>3
<1>. QED BY <1>5

LEMMA StartLemma ==
    ASSUME NEW e, TypedEvidence(e), AutonomousStart(e)
    PROVE  /\ StateOf(e) \notin {"UNKNOWN", "CONFLICT"}
           /\ \/ StateOf(e) = "REPAIR" /\ e.confirmed_failure
              \/ \E i \in DOMAIN Scores(e) :
                    /\ Candidates[i] = StateOf(e)
                    /\ \A j \in DOMAIN Scores(e) \ {i} : 5 * Scores(e)[j] < 4 * Scores(e)[i]
<1>1. StateOf(e) \in {"BUILD", "CONTINUE", "MAINTAIN", "REPAIR"}
  BY DEF AutonomousStart
<1>2. StateOf(e) \notin {"UNKNOWN", "CONFLICT"}
  BY <1>1
<1>3. CASE e.spec_conflict
  BY <1>2, <1>3, StateLemma
<1>4. CASE ~e.spec_conflict /\ e.confirmed_failure
  BY <1>2, <1>4, StateLemma
<1>5. CASE ~e.spec_conflict /\ ~e.confirmed_failure /\ Insufficient(e)
  BY <1>2, <1>5, StateLemma
<1>6. CASE ~e.spec_conflict /\ ~e.confirmed_failure /\ ~Insufficient(e)
  <2>1. StateOf(e) = Candidates[Best(Scores(e))]
    BY <1>6, StateLemma
  <2>2. Confident(Scores(e), Best(Scores(e)))
    BY <1>6, Zenon DEF AutonomousStart, ByScore
  <2>3. \A j \in DOMAIN Scores(e) \ {Best(Scores(e))} :
            5 * Scores(e)[j] < 4 * Scores(e)[Best(Scores(e))]
    BY <1>6, <2>2, ConfidentIsClear
  <2>4. Best(Scores(e)) \in DOMAIN Scores(e)
    BY BestOfScores
  <2>. QED BY <1>2, <2>1, <2>3, <2>4, Zenon
<1>. QED BY <1>3, <1>4, <1>5, <1>6

(***************************************************************************)
(* The scan                                                                *)
(***************************************************************************)
(* Until somebody saves the manifest the workspace has only known contents. *)
TreeInv == pc \notin {"saved", "raised"} =>
              DOMAIN tree = Path /\ \A p \in Path : tree[p] \in Content[p]

FilesInv ==
    /\ files \in [Path -> Nat]
    /\ pc = "scanned" => ManifestOK(manifest)

(* No directory on the way to the file is pruned, or could not be listed.   *)
Included(p) == /\ \A d \in Above[Dir[p]] : "scan_excluded" \notin DirTraits[d]
               /\ OnTheWay(p) \cap unlisted = {}

(* Ahead of the walk: the file itself, or the directory on its way that is  *)
(* found and not listed yet.                                                *)
Ahead(p) == \/ files[p] > 0 \/ p \in names
            \/ \E d \in dirs : d \in OnTheWay(p)

WalkInv ==
    pc = "walk" =>
        /\ kept \subseteq Plain(tree)
        /\ Named(tree) \subseteq was
        /\ names \subseteq was
        /\ \A p \in kept : Included(p) => Ahead(p)
        /\ \A p \in Path : files[p] > 0 => p \in was

ScanInv == TreeInv /\ FilesInv /\ WalkInv /\ ScanIsComplete

LEMMA EntryIsSound ==
    ASSUME TreeInv, pc \notin {"saved", "raised"}, NEW p \in Path
    PROVE  /\ Resolved(tree, p) \in Path
           /\ tree[p].kind # "missing" => Resolved(tree, p) \in Named(tree) /\ p \in Named(tree)
           /\ tree[p].kind # "link" => Resolved(tree, p) = p
<1>1. tree[p] \in Content[p]
  BY DEF TreeInv
<1>2. Resolved(tree, p) \in Path
  BY <1>1, FilesAssumption DEF Resolved
<1>3. tree[p].kind # "missing" => Resolved(tree, p) \in Named(tree) /\ p \in Named(tree)
  BY DEF Named
<1>. QED BY <1>2, <1>3 DEF Resolved

LEMMA StartScanStep ==
    ASSUME ScanInv, StartScan
    PROVE  ScanInv'
<1>. USE DEF StartScan
<1>1. TreeInv' /\ FilesInv'
  BY DEF ScanInv, TreeInv, FilesInv
<1>2. /\ kept' \subseteq Plain(tree') /\ Named(tree') \subseteq was' /\ names' \subseteq was'
      /\ \A p \in Path : files'[p] = 0
      /\ dirs' = {Root}
  BY DEF Plain, Named
<1>3. WalkInv'
  BY <1>2 DEF WalkInv, Ahead, OnTheWay
<1>4. ScanIsComplete'
  BY DEF ScanIsComplete
<1>. QED BY <1>1, <1>3, <1>4 DEF ScanInv

LEMMA ListStep ==
    ASSUME ScanInv, NEW d \in Directory, ListDirectory(d)
    PROVE  ScanInv'
<1>. USE DEF ListDirectory, historyVars
<1>1. TreeInv' /\ FilesInv' /\ ScanIsComplete'
  BY DEF ScanInv, TreeInv, FilesInv, ScanIsComplete
<1>2. /\ pc = "walk" /\ pc' = "walk" /\ names = {} /\ d \in dirs
      /\ kept' = kept /\ was' = was /\ files' = files /\ tree' = tree
      /\ \/ /\ dirs' = (dirs \ {d}) \cup Entered(d)
            /\ names' = NamesIn(d)
            /\ unlisted' = unlisted
         \/ /\ dirs' = dirs \ {d}
            /\ names' = names
            /\ unlisted' = unlisted \cup {d}
  OBVIOUS
<1>3. WalkInv
  BY DEF ScanInv
<1>4. names' \subseteq was'
  BY <1>2, <1>3 DEF WalkInv, Named, NamesIn
<1>5. ASSUME NEW p \in kept, Included(p)' PROVE Ahead(p)'
  <2>1. p \in Path /\ tree[p].kind # "missing" /\ Dir[p] \in Directory
    BY <1>2, <1>3, FilesAssumption DEF WalkInv, Plain
  <2>2. Included(p) /\ Ahead(p)
    <3>1. Included(p)
      BY <1>2, <1>5 DEF Included
    <3>. QED BY <1>2, <1>3, <1>5, <3>1 DEF WalkInv
  <2>3. CASE files[p] > 0
    BY <1>2, <2>3 DEF Ahead
  <2>4. CASE \E e \in dirs \ {d} : e \in OnTheWay(p)
    BY <1>2, <2>4 DEF Ahead
  <2>5. CASE d \in OnTheWay(p)
    <3>. /\ dirs' = (dirs \ {d}) \cup Entered(d)
         /\ names' = NamesIn(d)
      BY <1>2, <1>5, <2>5 DEF Included
    <3>1. CASE d = Dir[p]
      BY <1>2, <2>1, <3>1 DEF Ahead, NamesIn
    <3>2. CASE d # Dir[p]
      <4>1. PICK below \in Above[Dir[p]] : Parent[below] = d
        BY <2>1, <2>5, <3>2, FilesAssumption DEF OnTheWay
      <4>2. below \in Directory \ {Root}
        BY <2>1, <4>1, FilesAssumption
      <4>3. "scan_excluded" \notin DirTraits[below]
        BY <2>2, <4>1 DEF Included
      <4>4. There(tree, below)
        BY <2>1, <4>1 DEF There, OnTheWay
      <4>5. below \in Entered(d)
        BY <4>1, <4>2, <4>3, <4>4 DEF Entered
      <4>. QED BY <4>1, <4>5 DEF Ahead, OnTheWay
    <3>. QED BY <3>1, <3>2
  <2>. QED BY <1>2, <2>2, <2>3, <2>4, <2>5 DEF Ahead
<1>6. WalkInv'
  <2>1. \A p \in kept' : Included(p)' => Ahead(p)'
    BY <1>2, <1>5
  <2>. QED BY <1>2, <1>3, <1>4, <2>1 DEF WalkInv
<1>. QED BY <1>1, <1>6 DEF ScanInv

LEMMA RecordStep ==
    ASSUME ScanInv, NEW p \in Path, RecordFile(p)
    PROVE  ScanInv'
<1>. USE DEF RecordFile, historyVars
<1>. DEFINE r == Resolved(tree, p)
<1>1. /\ pc = "walk" /\ p \in names /\ names' = names \ {p}
      /\ kept' = kept /\ was' = was /\ tree' = tree /\ dirs' = dirs /\ manifest' = manifest
      /\ unlisted' = unlisted
  OBVIOUS
<1>2. CASE pc' = "raised"
  <2>1. files' = files
    BY <1>1, <1>2
  <2>. QED BY <1>1, <1>2, <2>1 DEF ScanInv, TreeInv, FilesInv, WalkInv, ScanIsComplete
<1>3. CASE pc' # "raised"
  <2>1. /\ pc' = "walk" /\ tree[p].kind # "outside"
        /\ files' = [files EXCEPT ![r] = @ + 1]
    BY <1>1, <1>3
  <2>2. TreeInv /\ FilesInv /\ WalkInv
    BY DEF ScanInv
  <2>3. r \in Path /\ (tree[p].kind # "missing" => r \in Named(tree))
        /\ (tree[p].kind # "link" => r = p)
    BY <1>1, <2>2, EntryIsSound
  <2>4. r \in was
    <3>1. tree[p].kind = "missing" => r = p
      BY <2>3
    <3>. QED BY <1>1, <2>2, <2>3, <3>1 DEF WalkInv
  <2>. HIDE DEF r
  <2>5. files' \in [Path -> Nat] /\ files'[r] > 0
        /\ \A q \in Path : files'[q] >= files[q] /\ (q # r => files'[q] = files[q])
    BY <2>1, <2>2, <2>3 DEF FilesInv
  <2>6. TreeInv' /\ FilesInv' /\ ScanIsComplete'
    BY <1>1, <2>1, <2>2, <2>5 DEF TreeInv, FilesInv, ScanIsComplete
  <2>7. ASSUME NEW q \in kept, Included(q) PROVE Ahead(q)'
    <3>1. q \in Path /\ Ahead(q) /\ tree[q].kind # "link"
      BY <1>1, <2>2, <2>7 DEF WalkInv, Plain
    <3>2. CASE q = p
      <4>1. files'[q] > 0
        BY <2>3, <2>5, <3>1, <3>2
      <4>. QED BY <4>1 DEF Ahead
    <3>3. CASE q # p
      <4>1. files[q] \in Nat /\ files'[q] \in Nat
        BY <2>2, <2>5, <3>1 DEF FilesInv
      <4>2. files[q] > 0 => files'[q] > 0
        BY <2>5, <3>1, <4>1
      <4>. QED BY <1>1, <3>1, <3>3, <4>2 DEF Ahead
    <3>. QED BY <3>2, <3>3
  <2>8. \A q \in Path : files'[q] > 0 => q \in was
    BY <1>1, <2>2, <2>4, <2>5 DEF WalkInv
  <2>9. WalkInv'
    <3>1. \A q \in kept' : Included(q)' => Ahead(q)'
      BY <1>1, <2>7 DEF Included
    <3>. QED BY <1>1, <2>2, <2>8, <3>1 DEF WalkInv
  <2>. QED BY <2>6, <2>9 DEF ScanInv
<1>. QED BY <1>2, <1>3

LEMMA FinishStep ==
    ASSUME ScanInv, FinishScan
    PROVE  ScanInv'
<1>. USE DEF FinishScan, historyVars
<1>1. /\ pc = "walk" /\ pc' = "scanned" /\ names = {} /\ dirs = {}
      /\ manifest' = ManifestOf(files, git')
      /\ UNCHANGED <<tree, files, unlisted, kept, was>>
  OBVIOUS
<1>2. manifest'.files = files /\ manifest'.top = EmptyDict /\ manifest'.notes = List(<<Str("note")>>)
  BY <1>1 DEF ManifestOf
<1>3. files \in [Path -> Nat] /\ WalkInv
  BY DEF ScanInv, FilesInv
<1>4. ManifestOK(manifest')
  <2>1. DOMAIN EmptyDict = {} /\ AsDict(List(<<Str("note")>>)) = EmptyDict
    BY DEF EmptyDict, AsDict, List
  <2>2. Readings(EmptyDict)
    BY <2>1 DEF Readings
  <2>. QED BY <1>2, <1>3, <2>1, <2>2 DEF ManifestOK
<1>5. TreeInv' /\ FilesInv' /\ WalkInv'
  BY <1>1, <1>3, <1>4 DEF ScanInv, TreeInv, FilesInv, WalkInv, ManifestOK
<1>6. ScanIsComplete'
  <2>1. \A p \in kept : Included(p) => files[p] > 0
    BY <1>1, <1>3 DEF WalkInv, Ahead
  <2>2. \A p \in Path : files[p] > 0 => p \in was
    BY <1>1, <1>3 DEF WalkInv
  <2>. QED BY <1>1, <1>2, <2>1, <2>2 DEF ScanIsComplete, Included
<1>. QED BY <1>5, <1>6 DEF ScanInv

LEMMA EditStep ==
    ASSUME ScanInv, NEW p \in Path, NEW c \in Content[p], Edit(p, c)
    PROVE  ScanInv'
<1>. USE DEF Edit, scanVars
<1>1. /\ pc \in {"walk", "scanned", "documents", "records"} /\ pc' = pc
      /\ tree' = [tree EXCEPT ![p] = c]
      /\ kept' = kept \cap Plain(tree') /\ was' = was \cup Named(tree')
      /\ UNCHANGED <<dirs, names, files, manifest, unlisted>>
  OBVIOUS
<1>2. TreeInv'
  BY <1>1 DEF ScanInv, TreeInv
<1>3. FilesInv'
  BY <1>1 DEF ScanInv, FilesInv
<1>4. WalkInv'
  <2>1. \A q : Ahead(q)' <=> Ahead(q)
    BY <1>1 DEF Ahead
  <2>. QED BY <1>1, <2>1 DEF ScanInv, WalkInv, Included
<1>5. ScanIsComplete'
  BY <1>1 DEF ScanInv, ScanIsComplete
<1>. QED BY <1>2, <1>3, <1>4, <1>5 DEF ScanInv

(* What comes after the scan, or ends it.                                   *)
LEMMA LaterStep ==
    ASSUME ScanInv, UNCHANGED <<files, manifest, unlisted, kept, was>>,
           pc \notin {"walk", "classified", "idle", "raised"}, pc' \notin {"walk", "scanned"},
           pc' \notin {"saved", "raised"} => tree' = tree /\ pc # "saved"
    PROVE  ScanInv'
BY DEF ScanInv, TreeInv, FilesInv, WalkInv, ScanIsComplete

THEOREM ScanInvHolds == Spec => []ScanInv
<1>1. Init => ScanInv
  <2>. SUFFICES ASSUME Init PROVE ScanInv
    OBVIOUS
  <2>. QED BY TreesAssumption DEF Init, ScanInv, TreeInv, FilesInv, WalkInv, ScanIsComplete
<1>2. ScanInv /\ [Next]_vars => ScanInv'
  <2>. SUFFICES ASSUME ScanInv, [Next]_vars PROVE ScanInv'
    OBVIOUS
  <2>1. CASE Scan
    <3>1. CASE SaveManifest
      BY <3>1, LaterStep DEF SaveManifest, historyVars
    <3>. QED BY <2>1, <3>1, StartScanStep, ListStep, RecordStep, FinishStep DEF Scan
  <2>2. CASE Discover
    BY <2>2, LaterStep DEF Discover, historyVars
  <2>3. ASSUME NEW p \in Path, ReadDocument(p) PROVE ScanInv'
    BY <2>3, LaterStep DEF ReadDocument, historyVars
  <2>4. CASE TakeCandidates
    BY <2>4, LaterStep DEF TakeCandidates, historyVars
  <2>5. ASSUME NEW p \in Path, ReadRecord(p) PROVE ScanInv'
    BY <2>5, LaterStep DEF ReadRecord, historyVars
  <2>6. CASE Conclude
    BY <2>6, LaterStep DEF Conclude, historyVars
  <2>7. CASE AskLeader
    BY <2>7, LaterStep DEF AskLeader, historyVars
  <2>8. ASSUME NEW m \in Manifests, ClassifyFile(m) PROVE ScanInv'
    BY <2>8 DEF ClassifyFile, historyVars, ScanInv, TreeInv, FilesInv, WalkInv, ScanIsComplete
  <2>9. ASSUME NEW p \in Path, NEW c \in Content[p], Edit(p, c) PROVE ScanInv'
    BY <2>9, EditStep
  <2>10. CASE UNCHANGED vars
    <3>1. \A q : Ahead(q)' <=> Ahead(q)
      BY <2>10 DEF Ahead, vars, scanVars
    <3>2. UNCHANGED <<tree, pc, names, files, manifest, unlisted, kept, was>>
      BY <2>10 DEF vars, scanVars, historyVars
    <3>3. TreeInv' /\ FilesInv' /\ ScanIsComplete'
      BY <3>2 DEF ScanInv, TreeInv, FilesInv, ScanIsComplete
    <3>4. WalkInv'
      BY <3>1, <3>2 DEF ScanInv, WalkInv, Included
    <3>. QED BY <3>3, <3>4 DEF ScanInv
  <2>. QED BY <2>1, <2>2, <2>3, <2>4, <2>5, <2>6, <2>7, <2>8, <2>9, <2>10 DEF Next, Analyze
<1>. QED BY <1>1, <1>2, PTL DEF Spec

(* project_scanner.py: what is there all the time is recorded, unless the   *)
(* walk could not list a directory on its way, and what is recorded was     *)
(* there.                                                                   *)
THEOREM ScanIsCompleteHolds == Spec => []ScanIsComplete
BY ScanInvHolds, PTL DEF ScanInv

(***************************************************************************)
(* The classification                                                      *)
(***************************************************************************)
ClassInv == Classified => \E m : ManifestOK(m) /\ classified = Classify(m)

THEOREM ClassInvHolds == Spec => []ClassInv
<1>1. Init => ClassInv
  BY DEF Init, ClassInv, Classified
<1>2. ScanInv /\ ClassInv /\ [Next]_vars => ClassInv'
  <2>. SUFFICES ASSUME ScanInv, ClassInv, [Next]_vars PROVE ClassInv'
    OBVIOUS
  <2>1. CASE Discover
    BY <2>1 DEF Discover, ScanInv, FilesInv, ClassInv
  <2>2. ASSUME NEW m \in Manifests, ClassifyFile(m) PROVE ClassInv'
    <3>1. ManifestOK(m) /\ classified' = Classify(m)
      BY <2>2, ManifestsAssumption DEF ClassifyFile, ManifestOK
    <3>. QED BY <3>1 DEF ClassInv
  <2>3. CASE classified' = classified
    BY <2>3 DEF ClassInv, Classified
  <2>. QED BY <2>1, <2>2, <2>3
           DEF Next, Analyze, Scan, ReadDocument, TakeCandidates, ReadRecord, Conclude, AskLeader,
               stageVars, vars
<1>. QED BY <1>1, <1>2, ScanInvHolds, PTL DEF Spec

LEMMA ClassifiedFrom ==
    ASSUME ClassInv, Classified
    PROVE  \E m : /\ TypedEvidence(Evidence(m))
                 /\ classified.evidence = Evidence(m)
                 /\ classified.state = StateOf(Evidence(m))
                 /\ classified.autonomous_start_allowed = AutonomousStart(Evidence(m))
<1>1. PICK m : ManifestOK(m) /\ classified = Classify(m)
  BY DEF ClassInv
<1>2. TypedEvidence(Evidence(m))
  BY <1>1, EvidenceIsTyped DEF TypedEvidence
<1>3. /\ classified.evidence = Evidence(m)
      /\ classified.state = StateOf(Evidence(m))
      /\ classified.autonomous_start_allowed = AutonomousStart(Evidence(m))
  BY <1>1 DEF Classify
<1>. QED BY <1>2, <1>3

(* project_state_classifier.py: for every manifest, repair follows exactly  *)
(* a confirmed failure.                                                     *)
THEOREM RepairIsConfirmedHolds == Spec => []RepairIsConfirmed
<1>1. ClassInv => RepairIsConfirmed
  <2>. SUFFICES ASSUME ClassInv, Classified PROVE RepairIsConfirmed
    BY DEF RepairIsConfirmed
  <2>1. PICK m : /\ TypedEvidence(Evidence(m))
                 /\ classified.evidence = Evidence(m)
                 /\ classified.state = StateOf(Evidence(m))
    BY ClassifiedFrom
  <2>2. StateOf(Evidence(m)) = "REPAIR" <=>
            Evidence(m).confirmed_failure /\ ~Evidence(m).spec_conflict
    BY <2>1, RepairLemma, ScoredFailureIsConfirmed
  <2>. QED BY <2>1, <2>2, Zenon DEF RepairIsConfirmed
<1>. QED BY <1>1, ClassInvHolds, PTL

(* project_state_classifier.py: for every manifest, a state that may start  *)
(* alone is over a fifth ahead of any other, or a confirmed failure.        *)
THEOREM StartIsUnambiguousHolds == Spec => []StartIsUnambiguous
<1>1. ClassInv => StartIsUnambiguous
  <2>. SUFFICES ASSUME ClassInv, Classified, classified.autonomous_start_allowed
                PROVE  StartIsUnambiguous
    BY DEF StartIsUnambiguous
  <2>1. PICK m : /\ TypedEvidence(Evidence(m))
                 /\ classified.evidence = Evidence(m)
                 /\ classified.state = StateOf(Evidence(m))
                 /\ classified.autonomous_start_allowed = AutonomousStart(Evidence(m))
    BY ClassifiedFrom
  <2>2. AutonomousStart(Evidence(m))
    BY <2>1, Zenon
  <2>. QED BY <2>1, <2>2, StartLemma, Zenon DEF StartIsUnambiguous
<1>. QED BY <1>1, ClassInvHolds, PTL

(***************************************************************************)
(* The context                                                             *)
(***************************************************************************)
FailedInv ==
    /\ IsFiniteSet(required)
    /\ pc \in {"done", "planning", "refused"} =>
          /\ entries = Entries(required, records, evidence)
          /\ context = BuildContext(entries) /\ ~context.raised

LEMMA ExtractedIsFinite ==
    ASSUME NEW p, NEW S, NEW lines \in Seq(S)
    PROVE  IsFiniteSet(Extracted(p, lines))
<1>. DEFINE D == {j \in DOMAIN lines : IsRequirement(lines, j)}
            f == [i \in D |-> Requirement(p, lines, i)]
<1>1. IsFiniteSet(D)
  <2>1. DOMAIN lines = 1 .. Len(lines) /\ Len(lines) \in Int
    OBVIOUS
  <2>2. IsFiniteSet(DOMAIN lines)
    BY <2>1, FS_Interval
  <2>3. D \in SUBSET DOMAIN lines
    OBVIOUS
  <2>. HIDE DEF D
  <2>. QED BY <2>2, <2>3, FS_Subset
<1>2. Extracted(p, lines) = {f[i] : i \in D}
  BY DEF Extracted
<1>. HIDE DEF f, D
<1>. QED BY <1>1, <1>2, FiniteImage

THEOREM FailedInvHolds == Spec => []FailedInv
<1>1. Init => FailedInv
  BY FS_EmptySet DEF Init, FailedInv
<1>2. ScanInv /\ FailedInv /\ [Next]_vars => FailedInv'
  <2>. SUFFICES ASSUME ScanInv, FailedInv, [Next]_vars PROVE FailedInv'
    OBVIOUS
  <2>. DEFINE Ended == {"done", "planning", "refused"}
  <2>1. ASSUME NEW p \in Path, ReadDocument(p) PROVE FailedInv'
    <3>1. pc = "documents" /\ pc' \in {"documents", "raised"}
      BY <2>1 DEF ReadDocument
    <3>2. IsFiniteSet(required')
      <4>1. CASE Readable(tree, p)
        <5>. DEFINE q == Resolved(tree, p)
                    lines == tree[q].lines
        <5>1. q \in Path /\ tree[q] \in Content[q] /\ tree[q].kind \in {"text", "outside"}
          BY <3>1, <4>1, EntryIsSound DEF ScanInv, TreeInv, Readable
        <5>2. lines \in Seq({lines[i] : i \in DOMAIN lines})
          BY <5>1, LinesAssumption, Zenon
        <5>3. IsFiniteSet(Extracted(p, lines))
          <6>. HIDE DEF lines
          <6>. QED BY <5>2, ExtractedIsFinite
        <5>4. required' = required \cup Extracted(p, lines)
          BY <2>1, <4>1 DEF ReadDocument
        <5>. QED BY <5>3, <5>4, FS_Union DEF FailedInv
      <4>2. CASE ~Readable(tree, p)
        BY <2>1, <4>2 DEF ReadDocument, FailedInv
      <4>. QED BY <4>1, <4>2
    <3>. QED BY <3>1, <3>2 DEF FailedInv
  <2>2. CASE Conclude
    BY <2>2 DEF Conclude, FailedInv
  <2>3. CASE AskLeader
    BY <2>3 DEF AskLeader, stageVars, FailedInv
  <2>4. CASE /\ required' = required
             /\ pc' \in Ended => pc = pc' /\ UNCHANGED <<records, evidence, entries, context>>
    BY <2>4 DEF FailedInv
  <2>5. CASE Scan \/ Discover \/ TakeCandidates \/ \E p \in Path : ReadRecord(p)
    BY <2>4, <2>5 DEF Scan, StartScan, ListDirectory, RecordFile, FinishScan, SaveManifest, stageVars,
                      Discover, TakeCandidates, ReadRecord
  <2>6. CASE \E m \in Manifests : ClassifyFile(m)
    BY <2>4, <2>6 DEF ClassifyFile
  <2>7. CASE \E p \in Path : \E c \in Content[p] : Edit(p, c) /\ UNCHANGED stageVars
    BY <2>4, <2>7 DEF Edit, scanVars, stageVars
  <2>8. CASE UNCHANGED vars
    BY <2>4, <2>8 DEF vars, scanVars, stageVars
  <2>. QED BY <2>1, <2>2, <2>3, <2>5, <2>6, <2>7, <2>8 DEF Next, Analyze
<1>. QED BY <1>1, <1>2, ScanInvHolds, PTL DEF Spec

(* A requirement whose execution failed is a GAP, and weighs more than any  *)
(* other status with all that may be added to it.                           *)
LEMMA FailedWeighsMore ==
    ASSUME NEW r1, NEW r2, NEW S, NEW E,
           ExecutionEvidence(r1, E) = "failed", ExecutionEvidence(r2, E) # "failed"
    PROVE  /\ Entry(r1, S, E).priority \in Int /\ Entry(r2, S, E).priority \in Int
           /\ Entry(r1, S, E).priority > Entry(r2, S, E).priority
<1>. DEFINE status(r) == Status(ExecutionEvidence(r, E), ImplementationEvidence(r, S),
                                TestEvidence(r, S))
<1>1. \A r : Entry(r, S, E).priority = Priority(status(r), r, ExecutionEvidence(r, E))
  BY DEF Entry
<1>2. status(r1) = "GAP"
  BY "failed" # "passed", Zenon DEF Status
<1>3. status(r2) \in {"VERIFIED", "IMPLEMENTED_UNVERIFIED", "TESTED_UNIMPLEMENTED", "UNKNOWN"}
  <2>1. CASE ExecutionEvidence(r2, E) = "passed"
    BY <2>1, Zenon DEF Status
  <2>2. CASE ExecutionEvidence(r2, E) # "passed" /\ ImplementationEvidence(r2, S) # {}
    BY <2>2, Zenon DEF Status
  <2>3. CASE /\ ExecutionEvidence(r2, E) # "passed" /\ ImplementationEvidence(r2, S) = {}
             /\ TestEvidence(r2, S) # {}
    BY <2>3, Zenon DEF Status
  <2>4. CASE /\ ExecutionEvidence(r2, E) # "passed" /\ ImplementationEvidence(r2, S) = {}
             /\ TestEvidence(r2, S) = {}
    BY <2>4, Zenon DEF Status
  <2>. QED BY <2>1, <2>2, <2>3, <2>4
<1>. HIDE DEF status
<1>4. /\ StatusWeight["GAP"] = 100 /\ StatusWeight["VERIFIED"] = 10
      /\ StatusWeight["IMPLEMENTED_UNVERIFIED"] = 70 /\ StatusWeight["TESTED_UNIMPLEMENTED"] = 80
      /\ StatusWeight["UNKNOWN"] = 90
  BY DEF StatusWeight
<1>5. /\ Priority(status(r1), r1, ExecutionEvidence(r1, E)) \in 100 .. 107
      /\ Priority(status(r2), r2, ExecutionEvidence(r2, E)) \in 10 .. 97
  BY <1>2, <1>3, <1>4 DEF Priority
<1>. QED BY <1>1, <1>5

(* Among the first n is whoever has a higher priority than one of them.     *)
LEMMA UrgentIsClosed ==
    ASSUME NEW S, IsFiniteSet(S), NEW e \in S, NEW f \in S, NEW n \in Int,
           \A g \in S : g.priority \in Int,
           e.priority > f.priority, f \in Urgent(S, n)
    PROVE  e \in Urgent(S, n)
<1>. DEFINE A == {g \in S : Before(g, e)}
            B == {g \in S : Before(g, f)}
<1>1. A \in SUBSET B
  BY DEF Before
<1>2. IsFiniteSet(B)
  BY FS_Subset
<1>3. Cardinality(B) < n
  BY DEF Urgent
<1>. HIDE DEF A, B
<1>4. Cardinality(A) <= Cardinality(B) /\ Cardinality(A) \in Nat /\ Cardinality(B) \in Nat
  BY <1>1, <1>2, FS_Subset, FS_CardinalityType
<1>5. Cardinality(A) < n
  BY <1>3, <1>4
<1>. QED BY <1>5 DEF Urgent, A

(* context_builder.py: a failed requirement is left out only when all that  *)
(* are shown have failed, too.                                              *)
THEOREM FailedComesFirstHolds == Spec => []FailedComesFirst
<1>1. FailedInv => FailedComesFirst
  <2>. SUFFICES ASSUME FailedInv, pc \in {"done", "planning", "refused"},
                       NEW r \in required, ExecutionEvidence(r, evidence) = "failed",
                       NEW f \in context.requirements,
                       ~(f.requirement \in required
                            /\ ExecutionEvidence(f.requirement, evidence) = "failed")
                PROVE  \E e \in context.requirements : e.requirement = r
    BY DEF FailedComesFirst
  <2>. DEFINE entry(x) == Entry(x, records, evidence)
              selected == Urgent(entries, MaxRequirements)
              fitting == UNION {Urgent(selected, n) : n \in Fitting(selected)}
              e == entry(r)
  <2>1. /\ IsFiniteSet(required) /\ entries = {entry(x) : x \in required}
        /\ context = BuildContext(entries) /\ ~context.raised
    BY DEF FailedInv, Entries
  <2>2. IsFiniteSet(entries)
    <3>. DEFINE g == [x \in required |-> entry(x)]
    <3>1. entries = {g[x] : x \in required}
      BY <2>1
    <3>. HIDE DEF g
    <3>. QED BY <2>1, <3>1, FiniteImage
  <2>3. context.requirements \in {selected, fitting}
    BY <2>1 DEF BuildContext, Raised
  <2>4. /\ selected \in SUBSET entries
        /\ \A n : Urgent(selected, n) \in SUBSET selected
    BY DEF Urgent
  <2>5. f \in entries
    BY <2>3, <2>4
  <2>6. PICK x \in required : f = entry(x)
    BY <2>1, <2>5
  <2>7. \A y : entry(y).requirement = y
    BY DEF Entry
  <2>8. ExecutionEvidence(x, evidence) # "failed"
    BY <2>6, <2>7
  <2>9. e.priority > f.priority
    BY <2>6, <2>8, FailedWeighsMore
  <2>10. \A g \in entries : g.priority \in Int
    <3>1. ASSUME NEW y \in required PROVE entry(y).priority \in Int
      <4>1. CASE ExecutionEvidence(y, evidence) = "failed"
        BY <2>8, <4>1, FailedWeighsMore
      <4>2. CASE ExecutionEvidence(y, evidence) # "failed"
        BY <4>2, FailedWeighsMore
      <4>. QED BY <4>1, <4>2
    <3>. QED BY <2>1, <3>1
  <2>11. e \in entries /\ e.requirement = r
    BY <2>1, <2>7
  <2>. HIDE DEF entry, e
  <2>12. f \in selected => e \in selected
    BY <2>2, <2>5, <2>9, <2>10, <2>11, UrgentIsClosed, MaxRequirementsAssumption
  <2>13. CASE context.requirements = selected
    BY <2>11, <2>12, <2>13
  <2>14. CASE context.requirements = fitting
    <3>1. PICK n \in Fitting(selected) : f \in Urgent(selected, n)
      BY <2>14
    <3>2. IsFiniteSet(selected)
      BY <2>2, <2>4, FS_Subset
    <3>3. n \in Int
      BY <3>1, <3>2, FS_CardinalityType DEF Fitting
    <3>4. f \in selected /\ e \in selected
      BY <2>4, <2>12, <3>1
    <3>5. \A g \in selected : g.priority \in Int
      BY <2>4, <2>10
    <3>6. e \in Urgent(selected, n)
      <4>. HIDE DEF selected
      <4>. QED BY <2>9, <3>1, <3>2, <3>3, <3>4, <3>5, UrgentIsClosed
    <3>. QED BY <2>11, <2>14, <3>6
  <2>. QED BY <2>3, <2>13, <2>14
<1>. QED BY <1>1, FailedInvHolds, PTL

(***************************************************************************)
(* The bounds of the context.  Which requirements are the first n is well  *)
(* defined, because no two requirements are at one line of one document.   *)
(***************************************************************************)
TotalOrder(E) ==
    /\ \A e \in E : ~Before(e, e)
    /\ \A e, f, g \in E : Before(e, f) /\ Before(f, g) => Before(e, g)
    /\ \A e, f \in E : e = f \/ Before(e, f) \/ Before(f, e)

Preceding(E, e) == {f \in E : Before(f, e)}

(* How many are before an entry tells the entries apart, in their order.    *)
LEMMA PrecedingCounts ==
    ASSUME NEW E, IsFiniteSet(E), TotalOrder(E), NEW e \in E
    PROVE  /\ Cardinality(Preceding(E, e)) \in 0 .. Cardinality(E) - 1
           /\ \A f \in E : Before(f, e) =>
                  Cardinality(Preceding(E, f)) < Cardinality(Preceding(E, e))
<1>1. ASSUME NEW T, NEW S, IsFiniteSet(S), T \in SUBSET S, NEW x \in S, x \notin T
      PROVE  Cardinality(T) < Cardinality(S) /\ Cardinality(T) \in Nat /\ Cardinality(S) \in Nat
  BY <1>1, FS_Subset, FS_CardinalityType
<1>2. Preceding(E, e) \in SUBSET E /\ e \notin Preceding(E, e)
  BY DEF Preceding, TotalOrder
<1>3. IsFiniteSet(Preceding(E, e))
  BY <1>2, FS_Subset
<1>4. ASSUME NEW f \in E, Before(f, e)
      PROVE  Cardinality(Preceding(E, f)) < Cardinality(Preceding(E, e))
  <2>1. /\ Preceding(E, f) \in SUBSET Preceding(E, e)
        /\ f \in Preceding(E, e) /\ f \notin Preceding(E, f)
    BY <1>4 DEF Preceding, TotalOrder
  <2>. QED BY <1>1, <1>3, <2>1
<1>5. /\ Cardinality(Preceding(E, e)) < Cardinality(E)
      /\ Cardinality(Preceding(E, e)) \in Nat /\ Cardinality(E) \in Nat
  BY <1>1, <1>2
<1>. QED BY <1>4, <1>5

(* The first n are n, or all.                                               *)
LEMMA UrgentCardinality ==
    ASSUME NEW E, IsFiniteSet(E), TotalOrder(E), NEW n \in Nat
    PROVE  /\ Urgent(E, n) \in SUBSET E /\ IsFiniteSet(Urgent(E, n))
           /\ Cardinality(Urgent(E, n)) = IF n <= Cardinality(E) THEN n ELSE Cardinality(E)
<1>. DEFINE N == Cardinality(E)
            m == IF n <= N THEN n ELSE N
            U == Urgent(E, n)
            k == [e \in E |-> Cardinality(Preceding(E, e))]
            ku == [e \in U |-> k[e]]
<1>1. N \in Nat /\ m \in Nat /\ m <= N /\ U \in SUBSET E
  BY FS_CardinalityType DEF Urgent
<1>2. \A e \in E : k[e] \in 0 .. N - 1 /\ \A f \in E : Before(f, e) => k[f] < k[e]
  BY PrecedingCounts
<1>3. \A e, f \in E : k[e] = k[f] => e = f
  <2>. SUFFICES ASSUME NEW e \in E, NEW f \in E, k[e] = k[f], e # f PROVE FALSE
    OBVIOUS
  <2>1. Before(e, f) \/ Before(f, e)
    BY DEF TotalOrder
  <2>2. k[e] \in Int /\ k[f] \in Int
    BY <1>2
  <2>3. k[e] < k[f] \/ k[f] < k[e]
    BY <1>2, <2>1
  <2>. HIDE DEF k
  <2>. QED BY <2>2, <2>3
<1>4. U = {e \in E : k[e] < n}
  BY DEF Urgent, Preceding
<1>. HIDE DEF k
<1>5. k \in Injection(E, 0 .. N - 1)
  <2>1. k \in [E -> 0 .. N - 1]
    BY <1>2 DEF k
  <2>. QED BY <1>3, <2>1 DEF Injection, IsInjective
<1>6. \A i \in 0 .. N - 1 : \E e \in E : k[e] = i
  <2>1. IsFiniteSet(0 .. N - 1) /\ Cardinality(0 .. N - 1) = N
    <3>. HIDE DEF N, m, U
    <3>1. N - 1 \in Int /\ (0 > N - 1 => N = 0) /\ N - 1 - 0 + 1 = N
      BY <1>1
    <3>. QED BY <3>1, FS_Interval
  <2>2. k \in Surjection(E, 0 .. N - 1)
    BY <1>5, <2>1, FS_Injection
  <2>. QED BY <2>2 DEF Surjection
<1>. HIDE DEF U, N
<1>7. \A e \in U : e \in E /\ k[e] \in 0 .. m - 1
  BY <1>1, <1>2, <1>4
<1>. HIDE DEF m
<1>8. ku \in Injection(U, 0 .. m - 1)
  BY <1>3, <1>7 DEF Injection, IsInjective
<1>9. ku \in Surjection(U, 0 .. m - 1)
  <2>1. ASSUME NEW i \in 0 .. m - 1 PROVE \E e \in U : ku[e] = i
    <3>1. i \in 0 .. N - 1 /\ i < n
      BY <1>1 DEF m
    <3>2. PICK e \in E : k[e] = i
      BY <1>6, <3>1
    <3>3. e \in U
      BY <1>4, <3>1, <3>2
    <3>. QED BY <3>2, <3>3
  <2>. QED BY <1>7, <2>1 DEF Surjection
<1>10. IsFiniteSet(0 .. m - 1) /\ Cardinality(0 .. m - 1) = m
  BY <1>1, FS_Interval
<1>. HIDE DEF ku
<1>11. IsFiniteSet(U) /\ Cardinality(U) = m
  BY <1>8, <1>9, <1>10, FS_Injection
<1>. QED BY <1>1, <1>11 DEF U, m, N

(* The first n of the first N are the first n.                              *)
LEMMA UrgentOfUrgent ==
    ASSUME NEW E, IsFiniteSet(E), TotalOrder(E), NEW N \in Nat, NEW n \in Nat, n <= N
    PROVE  /\ TotalOrder(Urgent(E, N))
           /\ Urgent(Urgent(E, N), n) = Urgent(E, n)
<1>. DEFINE S == Urgent(E, N)
<1>1. S \in SUBSET E /\ \A e \in E : e \in S <=> Cardinality(Preceding(E, e)) < N
  BY DEF Urgent, Preceding
<1>2. ASSUME NEW e \in S PROVE Preceding(S, e) = Preceding(E, e)
  <2>1. ASSUME NEW f \in E, Before(f, e) PROVE f \in S
    <3>1. /\ Cardinality(Preceding(E, f)) < Cardinality(Preceding(E, e))
          /\ Cardinality(Preceding(E, f)) \in Int /\ Cardinality(Preceding(E, e)) \in Int
      BY <1>1, <2>1, PrecedingCounts
    <3>2. Cardinality(Preceding(E, e)) < N
      BY <1>1
    <3>. HIDE DEF S
    <3>. QED BY <1>1, <2>1, <3>1, <3>2
  <2>. HIDE DEF S
  <2>. QED BY <1>1, <2>1 DEF Preceding
<1>3. TotalOrder(S)
  BY <1>1 DEF TotalOrder
<1>4. \A e \in E : Cardinality(Preceding(E, e)) \in Int
  BY PrecedingCounts
<1>5. \A e : e \in Urgent(S, n) <=> e \in S /\ Cardinality(Preceding(S, e)) < n
  BY DEF Urgent, Preceding
<1>6. \A e : e \in Urgent(E, n) <=> e \in E /\ Cardinality(Preceding(E, e)) < n
  BY DEF Urgent, Preceding
<1>. HIDE DEF S
<1>7. \A e : e \in Urgent(S, n) <=> e \in Urgent(E, n)
  BY <1>1, <1>2, <1>4, <1>5, <1>6
<1>. QED BY <1>3, <1>7 DEF S

(* What fits with n fits with no more of the first.                         *)
LEMMA UrgentGrows ==
    ASSUME NEW E, IsFiniteSet(E), NEW n \in Int, NEW m \in Int, n <= m
    PROVE  Urgent(E, n) \in SUBSET Urgent(E, m)
<1>1. \A e : Cardinality({f \in E : Before(f, e)}) \in Int
  BY FS_Subset, FS_CardinalityType
<1>. QED BY <1>1 DEF Urgent

(* The sizes of entries add up to a number.                                 *)
LEMMA SizeIsNat ==
    ASSUME NEW E, IsFiniteSet(E), \A e \in E : EntrySize(e) \in Int
    PROVE  SizeOf(E) \in Nat
<1>. DEFINE part == [e \in E |-> {e} \X (1 .. EntrySize(e))]
<1>1. \A e \in E : IsFiniteSet(part[e])
  <2>. SUFFICES ASSUME NEW e \in E PROVE IsFiniteSet(part[e])
    OBVIOUS
  <2>1. IsFiniteSet({e})
    BY FS_Singleton
  <2>2. EntrySize(e) \in Int /\ 1 \in Int
    OBVIOUS
  <2>3. IsFiniteSet(1 .. EntrySize(e))
    BY <2>2, FS_Interval
  <2>. QED BY <2>1, <2>3, FS_Product
<1>2. UNION {{e} \X (1 .. EntrySize(e)) : e \in E} = UNION {part[e] : e \in E}
  OBVIOUS
<1>. HIDE DEF part
<1>3. IsFiniteSet({part[e] : e \in E})
  BY FiniteImage
<1>4. IsFiniteSet(UNION {part[e] : e \in E})
  BY <1>1, <1>3, FS_UNION
<1>5. Cardinality(UNION {part[e] : e \in E}) \in Nat
  BY <1>4, FS_CardinalityType
<1>6. SizeOf(E) = FixedSize + Cardinality(UNION {part[e] : e \in E})
  BY <1>2 DEF SizeOf
<1>. QED BY <1>5, <1>6, SizesAssumption

(* A finite set of numbers that is not empty has a greatest element.        *)
LEMMA HasGreatest ==
    ASSUME NEW S, S \subseteq Int, IsFiniteSet(S), S # {}
    PROVE  \E x \in S : \A y \in S : y <= x
<1>. DEFINE Over(x) == {y \in S : y > x}
            Sets == {Over(x) : x \in S}
<1>1. Sets \subseteq FiniteSubsetsOf(S)
  BY FS_Subset DEF FiniteSubsetsOf
<1>2. Sets # {}
  OBVIOUS
<1>3. PICK B \in Sets : \A C \in Sets : <<C, B>> \notin StrictSubsetOrdering(S)
  <2>1. IsWellFoundedOn(StrictSubsetOrdering(S), FiniteSubsetsOf(S))
    BY FS_StrictSubsetOrderingWellFounded
  <2>. HIDE DEF Sets
  <2>2. \E B \in Sets : \A C \in Sets : ~ (<<C, B>> \in StrictSubsetOrdering(S))
    BY <1>1, <1>2, <2>1, WFMin, Zenon
  <2>. QED BY <2>2, Zenon
<1>4. PICK x \in S : B = Over(x)
  OBVIOUS
<1>5. ASSUME NEW y \in S, y > x PROVE FALSE
  <2>1. Over(y) \subseteq Over(x) /\ y \in Over(x) /\ y \notin Over(y)
    <3>1. \A z \in S : z > y => z > x
      BY <1>5
    <3>2. ~ (y > y)
      OBVIOUS
    <3>. QED BY <1>5, <3>1, <3>2
  <2>2. <<Over(y), Over(x)>> \in StrictSubsetOrdering(S)
    BY <2>1 DEF StrictSubsetOrdering
  <2>. QED BY <1>3, <1>4, <2>2
<1>6. \A y \in S : y <= x
  BY <1>5
<1>. QED BY <1>6


(* The context that build() makes of any such entries keeps to its bounds,  *)
(* and is the longest that does.                                            *)
LEMMA BuildFits ==
    ASSUME NEW E, IsFiniteSet(E), TotalOrder(E), \A e \in E : EntrySize(e) \in Int,
           NEW c, c = BuildContext(E), ~c.raised
    PROVE  LET shown == c.requirements
               more == Urgent(E, Cardinality(shown) + 1)
           IN /\ Cardinality(shown) <= MaxRequirements
              /\ SizeOf(shown) + (IF c.truncated THEN BudgetSize ELSE 0) <= MaxChars
              /\ \/ shown = E
                 \/ Cardinality(shown) = MaxRequirements
                 \/ SizeOf(more) + BudgetSize > MaxChars
<1>. DEFINE selected == Urgent(E, MaxRequirements)
            N == Cardinality(selected)
            fits == Fitting(selected)
            fitting == UNION {Urgent(selected, n) : n \in fits}
            whole == SizeOf(selected) <= MaxChars
            included == IF whole THEN selected ELSE fitting
<1>1. /\ whole \/ fits # {}
      /\ c.requirements = included
      /\ c.truncated = (included # selected)
  BY DEF BuildContext, Raised
<1>2. /\ IsFiniteSet(selected) /\ selected \in SUBSET E /\ N \in Nat /\ N <= MaxRequirements
      /\ N = MaxRequirements \/ selected = E
  <2>1. /\ IsFiniteSet(selected) /\ selected \in SUBSET E
        /\ N = IF MaxRequirements <= Cardinality(E) THEN MaxRequirements ELSE Cardinality(E)
    BY UrgentCardinality, MaxRequirementsAssumption
  <2>2. N = Cardinality(E) => selected = E
    BY <2>1, FS_Subset
  <2>3. N \in Nat /\ Cardinality(E) \in Nat
    BY <2>1, FS_CardinalityType
  <2>. HIDE DEF selected
  <2>. QED BY <2>1, <2>2, <2>3, MaxRequirementsAssumption
<1>3. TotalOrder(selected) /\ \A n \in Nat : n <= MaxRequirements => Urgent(selected, n) = Urgent(E, n)
  BY UrgentOfUrgent, MaxRequirementsAssumption
<1>4. /\ SizeOf(selected) \in Nat
      /\ \A n \in Nat : SizeOf(Urgent(selected, n)) \in Nat
  <2>1. ASSUME NEW S \in SUBSET E PROVE SizeOf(S) \in Nat
    BY <2>1, FS_Subset, SizeIsNat
  <2>2. \A n : Urgent(selected, n) \in SUBSET E
    BY <1>2 DEF Urgent
  <2>. HIDE DEF selected
  <2>. QED BY <1>2, <2>1, <2>2
<1>. HIDE DEF selected
<1>5. CASE whole
  <2>1. c.requirements = selected /\ ~c.truncated
    BY <1>1, <1>5
  <2>2. SizeOf(selected) + 0 <= MaxChars
    BY <1>4, <1>5
  <2>. QED BY <1>2, <2>1, <2>2
<1>6. CASE ~whole
  <2>1. fits # {} /\ c.requirements = fitting /\ c.truncated = (fitting # selected)
    BY <1>1, <1>6
  <2>2. fits \subseteq 0 .. N /\ IsFiniteSet(fits)
    <3>1. fits \in SUBSET (0 .. N)
      BY DEF Fitting
    <3>2. IsFiniteSet(0 .. N)
      BY <1>2, FS_Interval
    <3>. QED BY <3>1, <3>2, FS_Subset
  <2>3. PICK k \in fits : \A n \in fits : n <= k
    <3>1. fits \subseteq Int
      BY <2>2
    <3>. QED BY <2>1, <2>2, <3>1, HasGreatest
  <2>4. k \in 0 .. N /\ SizeOf(Urgent(selected, k)) + BudgetSize <= MaxChars
    BY DEF Fitting
  <2>5. fitting = Urgent(selected, k)
    <3>1. \A n \in fits : Urgent(selected, n) \in SUBSET Urgent(selected, k)
      <4>. SUFFICES ASSUME NEW n \in fits PROVE Urgent(selected, n) \in SUBSET Urgent(selected, k)
        OBVIOUS
      <4>1. n \in Int /\ k \in Int /\ n <= k
        BY <2>2, <2>3
      <4>. QED BY <1>2, <4>1, UrgentGrows
    <3>. HIDE DEF fits
    <3>. QED BY <3>1
  <2>. HIDE DEF fitting, fits
  <2>6. Cardinality(fitting) = k /\ k \in Nat
    <3>1. k \in Nat /\ k <= N
      BY <1>2, <2>4
    <3>. QED BY <1>2, <1>3, <2>5, <3>1, UrgentCardinality
  <2>7. SizeOf(fitting) + BudgetSize <= MaxChars /\ SizeOf(fitting) \in Nat
    BY <1>4, <2>4, <2>5, <2>6
  <2>8. /\ Cardinality(fitting) <= MaxRequirements
        /\ SizeOf(fitting) + (IF c.truncated THEN BudgetSize ELSE 0) <= MaxChars
    BY <1>2, <2>4, <2>6, <2>7, MaxRequirementsAssumption, SizesAssumption
  <2>9. CASE k = N
    <3>1. fitting = selected
      BY <1>2, <2>5, <2>6, <2>9, FS_Subset DEF Urgent
    <3>. QED BY <1>2, <2>1, <2>6, <2>8, <2>9, <3>1
  <2>10. CASE k # N
    <3>1. k + 1 \in 0 .. N /\ k + 1 \in Nat /\ k + 1 <= MaxRequirements
      BY <1>2, <2>4, <2>10, MaxRequirementsAssumption
    <3>2. k + 1 \notin fits
      BY <2>3, <2>6
    <3>3. ~(SizeOf(Urgent(selected, k + 1)) + BudgetSize <= MaxChars)
      BY <3>1, <3>2 DEF fits, Fitting
    <3>4. SizeOf(Urgent(E, k + 1)) + BudgetSize > MaxChars
      BY <1>3, <1>4, <3>1, <3>3, SizesAssumption
    <3>. QED BY <2>1, <2>6, <2>8, <3>4
  <2>. QED BY <2>9, <2>10
<1>. QED BY <1>5, <1>6

(* A requirement is a line of a document that is read, each document once.  *)
PlaceInv ==
    /\ pc \in {"idle", "walk", "scanned", "saved"} => required = {}
    /\ \A r \in required :
          /\ r.source \in Path /\ r.line \in Int /\ TextSize[r.subject] \in Nat
          /\ pc = "documents" => r.source \notin documents
    /\ \A r, s \in required : r.source = s.source /\ r.line = s.line => r = s
    /\ \A rec \in records : rec.path \in Path

(* Reading a document adds the requirements of its lines.                   *)
LEMMA ReadPlaces ==
    ASSUME ScanInv, PlaceInv, NEW p \in Path, ReadDocument(p)
    PROVE  PlaceInv'
<1>1. pc = "documents" /\ pc' \in {"documents", "raised"} /\ p \in documents
  BY DEF ReadDocument, First
<1>2. documents' = documents \ {p} /\ records' = records
  BY DEF ReadDocument
<1>3. CASE ~Readable(tree, p)
  <2>1. required' = required
    BY <1>3 DEF ReadDocument
  <2>. QED BY <1>1, <1>2, <2>1 DEF PlaceInv
<1>4. CASE Readable(tree, p)
  <2>. DEFINE q == Resolved(tree, p)
              lines == tree[q].lines
  <2>1. q \in Path /\ tree[q] \in Content[q] /\ tree[q].kind \in {"text", "outside"}
    BY <1>1, <1>4, EntryIsSound DEF ScanInv, TreeInv, Readable
  <2>2. lines \in Seq({lines[i] : i \in DOMAIN lines})
    BY <2>1, LinesAssumption, Zenon
  <2>3. DOMAIN lines \subseteq Int
    <3>. HIDE DEF lines
    <3>. QED BY <2>2
  <2>4. \A i \in DOMAIN lines : lines[i].kind = "text" => TextSize[lines[i].subject] \in Nat
    BY <2>1, SizesAssumption, Zenon
  <2>5. required' = required \cup Extracted(p, lines)
    BY <1>4 DEF ReadDocument
  <2>6. \A r \in Extracted(p, lines) :
           /\ r.source = p /\ r.line \in DOMAIN lines
           /\ r = Requirement(p, lines, r.line)
           /\ lines[r.line].kind = "text" /\ r.subject = lines[r.line].subject
    BY DEF Extracted, Requirement, IsRequirement
  <2>. HIDE DEF lines, q
  <2>7. \A r, s \in required' : r.source = s.source /\ r.line = s.line => r = s
    BY <1>1, <2>5, <2>6 DEF PlaceInv
  <2>8. \A r \in required' :
           /\ r.source \in Path /\ r.line \in Int /\ TextSize[r.subject] \in Nat
           /\ r.source \notin documents'
    BY <1>1, <1>2, <2>3, <2>4, <2>5, <2>6 DEF PlaceInv
  <2>. QED BY <1>1, <1>2, <2>7, <2>8 DEF PlaceInv
<1>. QED BY <1>3, <1>4

(* No two requirements of an analysis are at one place, and what the stages *)
(* take sizes and paths of is known.                                        *)
THEOREM PlaceInvHolds == Spec => []PlaceInv
<1>1. Init => PlaceInv
  BY DEF Init, PlaceInv
<1>2. ScanInv /\ PlaceInv /\ [Next]_vars => PlaceInv'
  <2>. SUFFICES ASSUME ScanInv, PlaceInv, [Next]_vars PROVE PlaceInv'
    OBVIOUS
  <2>1. CASE \E p \in Path : ReadDocument(p)
    BY <2>1, ReadPlaces
  <2>2. CASE /\ required' = required /\ records' = records
             /\ pc' \in {"idle", "walk", "scanned", "saved"} => required = {}
             /\ pc' = "documents" => required = {}
    BY <2>2 DEF PlaceInv
  <2>3. CASE Scan
    <3>1. UNCHANGED stageVars
      BY <2>3 DEF Scan
    <3>2. pc \in {"idle", "walk", "scanned"} /\ pc' # "documents"
      BY <2>3 DEF Scan, StartScan, ListDirectory, RecordFile, FinishScan, SaveManifest
    <3>. QED BY <2>2, <3>1, <3>2 DEF stageVars, PlaceInv
  <2>4. CASE Discover \/ TakeCandidates \/ Conclude \/ AskLeader \/ \E m \in Manifests : ClassifyFile(m)
    <3>1. required' = required /\ records' = records
      BY <2>4 DEF Discover, TakeCandidates, Conclude, AskLeader, ClassifyFile, stageVars
    <3>2. /\ pc' \notin {"idle", "walk", "scanned", "saved"}
          /\ pc' = "documents" => pc = "scanned"
      BY <2>4 DEF Discover, TakeCandidates, Conclude, AskLeader, ClassifyFile
    <3>. QED BY <2>2, <3>1, <3>2 DEF PlaceInv
  <2>5. CASE \E p \in Path : ReadRecord(p)
    <3>. PICK p \in Path : ReadRecord(p)
      BY <2>5
    <3>1. pc = "records" /\ pc' \in {"records", "raised"} /\ required' = required
      BY DEF ReadRecord
    <3>2. Resolved(tree, p) \in Path
      BY <3>1, EntryIsSound DEF ScanInv
    <3>3. \A rec \in records' : rec.path \in Path
      BY <3>2 DEF ReadRecord, PlaceInv
    <3>. QED BY <3>1, <3>3 DEF PlaceInv
  <2>6. CASE \/ \E p \in Path : \E c \in Content[p] : Edit(p, c) /\ UNCHANGED stageVars
             \/ UNCHANGED vars
    BY <2>6 DEF Edit, scanVars, stageVars, vars, PlaceInv
  <2>. QED BY <2>1, <2>3, <2>4, <2>5, <2>6 DEF Next, Analyze
<1>. QED BY <1>1, <1>2, ScanInvHolds, PTL DEF Spec

(* The entries of such requirements are in a strict order, and have sizes.  *)
LEMMA EntriesAreOrdered ==
    ASSUME FailedInv, PlaceInv
    PROVE  LET E == Entries(required, records, evidence)
           IN IsFiniteSet(E) /\ TotalOrder(E) /\ \A e \in E : EntrySize(e) \in Int
<1>. DEFINE entry(r) == Entry(r, records, evidence)
            E == Entries(required, records, evidence)
<1>1. E = {entry(r) : r \in required}
  BY DEF Entries
<1>2. IsFiniteSet(E)
  <2>. DEFINE g == [x \in required |-> entry(x)]
  <2>1. E = {g[x] : x \in required}
    BY <1>1
  <2>2. IsFiniteSet(required)
    BY DEF FailedInv
  <2>. HIDE DEF g, E
  <2>. QED BY <2>1, <2>2, FiniteImage
<1>3. \A r : entry(r).requirement = r
  BY DEF Entry
<1>4. \A r : entry(r).priority \in Int
  <2>. SUFFICES ASSUME NEW r PROVE entry(r).priority \in Int
    OBVIOUS
  <2>. DEFINE status == Status(ExecutionEvidence(r, evidence),
                               ImplementationEvidence(r, records), TestEvidence(r, records))
  <2>1. status \in DOMAIN StatusWeight
    BY DEF Status, StatusWeight
  <2>2. entry(r).priority = Priority(status, r, ExecutionEvidence(r, evidence))
    BY DEF Entry
  <2>. HIDE DEF status, entry
  <2>. QED BY <2>1, <2>2 DEF Priority, StatusWeight
<1>5. \A r : entry(r).paths \in SUBSET Path
  BY DEF Entry, ImplementationEvidence, TestEvidence, First, Matching, PlaceInv
<1>6. \A r \in required : EntrySize(entry(r)) \in Int
  <2>. SUFFICES ASSUME NEW r \in required PROVE EntrySize(entry(r)) \in Int
    OBVIOUS
  <2>1. TextSize[r.subject] \in Int
    BY DEF PlaceInv
  <2>2. Cardinality(entry(r).paths) \in Int
    BY <1>5, FilesAssumption, FS_Subset, FS_CardinalityType
  <2>. HIDE DEF entry
  <2>. QED BY <1>3, <2>1, <2>2 DEF EntrySize
<1>. HIDE DEF entry
<1>7. \A r \in required : Rank[r.source] \in Int /\ r.line \in Int
  BY RankAssumption DEF PlaceInv
<1>8. \A r, s \in required : r = s \/ Rank[r.source] # Rank[s.source] \/ r.line # s.line
  BY RankAssumption DEF PlaceInv
<1>9. \A r, s \in required : r.source = s.source <=> Rank[r.source] = Rank[s.source]
  BY RankAssumption DEF PlaceInv
<1>10. TotalOrder(E)
  <2>1. \A r, s \in required :
           Before(entry(r), entry(s)) <=>
               \/ entry(r).priority > entry(s).priority
               \/ /\ entry(r).priority = entry(s).priority
                  /\ \/ Rank[r.source] < Rank[s.source]
                     \/ Rank[r.source] = Rank[s.source] /\ r.line < s.line
    BY <1>3, <1>9 DEF Before
  <2>2. \A r \in required : ~Before(entry(r), entry(r))
    BY <1>4, <1>7, <2>1
  <2>3. \A r, s, t \in required :
           Before(entry(r), entry(s)) /\ Before(entry(s), entry(t)) => Before(entry(r), entry(t))
    BY <1>4, <1>7, <2>1
  <2>4. \A r, s \in required : r = s \/ Before(entry(r), entry(s)) \/ Before(entry(s), entry(r))
    BY <1>4, <1>7, <1>8, <2>1
  <2>. HIDE DEF E
  <2>. QED BY <1>1, <2>2, <2>3, <2>4 DEF TotalOrder
<1>11. \A e \in E : EntrySize(e) \in Int
  BY <1>1, <1>6
<1>. QED BY <1>2, <1>10, <1>11

(* context_builder.py: the context keeps to both bounds, with its note, and *)
(* leaves out nothing that would still have fitted.                         *)
THEOREM ContextFitsHolds == Spec => []ContextFits
<1>1. FailedInv /\ PlaceInv => ContextFits
  <2>. SUFFICES ASSUME FailedInv, PlaceInv, pc \in {"done", "planning", "refused"}
                PROVE  ContextFits
    BY DEF ContextFits
  <2>1. entries = Entries(required, records, evidence) /\ context = BuildContext(entries) /\ ~context.raised
    BY DEF FailedInv
  <2>2. IsFiniteSet(entries) /\ TotalOrder(entries) /\ \A e \in entries : EntrySize(e) \in Int
    BY <2>1, EntriesAreOrdered
  <2>. QED BY <2>1, <2>2, BuildFits DEF ContextFits
<1>. QED BY <1>1, FailedInvHolds, PlaceInvHolds, PTL

=============================================================================
