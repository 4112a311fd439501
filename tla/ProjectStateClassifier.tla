----------------------- MODULE ProjectStateClassifier -----------------------
(***************************************************************************)
(* project_state_classifier.py: the state of a project, inferred from a    *)
(* manifest, and whether work may start without a human.                   *)
(*                                                                         *)
(* A manifest is what json.load or the scanner gives: its parts may lack   *)
(* any key, and any value may have any type.  A dictionary is a function   *)
(* from the keys it has.                                                   *)
(***************************************************************************)
EXTENDS ProjectFiles, FiniteSetsExt

Bool(b) == [kind |-> "bool", is |-> b]
Number(n) == [kind |-> "int", n |-> n]
Float(n) == [kind |-> "float", n |-> n]
Str(w) == [kind |-> "str", word |-> w]
List(items) == [kind |-> "list", items |-> items]
Dict(f) == [kind |-> "dict", at |-> f]

EmptyDict == [k \in {} |-> Bool(FALSE)]

(* isinstance(part, dict), or else an empty one. *)
AsDict(v) == IF v.kind = "dict" THEN v.at ELSE EmptyDict

(***************************************************************************)
(* Evidence                                                                *)
(***************************************************************************)
(* bool(value) *)
Truth(v) ==
    \/ v.kind = "bool" /\ v.is
    \/ v.kind \in {"int", "float"} /\ v.n # 0
    \/ v.kind = "str" /\ v.word # ""
    \/ v.kind = "list" /\ v.items # <<>>
    \/ v.kind = "dict" /\ DOMAIN v.at # {}

(* A float says nothing to _detect_bool. *)
Affirms(v) ==
    \/ v.kind = "bool" /\ v.is
    \/ v.kind = "int" /\ v.n # 0
    \/ v.kind = "list" /\ v.items # <<>>
    \/ /\ v.kind = "str"
       /\ v.word \in {"true", "yes", "1", "failed", "fail", "broken", "error", "errors"}

DetectBool(data, keys) == \E k \in keys \cap DOMAIN data : Affirms(data[k])

(* The keys that count in the scores ...                                    *)
ScoreKeys ==
    [tests_failed |-> {"tests_failed", "test_failure", "test_failed", "has_test_failure",
                       "failing_tests"},
     build_failure |-> {"build_failed", "build_failure", "build_error", "has_build_error"},
     syntax_error |-> {"syntax_error", "syntax_errors", "has_syntax_error", "syntax_failure"},
     explicit_broken |-> {"broken", "project_broken", "repair_required"}]

FailureKeysMutant == [ScoreKeys EXCEPT !.tests_failed = @ \ {"failing_tests"}]

(* ... and those, listed a second time, that confirm a failure.             *)
FailureKeys ==
    [tests_failed |-> {"tests_failed", "test_failure", "test_failed", "has_test_failure",
                       "failing_tests"},
     build_failure |-> {"build_failed", "build_failure", "build_error", "has_build_error"},
     syntax_error |-> {"syntax_error", "syntax_errors", "has_syntax_error", "syntax_failure"},
     explicit_broken |-> {"broken", "project_broken", "repair_required"}]

FailureWords == {"fail", "failed", "failure", "failing", "broken", "error", "errors", "red",
                 "syntax_error", "build_error"}

CountsFailures(v) == \/ v.kind = "bool" /\ v.is
                     \/ v.kind \in {"int", "float"} /\ v.n > 0

ReportsFailure(v) == v.kind = "str" /\ v.word \in FailureWords

ListsFailures(v) == v.kind = "list" /\ v.items # <<>>

DetectFailure(top, tests, notes) ==
    \/ DetectBool(tests, FailureKeys.tests_failed)
    \/ DetectBool(tests, FailureKeys.build_failure)
    \/ DetectBool(tests, FailureKeys.syntax_error)
    \/ DetectBool(top, FailureKeys.explicit_broken)
    \/ \E k \in {"failed", "failed_tests", "failure_count", "failures"} \cap DOMAIN tests :
            CountsFailures(tests[k])
    \/ \E k \in {"status", "result", "test_status", "build_status"} \cap DOMAIN tests :
            ReportsFailure(tests[k])
    \/ \E k \in {"test_status", "build_status"} \cap DOMAIN notes : ReportsFailure(notes[k])
    \/ \E k \in {"failures", "errors"} \cap DOMAIN tests : ListsFailures(tests[k])
    \/ \E k \in {"errors"} \cap DOMAIN top : ListsFailures(top[k])
    \/ \E k \in {"errors"} \cap DOMAIN notes : ListsFailures(notes[k])

SaysConflict(v) == \/ v.kind = "bool" /\ v.is
                   \/ v.kind = "str" /\ v.word \in {"true", "yes", "conflict", "conflicting"}

DetectSpecConflict(top, notes) ==
    LET keys == {"spec_conflict", "specification_conflict", "conflict"}
    IN \/ \E k \in keys \cap DOMAIN top : SaysConflict(top[k])
       \/ \E k \in keys \cap DOMAIN notes : SaysConflict(notes[k])
       \/ \E k \in {"conflicts"} \cap DOMAIN top : ListsFailures(top[k])

(* One item of manifest["requirements"] that is still open.  A text counts  *)
(* as done by its first word, a record by its fields; others do not count.  *)
OpenStatus == {"todo", "pending", "open", "unresolved", "incomplete", "missing"}

IsOpen(item) ==
    \/ item.kind = "str" /\ item.word \notin {"[x]", "done:", "complete:"}
    \/ item.kind = "item" /\ (item.satisfied = "False" \/ item.status \in OpenStatus)

(* A direct count is the first value that is one; a bool is an int, and a   *)
(* negative number is passed over.                                          *)
IsCount(v) == \/ v.kind \in {"bool", "list"}
              \/ v.kind \in {"int", "float"} /\ v.n >= 0

CountOf(v) == IF v.kind = "bool" THEN IF v.is THEN 1 ELSE 0
              ELSE IF v.kind = "list" THEN Len(v.items) ELSE v.n

ExtractUnresolved(top, notes) ==
    LET at(d, k) == IF k \in DOMAIN d THEN d[k] ELSE Str("")
        direct == <<at(top, "unresolved_requirements"), at(top, "unresolved_count"),
                    at(notes, "unresolved_requirements"), at(notes, "unresolved_count")>>
        counts == {i \in DOMAIN direct : IsCount(direct[i])}
        required == at(top, "requirements")
    IN CASE counts # {} -> CountOf(direct[Min(counts)])
         [] counts = {} /\ required.kind = "list" ->
              Cardinality({i \in DOMAIN required.items : IsOpen(required.items[i])})
         [] OTHER -> 0

(* manifest.files counts the entries with each path: two links to one file  *)
(* are two entries.                                                         *)
FileEntries(manifest, paths) == UNION {{p} \X (1 .. manifest.files[p]) : p \in paths}

(* _normalize_evidence. *)
Evidence(manifest) ==
    LET top == manifest.top
        tests == AsDict(manifest.tests)
        notes == AsDict(manifest.notes)
        git == AsDict(manifest.git)
        relevant == {p \in Path : manifest.files[p] > 0 /\ ~Has(p, "generated_dir")}
    IN [implementation_files |->
            Cardinality(FileEntries(manifest, {p \in relevant : Has(p, "implementation")})),
        has_readme |-> \E p \in relevant : Has(p, "readme_name"),
        has_specification |->
            \E p \in relevant : Has(p, "documentation_name") \/ Has(p, "spec_dir"),
        unresolved_requirements |-> ExtractUnresolved(top, notes),
        spec_conflict |-> DetectSpecConflict(top, notes),
        confirmed_failure |-> DetectFailure(top, tests, notes),
        syntax_error |-> DetectBool(tests, ScoreKeys.syntax_error),
        build_failure |-> DetectBool(tests, ScoreKeys.build_failure),
        tests_failed |-> DetectBool(tests, ScoreKeys.tests_failed),
        explicit_broken |-> DetectBool(top, ScoreKeys.explicit_broken),
        explicit_complete |-> DetectBool(top, {"complete", "project_complete",
                                "specification_satisfied", "all_requirements_satisfied"}),
        explicit_partial |-> DetectBool(top, {"partial", "project_partial", "incomplete"}),
        stable |-> DetectBool(top, {"stable", "project_stable", "healthy"}),
        git_dirty |-> \E k \in {"dirty", "changes", "modified"} \cap DOMAIN git : Truth(git[k])]

(***************************************************************************)
(* Scores                                                                  *)
(***************************************************************************)
Points(condition, points) == IF condition THEN points ELSE 0

ScoreBuild(e) ==
    Points(e.has_specification, 70) + Points(e.has_readme, 20)
    + Points(e.has_specification /\ e.implementation_files = 0, 50)
    + Points(e.has_specification /\ e.implementation_files \in 1 .. 2, 20)

ScoreContinue(e) ==
    Points(e.implementation_files > 0 /\ e.has_specification, 60)
    + Min({80, e.unresolved_requirements * 10})
    + Points(e.explicit_partial, 50)

ScoreMaintain(e) ==
    Points(e.implementation_files > 0, 35) + Points(e.explicit_complete, 50)
    + Points(e.stable, 40)
    + Points(e.unresolved_requirements = 0 /\ e.has_specification, 30)
    + Points(e.git_dirty, 5)

ScoreRepair(e) ==
    Points(e.tests_failed, 100) + Points(e.build_failure, 120)
    + Points(e.syntax_error, 130) + Points(e.explicit_broken, 100)

HasDesignDocs(e) == e.has_specification \/ e.has_readme

(* The scores when the state is left to them, in the order of               *)
(* candidate_states: that order decides between equals.                     *)
Candidates == <<"BUILD", "CONTINUE", "MAINTAIN", "REPAIR", "CONFLICT">>

Scores(e) ==
    << IF e.implementation_files = 0 /\ HasDesignDocs(e)
         THEN Max({ScoreBuild(e), 120}) ELSE ScoreBuild(e),
       ScoreContinue(e), ScoreMaintain(e), ScoreRepair(e), Points(e.spec_conflict, 200) >>

Best(scores) == Min({i \in DOMAIN scores : \A j \in DOMAIN scores : scores[j] <= scores[i]})

ConfidentMutant(scores, best) ==
    LET second == Max({scores[j] : j \in DOMAIN scores \ {best}})
    IN 9000 * (scores[best] - second) >= 999 * scores[best]

(* round(0.50 + margin / best * 0.45, 4) >= 0.60, the autonomous_threshold, *)
(* without fractions; margin is what best has over the second.              *)
Confident(scores, best) ==
    LET second == Max({scores[j] : j \in DOMAIN scores \ {best}})
    IN 9000 * (scores[best] - second) >= 1999 * scores[best]

(***************************************************************************)
(* classify().  The confidence of a gate is 0.95; that of a choice by score *)
(* decides whether work may start.                                         *)
(***************************************************************************)
Insufficient(e) == \/ e.implementation_files = 0 /\ ~HasDesignDocs(e)
                   \/ Scores(e)[Best(Scores(e))] <= 0

StateOf(e) ==
    CASE e.spec_conflict -> "CONFLICT"
      [] ~e.spec_conflict /\ e.confirmed_failure -> "REPAIR"
      [] ~e.spec_conflict /\ ~e.confirmed_failure /\ Insufficient(e) -> "UNKNOWN"
      [] OTHER -> Candidates[Best(Scores(e))]

ByScore(e) == ~e.spec_conflict /\ ~e.confirmed_failure /\ ~Insufficient(e)

AutonomousStart(e) ==
    /\ StateOf(e) \in {"BUILD", "CONTINUE", "MAINTAIN", "REPAIR"}
    /\ ByScore(e) => Confident(Scores(e), Best(Scores(e)))

Classify(manifest) ==
    LET e == Evidence(manifest)
    IN [state |-> StateOf(e), autonomous_start_allowed |-> AutonomousStart(e),
        unresolved_requirements |-> e.unresolved_requirements, evidence |-> e]
=============================================================================
