----------------------- MODULE MCProjectUnderstanding -----------------------
(* A small workspace for ProjectUnderstanding: two documents, two sources,  *)
(* a file in an excluded directory and one with secrets.                    *)
EXTENDS ProjectUnderstanding

MCPath == {"requirements.md", "docs/README.md", "src/pkg/app.py", "test_app.py", "build/gen.py",
           "keys.py"}
MCDirectory == {"", "docs", "src", "src/pkg", "build"}
MCParent == [d \in MCDirectory |-> IF d = "src/pkg" THEN "src" ELSE ""]
MCAbove == [d \in MCDirectory |-> CASE d = "" -> {} [] d = "src/pkg" -> {"src", "src/pkg"} [] OTHER -> {d}]
MCDir == [p \in MCPath |->
            CASE p = "docs/README.md" -> "docs" [] p = "src/pkg/app.py" -> "src/pkg"
              [] p = "build/gen.py" -> "build" [] OTHER -> ""]
MCTraits == [p \in MCPath |->
    CASE p = "requirements.md" -> {"markdown", "document_name", "documentation_name"}
      [] p = "docs/README.md" -> {"markdown", "document_dir", "spec_dir", "documentation_name",
                                 "readme_name"}
      [] p = "src/pkg/app.py" -> {"implementation"}
      [] p = "test_app.py" -> {"implementation", "test_name"}
      [] p = "build/gen.py" -> {"implementation", "generated_dir"}
      [] p = "keys.py" -> {"implementation", "sensitive", "mentions", "marker"}]
MCDirTraits == [d \in MCDirectory |->
                   IF d = "build" THEN {"scan_excluded", "spec_excluded"} ELSE {}]
MCRank == [p \in MCPath |->
    CASE p = "requirements.md" -> 4 [] p = "docs/README.md" -> 2 [] p = "src/pkg/app.py" -> 5
      [] p = "test_app.py" -> 6 [] p = "build/gen.py" -> 1 [] OTHER -> 3]

(* Lines and texts *)
Heading(section) == [kind |-> "heading", section |-> section]
Line(modal, subject, bullets) ==
    [kind |-> "text", modal |-> modal, subject |-> subject, bullets |-> bullets]

Contradiction == Text({}, <<Line("must", "save", 1), Line("must not", "save", 1)>>)
Plans == Text({}, <<Heading(TRUE), Line("should", "load", 0), Line("plain", "save", 2),
                    Line("plain", "login", 1), Line("must", "save", 0)>>)
Login == Text({}, <<Line("required", "login", 0)>>)
Code(words) == Text(words, <<>>)

MCContent == [p \in MCPath |->
    CASE p = "requirements.md" -> {Missing, Contradiction, Unreadable}
      [] p = "docs/README.md" -> {Missing, Plans, Login, Outside({}, Login.lines)}
      [] p = "src/pkg/app.py" -> {Missing, Code({"save"}), LinkTo("test_app.py")}
      [] p = "test_app.py" -> {Missing, Code({"save", "not"}), Unreadable}
      [] p = "build/gen.py" -> {Code({"load"})}
      [] p = "keys.py" -> {Missing, Code({"load"})}]

Tree(spec, notes, app, test, gen, keys) == [p \in MCPath |->
    CASE p = "requirements.md" -> spec [] p = "docs/README.md" -> notes [] p = "src/pkg/app.py" -> app
      [] p = "test_app.py" -> test [] p = "build/gen.py" -> gen [] p = "keys.py" -> keys]

MCTrees ==
    { Tree(Contradiction, Plans, Code({"save"}), Code({"save", "not"}), Code({"load"}), Missing),
      Tree(Missing, Plans, LinkTo("test_app.py"), Unreadable, Code({"load"}), Code({"load"})),
      Tree(Contradiction, Missing, Missing, Missing, Code({"load"}), Missing),
      Tree(Unreadable, Login, Code({"save"}), Missing, Code({"load"}), Missing) }

MCTokens == [s \in {"save", "load", "login"} |-> {s}]
MCTextSize == [s \in {"save", "load", "login"} |-> IF s = "save" THEN 3 ELSE 2]

(* Evidence of runs, by a requirement or by its text. *)
NoEvidence == [k \in {} |-> "none"]
SaveText == [modal |-> "must", subject |-> "save"]
SaveRequired == Requirement("requirements.md", Contradiction.lines, 1)
MCEvidences ==
    { NoEvidence, [k \in {SaveText} |-> "failed"],
      [k \in {SaveText, SaveRequired} |-> IF k = SaveText THEN "failed" ELSE "passed"],
      [k \in {[modal |-> "should", subject |-> "load"]} |-> "other"] }

MCGitOutcomes ==
    { [work_tree |-> FALSE, stopped |-> 4, branch |-> "none", root |-> "none", status |-> "none"],
      [work_tree |-> TRUE, stopped |-> 4, branch |-> "named", root |-> "outside",
       status |-> "dirty"],
      [work_tree |-> TRUE, stopped |-> 2, branch |-> "named", root |-> "none", status |-> "none"] }

(* Manifest files: what the files are, and up to two fields of the others.  *)
Files(n, docs) == [p \in MCPath |-> CASE p = "src/pkg/app.py" -> n
                                      [] p \in docs -> 1 [] OTHER -> 0]

Values == {Bool(TRUE), Number(1), Float(2), Str("failed"), Str("conflict"),
           List(<<Str("fix it"), Str("done:")>>)}

TopKeys == {"broken", "spec_conflict", "conflicts", "errors", "unresolved_requirements",
            "requirements", "complete", "partial", "stable"}
TestKeys == {"failing_tests", "build_failed", "syntax_errors", "failed", "failures", "status"}

Single(k, v) == [key \in {k} |-> v]
Tops == {EmptyDict} \cup {Single(k, v) : k \in TopKeys, v \in Values}
TestParts == {EmptyDict} \cup {Single(k, v) : k \in TestKeys, v \in Values}

ManifestWith(top, tests, recorded) ==
    [top |-> top, tests |-> Dict(tests), notes |-> Dict(Single("errors", List(<<>>))),
     git |-> Dict(Single("dirty", Bool(TRUE))), files |-> recorded]

MCManifests ==
    {ManifestWith(top, EmptyDict, Files(n, docs)) : top \in Tops, n \in {0, 1, 3},
        docs \in {{}, {"requirements.md"}, {"docs/README.md"}}}
    \cup {ManifestWith(EmptyDict, tests, Files(n, docs)) : tests \in TestParts, n \in {0, 3},
        docs \in {{}, {"requirements.md"}}}
    \cup {ManifestWith(Single("complete", v), tests, Files(1, {})) :
        v \in Values, tests \in TestParts}
=============================================================================
