------------------------ MODULE RequirementAnalysis ------------------------
(***************************************************************************)
(* The pure parts of specification_analyzer.py, current_state_analyzer.py, *)
(* gap_compliance.py and context_builder.py: what a document requires, what *)
(* speaks for a requirement, and which requirements a leader gets to see.  *)
(*                                                                         *)
(* A line of a document is a heading or a text.  A text has a modal ("must *)
(* not"), a subject, and as many bullets before it as `bullets` says.      *)
(***************************************************************************)
EXTENDS ProjectFiles, FiniteSetsExt

CONSTANTS
    Rank,             \* the alphabetical order of the paths
    Tokens,           \* the words of a subject that _tokens takes
    Mentions,         \* subjects with a word _assert_no_secrets looks for
    TextSize,         \* how long a subject is in the context
    FixedSize, BudgetSize, MaxChars,   \* the context without requirements; the
                                       \* note on the budget; max_chars
    MaxRequirements,  \* max_requirements of the context
    MaxMatches        \* max_matches_per_requirement

ASSUME MaxRequirementsAssumption == MaxRequirements \in Nat

(* No two paths are equal in the alphabetical order.                        *)
ASSUME RankAssumption ==
    /\ Rank \in [Path -> Int]
    /\ \A p, q \in Path : Rank[p] = Rank[q] => p = q

ASSUME SizesAssumption ==
    /\ FixedSize \in Nat /\ BudgetSize \in Nat /\ MaxChars \in Nat
    /\ \A p \in Path : \A c \in Content[p] : c.kind \in {"text", "outside"} =>
          \A i \in DOMAIN c.lines :
              c.lines[i].kind = "text" => TextSize[c.lines[i].subject] \in Nat

(***************************************************************************)
(* specification_analyzer.py                                               *)
(***************************************************************************)
Negative == {"do not", "must not", "should not"}
Mandatory == {"must", "must not", "shall", "required"}
Marked == Negative \cup Mandatory \cup {"should", "need to"}

(* The last heading above line i names requirements. *)
InRequirementSection(lines, i) ==
    LET headings == {j \in 1 .. i - 1 : lines[j].kind = "heading"}
    IN headings # {} /\ lines[Max(headings)].section

(* _clean_candidate takes one bullet away before bullet_like looks for it.  *)
BulletLike(line) == line.bullets > 1

IsRequirement(lines, i) ==
    /\ lines[i].kind = "text"
    /\ \/ lines[i].modal \in Marked
       \/ InRequirementSection(lines, i) /\ BulletLike(lines[i])

(* The id of a requirement is a digest of its path, line and text. *)
Requirement(p, lines, i) ==
    [source |-> p, line |-> i, modal |-> lines[i].modal, subject |-> lines[i].subject]

Extracted(p, lines) ==
    {Requirement(p, lines, i) : i \in {j \in DOMAIN lines : IsRequirement(lines, j)}}

(* What _conflict_base leaves of a text: the modals it knows go.            *)
ConflictBase(r) ==
    <<IF r.modal \in Negative \cup {"must", "shall", "required"} THEN "" ELSE r.modal, r.subject>>

Conflicts(required) ==
    {pair \in required \X required :
        /\ pair[1].source = pair[2].source
        /\ pair[1].line < pair[2].line
        /\ ConflictBase(pair[1]) = ConflictBase(pair[2])
        /\ (pair[1].modal \in Negative) # (pair[2].modal \in Negative)}

(* Documents of a tree: named as one, or in a directory for them. *)
IsDocument(t, p) ==
    /\ t[Resolved(t, p)].kind # "missing"
    /\ Has(p, "markdown")
    /\ \A d \in Above[Dir[p]] : "spec_excluded" \notin DirTraits[d]
    /\ Has(p, "document_name") \/ Has(p, "document_dir")

(***************************************************************************)
(* current_state_analyzer.py                                               *)
(***************************************************************************)
(* "not" and "need" are words like others, "must" and "should" are ignored. *)
TokensOf(r) == Tokens[r.subject] \cup (IF r.modal \in Negative THEN {"not"} ELSE {})
                                 \cup (IF r.modal = "need to" THEN {"need"} ELSE {})

First(paths, n) == {p \in paths : Cardinality({q \in paths : Rank[q] < Rank[p]}) < n}

Matching(r, records) == {rec.path : rec \in {x \in records : x.words \cap TokensOf(r) # {}}}

ImplementationEvidence(r, records) ==
    First({p \in Matching(r, records) : ~Has(p, "test_name") /\ Has(p, "implementation")},
          MaxMatches)

TestEvidence(r, records) ==
    First({p \in Matching(r, records) : Has(p, "test_name")}, MaxMatches)

(* The caller's evidence, by the requirement's id or else by its text.      *)
TextOf(r) == [modal |-> r.modal, subject |-> r.subject]

ExecutionEvidence(r, evidence) ==
    IF r \in DOMAIN evidence THEN evidence[r]
    ELSE IF TextOf(r) \in DOMAIN evidence THEN evidence[TextOf(r)] ELSE "none"

(***************************************************************************)
(* gap_compliance.py                                                       *)
(***************************************************************************)
StatusMutant(execution, implementation, tests) ==
    CASE implementation # {} -> IF execution = "passed" THEN "VERIFIED" ELSE "IMPLEMENTED_UNVERIFIED"
      [] implementation = {} /\ execution = "passed" -> "VERIFIED"
      [] implementation = {} /\ execution = "failed" -> "GAP"
      [] implementation = {} /\ execution \notin {"passed", "failed"} /\ tests # {} ->
           "TESTED_UNIMPLEMENTED"
      [] OTHER -> "UNKNOWN"

Status(execution, implementation, tests) ==
    CASE execution = "passed" -> "VERIFIED"
      [] execution = "failed" -> "GAP"
      [] execution \notin {"passed", "failed"} /\ implementation # {} -> "IMPLEMENTED_UNVERIFIED"
      [] execution \notin {"passed", "failed"} /\ implementation = {} /\ tests # {} ->
           "TESTED_UNIMPLEMENTED"
      [] OTHER -> "UNKNOWN"

(***************************************************************************)
(* context_builder.py                                                      *)
(***************************************************************************)
StatusWeight == [GAP |-> 100, UNKNOWN |-> 90, TESTED_UNIMPLEMENTED |-> 80,
                 IMPLEMENTED_UNVERIFIED |-> 70, VERIFIED |-> 10]

Priority(status, r, execution) ==
    StatusWeight[status] + (IF r.modal \in Mandatory THEN 5 ELSE 0)
                         + (IF execution # "none" THEN 2 ELSE 0)

(* What the stages make of one requirement. *)
Entry(r, records, evidence) ==
    LET execution == ExecutionEvidence(r, evidence)
        implementation == ImplementationEvidence(r, records)
        tests == TestEvidence(r, records)
        status == Status(execution, implementation, tests)
    IN [requirement |-> r, status |-> status,
        priority |-> Priority(status, r, execution),
        paths |-> implementation \cup tests,
        execution |-> execution]

Entries(required, records, evidence) == {Entry(r, records, evidence) : r \in required}

(* The sort key: priority first; a status never divides equal priorities.   *)
Before(e, f) ==
    \/ e.priority > f.priority
    \/ /\ e.priority = f.priority
       /\ \/ Rank[e.requirement.source] < Rank[f.requirement.source]
          \/ /\ e.requirement.source = f.requirement.source
             /\ e.requirement.line < f.requirement.line

Urgent(entries, n) == {e \in entries : Cardinality({f \in entries : Before(f, e)}) < n}

EntrySize(e) == TextSize[e.requirement.subject] + Cardinality(e.paths)

(* The entries' sizes added up: as many pairs as they have characters.      *)
SizeOf(entries) == FixedSize + Cardinality(UNION {{e} \X (1 .. EntrySize(e)) : e \in entries})

FittingMutant(selected) ==
    {n \in 0 .. Cardinality(selected) : SizeOf(Urgent(selected, n)) <= MaxChars}

(* _fit_budget: how many of the first may stay beside the note; as many as  *)
(* fit do.                                                                  *)
Fitting(selected) ==
    {n \in 0 .. Cardinality(selected) : SizeOf(Urgent(selected, n)) + BudgetSize <= MaxChars}

SecretLike(entries) ==
    \E e \in entries : \/ e.requirement.subject \in Mentions
                       \/ \E p \in e.paths \cup {e.requirement.source} : Has(p, "mentions")

(* build(): the requirements of the context, or that it raises. *)
Raised == [raised |-> TRUE]

BuildContext(entries) ==
    LET selected == Urgent(entries, MaxRequirements)
        whole == SizeOf(selected) <= MaxChars
        fitting == UNION {Urgent(selected, n) : n \in Fitting(selected)}
        included == IF whole THEN selected ELSE fitting
    IN IF \/ ~whole /\ Fitting(selected) = {}
          \/ SecretLike(included)
         THEN Raised
         ELSE [raised |-> FALSE, requirements |-> included,
               truncated |-> included # selected]
=============================================================================
