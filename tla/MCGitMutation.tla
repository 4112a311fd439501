--------------------------- MODULE MCGitMutation ---------------------------
(* Two tasks, their files and what other programs do, for the runs of GitMutation. *)
EXTENDS GitMutation, TLC

CONSTANTS f1, f2, t1, t2, main, side

SomeContent == {"v0", "v1", "v1crlf"}
Decoded == [c \in SomeContent \cup {NoFile} |-> IF c = "v1crlf" THEN "v1" ELSE c]

\* A first commit of both files, and one of the first file.
SomePast == <<f1 :> "v1crlf" @@ f2 :> "v0", f1 :> "v0" @@ f2 :> "v0">>

\* One task changes a file, the other one both.
SomeChange == t1 :> (f1 :> "v1") @@ t2 :> (f1 :> "v0" @@ f2 :> "v1")

\* A line end that read_text does not show, a deletion, and the text of a task.
SomeEdits == {<<f1, "v1crlf">>, <<f2, NoFile>>, <<f2, "v1">>}

=============================================================================
