---------------------------- MODULE ProjectFiles ----------------------------
(***************************************************************************)
(* The files of a workspace as the local analyzers see them.  A path is an *)
(* atom; what the analyzers read off its spelling (suffix, name, names of  *)
(* its directories) are its traits.  A directory is there when a file is   *)
(* in it or below it.                                                      *)
(***************************************************************************)
EXTENDS Integers, Sequences, FiniteSets

CONSTANTS
    Path,        \* the files there may be
    Directory,   \* their directories
    Root,        \* the workspace root
    Parent,      \* the directory above a directory
    Above,       \* of a directory, itself and those above, without the root
    Dir,         \* the directory of a file
    Traits,      \* what each analyzer's tests on a path say
    DirTraits,   \* the same for the name of a directory
    Content      \* what each file may hold

(* "missing" is no file; "link" is a symbolic link to another path of the   *)
(* workspace, "outside" one to a file that is not in it; "unreadable" is a  *)
(* file that is too large, does not decode, or cannot be opened.            *)
Missing == [kind |-> "missing"]
Outside(words, lines) == [kind |-> "outside", words |-> words, lines |-> lines]
Unreadable == [kind |-> "unreadable"]
LinkTo(p) == [kind |-> "link", to |-> p]
Text(words, lines) == [kind |-> "text", words |-> words, lines |-> lines]

ASSUME FilesAssumption ==
    /\ Root \in Directory
    /\ Parent \in [Directory -> Directory]
    /\ Above \in [Directory -> SUBSET (Directory \ {Root})]
    /\ Above[Root] = {}
    /\ \A d \in Directory \ {Root} : Above[d] = {d} \cup Above[Parent[d]]
    /\ \A d \in Directory : \A e \in Above[d] \cup {Root} :
          e = d \/ \E below \in Above[d] : Parent[below] = e
    /\ IsFiniteSet(Path)
    /\ Dir \in [Path -> Directory]
    /\ DOMAIN Content = Path
    /\ \A p \in Path : \A c \in Content[p] :
          c.kind = "link" => /\ c.to \in Path
                             /\ \A d \in Content[c.to] : d.kind \notin {"link", "outside"}

ASSUME LinesAssumption ==
    \A p \in Path : \A c \in Content[p] :
        c.kind \in {"text", "outside"} => c.lines \in Seq({c.lines[i] : i \in DOMAIN c.lines})

Has(p, trait) == trait \in Traits[p]

(* Path.resolve() of a path in tree t. *)
Resolved(t, p) == IF t[p].kind = "link" THEN t[p].to ELSE p

(* The directories through which a walk gets to a file. *)
OnTheWay(p) == Above[Dir[p]] \cup {Root}

There(t, d) == \E p \in Path : t[p].kind # "missing" /\ d \in OnTheWay(p)

(* What Path.read_text gives of a path: it follows a link. *)
Readable(t, p) == t[Resolved(t, p)].kind \in {"text", "outside"}
=============================================================================
