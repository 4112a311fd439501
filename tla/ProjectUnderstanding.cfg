CONSTANTS
    Path <- MCPath
    Directory <- MCDirectory
    Root = ""
    Parent <- MCParent
    Above <- MCAbove
    Dir <- MCDir
    Traits <- MCTraits
    DirTraits <- MCDirTraits
    Content <- MCContent
    MaxFiles = 4
    MaxEdits = 2
    GitOutcomes <- MCGitOutcomes
    OutputFile = "requirements.md"
    Rank <- MCRank
    Tokens <- MCTokens
    Mentions = {"login"}
    TextSize <- MCTextSize
    FixedSize = 2
    BudgetSize = 1
    MaxChars = 7
    MaxRequirements = 2
    MaxMatches = 1
    Trees <- MCTrees
    Manifests <- MCManifests
    Evidences <- MCEvidences
    MaxSpecification = 5
SPECIFICATION Spec
INVARIANTS
    RepairIsConfirmed
    StartIsUnambiguous
    ScanIsComplete
    FailedComesFirst
    ContextFits
CHECK_DEADLOCK FALSE
