SPECIFICATION WorkspaceDataSpec
CONSTANTS
    Changes = {i1, i2}
    NDeals = 2
    Stages = {"lead", "lost"}
    Reasoned = {1}
    Mine = {1}
    Views = {"active", "archived"}
    Moves = {i1, i2}
    Submissions = {i1, i2}
    MaxOpens = 2
    MaxEdits = 1
    Rows = {1, 2}
    LastPage = 2
    MaxAnswers = 2
SYMMETRY WorkspaceDataSymmetry
CHECK_DEADLOCK FALSE
INVARIANTS WorkspaceDataTypeOK DeclaredChangesShow QuietListsAreTheServers
    SubmittedBelongTogether CarriedOutOnce OwnerShownIsApplied ResultsAreOfTheirScope
PROPERTY MovesLandWhereShown
