SPECIFICATION Spec
CONSTANTS
    Tests <- MCTests
    Iterations = 2
    Untrimmed = 2
    Changes <- MCChanges
    Times <- MCTimes
    MaxBuilds = 2
INVARIANTS
    EntriesAreOfRows
    SuccessMeansTables
    CopiedAgree
