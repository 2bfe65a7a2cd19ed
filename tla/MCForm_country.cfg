SPECIFICATION Spec
CONSTANTS
    Texts <- TwoTexts
    Inputs <- SyncInputs
    Switches <- JustOn
    NumberTypes <- OneType
    MaxRounds = 1
    MaxLate = 0
INVARIANTS AccountCountrySaved
CHECK_DEADLOCK FALSE
