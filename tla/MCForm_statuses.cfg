SPECIFICATION Spec
CONSTANTS
    Texts <- TwoTexts
    Inputs <- EmailInputs
    Switches <- JustOn
    NumberTypes <- OneType
    MaxRounds = 1
    MaxLate = 0
INVARIANTS AllStatusesAreTheirOwn
CHECK_DEADLOCK FALSE
