SPECIFICATION Spec
CONSTANTS
    Texts <- TwoTexts
    Inputs <- LateInputs
    Switches <- JustOn
    NumberTypes <- OneType
    MaxRounds = 2
    MaxLate = 1
INVARIANTS TypeOK ToastTellsOutcome
PROPERTIES RoundsDoNotOverlap NewFormWhenAsked
CHECK_DEADLOCK FALSE
