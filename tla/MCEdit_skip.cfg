SPECIFICATION Spec
CONSTANTS
    Texts <- TwoTexts
    Inputs <- EditTexts
    Stored <- StoredTexts
    Switches <- JustOn
    NumberTypes <- OneType
    MaxRounds = 2
    MaxLate = 0
    Windows <- Modal
PROPERTIES RuleSkippedOnContinueOnly
CHECK_DEADLOCK FALSE
