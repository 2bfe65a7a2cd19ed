SPECIFICATION FairSpec
CONSTANTS
    Texts <- Filled
    Forms <- PromptForms
    Switches <- OnOrOff
    NumberTypes <- AllTypes
    MaxRounds = 2
    MaxLate = 0
INVARIANTS NoItemListedTwice
PROPERTIES ValidOnlyWhenComplete PrimaryFailureReported ImplementsOutcome FirstRoundSettles
CHECK_DEADLOCK FALSE
