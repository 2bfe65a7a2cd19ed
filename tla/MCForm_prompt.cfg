SPECIFICATION FairSpec
CONSTANTS
    Texts <- TwoTexts
    Inputs <- PromptInputs
    Switches <- JustOn
    NumberTypes <- OneType
    MaxRounds = 2
    MaxLate = 0
INVARIANTS OneCreateAtATime SavedStatusesAreTheirOwn PopupHasContent
PROPERTIES ImplementsSave SpinnerEnds
CHECK_DEADLOCK FALSE
