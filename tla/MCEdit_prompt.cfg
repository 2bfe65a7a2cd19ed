SPECIFICATION FairSpec
CONSTANTS
    Texts <- TwoTexts
    Inputs <- EditTexts
    Stored <- StoredTexts
    Switches <- JustOn
    NumberTypes <- OneType
    MaxRounds = 2
    MaxLate = 0
    Windows <- BothWindows
INVARIANTS TypeOK SpinnerCoversUpdate UpdatedStatusesAreTheirOwn QuestionsAreAboutChanges ValidatedToastIsTrue PopupHasContent
PROPERTIES ImplementsSave SpinnerEnds
CHECK_DEADLOCK FALSE
