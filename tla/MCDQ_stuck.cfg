SPECIFICATION FairSpec
CONSTANTS
    Texts <- Filled
    Forms <- EmailForms
    Switches <- JustOn
    NumberTypes <- AllTypes
    MaxRounds = 2
    MaxLate = 0
PROPERTIES RoundSettles
CHECK_DEADLOCK FALSE
