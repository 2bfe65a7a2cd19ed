SPECIFICATION Spec
CONSTANTS
    Texts <- Filled
    Forms <- LateForms
    Switches <- AnySwitch
    NumberTypes <- AllTypes
    MaxRounds = 2
    MaxLate = 2
INVARIANTS TypeOK ModalNamesItems StatusBehindMessage OneAutomaticReport
PROPERTIES NoInvalidDataPassedAsValid
CHECK_DEADLOCK FALSE
