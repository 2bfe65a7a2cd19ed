SPECIFICATION Spec
CONSTANTS
    Texts <- Filled
    Forms <- EmailForms
    Switches <- JustOn
    NumberTypes <- AllTypes
    MaxRounds = 1
    MaxLate = 0
PROPERTIES AnyFailureReported
CHECK_DEADLOCK FALSE
