SPECIFICATION FairSpec
CONSTANTS
    Null = Null
    email = email
    address = address
    a = a
    b = b
    Fields <- MCFields
    Values <- MCValues
    OtherTexts <- MCOtherTexts
    Profiles <- MCProfiles
    Objects = {"Contact", "Lead"}
    MaxLoads = 2
    MaxAdoptions = 2
INVARIANTS
    TypeOK
    SelectionIsChoice
    ToastTellsOutcome
PROPERTIES
    WaitEnds
CHECK_DEADLOCK FALSE
