------------------------- MODULE GlobalProfileSearch -------------------------
(***************************************************************************)
(* The search page for global profiles,                                    *)
(* force-app/main/default/lwc/globalProfileDataComponent, and the wizard   *)
(* it opens: the choice of an object, the record type page                 *)
(* (contactRecordSelectionPage) and the create form.                       *)
(*                                                                         *)
(* The Apex method (module GlobalProfileData) answers a search with rows,  *)
(* shown in pages.  The row of a Create New button is remembered by its    *)
(* index on the page and looked up when the wizard goes on.  A search      *)
(* carries no identity: the answers of two searches in flight are applied  *)
(* as they come.                                                           *)
(***************************************************************************)
EXTENDS GlobalProfileData

CONSTANTS
    Null,         \* the null of globalProfiles
    Sources,      \* what a search can find
    Users,        \* [contact, lead : may create; types : record types for contacts]
    DefaultType,  \* the record type with defaultRecordTypeMapping
    pageSize,     \* rows of a page (5)
    MaxInFlight,  \* bound: searches in flight
    MaxTimers     \* bound: pending timers of renderedCallback

ASSUME PageSizeAssumption == pageSize \in Nat \ {0}
ASSUME SourcesAssumption == \A s \in Sources : IsSource(s)
ASSUME UsersAssumption == \A u \in Users : /\ {u.contact, u.lead} \subseteq BOOLEAN
                                          /\ DefaultType \in u.types
ASSUME BoundsAssumption == MaxInFlight \in Nat /\ MaxTimers \in Nat \ {0}

VARIABLES
    searchKey,     \* undefined, empty, spaces or text
    isSearchButton,
    showSpinner,
    inFlight,      \* searches that are not answered
    globalProfiles, globalProfileCurrentPage,
    page, totalPage, totalRecountCount,
    displayGlobalProfileTable, isResult, isTimeOut,
    user,
    objectInfo,    \* the wires of contact and lead have answered
    contactCreateAccess, leadCreateAccess, isCreateButtonAvailableToUser,
    \* the wizard
    showObjectSelectionModal, selectedObject,
    globalprofileindex,  \* row on the page, from 1; 0 is undefined
    contactData, showRecordTypeModal, showContactCreateModal,
    hasMultipleRecordTypeAccess,
    recordTypePage,  \* selectedRecordTypeId and ...Name of the record type page
    isRendered, timers,
    at,            \* search or away
    \* history
    overlapped,    \* a search was started while another was in flight
    chosen         \* the profile whose Create New was clicked

search == <<searchKey, isSearchButton, showSpinner, inFlight, globalProfiles,
            globalProfileCurrentPage, page, totalPage, totalRecountCount,
            displayGlobalProfileTable, isResult, isTimeOut, overlapped>>
access == <<contactCreateAccess, leadCreateAccess, isCreateButtonAvailableToUser>>
modals == <<showObjectSelectionModal, showRecordTypeModal, showContactCreateModal,
            recordTypePage>>
wizard == <<modals, selectedObject, globalprofileindex, contactData,
            hasMultipleRecordTypeAccess, isRendered, timers, chosen>>
vars == <<search, access, wizard, user, objectInfo, at>>

NoType == "undefined"
Fields == {"phone", "mobile", "email", "address"}
NoData == [id |-> "none", fill |-> [f \in Fields |-> 0],
           typeId |-> NoType, typeName |-> NoType]

Init ==
    /\ searchKey = "undefined"
    /\ isSearchButton = TRUE
    /\ showSpinner = FALSE
    /\ inFlight = 0
    /\ globalProfiles = <<>>
    /\ globalProfileCurrentPage = <<>>
    /\ page = 1 /\ totalPage = 0 /\ totalRecountCount = 0
    /\ displayGlobalProfileTable = FALSE
    /\ isResult = FALSE /\ isTimeOut = FALSE
    /\ user \in Users
    /\ objectInfo = FALSE
    /\ contactCreateAccess = FALSE /\ leadCreateAccess = FALSE
    /\ isCreateButtonAvailableToUser = TRUE
    /\ showObjectSelectionModal = FALSE
    /\ selectedObject = "none"
    /\ globalprofileindex = 0
    /\ contactData = NoData
    /\ showRecordTypeModal = FALSE /\ showContactCreateModal = FALSE
    /\ hasMultipleRecordTypeAccess = TRUE
    /\ recordTypePage = [id |-> NoType, name |-> NoType]
    /\ isRendered = FALSE
    /\ timers = 1
    /\ at = "search"
    /\ overlapped = FALSE
    /\ chosen = Null

(* Every modal covers the page.                                              *)
CanUsePage == /\ at = "search"
              /\ ~showObjectSelectionModal
              /\ ~showRecordTypeModal
              /\ ~showContactCreateModal

(* renderedCallback: until the check has run each rendering starts a timer.  *)
Rendered(checked) ==
    timers' = IF ~checked /\ timers < MaxTimers THEN timers + 1 ELSE timers

-----------------------------------------------------------------------------
(* Searching.                                                                *)

(* The wires of getObjectInfo answer.                                        *)
ObjectInfoArrives ==
    /\ at = "search" /\ ~objectInfo
    /\ objectInfo' = TRUE
    /\ UNCHANGED <<search, access, wizard, user, at>>

handleSearchExpressionChange(key) ==
    /\ CanUsePage
    /\ key # searchKey
    /\ searchKey' = key
    /\ isResult' = FALSE /\ isTimeOut' = FALSE
    /\ isSearchButton' = (key = "empty")
    /\ IF key = "empty"
       THEN globalProfiles' = <<>> /\ displayGlobalProfileTable' = FALSE
       ELSE UNCHANGED <<globalProfiles, displayGlobalProfileTable>>
    /\ Rendered(isRendered)
    /\ UNCHANGED <<showSpinner, inFlight, globalProfileCurrentPage, page,
                   totalPage, totalRecountCount, overlapped, access, modals,
                   selectedObject, globalprofileindex, contactData,
                   hasMultipleRecordTypeAccess, isRendered, chosen, user,
                   objectInfo, at>>

resetAll_keepsPage ==
    /\ globalProfiles' = <<>> /\ globalProfileCurrentPage' = <<>>
    /\ totalRecountCount' = 0 /\ totalPage' = 0
    /\ displayGlobalProfileTable' = FALSE
    /\ UNCHANGED page

resetAll ==
    /\ globalProfiles' = <<>> /\ globalProfileCurrentPage' = <<>>
    /\ totalRecountCount' = 0 /\ totalPage' = 0 /\ page' = 1
    /\ displayGlobalProfileTable' = FALSE

(* The button, or Enter, which enterKeyCheck takes whether or not the button *)
(* is enabled.  Without a key trim throws: the spinner is on for nothing.    *)
handleSearch(enter) ==
    /\ CanUsePage
    /\ enter \/ ~isSearchButton
    /\ inFlight < MaxInFlight
    /\ showSpinner' = TRUE
    /\ isResult' = FALSE /\ isTimeOut' = FALSE
    /\ resetAll
    /\ IF searchKey = "undefined"
       THEN UNCHANGED <<searchKey, inFlight, overlapped>>
       ELSE /\ searchKey' = IF searchKey = "spaces" THEN "empty" ELSE searchKey
            /\ inFlight' = inFlight + 1
            /\ overlapped' = (inFlight > 0)
    /\ Rendered(isRendered)
    /\ UNCHANGED <<isSearchButton, access, modals, selectedObject,
                   globalprofileindex, contactData, hasMultipleRecordTypeAccess,
                   isRendered, chosen, user, objectInfo, at>>

Slice(profiles, p, count) ==
    SubSeq(profiles, (p - 1) * pageSize + 1,
           Min({p * pageSize, count, Len(profiles)}))

(* displayRecordPerPage, for the values of this step.                        *)
displayRecordPerPage(profiles, p, count) ==
    globalProfileCurrentPage' =
        IF profiles = Null THEN globalProfileCurrentPage
        ELSE Slice(profiles, p, count)

(* The .then of handleSearch.                                                *)
SearchAnswer(result) ==
    LET shown == result.allData # <<>> /\ searchKey # "empty"
        count == IF result.allData # <<>> THEN Len(result.allData)
                 ELSE totalRecountCount
        timedOut == result.exceptionMessage = "Read timed out"
        profiles == IF shown THEN result.allData ELSE <<>>
    IN /\ at = "search" /\ inFlight > 0
       /\ inFlight' = inFlight - 1
       /\ totalRecountCount' = count
       /\ totalPage' = (count + pageSize - 1) \div pageSize
       /\ globalProfiles' = profiles
       /\ displayGlobalProfileTable' = shown
       /\ isTimeOut' = (isTimeOut \/ timedOut)
       /\ isResult' = (~shown /\ ~timedOut)
       /\ displayRecordPerPage(profiles, page, count)
       /\ showSpinner' = FALSE
       /\ contactCreateAccess' = IF objectInfo THEN user.contact
                                 ELSE contactCreateAccess
       /\ leadCreateAccess' = IF objectInfo THEN user.lead ELSE leadCreateAccess
       /\ isCreateButtonAvailableToUser' =
             (isCreateButtonAvailableToUser /\ (contactCreateAccess' \/ leadCreateAccess'))
       /\ Rendered(isRendered)
       /\ UNCHANGED <<searchKey, isSearchButton, page, overlapped, modals,
                      selectedObject, globalprofileindex, contactData,
                      hasMultipleRecordTypeAccess, isRendered, chosen, user,
                      objectInfo, at>>

(* Its .catch.                                                               *)
SearchRejected_spins ==
    /\ at = "search" /\ inFlight > 0
    /\ inFlight' = inFlight - 1
    /\ globalProfiles' = Null
    /\ isResult' = TRUE
    /\ Rendered(isRendered)
    /\ UNCHANGED <<searchKey, isSearchButton, showSpinner,
                   globalProfileCurrentPage, page, totalPage, totalRecountCount,
                   displayGlobalProfileTable, isTimeOut, overlapped, access,
                   modals, selectedObject, globalprofileindex, contactData,
                   hasMultipleRecordTypeAccess, isRendered, chosen, user,
                   objectInfo, at>>

SearchRejected ==
    /\ at = "search" /\ inFlight > 0
    /\ inFlight' = inFlight - 1
    /\ globalProfiles' = Null
    /\ showSpinner' = FALSE
    /\ isResult' = TRUE
    /\ Rendered(isRendered)
    /\ UNCHANGED <<searchKey, isSearchButton, globalProfileCurrentPage, page,
                   totalPage, totalRecountCount, displayGlobalProfileTable,
                   isTimeOut, overlapped, access, modals, selectedObject,
                   globalprofileindex, contactData, hasMultipleRecordTypeAccess,
                   isRendered, chosen, user, objectInfo, at>>

Turn(to) ==
    /\ CanUsePage /\ displayGlobalProfileTable
    /\ page' = to
    /\ displayRecordPerPage(globalProfiles, to, totalRecountCount)
    /\ Rendered(isRendered)
    /\ UNCHANGED <<searchKey, isSearchButton, showSpinner, inFlight,
                   globalProfiles, totalPage, totalRecountCount,
                   displayGlobalProfileTable, isResult, isTimeOut, overlapped,
                   access, modals, selectedObject, globalprofileindex,
                   contactData, hasMultipleRecordTypeAccess, isRendered, chosen,
                   user, objectInfo, at>>

previousHandler == page > 1 /\ Turn(page - 1)
nextHandler == page < totalPage /\ Turn(page + 1)

-----------------------------------------------------------------------------
(* The wizard.                                                               *)

(* The points of a type, and the date of the first of some points.           *)
OfType(points, type) == {i \in DOMAIN points : points[i].type = type}
FirstOr0(points, among) == IF among = {} THEN 0 ELSE points[Min(among)].date

(* What mapSelectedGlobalRecordToContactData copies out of a profile: each   *)
(* of its loops ends at the first match.                                     *)
Autofill(profile) ==
    LET phones == profile.phoneNumbers
        emails == profile.contactPointEmails
        addresses == profile.fullAddress
    IN [phone |-> FirstOr0(phones, OfType(phones, "home")),
        mobile |-> FirstOr0(phones, OfType(phones, "mobile")),
        email |-> FirstOr0(emails, DOMAIN emails),
        address |-> FirstOr0(addresses, DOMAIN addresses)]

RowOnPage_ofFirstPage(row) == row
RowOnPage(row) == pageSize * (page - 1) + row

(* A row that is not there, or null profiles, makes the mapping throw.       *)
CanMap(row) ==
    row # 0 => globalProfiles # Null /\ RowOnPage(row) <= Len(globalProfiles)

Mapped(row) ==
    IF row = 0 THEN contactData
    ELSE [contactData EXCEPT !.id = globalProfiles[RowOnPage(row)].id,
                             !.fill = Autofill(globalProfiles[RowOnPage(row)])]

(* initContactRecordTypes of a new record type page: the previous selection, *)
(* if there is a name, or the default.                                       *)
NewRecordTypePage_withoutDefault(data) ==
    [id |-> data.typeId, name |-> data.typeName]

NewRecordTypePage(data) ==
    IF data.typeName # NoType /\ data.typeId # NoType
    THEN [id |-> data.typeId, name |-> data.typeName]
    ELSE [id |-> DefaultType, name |-> DefaultType]

navigateContactCreation(row) ==
    IF CanMap(row)
    THEN /\ contactData' = Mapped(row)
         /\ showRecordTypeModal' = hasMultipleRecordTypeAccess
         /\ showContactCreateModal' = ~hasMultipleRecordTypeAccess
         /\ recordTypePage' = IF hasMultipleRecordTypeAccess
                              THEN NewRecordTypePage(Mapped(row))
                              ELSE recordTypePage
    ELSE UNCHANGED <<contactData, showRecordTypeModal, showContactCreateModal,
                     recordTypePage>>

(* The user leaves for the page of a new lead.                               *)
navigateToLeadCreation(row) ==
    /\ IF CanMap(row)
       THEN contactData' = Mapped(row) /\ at' = "away"
       ELSE UNCHANGED <<contactData, at>>
    /\ UNCHANGED <<showRecordTypeModal, showContactCreateModal, recordTypePage>>

(* Create New of a row, or the link of an empty or timed out search (row 0). *)
openObjectSelectionModal(row) ==
    /\ CanUsePage
    /\ IF row = 0 THEN isResult \/ isTimeOut
       ELSE /\ displayGlobalProfileTable /\ isCreateButtonAvailableToUser
            /\ globalProfileCurrentPage[row].canCreateContact
    /\ globalprofileindex' = row
    /\ chosen' = IF row = 0 THEN Null ELSE globalProfileCurrentPage[row]
    /\ \/ /\ contactCreateAccess /\ leadCreateAccess
          /\ showObjectSelectionModal' = TRUE
          /\ UNCHANGED <<contactData, showRecordTypeModal,
                         showContactCreateModal, recordTypePage, at>>
       \/ /\ contactCreateAccess /\ ~leadCreateAccess
          /\ navigateContactCreation(row)
          /\ UNCHANGED <<showObjectSelectionModal, at>>
       \/ /\ ~contactCreateAccess /\ leadCreateAccess
          /\ navigateToLeadCreation(row)
          /\ UNCHANGED showObjectSelectionModal
    /\ Rendered(isRendered)
    /\ UNCHANGED <<search, access, selectedObject, hasMultipleRecordTypeAccess,
                   isRendered, user, objectInfo>>

handleObjectSelection(object) ==
    /\ at = "search" /\ showObjectSelectionModal
    /\ selectedObject' = object
    /\ Rendered(isRendered)
    /\ UNCHANGED <<search, access, modals, globalprofileindex, contactData,
                   hasMultipleRecordTypeAccess, isRendered, chosen, user,
                   objectInfo, at>>

handleCancel ==
    /\ at = "search" /\ showObjectSelectionModal
    /\ showObjectSelectionModal' = FALSE
    /\ selectedObject' = "none"
    /\ Rendered(isRendered)
    /\ UNCHANGED <<search, access, showRecordTypeModal, showContactCreateModal,
                   recordTypePage, globalprofileindex, contactData,
                   hasMultipleRecordTypeAccess, isRendered, chosen, user,
                   objectInfo, at>>

closeObjectModal_omitted == UNCHANGED showObjectSelectionModal
closeObjectModal == showObjectSelectionModal' = FALSE

(* Next: the row is looked up now.                                           *)
navigateFromObjectModal ==
    /\ at = "search" /\ showObjectSelectionModal
    /\ \/ /\ selectedObject = "Contact"
          /\ closeObjectModal
          /\ navigateContactCreation(globalprofileindex)
          /\ UNCHANGED at
       \/ /\ selectedObject = "Lead"
          /\ navigateToLeadCreation(globalprofileindex)
          /\ UNCHANGED showObjectSelectionModal
    /\ Rendered(isRendered)
    /\ UNCHANGED <<search, access, selectedObject, globalprofileindex,
                   hasMultipleRecordTypeAccess, isRendered, chosen, user,
                   objectInfo>>

(* handleRecordType of the record type page.                                 *)
handleRecordType(type) ==
    /\ at = "search" /\ showRecordTypeModal
    /\ type \in user.types
    /\ recordTypePage' = [id |-> type, name |-> type]
    /\ UNCHANGED <<search, access, showObjectSelectionModal, showRecordTypeModal,
                   showContactCreateModal, selectedObject, globalprofileindex,
                   contactData, hasMultipleRecordTypeAccess, isRendered, timers,
                   chosen, user, objectInfo, at>>

(* recordtypemodalnext.                                                      *)
handleRecordTypeNext ==
    /\ at = "search" /\ showRecordTypeModal
    /\ contactData' = [contactData EXCEPT !.typeId = recordTypePage.id,
                                          !.typeName = recordTypePage.name]
    /\ showRecordTypeModal' = FALSE
    /\ showContactCreateModal' = TRUE
    /\ Rendered(isRendered)
    /\ UNCHANGED <<search, access, showObjectSelectionModal, recordTypePage,
                   selectedObject, globalprofileindex,
                   hasMultipleRecordTypeAccess, isRendered, chosen, user,
                   objectInfo, at>>

(* closerecordtypemodal: back to the choice of the object, if there is one.  *)
closeRecordTypeModal ==
    /\ at = "search" /\ showRecordTypeModal
    /\ showRecordTypeModal' = FALSE
    /\ showObjectSelectionModal' = (leadCreateAccess /\ contactCreateAccess)
    /\ isRendered' = FALSE
    /\ Rendered(FALSE)
    /\ UNCHANGED <<search, access, showContactCreateModal, recordTypePage,
                   selectedObject, globalprofileindex, contactData,
                   hasMultipleRecordTypeAccess, chosen, user, objectInfo, at>>

(* closecontactcreatemodal: the form hands its contactData back unchanged.   *)
closeContactCreateModal ==
    /\ at = "search" /\ showContactCreateModal
    /\ showContactCreateModal' = FALSE
    /\ showRecordTypeModal' = FALSE
    /\ isRendered' = TRUE
    /\ showObjectSelectionModal' = (contactCreateAccess /\ leadCreateAccess)
    /\ Rendered(TRUE)
    /\ UNCHANGED <<search, access, recordTypePage, selectedObject,
                   globalprofileindex, contactData, hasMultipleRecordTypeAccess,
                   chosen, user, objectInfo, at>>

(* The form has created the contact and navigates to it.                     *)
ContactCreated ==
    /\ at = "search" /\ showContactCreateModal
    /\ at' = "away"
    /\ UNCHANGED <<search, access, wizard, user, objectInfo>>

(* A timer of renderedCallback ends.                                         *)
checkForMultipleRecordTypeAccess ==
    /\ at = "search" /\ timers > 0
    /\ timers' = timers - 1
    /\ isRendered' = TRUE
    /\ IF objectInfo
       THEN /\ contactData' = [contactData EXCEPT !.typeId = DefaultType]
            /\ hasMultipleRecordTypeAccess' = (user.types # {DefaultType})
       ELSE UNCHANGED <<contactData, hasMultipleRecordTypeAccess>>
    /\ UNCHANGED <<search, access, modals, selectedObject, globalprofileindex,
                   chosen, user, objectInfo, at>>

-----------------------------------------------------------------------------
AllAnswers == UNION {Answers(source) : source \in Sources}

(* Apex answers a list, and a list is not null.                              *)
ASSUME NullAssumption == \A result \in AllAnswers : result.allData # Null

SearchSettles ==
    \/ \E result \in AllAnswers : SearchAnswer(result)
    \/ SearchRejected

Next ==
    \/ ObjectInfoArrives
    \/ \E key \in {"empty", "spaces", "text"} : handleSearchExpressionChange(key)
    \/ \E enter \in BOOLEAN : handleSearch(enter)
    \/ SearchSettles
    \/ previousHandler
    \/ nextHandler
    \/ \E row \in 0..Len(globalProfileCurrentPage) : openObjectSelectionModal(row)
    \/ \E object \in {"Contact", "Lead"} : handleObjectSelection(object)
    \/ handleCancel
    \/ navigateFromObjectModal
    \/ \E type \in user.types : handleRecordType(type)
    \/ handleRecordTypeNext
    \/ closeRecordTypeModal
    \/ closeContactCreateModal
    \/ ContactCreated
    \/ checkForMultipleRecordTypeAccess

Spec == Init /\ [][Next]_vars

(* A callout to Apex is answered or rejected; nothing is assumed of the user.*)
FairSpec == Spec /\ WF_vars(SearchSettles)

-----------------------------------------------------------------------------
Ids == UNION {{AllData(s)[i].id : i \in DOMAIN AllData(s)} : s \in Sources}
Types == {NoType} \cup UNION {u.types : u \in Users}

(* The fields of globalProfileDataComponent hold what their uses expect; the *)
(* record type page has a type of the user selected, the form is given one.  *)
TypeOK ==
    /\ searchKey \in {"undefined", "empty", "spaces", "text"}
    /\ inFlight \in 0..MaxInFlight
    /\ globalProfiles # Null => {globalProfiles[i].id : i \in DOMAIN globalProfiles} \subseteq Ids
    /\ page \in Nat \ {0} /\ {totalPage, totalRecountCount} \subseteq Nat
    /\ \A flag \in {isSearchButton, showSpinner, displayGlobalProfileTable,
                    isResult, isTimeOut, objectInfo, contactCreateAccess,
                    leadCreateAccess, isCreateButtonAvailableToUser,
                    showObjectSelectionModal, showRecordTypeModal,
                    showContactCreateModal, hasMultipleRecordTypeAccess,
                    isRendered, overlapped} : flag \in BOOLEAN
    /\ user \in Users
    /\ selectedObject \in {"none", "Contact", "Lead"}
    /\ globalprofileindex \in 0..pageSize
    /\ contactData.id \in Ids \cup {"none"}
    /\ {contactData.typeId, contactData.typeName} \subseteq Types
    /\ {recordTypePage.id, recordTypePage.name} \subseteq Types
    /\ showRecordTypeModal => {recordTypePage.id, recordTypePage.name} \subseteq user.types
    /\ showContactCreateModal => contactData.typeId \in user.types
    /\ timers \in 0..MaxTimers
    /\ at \in {"search", "away"}

(* Whatever was searched and turned before, a table shows a page that        *)
(* exists, and all of its rows (handleSearch resets the page, the handlers   *)
(* of the buttons slice again).                                              *)
PageShown ==
    displayGlobalProfileTable /\ ~overlapped =>
        /\ page \in 1..totalPage
        /\ globalProfileCurrentPage # <<>>
        /\ globalProfileCurrentPage =
              Slice(globalProfiles, page, Len(globalProfiles))

(* The wizard works on what it was opened for.                               *)
Creating == /\ chosen # Null /\ ~overlapped
            /\ showRecordTypeModal \/ showContactCreateModal \/ at = "away"

(* The contact or the lead is created from the profile whose Create New was  *)
(* clicked, on whichever page, after cancelled attempts for other profiles:  *)
(* the row is looked up only when the wizard goes on.                        *)
FormIsOfChosenProfile == Creating => contactData.id = chosen.id

Latest(points, among) ==
    IF among = {} THEN 0 ELSE Max({points[i].date : i \in among})

(* "Autofill latest": the sorts of the Apex class and the first match taken  *)
(* by the component together fill in the latest phone, mobile, email and     *)
(* address.                                                                  *)
AutofillIsLatest ==
    LET phones == chosen.phoneNumbers
        emails == chosen.contactPointEmails
        addresses == chosen.fullAddress
    IN Creating =>
        /\ contactData.fill.phone = Latest(phones, OfType(phones, "home"))
        /\ contactData.fill.mobile = Latest(phones, OfType(phones, "mobile"))
        /\ contactData.fill.email = Latest(emails, DOMAIN emails)
        /\ contactData.fill.address = Latest(addresses, DOMAIN addresses)

Rows == IF globalProfiles = Null THEN {} ELSE DOMAIN globalProfiles

(* A record found both by C360 and in this org is in one row.                *)
NoRecordListedTwice ==
    \A i, j \in Rows :
        \A k \in DOMAIN globalProfiles[i].points, l \in DOMAIN globalProfiles[j].points :
            globalProfiles[i].points[k].id = globalProfiles[j].points[l].id
                => (i = j /\ k = l) \/ globalProfiles[i].points[k].id = NoId

(* Going forth and back through the wizard never shows two windows.          *)
OneWindowAtATime ==
    /\ ~(showObjectSelectionModal /\ showRecordTypeModal)
    /\ ~(showObjectSelectionModal /\ showContactCreateModal)
    /\ ~(showRecordTypeModal /\ showContactCreateModal)

(* A search that was sent ends its spinner, however it ends and whatever is  *)
(* typed or searched meanwhile.                                              *)
SpinnerEnds == (showSpinner /\ inFlight > 0) ~> ~showSpinner
=============================================================================
