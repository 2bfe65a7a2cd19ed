------------------------ MODULE ContactRecordDetails ------------------------
(***************************************************************************)
(* The form that edits a contact,                                          *)
(* force-app/main/default/lwc/contactRecordDetails/contactRecordDetails.js,*)
(* inline on the record page or in a modal window (isEditModalWindow),     *)
(* with the validation component it mounts for every save.                 *)
(*                                                                         *)
(* It asks the component about changed fields only.  Continue to Save      *)
(* sends the data of the last validated save, not the fields on screen.    *)
(***************************************************************************)
EXTENDS DQHost

CONSTANTS
    Inputs,            \* texts the user can enter, by field
    Stored,            \* texts a contact can have when the form is opened
    Windows            \* values of isEditModalWindow

ASSUME InputsAssumption == Inputs \subseteq [Fields -> Contents]
ASSUME StoredAssumption == Stored \subseteq [Fields -> Contents]
ASSUME WindowsAssumption == Windows \subseteq BOOLEAN

VARIABLES
    isEditModalWindow,      \* set by the page, never changed
    contactRecordData,      \* the texts of the record on the server
    input,                  \* the input fields on screen
    isAddressChanged,
    updatedAddressDetails,  \* the address of the last change
    updatedContactDetail,   \* [text, checked, held, outcome]: see Held; the outcome
                            \* (history) is that of its round, or "none"
    dqFieldsToValidate,
    isUpdatedDQSystemRelatedFields,
    whichButtonWasClicked,
    isSaveAndNewButton,
    isSpinner,
    isErrorPopup,
    errorMessages,          \* there is an error message
    warningMessages,        \* there is a duplicate warning
    formInValidData,        \* the form's own inValidData
    modalLoading,           \* how many intervals wait for the child
    updates,                \* sequence of the records sent and not answered
    rejected,               \* history: the last updateContact was rejected
    page,                   \* what the user looks at
    notice                  \* history: the last toast and the record it is about

context == <<isEditModalWindow, contactRecordData>>
address == <<isAddressChanged, updatedAddressDetails>>
request == <<updatedContactDetail, dqFieldsToValidate,
             isUpdatedDQSystemRelatedFields>>
buttons == <<whichButtonWasClicked, isSaveAndNewButton>>
popup == <<isErrorPopup, errorMessages, warningMessages>>
formVars == <<context, input, address, request, buttons, isSpinner,
              popup, formInValidData, modalLoading, updates, rejected, page,
              notice>>
vars == <<childVars, formVars, verified>>

Nothing == [f \in Fields |-> "absent"]

(* The fields the form submits: the address comes from addressChanged or     *)
(* from the record.  It is not the account's (Sync_Address_With_Account__c). *)
Submitted ==
    [input EXCEPT !["Address"] = IF isAddressChanged THEN updatedAddressDetails
                                 ELSE contactRecordData["Address"]]

Changed_anyFilled(text) == {f \in Fields : text[f] \in Texts}
Changed(text) == {f \in Fields : /\ text[f] \in Texts
                                 /\ text[f] # contactRecordData[f]}

(* Data of a submission no answer has been written to yet.                   *)
Unvalidated(text) ==
    [text |-> text, checked |-> FALSE, held |-> NothingHeld, outcome |-> "none"]

Sent(kind, text, held, outcome) ==
    [kind |-> kind, text |-> text, status |-> held.status, outcome |-> outcome,
     verified |-> held.verified]

-----------------------------------------------------------------------------
Init ==
    /\ NoChild
    /\ isEditModalWindow \in Windows
    /\ contactRecordData \in Stored
    /\ input = contactRecordData
    /\ isAddressChanged = FALSE
    /\ updatedAddressDetails = "absent"
    /\ updatedContactDetail = Unvalidated(Nothing)
    /\ dqFieldsToValidate = {}
    /\ isUpdatedDQSystemRelatedFields = FALSE
    /\ whichButtonWasClicked = "null"
    /\ isSaveAndNewButton = FALSE
    /\ isSpinner = FALSE
    /\ isErrorPopup = FALSE
    /\ errorMessages = FALSE
    /\ warningMessages = FALSE
    /\ formInValidData = "undefined"
    /\ modalLoading = 0
    /\ updates = <<>>
    /\ rejected = FALSE
    /\ page = "edit"
    /\ notice = [toast |-> "none"]

(* Spinner and modal cover the inputs and the buttons.                       *)
CanUseForm == page = "edit" /\ ~isSpinner /\ ~(mounted /\ showModal_Invalid)

(* The user edits a field; an edit of the address is also addressChanged.    *)
EditInput(text) ==
    /\ CanUseForm
    /\ text # input
    /\ input' = text
    /\ IF text["Address"] # input["Address"]
       THEN /\ isAddressChanged' = TRUE
            /\ updatedAddressDetails' = text["Address"]
       ELSE UNCHANGED address
    /\ UNCHANGED <<childVars, context, request, buttons, isSpinner,
                   popup, formInValidData, modalLoading, updates, rejected,
                   page, notice, verified>>

(* handleSubmit without a warning: a round of validation is asked for.       *)
RequestValidation ==
    /\ updatedContactDetail' = Unvalidated(Submitted)
    /\ dqFieldsToValidate' = Changed(Submitted)
    /\ isUpdatedDQSystemRelatedFields' =
         (isAddressChanged \/ Changed(Submitted) # {})
    /\ modalLoading' = modalLoading + 1
    /\ MountChild

updateContact_onScreen ==
    LET text == Submitted
    IN /\ updatedContactDetail' = [updatedContactDetail EXCEPT !.text = text]
       /\ isUpdatedDQSystemRelatedFields' = isAddressChanged
       /\ isErrorPopup' = FALSE
       /\ rejected' = FALSE
       /\ updates' = Append(updates,
             Sent("duplicate", text, Held(updatedContactDetail),
                  updatedContactDetail.outcome))

(* updateAddress and updateContact(updatedContactDetail).                    *)
updateContact ==
    LET text == [updatedContactDetail.text EXCEPT !["Address"] =
                    IF isAddressChanged THEN updatedAddressDetails
                    ELSE contactRecordData["Address"]]
    IN /\ updatedContactDetail' = [updatedContactDetail EXCEPT !.text = text]
       /\ isUpdatedDQSystemRelatedFields' = isAddressChanged
       /\ isErrorPopup' = FALSE
       /\ rejected' = FALSE
       /\ updates' = Append(updates,
             Sent("duplicate", text, Held(updatedContactDetail),
                  updatedContactDetail.outcome))

(* Bounds: the rounds, and the callouts in flight.                           *)
MaySave ==
    /\ CanUseForm
    /\ round + modalLoading < MaxRounds
    /\ mounted => Cardinality(inFlight) <= MaxLate

(* Save: validateFields, handleOnSubmit and handleSubmit in one step.        *)
validateFields(valid) ==
    /\ MaySave
    /\ warningMessages' = FALSE
    /\ isErrorPopup' = ~valid
    /\ errorMessages' = ~valid
    /\ IF valid
       THEN /\ isSpinner' = TRUE
            /\ whichButtonWasClicked' = "Save"
            /\ RequestValidation
       ELSE UNCHANGED <<childVars, request, whichButtonWasClicked, isSpinner,
                        modalLoading>>
    /\ UNCHANGED <<context, input, address, isSaveAndNewButton,
                   formInValidData, updates, rejected, page, notice, verified>>

(* Save & New of the modal window: the fields are not checked, and after a   *)
(* Continue to Save that failed whichButtonWasClicked still names it.        *)
callSaveAndNewButton ==
    /\ MaySave /\ isEditModalWindow
    /\ isSpinner' = TRUE
    /\ isSaveAndNewButton' = TRUE
    /\ IF whichButtonWasClicked = "ContinueToSave"
       THEN /\ updateContact
            /\ UNCHANGED <<childVars, dqFieldsToValidate, modalLoading>>
       ELSE /\ RequestValidation
            /\ UNCHANGED <<isErrorPopup, updates, rejected>>
    /\ UNCHANGED <<context, input, address, whichButtonWasClicked,
                   errorMessages, warningMessages, formInValidData, page,
                   notice, verified>>

(* Continue to Save, the button of the warning.                              *)
handleContinueToSave ==
    /\ CanUseForm
    /\ isErrorPopup /\ ~errorMessages
    /\ whichButtonWasClicked' = "ContinueToSave"
    /\ isSpinner' = TRUE
    /\ updateContact
    /\ UNCHANGED <<childVars, context, input, address,
                   dqFieldsToValidate, isSaveAndNewButton,
                   errorMessages, warningMessages, formInValidData,
                   modalLoading, page, notice, verified>>

(* An interval of handleSubmit finds the child and calls it: the child       *)
(* copies the data, which from then on are not its contactData.              *)
StartRound ==
    /\ modalLoading > 0 /\ mounted
    /\ modalLoading' = modalLoading - 1
    /\ StartChild([value |-> updatedContactDetail.text, asked |-> dqFieldsToValidate],
                  Held(updatedContactDetail))
    /\ updatedContactDetail' = [updatedContactDetail EXCEPT !.checked = FALSE,
                                   !.held = Held(updatedContactDetail)]
    /\ UNCHANGED <<context, input, address, dqFieldsToValidate,
                   isUpdatedDQSystemRelatedFields, buttons,
                   isSpinner, popup, formInValidData, updates, rejected, page,
                   notice>>

-----------------------------------------------------------------------------
Alive == page \in {"edit", "view"}

(* A callout of the child is answered.                                       *)
ChildAnswered == Alive /\ ChildSettles /\ UNCHANGED formVars

(* The interval of the child opens the modal.                                *)
ChildAsks ==
    /\ Alive /\ mounted
    /\ DQ!PollInvalid
    /\ UNCHANGED <<formVars, verified>>

(* The child's contactData, taken over by the form.                          *)
ChildData(outcome) ==
    [text |-> form.value, checked |-> TRUE, held |-> NothingHeld, outcome |-> outcome]

ChildRecord(outcome) ==
    Sent("form", form.value, [status |-> status, verified |-> verified], outcome)

saveData(outcome) ==
    /\ isSpinner' = TRUE
    /\ updates' = Append(updates, ChildRecord(outcome))

dqValidationCompleted_validOnly(outcome) ==
    /\ updatedContactDetail' = ChildData(outcome)
    /\ formInValidData' = outcome
    /\ IF outcome = "DQ_CALLOUT" THEN saveData(outcome)
       ELSE isSpinner' = FALSE /\ UNCHANGED updates

dqValidationCompleted_flagBefore(outcome) ==
    /\ updatedContactDetail' = ChildData(outcome)
    /\ formInValidData' = inValidData
    /\ saveData(outcome)

(* contactdataupdated: the form takes over the child's contactData and sends *)
(* it with form.submit, under the spinner.                                   *)
dqValidationCompleted(outcome) ==
    /\ updatedContactDetail' = ChildData(outcome)
    /\ formInValidData' = outcome
    /\ saveData(outcome)

(* The interval of the child reports to the form.                            *)
ChildReports ==
    /\ Alive /\ mounted
    /\ \/ DQ!PollValid /\ dqValidationCompleted("DQ_CALLOUT")
       \/ DQ!PollException /\ dqValidationCompleted("APIException")
    /\ UNCHANGED <<context, input, address, dqFieldsToValidate,
                   isUpdatedDQSystemRelatedFields, buttons, popup,
                   modalLoading, rejected, page, notice, verified>>

closeDQPopupModal_keepsSpinner == UNCHANGED isSpinner
closeDQPopupModal == isSpinner' = FALSE

(* The user corrects the invalid data.                                       *)
AnswerYes ==
    /\ Alive /\ DQ!handleYes
    /\ closeDQPopupModal
    /\ UNCHANGED <<context, input, address, request, buttons, popup,
                   formInValidData, modalLoading, updates, rejected, page,
                   notice, verified>>

AnswerNo_closesLast ==
    /\ Alive /\ DQ!handleNo
    /\ updatedContactDetail' = ChildData("invalidData")
    /\ formInValidData' = "invalidData"
    /\ updates' = Append(updates, ChildRecord("invalidData"))
    /\ closeDQPopupModal
    /\ UNCHANGED <<context, input, address, dqFieldsToValidate,
                   isUpdatedDQSystemRelatedFields, buttons, popup,
                   modalLoading, rejected, page, notice, verified>>

(* The user keeps it: the spinner goes off with the modal and on with the    *)
(* update.                                                                   *)
AnswerNo ==
    /\ Alive /\ DQ!handleNo
    /\ dqValidationCompleted("invalidData")
    /\ UNCHANGED <<context, input, address, dqFieldsToValidate,
                   isUpdatedDQSystemRelatedFields, buttons, popup,
                   modalLoading, rejected, page, notice, verified>>

-----------------------------------------------------------------------------
Toast_ignoresInvalid ==
    IF formInValidData \in {"DQ_CALLOUT", "invalidData"} THEN "validated"
    ELSE "updated"

(* The toasts of handleSuccess and of updateContact.                         *)
Toast ==
    CASE formInValidData = "invalidData" -> "invalid"
      [] formInValidData = "DQ_CALLOUT" -> "validated"
      [] OTHER -> "updated"

Leave == IF isSaveAndNewButton THEN "new"
         ELSE IF isEditModalWindow THEN "closed" ELSE "view"

(* The record edit form has saved the record, and the wire adapter has the   *)
(* new values.                                                               *)
handleSuccess(i) ==
    /\ updates[i].kind = "form"
    /\ updates' = RemoveAt(updates, i)
    /\ contactRecordData' = updates[i].text
    /\ notice' = [toast |-> IF formInValidData # "invalidData"
                               /\ ~isUpdatedDQSystemRelatedFields
                            THEN "updated" ELSE Toast,
                  record |-> updates[i]]
    /\ formInValidData' = ""
    /\ dqFieldsToValidate' = {}
    /\ updatedContactDetail' = Unvalidated(Nothing)
    /\ page' = Leave
    /\ isSpinner' = FALSE
    /\ whichButtonWasClicked' = "null"
    /\ UNCHANGED <<childVars, isEditModalWindow, input, address, isUpdatedDQSystemRelatedFields,
                   isSaveAndNewButton, popup, modalLoading,
                   rejected, verified>>

(* handleError of the record edit form.                                      *)
handleError(i, duplicates) ==
    /\ updates[i].kind = "form"
    /\ updates' = RemoveAt(updates, i)
    /\ isSpinner' = FALSE
    /\ isErrorPopup' = TRUE
    /\ whichButtonWasClicked' = "null"
    /\ warningMessages' = IF duplicates THEN TRUE ELSE warningMessages
    /\ errorMessages' = IF duplicates THEN errorMessages ELSE TRUE
    /\ UNCHANGED <<childVars, context, input, address, request,
                   isSaveAndNewButton, formInValidData,
                   modalLoading, rejected, page, notice, verified>>

(* The .then of updateContact; the page is reloaded after a success.         *)
UpdateAnswer(i, isSuccuss) ==
    /\ updates[i].kind = "duplicate"
    /\ updates' = RemoveAt(updates, i)
    /\ isSpinner' = FALSE
    /\ IF isSuccuss
       THEN /\ contactRecordData' = updates[i].text
            /\ notice' = [toast |-> Toast, record |-> updates[i]]
            /\ page' = IF isSaveAndNewButton THEN "new" ELSE "reloaded"
       ELSE /\ notice' = [toast |-> "error"]
            /\ UNCHANGED <<contactRecordData, page>>
    /\ UNCHANGED <<childVars, isEditModalWindow, input, address, request, buttons, popup,
                   formInValidData, modalLoading, rejected, verified>>

(* Its .catch only logs.                                                     *)
UpdateRejected(i) ==
    /\ updates[i].kind = "duplicate"
    /\ updates' = RemoveAt(updates, i)
    /\ rejected' = TRUE
    /\ UNCHANGED <<childVars, context, input, address, request,
                   buttons, isSpinner, popup, formInValidData, modalLoading,
                   page, notice, verified>>

(* The icons of the form and the close button of the popup.                  *)
handleVisibilityOfErrorPopup ==
    /\ CanUseForm
    /\ errorMessages \/ warningMessages \/ isErrorPopup
    /\ isErrorPopup' = ~isErrorPopup
    /\ UNCHANGED <<childVars, context, input, address, request,
                   buttons, isSpinner, errorMessages, warningMessages,
                   formInValidData, modalLoading, updates, rejected, page,
                   notice, verified>>

cancelEdit_keepsPopup ==
    /\ CanUseForm
    /\ errorMessages' = FALSE
    /\ formInValidData' = ""
    /\ dqFieldsToValidate' = {}
    /\ page' = IF isEditModalWindow THEN "closed" ELSE "view"
    /\ UNCHANGED <<childVars, context, input, address,
                   updatedContactDetail, isUpdatedDQSystemRelatedFields,
                   buttons, isSpinner, isErrorPopup, warningMessages,
                   modalLoading, updates, rejected, notice, verified>>

(* Cancel.  The warning, whichButtonWasClicked, the address and the data of  *)
(* the last save stay.                                                       *)
cancelEdit ==
    /\ CanUseForm
    /\ errorMessages' = FALSE
    /\ isErrorPopup' = FALSE
    /\ formInValidData' = ""
    /\ dqFieldsToValidate' = {}
    /\ page' = IF isEditModalWindow THEN "closed" ELSE "view"
    /\ UNCHANGED <<childVars, context, input, address,
                   updatedContactDetail, isUpdatedDQSystemRelatedFields,
                   buttons, isSpinner, warningMessages, modalLoading, updates,
                   rejected, notice, verified>>

(* The pencil of the record page: the inputs show the record again.          *)
editButton ==
    /\ page = "view"
    /\ page' = "edit"
    /\ input' = contactRecordData
    /\ UNCHANGED <<childVars, context, address, request, buttons,
                   isSpinner, popup, formInValidData, modalLoading, updates,
                   rejected, notice, verified>>

-----------------------------------------------------------------------------
ServerAnswers ==
    \E i \in DOMAIN updates :
        /\ Alive
        /\ \/ handleSuccess(i)
           \/ \E duplicates \in BOOLEAN : handleError(i, duplicates)
           \/ \E isSuccuss \in BOOLEAN : UpdateAnswer(i, isSuccuss)
           \/ UpdateRejected(i)

Next ==
    \/ \E text \in Inputs : EditInput(text)
    \/ \E valid \in BOOLEAN : validateFields(valid)
    \/ callSaveAndNewButton
    \/ handleContinueToSave
    \/ StartRound
    \/ ChildAnswered
    \/ ChildAsks
    \/ ChildReports
    \/ AnswerYes
    \/ AnswerNo
    \/ ServerAnswers
    \/ handleVisibilityOfErrorPopup
    \/ cancelEdit
    \/ editButton

Spec == Init /\ [][Next]_vars

(* Promises settle and intervals fire; the user need not act.                *)
Fairness ==
    /\ WF_vars(StartRound)
    /\ WF_vars(ChildAnswered)
    /\ WF_vars(ChildReports)
    /\ WF_vars(ChildAsks)
    /\ WF_vars(ServerAnswers)

FairSpec == Spec /\ Fairness

-----------------------------------------------------------------------------
Records == [kind : {"form", "duplicate"}, text : [Fields -> Contents],
            status : [Fields -> DQ!Statuses \union {"unset", "null"}],
            outcome : DQ!Outcomes \union {"none"}, verified : [Fields -> Contents]]

Details == [text : [Fields -> Contents], checked : BOOLEAN, held : Helds,
            outcome : DQ!Outcomes \union {"none"}]

(* Types of the form's state, and of the child's.                            *)
TypeOK ==
    /\ DQ!TypeOK
    /\ isEditModalWindow \in BOOLEAN
    /\ contactRecordData \in [Fields -> Contents]
    /\ input \in [Fields -> Contents]
    /\ isAddressChanged \in BOOLEAN
    /\ updatedAddressDetails \in Contents
    /\ updatedContactDetail \in Details
    /\ dqFieldsToValidate \subseteq Fields
    /\ isUpdatedDQSystemRelatedFields \in BOOLEAN
    /\ whichButtonWasClicked \in {"null", "Save", "ContinueToSave"}
    /\ isSaveAndNewButton \in BOOLEAN
    /\ isSpinner \in BOOLEAN
    /\ isErrorPopup \in BOOLEAN
    /\ errorMessages \in BOOLEAN
    /\ warningMessages \in BOOLEAN
    /\ formInValidData \in DQ!Outcomes \union {"", "undefined"}
    /\ modalLoading \in Nat
    /\ updates \in Seq(Records)
    /\ rejected \in BOOLEAN
    /\ page \in {"edit", "view", "new", "closed", "reloaded"}

(* The inputs stay covered as long as an update is on its way, also when the *)
(* user has kept invalid data and the modal is gone.                         *)
(* This and QuestionsAreAboutChanges hold when a save does not ask about both *)
(* e-mails and both phones: then the interval can report behind the modal.    *)
SpinnerCoversUpdate == updates # <<>> => isSpinner /\ page = "edit"

(* Whatever button sends it, a record carries verification statuses DQ gave  *)
(* for the very texts it carries; only the address is exempt, which          *)
(* updateAddress replaces after the validation.                              *)
UpdatedStatusesAreTheirOwn ==
    \A s \in ToSet(updates) : VerifiedFor(s, Fields \ {"Address"})

(* The user is asked about changes only: a field in the modal has a text,    *)
(* and not the one the record has.                                           *)
QuestionsAreAboutChanges ==
    (mounted /\ showModal_Invalid) =>
        \A f \in ToSet(invalidDataLists) \union ToSet(phoneNumberTypeDataLists) :
            form.value[f] \in Texts /\ form.value[f] # contactRecordData[f]

(* The user is told "Contact Updated and Data Validated" only of a record DQ  *)
(* found valid in the round of its data, whichever button sent it, and none   *)
(* of whose statuses is invalid.  The exception: Save & New does not clear a  *)
(* warning, so that Continue to Save can send data DQ has not been through    *)
(* with, under the outcome of the save before.                                *)
ValidatedToastIsTrue ==
    notice.toast = "validated" =>
        /\ \A f \in Fields : notice.record.status[f] # "invalid"
        /\ \/ notice.record.outcome = "DQ_CALLOUT"
           \/ /\ isSaveAndNewButton
              /\ notice.record.kind = "duplicate" /\ notice.record.outcome = "none"

(* A popup never outlives its messages, so that Continue to Save stands      *)
(* under a duplicate warning only.                                           *)
PopupHasContent == isErrorPopup => errorMessages \/ warningMessages

(* The comment of updateContact: it skips the duplicate rule when the user    *)
(* clicks Continue to Save, which is in the popup of a warning.              *)
RuleSkippedOnContinueOnly ==
    [][Len(updates') > Len(updates) /\ Last(updates').kind = "duplicate" =>
           isErrorPopup /\ warningMessages]_vars

(* The spinner of a first round, and of every update, ends: the user gets    *)
(* the form back, is asked, or leaves it.  A rejected updateContact is left  *)
(* out.                                                                      *)
SpinnerEnds ==
    (isSpinner /\ (round = 0 \/ (round = 1 /\ modalLoading = 0) \/ updates # <<>>))
        ~> (~isSpinner \/ page # "edit" \/ (mounted /\ showModal_Invalid) \/ rejected)

(* The form keeps the promise of ContactSave, where the leave of a warning to *)
(* send without a validation lasts as long as whichButtonWasClicked.         *)
Save == INSTANCE ContactSave WITH
    phase <- IF page # "edit" THEN "left"
             ELSE IF updates # <<>> THEN "saving"
             ELSE IF mounted /\ showModal_Invalid THEN "asking"
             ELSE IF modalLoading > 0 \/ (mounted /\ polling > 0) THEN "validating"
             ELSE "editing",
    warned <- warningMessages \/ whichButtonWasClicked = "ContinueToSave"

ImplementsSave == Save!Spec

-----------------------------------------------------------------------------
(* Users who do not change both e-mails and both phones in one save.  Of two *)
(* texts a contact can have, one of these four fields is empty in the first  *)
(* or the same in both.                                                      *)
Pairs == DQ!Emails \union DQ!Phones

OnePairChanges ==
    \A text, stored \in Stored \union Inputs :
        \E f \in Pairs : text[f] \notin Texts \/ text[f] = stored[f]
=============================================================================
