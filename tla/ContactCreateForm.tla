-------------------------- MODULE ContactCreateForm --------------------------
(***************************************************************************)
(* The form that creates a contact,                                        *)
(* force-app/main/default/lwc/contactCreateForm/contactCreateForm.js,      *)
(* with the validation component it mounts for every save, c-d-q-          *)
(* validation (module DQValidation, instantiated with the same variables). *)
(*                                                                         *)
(* Save: the fields are checked, the component is mounted and validates    *)
(* them, its contactdataupdated event sends the record to the server, and  *)
(* the answer ends the visit or gives the form back.  Continue to Save,    *)
(* offered with a duplicate warning, sends the fields as they then are.    *)
(***************************************************************************)
EXTENDS DQHost

CONSTANT Inputs \* what the user can enter: a text by field, the address selection

VARIABLES
    \* the state of the form
    input,                \* the input fields on screen
    contactDetail,        \* [text, checked, held, country]: see Held; the country
                          \* may be "waiting" for the account
    dqFieldsToValidate,
    whichButtonWasClicked,
    lastClicked,          \* _WhichButtonWasLastClicked
    isSpinner,
    isErrorPopup,
    errorMessages,        \* there is an error message
    warningMessages,      \* there is a duplicate warning
    formInValidData,      \* the form's own inValidData
    modalLoading,         \* how many intervals wait for the child
    copiedCountry,        \* the country of the child's contactData
    creates,              \* sequence of the records sent and not answered
    page,                 \* what the user looks at
    notice,               \* history: the last toast and the record it is about
    refused,              \* history: the outcome of the record last warned about
    overlapped            \* history: a save began while a create was out

ASSUME InputsAssumption ==
    Inputs \subseteq [text : [Fields -> Contents],
                      addressFrom : {"Manual", "Account", "Profile"}]

buttons == <<whichButtonWasClicked, lastClicked>>
popup == <<isErrorPopup, errorMessages, warningMessages>>
sending == <<contactDetail, dqFieldsToValidate, formInValidData, modalLoading,
             copiedCountry, creates>>
history == <<notice, refused, overlapped>>
formVars == <<input, buttons, isSpinner, popup, sending, page, history>>
vars == <<childVars, formVars, verified>>

(* The fields pushed onto dqFieldsToValidate: an address that comes from the *)
(* account or from the global profile is not validated.                      *)
Filled(in) == {f \in Fields : /\ in.text[f] \in Texts
                              /\ f = "Address" => in.addressFrom = "Manual"}

(* A record on its way to the server: form.submit or insertDuplicateContact. *)
Sent(kind, text, held, outcome, country) ==
    [kind |-> kind, text |-> text, status |-> held.status, outcome |-> outcome,
     country |-> country, verified |-> held.verified, button |-> lastClicked]

-----------------------------------------------------------------------------
Init ==
    /\ NoChild
    /\ input \in Inputs
    /\ contactDetail = [text |-> [f \in Fields |-> "absent"], checked |-> FALSE,
                        held |-> NothingHeld, country |-> "own"]
    /\ dqFieldsToValidate = {}
    /\ whichButtonWasClicked = "null"
    /\ lastClicked = "null"
    /\ isSpinner = FALSE
    /\ isErrorPopup = FALSE
    /\ errorMessages = FALSE
    /\ warningMessages = FALSE
    /\ formInValidData = "undefined"
    /\ modalLoading = 0
    /\ copiedCountry = "own"
    /\ creates = <<>>
    /\ page = "form"
    /\ notice = [toast |-> "none"]
    /\ refused = "none"
    /\ overlapped = FALSE

(* Spinner and modal cover the inputs and the buttons.                       *)
CanUseForm == page = "form" /\ ~isSpinner /\ ~(mounted /\ showModal_Invalid)

(* The user edits the form; a popup does not cover the inputs.               *)
EditInput(in) ==
    /\ CanUseForm
    /\ in # input
    /\ input' = in
    /\ UNCHANGED <<childVars, buttons, isSpinner, popup, sending, page, history,
                   verified>>

(* handleSubmit for the buttons Save and Save & New.                         *)
handleSubmit ==
    /\ contactDetail' = [text |-> input.text, checked |-> FALSE,
                         held |-> NothingHeld,
                         country |-> IF input.addressFrom = "Account"
                                     THEN "waiting" ELSE "own"]
    /\ dqFieldsToValidate' = dqFieldsToValidate \union Filled(input)
    /\ modalLoading' = modalLoading + 1
    /\ MountChild

startSpinner_omitted == UNCHANGED isSpinner
startSpinner == isSpinner' = TRUE

showErrors_keepsPopup(valid) ==
    /\ isErrorPopup' = (isErrorPopup \/ ~valid)
    /\ errorMessages' = ~valid
    /\ warningMessages' = FALSE

(* The messages of the last attempt are cleared, those of this one shown.    *)
showErrors(valid) ==
    /\ isErrorPopup' = ~valid
    /\ errorMessages' = ~valid
    /\ warningMessages' = FALSE

(* Save or Save & New: validateFields, handleOnSubmit, the click of the      *)
(* hidden button and handleSubmit are one synchronous step.  After No the    *)
(* form is free although the create is out.  Bounds: the rounds, and the     *)
(* callouts in flight.                                                       *)
validateFields(button, valid) ==
    /\ CanUseForm
    /\ round + modalLoading < MaxRounds
    /\ mounted => Cardinality(inFlight) <= MaxLate
    /\ showErrors(valid)
    /\ IF valid
       THEN /\ startSpinner
            /\ whichButtonWasClicked' = button
            /\ lastClicked' = button
            /\ handleSubmit
            /\ overlapped' = (overlapped \/ creates # <<>>)
       ELSE UNCHANGED <<childVars, buttons, isSpinner, contactDetail,
                        dqFieldsToValidate, modalLoading, overlapped>>
    /\ UNCHANGED <<input, formInValidData, copiedCountry, creates, page, notice,
                   refused, verified>>

(* getAccountData resolves into the fields of the submission.                *)
AccountAnswer ==
    /\ page = "form" /\ contactDetail.country = "waiting"
    /\ contactDetail' = [contactDetail EXCEPT !.country = "account"]
    /\ UNCHANGED <<childVars, input, buttons, isSpinner, popup,
                   dqFieldsToValidate, formInValidData, modalLoading,
                   copiedCountry, creates, page, history, verified>>

(* An interval of handleSubmit finds the child and calls it: the child       *)
(* copies contactDetail, which from then on is not its contactData.          *)
StartRound ==
    /\ page = "form" /\ modalLoading > 0 /\ mounted
    /\ modalLoading' = modalLoading - 1
    /\ copiedCountry' = IF contactDetail.country = "waiting" THEN "missing"
                        ELSE contactDetail.country
    /\ StartChild([value |-> contactDetail.text, asked |-> dqFieldsToValidate],
                  Held(contactDetail))
    /\ contactDetail' = [contactDetail EXCEPT !.checked = FALSE,
                                              !.held = Held(contactDetail)]
    /\ UNCHANGED <<input, buttons, isSpinner, popup, dqFieldsToValidate,
                   formInValidData, creates, page, history>>

-----------------------------------------------------------------------------
(* A callout of the child is answered.                                       *)
ChildAnswered == page = "form" /\ ChildSettles /\ UNCHANGED formVars

(* The child's contactData, taken over by the form.                          *)
ChildData == [text |-> form.value, checked |-> TRUE, held |-> NothingHeld,
              country |-> copiedCountry]

dqValidationCompleted_flagBefore(outcome) ==
    /\ contactDetail' = ChildData
    /\ formInValidData' = inValidData
    /\ creates' = Append(creates,
         Sent("form", form.value, [status |-> status, verified |-> verified],
              outcome, copiedCountry))

(* contactdataupdated: the form takes over the child's contactData and sends *)
(* it with form.submit.                                                      *)
dqValidationCompleted(outcome) ==
    /\ contactDetail' = ChildData
    /\ formInValidData' = outcome
    /\ creates' = Append(creates,
         Sent("form", form.value, [status |-> status, verified |-> verified],
              outcome, copiedCountry))

(* The interval of the child reports to the form; that of an instance that   *)
(* left the page has no listener and is left out.                            *)
ChildReports ==
    /\ page = "form" /\ mounted
    /\ \/ DQ!PollValid /\ dqValidationCompleted("DQ_CALLOUT")
       \/ DQ!PollException /\ dqValidationCompleted("APIException")
    /\ UNCHANGED <<input, buttons, isSpinner, popup, dqFieldsToValidate,
                   modalLoading, copiedCountry, page, history, verified>>

(* The interval of the child opens the modal.                                *)
ChildAsks ==
    /\ page = "form" /\ mounted
    /\ DQ!PollInvalid
    /\ UNCHANGED <<formVars, verified>>

closeDQPopupModal_keepsSpinner == UNCHANGED isSpinner
closeDQPopupModal == isSpinner' = FALSE

(* The user corrects the invalid data.                                       *)
AnswerYes ==
    /\ page = "form" /\ DQ!handleYes
    /\ closeDQPopupModal
    /\ UNCHANGED <<input, buttons, popup, sending, page, history, verified>>

(* The user keeps it: the record is sent while the form can be used again.   *)
AnswerNo ==
    /\ page = "form" /\ DQ!handleNo
    /\ closeDQPopupModal
    /\ dqValidationCompleted("invalidData")
    /\ UNCHANGED <<input, buttons, popup, dqFieldsToValidate, modalLoading,
                   copiedCountry, page, history, verified>>

-----------------------------------------------------------------------------
Toast_keepsValid ==
    CASE formInValidData = "APIException" -> "created"
      [] formInValidData \in {"DQ_CALLOUT", "invalidData"} -> "validated"
      [] OTHER -> "none"

(* The toast of a successful create.                                         *)
Toast ==
    CASE formInValidData = "APIException" -> "created"
      [] formInValidData = "DQ_CALLOUT" -> "validated"
      [] formInValidData = "invalidData" -> "invalid"
      [] OTHER -> "none"

WantsNew_currentButton == whichButtonWasClicked = "SaveAndNew"
WantsNew ==
    /\ whichButtonWasClicked # "null"
    /\ whichButtonWasClicked = "SaveAndNew" \/ lastClicked = "SaveAndNew"

Leave ==
    IF WantsNew
    THEN /\ whichButtonWasClicked' = "null"
         /\ lastClicked' = "null"
         /\ page' = "new"
    ELSE page' = "view" /\ UNCHANGED buttons

(* handleSucess of the record edit form.                                     *)
handleSucess(i) ==
    /\ page = "form" /\ creates[i].kind = "form"
    /\ creates' = RemoveAt(creates, i)
    /\ isSpinner' = FALSE
    /\ notice' = [toast |-> Toast, record |-> creates[i]]
    /\ Leave
    /\ warningMessages' = IF WantsNew THEN FALSE ELSE warningMessages
    /\ UNCHANGED <<childVars, input, isErrorPopup, errorMessages, contactDetail,
                   dqFieldsToValidate, formInValidData, modalLoading,
                   copiedCountry, refused, overlapped, verified>>

(* handleError of the record edit form; an error of a duplicate rule is a    *)
(* warning.                                                                  *)
handleError(i, duplicates) ==
    /\ page = "form" /\ creates[i].kind = "form"
    /\ creates' = RemoveAt(creates, i)
    /\ isSpinner' = FALSE
    /\ isErrorPopup' = TRUE
    /\ warningMessages' = IF duplicates THEN TRUE ELSE warningMessages
    /\ errorMessages' = IF duplicates THEN errorMessages ELSE TRUE
    /\ refused' = IF duplicates THEN creates[i].outcome ELSE refused
    /\ UNCHANGED <<childVars, input, buttons, contactDetail, dqFieldsToValidate,
                   formInValidData, modalLoading, copiedCountry, page, notice,
                   overlapped, verified>>

(* Continue to Save, the button of the warning: handleSubmit calls           *)
(* insertContact with the fields on screen and the statuses of               *)
(* contactDetail.  The country of the account is asked for, but the answer   *)
(* comes after the fields were copied.                                       *)
handleContinueToSave ==
    /\ CanUseForm
    /\ isErrorPopup /\ ~errorMessages
    /\ whichButtonWasClicked' = "ContinueToSave"
    /\ startSpinner
    /\ isErrorPopup' = FALSE
    /\ creates' = Append(creates,
         Sent("duplicate", input.text, Held(contactDetail), refused,
              IF input.addressFrom = "Account" THEN "missing" ELSE "own"))
    /\ UNCHANGED <<childVars, input, lastClicked, errorMessages,
                   warningMessages, contactDetail, dqFieldsToValidate,
                   formInValidData, modalLoading, copiedCountry, page, history,
                   verified>>

(* The .then of insertContact.                                               *)
InsertAnswer(i, isSuccuss) ==
    /\ page = "form" /\ creates[i].kind = "duplicate"
    /\ creates' = RemoveAt(creates, i)
    /\ isSpinner' = FALSE
    /\ IF isSuccuss
       THEN notice' = [toast |-> Toast, record |-> creates[i]] /\ Leave
       ELSE notice' = [toast |-> "error"] /\ UNCHANGED <<buttons, page>>
    /\ UNCHANGED <<childVars, input, popup, contactDetail, dqFieldsToValidate,
                   formInValidData, modalLoading, copiedCountry, refused,
                   overlapped, verified>>

(* Its .catch.                                                               *)
InsertRejected(i) ==
    /\ page = "form" /\ creates[i].kind = "duplicate"
    /\ creates' = RemoveAt(creates, i)
    /\ isSpinner' = FALSE
    /\ UNCHANGED <<childVars, input, buttons, popup, contactDetail,
                   dqFieldsToValidate, formInValidData, modalLoading,
                   copiedCountry, page, history, verified>>

(* The icons of the footer and the close button of the popup.                *)
handleVisibilityOfErrorPopup ==
    /\ CanUseForm
    /\ errorMessages \/ warningMessages \/ isErrorPopup
    /\ isErrorPopup' = ~isErrorPopup
    /\ UNCHANGED <<childVars, input, buttons, isSpinner, errorMessages,
                   warningMessages, sending, page, history, verified>>

(* A duplicate of the warning is opened instead.                             *)
handleViewRecordDatail ==
    /\ CanUseForm /\ warningMessages
    /\ page' = "other"
    /\ UNCHANGED <<childVars, input, buttons, isSpinner, popup, sending, history,
                   verified>>

(* Cancel: the form is taken off the page, and with it what it waits for.    *)
closeModal ==
    /\ page = "form" /\ ~(mounted /\ showModal_Invalid)
    /\ page' = "closed"
    /\ UNCHANGED <<childVars, input, buttons, isSpinner, popup, sending, history,
                   verified>>

-----------------------------------------------------------------------------
ServerAnswers ==
    \E i \in DOMAIN creates :
        \/ handleSucess(i)
        \/ \E duplicates \in BOOLEAN : handleError(i, duplicates)
        \/ \E isSuccuss \in BOOLEAN : InsertAnswer(i, isSuccuss)
        \/ InsertRejected(i)

Next ==
    \/ \E in \in Inputs : EditInput(in)
    \/ \E button \in {"Save", "SaveAndNew"}, valid \in BOOLEAN :
          validateFields(button, valid)
    \/ AccountAnswer
    \/ StartRound
    \/ ChildAnswered
    \/ ChildReports
    \/ ChildAsks
    \/ AnswerYes
    \/ AnswerNo
    \/ ServerAnswers
    \/ handleContinueToSave
    \/ handleVisibilityOfErrorPopup
    \/ handleViewRecordDatail
    \/ closeModal

Spec == Init /\ [][Next]_vars

(* Promises settle and intervals fire; the user need not act, and the        *)
(* account may stay unanswered.                                              *)
Fairness ==
    /\ WF_vars(StartRound)
    /\ WF_vars(ChildAnswered)
    /\ WF_vars(ChildReports)
    /\ WF_vars(ChildAsks)
    /\ WF_vars(ServerAnswers)

FairSpec == Spec /\ Fairness

-----------------------------------------------------------------------------
Records == [kind : {"form", "duplicate"}, text : [Fields -> Contents],
            status : [Fields -> DQ!Statuses \union {"unset", "null"}],
            outcome : DQ!Outcomes, country : {"own", "account", "missing"},
            verified : [Fields -> Contents], button : {"Save", "SaveAndNew"}]

(* Types of the form's state, and of the child's.                            *)
TypeOK ==
    /\ DQ!TypeOK
    /\ input \in Inputs
    /\ contactDetail \in [text : [Fields -> Contents], checked : BOOLEAN, held : Helds,
                          country : {"own", "waiting", "account", "missing"}]
    /\ dqFieldsToValidate \subseteq Fields
    /\ whichButtonWasClicked \in {"null", "Save", "SaveAndNew", "ContinueToSave"}
    /\ lastClicked \in {"null", "Save", "SaveAndNew"}
    /\ isSpinner \in BOOLEAN
    /\ isErrorPopup \in BOOLEAN
    /\ errorMessages \in BOOLEAN
    /\ warningMessages \in BOOLEAN
    /\ formInValidData \in DQ!Outcomes \union {"undefined"}
    /\ modalLoading \in Nat
    /\ copiedCountry \in {"own", "account", "missing"}
    /\ creates \in Seq(Records)
    /\ page \in {"form", "view", "new", "other", "closed"}
    /\ refused \in DQ!Outcomes \union {"none"}
    /\ overlapped \in BOOLEAN
    /\ verified \in [Fields -> Contents]

(* The record on its way is one the user kept although it is invalid.        *)
Keeping == creates[1].kind = "form" /\ creates[1].outcome = "invalidData"

(* One record is on its way at a time, and the spinner covers the form until *)
(* its answer, but for a record the user kept with No: only a save during    *)
(* that create (overlapped) can send a second one.  This and ImplementsSave  *)
(* hold when a save does not ask about both e-mails and both phones: then    *)
(* the interval can report behind the modal.                                 *)
OneCreateAtATime ==
    ~overlapped =>
        /\ Len(creates) <= 1
        /\ page = "form" /\ creates # <<>> => isSpinner \/ Keeping

(* The form keeps what the child relies on, as long as no save begins while  *)
(* a create is out: a round is started only when no round runs and no        *)
(* question is open.                                                         *)
RoundsDoNotOverlap ==
    [][round' # round /\ ~overlapped => polling = 0 /\ ~showModal_Invalid]_vars

(* The record of a save carries verification statuses DQ gave for the very   *)
(* texts it carries, over corrections, new instances and repeated rounds,    *)
(* also of saves that overlap.                                               *)
SavedStatusesAreTheirOwn ==
    \A s \in ToSet(creates) : s.kind = "form" => VerifiedFor(s, Fields)

(* insertContact: "fill the verification status and date of the DQ system".  *)
(* The statuses of any record are those of its own data.                     *)
AllStatusesAreTheirOwn == \A s \in ToSet(creates) : VerifiedFor(s, Fields)

(* A contact is called validated only when DQ found it valid: in the round   *)
(* of its own save or, for Continue to Save, in the round of the record the  *)
(* duplicate rule refused (whose text the user may have edited since, see    *)
(* AllStatusesAreTheirOwn), as long as saves do not overlap.                 *)
ToastTellsOutcome ==
    notice.toast = "validated" /\ ~overlapped => notice.record.outcome = "DQ_CALLOUT"

(* A new form is opened after a create exactly when the user asked for it    *)
(* with Save & New, also when a duplicate warning came in between, as long   *)
(* as saves do not overlap.                                                  *)
NewFormWhenAsked ==
    [][page' \in {"view", "new"} /\ page = "form" /\ ~overlapped =>
          (page' = "new" <=> notice'.record.button = "SaveAndNew")]_vars

(* The popup has something to say, and the Continue to Save it offers        *)
(* without errors stands under a duplicate warning.                          *)
PopupHasContent == page = "form" /\ isErrorPopup => errorMessages \/ warningMessages

(* The comment of handleSubmit, "Copy Address from account": a record whose  *)
(* address is synchronized is created with the country of the account.       *)
AccountCountrySaved == \A s \in ToSet(creates) : s.country # "missing"

(* The spinner of a first round, and of every create, ends: the user gets    *)
(* the form back, is asked, or leaves it.                                    *)
SpinnerEnds ==
    (isSpinner /\ (round = 0 \/ (round = 1 /\ modalLoading = 0) \/ creates # <<>>))
        ~> (~isSpinner \/ page # "form" \/ (mounted /\ showModal_Invalid))

(* The form keeps the promise of ContactSave.                                *)
Save == INSTANCE ContactSave WITH
    phase <- IF page # "form" THEN "left"
             ELSE IF overlapped THEN "overlapping"
             ELSE IF creates # <<>> THEN IF Keeping THEN "keeping" ELSE "saving"
             ELSE IF mounted /\ showModal_Invalid THEN "asking"
             ELSE IF modalLoading > 0 \/ (mounted /\ polling > 0) THEN "validating"
             ELSE "editing",
    warned <- warningMessages

ImplementsSave == Save!Spec

-----------------------------------------------------------------------------
(* The fields the visits of this user can ask about, and users who do not    *)
(* fill in both e-mails and both phones.                                     *)
Askable == UNION {Filled(in) : in \in Inputs}

OnePairAskable == ~(DQ!Emails \union DQ!Phones \subseteq Askable)
=============================================================================
