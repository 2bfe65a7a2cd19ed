---------------------- MODULE ContactRecordDetailsProofs ----------------------
(***************************************************************************)
(* Proofs about ContactRecordDetails, for every set of texts and windows   *)
(* and any number of rounds and of answers that come late.                 *)
(***************************************************************************)
EXTENDS ContactRecordDetails, DQHostProofs, TLAPS

(* The answers of the server leave the popup alone, or open it with a        *)
(* message.                                                                  *)
LEMMA ServerAnswersPopup ==
  ASSUME ServerAnswers
  PROVE  UNCHANGED popup \/ errorMessages' = TRUE \/ warningMessages' = TRUE
<1>1. PICK i \in DOMAIN updates :
          \/ handleSuccess(i)
          \/ \E duplicates \in BOOLEAN : handleError(i, duplicates)
          \/ \E isSuccuss \in BOOLEAN : UpdateAnswer(i, isSuccuss)
          \/ UpdateRejected(i)
  BY DEF ServerAnswers
<1>2. CASE \E duplicates \in BOOLEAN : handleError(i, duplicates)
  BY <1>2 DEF handleError
<1>3. CASE \/ handleSuccess(i)
           \/ \E isSuccuss \in BOOLEAN : UpdateAnswer(i, isSuccuss)
           \/ UpdateRejected(i)
  BY <1>3 DEF handleSuccess, UpdateAnswer, UpdateRejected
<1> QED
  BY <1>1, <1>2, <1>3

(* The popup never outlives its messages: whoever takes the last message     *)
(* away closes it, and the icons that open it are there for a message.       *)
THEOREM PopupOfMessages == Spec => []PopupHasContent
<1>1. Init => PopupHasContent
  BY DEF Init, PopupHasContent
<1>2. PopupHasContent /\ [Next]_vars => PopupHasContent'
  <2> SUFFICES ASSUME PopupHasContent, [Next]_vars PROVE PopupHasContent'
    OBVIOUS
  <2>1. ASSUME UNCHANGED popup PROVE PopupHasContent'
    BY <2>1 DEF popup, PopupHasContent
  <2>2. CASE \/ \E text \in Inputs : EditInput(text)
             \/ StartRound \/ ChildAnswered \/ ChildAsks \/ ChildReports
             \/ AnswerYes \/ AnswerNo \/ editButton \/ UNCHANGED vars
    BY <2>1, <2>2 DEF EditInput, StartRound, ChildAnswered, ChildAsks,
       ChildReports, AnswerYes, AnswerNo, editButton, formVars, vars
  <2>3. ASSUME NEW valid \in BOOLEAN, validateFields(valid) PROVE PopupHasContent'
    BY <2>3 DEF validateFields, PopupHasContent
  <2>4. CASE callSaveAndNewButton
    <3>1. \/ isErrorPopup' = FALSE
          \/ UNCHANGED <<isErrorPopup, errorMessages, warningMessages>>
      BY <2>4 DEF callSaveAndNewButton, updateContact
    <3> QED
      BY <3>1 DEF PopupHasContent
  <2>5. CASE handleContinueToSave
    BY <2>5 DEF handleContinueToSave, updateContact, PopupHasContent
  <2>6. CASE ServerAnswers
    BY <2>1, <2>6, ServerAnswersPopup DEF PopupHasContent
  <2>7. CASE handleVisibilityOfErrorPopup
    BY <2>7 DEF handleVisibilityOfErrorPopup, PopupHasContent
  <2>8. CASE cancelEdit
    BY <2>8 DEF cancelEdit, PopupHasContent
  <2> QED
    BY <2>2, <2>3, <2>4, <2>5, <2>6, <2>7, <2>8 DEF Next
<1> QED
  BY <1>1, <1>2, PTL DEF Spec
-----------------------------------------------------------------------------
(* Types.                                                                    *)

(* Every step of the form moves its instance by one of the steps DQHostProofs*)
(* knows; the round it starts is about a form it may submit.                 *)
FormInv == TypeOK /\ HostTyped

LEMMA FormStepsChild ==
  ASSUME FormInv, [Next]_vars
  PROVE  ChildStep
<1>1. ASSUME NEW valid \in BOOLEAN, validateFields(valid) PROVE ChildStep
  BY <1>1 DEF validateFields, RequestValidation, ChildStep
<1>2. CASE StartRound
  <2>1. [value |-> updatedContactDetail.text, asked |-> dqFieldsToValidate] \in ChildForms
    BY DEF FormInv, TypeOK, Details, ChildForms
  <2>2. Held(updatedContactDetail) \in Helds
    BY HeldTyped DEF FormInv, TypeOK, Details
  <2> QED
    BY <1>2, <2>1, <2>2 DEF StartRound, ChildStep
<1>3. CASE ChildAnswered \/ ChildReports \/ ChildAsks \/ AnswerYes \/ AnswerNo
  BY <1>3 DEF ChildAnswered, ChildReports, ChildAsks, AnswerYes, AnswerNo, ChildStep
<1>4. CASE \/ \E text \in Inputs : EditInput(text)
           \/ handleVisibilityOfErrorPopup \/ cancelEdit \/ editButton
           \/ handleContinueToSave \/ UNCHANGED vars
  BY <1>4 DEF EditInput, handleVisibilityOfErrorPopup, cancelEdit, editButton,
     handleContinueToSave, vars, ChildStep
<1>5. CASE callSaveAndNewButton
  BY <1>5 DEF callSaveAndNewButton, RequestValidation, ChildStep
<1>6. CASE ServerAnswers
  BY <1>6 DEF ServerAnswers, handleSuccess, handleError, UpdateAnswer, UpdateRejected,
     ChildStep
<1> QED
  BY <1>1, <1>2, <1>3, <1>4, <1>5, <1>6 DEF Next

(* TypeOK without the part of the child: the switches and the data.          *)
FlagTypes ==
    /\ isEditModalWindow \in BOOLEAN
    /\ isAddressChanged \in BOOLEAN
    /\ isUpdatedDQSystemRelatedFields \in BOOLEAN
    /\ isSaveAndNewButton \in BOOLEAN
    /\ isSpinner \in BOOLEAN
    /\ isErrorPopup \in BOOLEAN
    /\ errorMessages \in BOOLEAN
    /\ warningMessages \in BOOLEAN
    /\ modalLoading \in Nat
    /\ rejected \in BOOLEAN

DataTypes ==
    /\ contactRecordData \in [Fields -> Contents]
    /\ input \in [Fields -> Contents]
    /\ updatedAddressDetails \in Contents
    /\ updatedContactDetail \in Details
    /\ dqFieldsToValidate \subseteq Fields
    /\ whichButtonWasClicked \in {"null", "Save", "ContinueToSave"}
    /\ formInValidData \in DQ!Outcomes \union {"", "undefined"}
    /\ updates \in Seq(Records)
    /\ page \in {"edit", "view", "new", "closed", "reloaded"}

LEMMA SubmittedTyped ==
  ASSUME TypeOK
  PROVE  Submitted \in [Fields -> Contents] /\ Changed(Submitted) \subseteq Fields
BY DEF TypeOK, Submitted, Changed, Fields

LEMMA RequestTyped ==
  ASSUME TypeOK, RequestValidation
  PROVE  /\ updatedContactDetail' \in Details
         /\ dqFieldsToValidate' \subseteq Fields
         /\ isUpdatedDQSystemRelatedFields' \in BOOLEAN
         /\ modalLoading' \in Nat
<1>1. Unvalidated(Submitted) \in Details
  BY SubmittedTyped, NothingHeldTyped DEF Unvalidated, Details
<1>2. isAddressChanged \in BOOLEAN /\ modalLoading \in Nat
  BY DEF TypeOK
<1>3. modalLoading' \in Nat
  BY <1>2 DEF RequestValidation
<1> QED
  BY <1>1, <1>2, <1>3, SubmittedTyped DEF RequestValidation

LEMMA AppendTyped ==
  ASSUME NEW R, NEW s \in Seq(R), NEW e \in R
  PROVE  Append(s, e) \in Seq(R)
OBVIOUS

LEMMA UpdateTyped ==
  ASSUME TypeOK, HostTyped, updateContact
  PROVE  /\ updatedContactDetail' \in Details
         /\ isUpdatedDQSystemRelatedFields' \in BOOLEAN
         /\ isErrorPopup' = FALSE /\ rejected' = FALSE
         /\ updates' \in Seq(Records)
<1> DEFINE text == [updatedContactDetail.text EXCEPT !["Address"] =
                       IF isAddressChanged THEN updatedAddressDetails
                       ELSE contactRecordData["Address"]]
<1>1. text \in [Fields -> Contents]
  BY DEF TypeOK, Details, Fields
<1> DEFINE e == Sent("duplicate", text, Held(updatedContactDetail),
                     updatedContactDetail.outcome)
<1>2. Held(updatedContactDetail) \in Helds
  BY HeldTyped DEF TypeOK, Details
<1>3. e \in Records
  BY <1>1, <1>2 DEF Sent, Records, Helds, TypeOK, Details
<1>4. /\ updatedContactDetail' = [updatedContactDetail EXCEPT !.text = text]
      /\ isUpdatedDQSystemRelatedFields' = isAddressChanged
      /\ isErrorPopup' = FALSE /\ rejected' = FALSE
      /\ updates' = Append(updates, e)
  BY DEF updateContact
<1> HIDE DEF text, e
<1>5. updates' \in Seq(Records)
  BY <1>3, <1>4, AppendTyped DEF TypeOK
<1>6. updatedContactDetail' \in Details
  BY <1>1, <1>4 DEF TypeOK, Details
<1> QED
  BY <1>4, <1>5, <1>6 DEF TypeOK

LEMMA SaveTyped ==
  ASSUME FormInv, NEW outcome \in DQ!Outcomes, dqValidationCompleted(outcome)
  PROVE  /\ updatedContactDetail' \in Details
         /\ formInValidData' \in DQ!Outcomes
         /\ isSpinner' = TRUE
         /\ updates' \in Seq(Records)
<1>1. form.value \in [Fields -> Contents]
  BY DEF FormInv, TypeOK, DQ!TypeOK, ChildForms
<1>2. [status |-> status, verified |-> verified] \in Helds
  <2>1. DQ!Fields = Fields
    BY DEF DQ!Fields, DQ!Emails, DQ!Phones, Fields
  <2> QED
    BY <2>1 DEF FormInv, HostTyped, DQ!TypeOK, Helds
<1>3. ChildRecord(outcome) \in Records
  BY <1>1, <1>2 DEF ChildRecord, Sent, Records, Helds
<1>4. updates' = Append(updates, ChildRecord(outcome)) /\ updates \in Seq(Records)
  BY DEF dqValidationCompleted, saveData, FormInv, TypeOK
<1>5. ChildData(outcome) \in Details
  BY <1>1, NothingHeldTyped DEF ChildData, Details
<1> HIDE DEF Records
<1>6. updates' \in Seq(Records)
  BY <1>3, <1>4, AppendTyped
<1> QED
  BY <1>5, <1>6 DEF dqValidationCompleted, saveData

(* An answer of the server leaves a sequence of records.                     *)
LEMMA AnswerTyped ==
  ASSUME TypeOK, NEW i \in DOMAIN updates, updates' = RemoveAt(updates, i)
  PROVE  /\ updates' \in Seq(Records) /\ updates[i].text \in [Fields -> Contents]
         /\ ToSet(updates') \subseteq ToSet(updates) /\ updates[i] \in ToSet(updates)
         /\ updates # <<>>
<1>1. updates \in Seq(Records)
  BY DEF TypeOK
<1>2. /\ updates' \in Seq(ToSet(updates')) /\ ToSet(updates') \subseteq ToSet(updates)
      /\ ToSet(updates) \subseteq Records
  <2> HIDE DEF Records
  <2> QED
    BY <1>1, AnsweredElements, SeqOfOwn
<1>3. updates[i] \in ToSet(updates) /\ updates # <<>>
  BY DEF ToSet
<1>4. updates[i] \in Records
  BY <1>2, <1>3
<1>5. updates[i].text \in [Fields -> Contents]
  BY <1>4 DEF Records
<1> QED
  BY <1>2, <1>3, <1>5

LEMMA FlagTypesKept ==
  ASSUME FormInv, [Next]_vars
  PROVE  FlagTypes'
<1>0. FlagTypes
  BY DEF FormInv, TypeOK, FlagTypes
<1>1. CASE \E text \in Inputs : EditInput(text)
  BY <1>0, <1>1 DEF EditInput, FlagTypes, context, address, request, buttons, popup
<1>2. ASSUME NEW valid \in BOOLEAN, validateFields(valid) PROVE FlagTypes'
  <2>1. \/ isUpdatedDQSystemRelatedFields' \in BOOLEAN /\ modalLoading' \in Nat
           /\ isSpinner' = TRUE
        \/ UNCHANGED <<isUpdatedDQSystemRelatedFields, modalLoading, isSpinner>>
    BY <1>2, RequestTyped DEF validateFields, request, FormInv
  <2>2. /\ isErrorPopup' \in BOOLEAN /\ errorMessages' \in BOOLEAN
        /\ warningMessages' = FALSE
        /\ UNCHANGED <<context, address, isSaveAndNewButton, rejected>>
    BY <1>2 DEF validateFields
  <2> QED
    BY <1>0, <2>1, <2>2 DEF FlagTypes, context, address
<1>3. CASE callSaveAndNewButton
  <2>1. \/ /\ isUpdatedDQSystemRelatedFields' \in BOOLEAN
           /\ isErrorPopup' = FALSE /\ rejected' = FALSE /\ UNCHANGED modalLoading
        \/ /\ isUpdatedDQSystemRelatedFields' \in BOOLEAN /\ modalLoading' \in Nat
           /\ UNCHANGED <<isErrorPopup, rejected>>
    BY <1>3, RequestTyped, UpdateTyped DEF callSaveAndNewButton, FormInv
  <2>2. /\ isSpinner' = TRUE /\ isSaveAndNewButton' = TRUE
        /\ UNCHANGED <<context, address, errorMessages, warningMessages>>
    BY <1>3 DEF callSaveAndNewButton
  <2> QED
    BY <1>0, <2>1, <2>2 DEF FlagTypes, context, address
<1>4. CASE handleContinueToSave
  BY <1>0, <1>4, UpdateTyped DEF handleContinueToSave, FlagTypes, context, address, FormInv
<1>5. CASE StartRound
  <2>1. modalLoading' \in Nat
    BY <1>0, <1>5 DEF StartRound, FlagTypes
  <2> QED
    BY <1>0, <1>5, <2>1 DEF StartRound, FlagTypes, context, address, buttons, popup
<1>6. CASE ChildAnswered \/ ChildAsks
  BY <1>0, <1>6 DEF ChildAnswered, ChildAsks, FlagTypes, formVars, context, address,
     request, buttons, popup
<1>7. CASE ChildReports \/ AnswerNo
  <2>1. isSpinner' = TRUE
    BY <1>7 DEF ChildReports, AnswerNo, dqValidationCompleted, saveData
  <2> QED
    BY <1>0, <1>7, <2>1 DEF ChildReports, AnswerNo, FlagTypes, context, address, buttons,
       popup
<1>8. CASE AnswerYes
  BY <1>0, <1>8 DEF AnswerYes, closeDQPopupModal, FlagTypes, context, address, request,
     buttons, popup
<1>9. CASE ServerAnswers
  <2>1. /\ \/ UNCHANGED <<errorMessages, warningMessages, isErrorPopup>>
           \/ /\ isErrorPopup' = TRUE /\ warningMessages' \in {warningMessages, TRUE}
              /\ errorMessages' \in {errorMessages, TRUE}
        /\ isSpinner' \in {isSpinner, FALSE} /\ rejected' \in {rejected, TRUE}
    BY <1>9 DEF ServerAnswers, handleSuccess, handleError, UpdateAnswer, UpdateRejected,
       popup
  <2>2. UNCHANGED <<isEditModalWindow, address, isUpdatedDQSystemRelatedFields,
                    isSaveAndNewButton, modalLoading>>
    BY <1>9 DEF ServerAnswers, handleSuccess, handleError, UpdateAnswer, UpdateRejected,
       context, request, buttons
  <2> QED
    BY <1>0, <2>1, <2>2 DEF FlagTypes, address
<1>10. CASE handleVisibilityOfErrorPopup \/ cancelEdit \/ editButton
  BY <1>0, <1>10 DEF handleVisibilityOfErrorPopup, cancelEdit, editButton, FlagTypes,
     context, address, request, buttons, popup
<1>11. CASE UNCHANGED vars
  BY <1>0, <1>11 DEF vars, formVars, FlagTypes, context, address, request, buttons, popup
<1> QED
  BY <1>1, <1>2, <1>3, <1>4, <1>5, <1>6, <1>7, <1>8, <1>9, <1>10, <1>11 DEF Next

LEMMA DataTypesKept ==
  ASSUME FormInv, [Next]_vars
  PROVE  DataTypes'
<1>0. DataTypes
  BY DEF FormInv, TypeOK, DataTypes
<1>1. CASE \E text \in Inputs : EditInput(text)
  <2>1. PICK text \in Inputs : EditInput(text)
    BY <1>1
  <2>2. text \in [Fields -> Contents] /\ text["Address"] \in Contents
    BY InputsAssumption DEF Fields
  <2> QED
    BY <1>0, <2>1, <2>2 DEF EditInput, DataTypes, context, address, request, buttons
<1>2. ASSUME NEW valid \in BOOLEAN, validateFields(valid) PROVE DataTypes'
  <2>1. \/ RequestValidation /\ whichButtonWasClicked' = "Save"
        \/ UNCHANGED <<request, whichButtonWasClicked>>
    BY <1>2 DEF validateFields
  <2>2. UNCHANGED <<context, input, address, formInValidData, updates, page>>
    BY <1>2 DEF validateFields
  <2> QED
    BY <1>0, <2>1, <2>2, RequestTyped DEF DataTypes, context, address, request, FormInv
<1>3. CASE callSaveAndNewButton
  <2>1. \/ updateContact /\ UNCHANGED dqFieldsToValidate
        \/ RequestValidation /\ UNCHANGED updates
    BY <1>3 DEF callSaveAndNewButton
  <2>2. UNCHANGED <<context, input, address, whichButtonWasClicked, formInValidData, page>>
    BY <1>3 DEF callSaveAndNewButton
  <2> QED
    BY <1>0, <2>1, <2>2, RequestTyped, UpdateTyped DEF DataTypes, context, address, FormInv
<1>4. CASE handleContinueToSave
  BY <1>0, <1>4, UpdateTyped DEF handleContinueToSave, DataTypes, context, address, FormInv
<1>5. CASE StartRound
  <2>1. updatedContactDetail' \in Details
    BY <1>5, HeldTyped DEF StartRound, FormInv, TypeOK, Details
  <2> QED
    BY <1>0, <1>5, <2>1 DEF StartRound, DataTypes, context, address, buttons
<1>6. CASE ChildAnswered \/ ChildAsks
  BY <1>0, <1>6 DEF ChildAnswered, ChildAsks, DataTypes, formVars, context, address,
     request, buttons
<1>7. CASE ChildReports \/ AnswerNo
  <2>1. PICK outcome \in DQ!Outcomes : dqValidationCompleted(outcome)
    BY <1>7 DEF ChildReports, AnswerNo, DQ!Outcomes
  <2>2. UNCHANGED <<context, input, address, dqFieldsToValidate, buttons, page>>
    BY <1>7 DEF ChildReports, AnswerNo
  <2> QED
    BY <1>0, <2>1, <2>2, SaveTyped DEF DataTypes, context, address, buttons
<1>8. CASE AnswerYes
  BY <1>0, <1>8 DEF AnswerYes, DataTypes, context, address, request, buttons
<1>9. CASE ServerAnswers
  <2>1. PICK i \in DOMAIN updates :
            \/ handleSuccess(i)
            \/ \E duplicates \in BOOLEAN : handleError(i, duplicates)
            \/ \E isSuccuss \in BOOLEAN : UpdateAnswer(i, isSuccuss)
            \/ UpdateRejected(i)
    BY <1>9 DEF ServerAnswers
  <2>2. updates' = RemoveAt(updates, i)
    BY <2>1 DEF handleSuccess, handleError, UpdateAnswer, UpdateRejected
  <2>3. updates' \in Seq(Records) /\ updates[i].text \in [Fields -> Contents]
    BY <2>2, AnswerTyped DEF FormInv
  <2>4. CASE handleSuccess(i)
    <3>1. Unvalidated(Nothing) \in Details
      BY NothingHeldTyped DEF Unvalidated, Details, Nothing, Contents
    <3> QED
      BY <1>0, <2>3, <2>4, <3>1 DEF handleSuccess, Leave, DataTypes, address
  <2>5. CASE \/ \E duplicates \in BOOLEAN : handleError(i, duplicates)
             \/ UpdateRejected(i)
    BY <1>0, <2>3, <2>5 DEF handleError, UpdateRejected, DataTypes, context, address,
       request, buttons
  <2>6. CASE \E isSuccuss \in BOOLEAN : UpdateAnswer(i, isSuccuss)
    <3>1. /\ contactRecordData' \in {contactRecordData, updates[i].text}
          /\ page' \in {page, "new", "reloaded"}
      BY <2>6 DEF UpdateAnswer
    <3>2. UNCHANGED <<input, address, request, buttons, formInValidData>>
      BY <2>6 DEF UpdateAnswer
    <3> QED
      BY <1>0, <2>3, <3>1, <3>2 DEF DataTypes, address, request, buttons
  <2> QED
    BY <2>1, <2>4, <2>5, <2>6
<1>10. CASE handleVisibilityOfErrorPopup \/ cancelEdit \/ editButton
  BY <1>0, <1>10 DEF handleVisibilityOfErrorPopup, cancelEdit, editButton, DataTypes,
     context, address, request, buttons
<1>11. CASE UNCHANGED vars
  BY <1>0, <1>11 DEF vars, formVars, DataTypes, context, address, request, buttons
<1> QED
  BY <1>1, <1>2, <1>3, <1>4, <1>5, <1>6, <1>7, <1>8, <1>9, <1>10, <1>11 DEF Next

LEMMA FormInvHolds == Spec => []FormInv
<1>1. Init => FormInv
  <2> SUFFICES ASSUME Init PROVE FormInv
    OBVIOUS
  <2>1. HostTyped
    BY NoChildTyped DEF Init
  <2>2. updates \in Seq(Records)
    BY DEF Init
  <2>3. Unvalidated(Nothing) \in Details
    BY NothingHeldTyped DEF Unvalidated, Details, Nothing, Contents
  <2> QED
    BY <2>1, <2>2, <2>3, StoredAssumption, WindowsAssumption
    DEF Init, FormInv, TypeOK, HostTyped, Contents
<1>2. FormInv /\ [Next]_vars => FormInv'
  <2> SUFFICES ASSUME FormInv, [Next]_vars PROVE FormInv'
    OBVIOUS
  <2>1. HostTyped'
    BY FormStepsChild, ChildStepTyped DEF FormInv
  <2> QED
    BY <2>1, FlagTypesKept, DataTypesKept
    DEF FormInv, TypeOK, FlagTypes, DataTypes, HostTyped
<1> QED
  BY <1>1, <1>2, PTL DEF Spec

(* The form's state and the child's have the types they are read with.       *)
THEOREM FormTypeCorrect == Spec => []TypeOK
<1>1. FormInv => TypeOK
  BY DEF FormInv
<1> QED
  BY <1>1, FormInvHolds, PTL
-----------------------------------------------------------------------------
(* Rounds.                                                                   *)

(* The answers of the callouts leave the interval and the modal alone.       *)
LEMMA AnswersKeepRound ==
  ASSUME ChildSettles
  PROVE  UNCHANGED <<polling, mounted, showModal_Invalid, round, form>>
BY DEF ChildSettles, DQ!Settle, DQ!MetadataAnswer, DQ!MetadataRejected,
   DQ!EmailAnswer, DQ!EmailRejected, DQ!PhoneAnswer, DQ!PhoneRejected,
   DQ!AddressAnswer, DQ!AddressRejected, DQ!display

(* What an answer of the server does.                                        *)
LEMMA ServerAnswersOne ==
  ASSUME ServerAnswers
  PROVE  \E i \in DOMAIN updates :
            /\ \/ handleSuccess(i)
               \/ \E duplicates \in BOOLEAN : handleError(i, duplicates)
               \/ \E isSuccuss \in BOOLEAN : UpdateAnswer(i, isSuccuss)
               \/ UpdateRejected(i)
            /\ updates' = RemoveAt(updates, i) /\ updates # <<>>
            /\ UNCHANGED <<childVars, modalLoading, input, verified>>
<1>1. PICK i \in DOMAIN updates :
          \/ handleSuccess(i)
          \/ \E duplicates \in BOOLEAN : handleError(i, duplicates)
          \/ \E isSuccuss \in BOOLEAN : UpdateAnswer(i, isSuccuss)
          \/ UpdateRejected(i)
  BY DEF ServerAnswers
<1>2. updates # <<>>
  OBVIOUS
<1>3. /\ updates' = RemoveAt(updates, i)
      /\ UNCHANGED <<childVars, modalLoading, input, verified>>
  BY <1>1 DEF handleSuccess, handleError, UpdateAnswer, UpdateRejected
<1> QED
  BY <1>1, <1>2, <1>3

(* Only the interval that waits for the component starts a round.            *)
LEMMA OnlyStartRound ==
  ASSUME [Next]_vars, round' # round
  PROVE  StartRound
<1>1. CASE \E valid \in BOOLEAN : validateFields(valid)
  BY <1>1 DEF validateFields, RequestValidation, MountChild, childVars
<1>2. CASE callSaveAndNewButton
  BY <1>2 DEF callSaveAndNewButton, RequestValidation, MountChild, childVars
<1>3. CASE ChildAnswered
  BY <1>3, AnswersKeepRound DEF ChildAnswered
<1>4. CASE ServerAnswers
  BY <1>4, ServerAnswersOne DEF childVars
<1>5. CASE \/ \E text \in Inputs : EditInput(text)
           \/ handleVisibilityOfErrorPopup \/ cancelEdit \/ editButton
           \/ handleContinueToSave \/ UNCHANGED vars
  BY <1>5 DEF EditInput, handleVisibilityOfErrorPopup, cancelEdit, editButton,
     handleContinueToSave, vars, childVars
<1>6. CASE ChildReports \/ ChildAsks \/ AnswerYes \/ AnswerNo
  BY <1>6 DEF ChildReports, ChildAsks, AnswerYes, AnswerNo, DQ!PollValid,
     DQ!PollException, DQ!PollInvalid, DQ!handleYes, DQ!handleNo, DQ!CloseModal
<1> QED
  BY <1>1, <1>2, <1>3, <1>4, <1>5, <1>6 DEF Next

(* The form waits for the child, or the child validates.                     *)
RoundOn == modalLoading > 0 \/ (mounted /\ polling > 0)

(* One record is on its way at a time, under the spinner of the open form;   *)
(* and Continue to Save is not what the form remembers of a save that is     *)
(* validated, or was sent after a validation.                                *)
UpdateInv ==
    /\ Len(updates) <= 1
    /\ SpinnerCoversUpdate
    /\ RoundOn => whichButtonWasClicked # "ContinueToSave"
    /\ (\E s \in ToSet(updates) : s.kind = "form")
          => whichButtonWasClicked # "ContinueToSave"

LEMMA IdleHasNone ==
  ASSUME UpdateInv, CanUseForm \/ page = "view"
  PROVE  updates = <<>>
BY DEF UpdateInv, SpinnerCoversUpdate, CanUseForm

(* A round is on from the click of Save until the report or the user's       *)
(* answer.  The spinner covers the form all that time and nothing is on its  *)
(* way to the server; a round that waits for the component finds it idle,    *)
(* and its data are not the child's yet, so that it starts without statuses. *)
RoundInv ==
    /\ RoundOn => isSpinner = TRUE /\ updates = <<>> /\ page = "edit"
    /\ modalLoading > 0 => /\ mounted /\ polling = 0 /\ ~showModal_Invalid
                           /\ updatedContactDetail.checked = FALSE
    /\ modalLoading <= 1 /\ polling <= 1
    /\ updatedContactDetail.held = NothingHeld

LEMMA CountsTyped ==
  ASSUME FormInv
  PROVE  modalLoading \in Nat /\ polling \in Nat
BY DEF FormInv, TypeOK, DQ!TypeOK

(* A form that can be used is not in a round.                                *)
LEMMA UsableIsIdle ==
  ASSUME RoundInv, CanUseForm
  PROVE  ~RoundOn /\ page = "edit" /\ ~isSpinner /\ ~(mounted /\ showModal_Invalid)
BY DEF RoundInv, CanUseForm

(* A click of Save begins a round on an idle instance.                       *)
LEMMA RequestRound ==
  ASSUME FormInv, RoundInv, CanUseForm, RequestValidation
  PROVE  /\ modalLoading' = 1 /\ mounted' /\ polling' = 0 /\ ~showModal_Invalid'
         /\ updatedContactDetail' = Unvalidated(Submitted)
<1>0. modalLoading = 0 /\ (mounted => polling = 0)
  BY UsableIsIdle, CountsTyped DEF RoundOn
<1>1. CASE mounted
  BY <1>0, <1>1, UsableIsIdle DEF RequestValidation, MountChild
<1>2. CASE ~mounted
  BY <1>0, <1>2 DEF RequestValidation, MountChild, NewChild
<1> QED
  BY <1>1, <1>2 DEF RequestValidation

(* Data that are not the child's are sent to the server as they are.         *)
LEMMA DuplicateKeepsHeld ==
  ASSUME TypeOK, updateContact
  PROVE  /\ updatedContactDetail'.checked = updatedContactDetail.checked
         /\ updatedContactDetail'.held = updatedContactDetail.held
         /\ updatedContactDetail'.outcome = updatedContactDetail.outcome
BY DEF TypeOK, Details, updateContact

(* A round starts without statuses.                                          *)
LEMMA StartsUnvalidated ==
  ASSUME FormInv, RoundInv, StartRound
  PROVE  /\ modalLoading = 1 /\ modalLoading' = 0 /\ polling' = 1
         /\ form' = [value |-> updatedContactDetail.text, asked |-> dqFieldsToValidate]
         /\ status' = NothingHeld.status /\ verified' = NothingHeld.verified
         /\ UNCHANGED <<updatedContactDetail, mounted, showModal_Invalid>>
<1>1. Held(updatedContactDetail) = NothingHeld /\ updatedContactDetail \in Details
  BY DEF RoundInv, StartRound, Held, FormInv, TypeOK
<1>2. updatedContactDetail' = updatedContactDetail
  BY <1>1 DEF StartRound, RoundInv, Details
<1>3. modalLoading = 1 /\ modalLoading' = 0 /\ polling' = 1
  <2>1. modalLoading \in Nat /\ modalLoading > 0 /\ modalLoading <= 1 /\ polling = 0
    BY CountsTyped DEF StartRound, RoundInv
  <2>2. modalLoading' = modalLoading - 1 /\ polling' = polling + 1
    BY DEF StartRound, StartChild, DQ!validateDQServices
  <2> QED
    BY <2>1, <2>2
<1> QED
  BY <1>1, <1>2, <1>3 DEF StartRound, StartChild, DQ!validateDQServices, DQ!display

LEMMA RoundInvKept ==
  ASSUME FormInv, RoundInv, UpdateInv, [Next]_vars
  PROVE  RoundInv'
<1>1. ASSUME UNCHANGED <<polling, mounted, modalLoading>>, CanUseForm,
             updatedContactDetail'.held = updatedContactDetail.held
      PROVE  RoundInv'
  BY <1>1, UsableIsIdle DEF RoundInv, RoundOn
<1>2. CASE \/ \E text \in Inputs : EditInput(text)
           \/ handleVisibilityOfErrorPopup \/ cancelEdit
  BY <1>1, <1>2 DEF EditInput, handleVisibilityOfErrorPopup, cancelEdit, request, childVars
<1>3. CASE handleContinueToSave
  BY <1>1, <1>3, DuplicateKeepsHeld DEF handleContinueToSave, childVars, FormInv
<1>4. ASSUME CanUseForm, RequestValidation, isSpinner' = TRUE, UNCHANGED <<updates, page>>
      PROVE  RoundInv'
  <2>1. updates = <<>> /\ page = "edit"
    BY <1>4, IdleHasNone DEF CanUseForm
  <2>2. /\ modalLoading' = 1 /\ mounted' /\ polling' = 0 /\ ~showModal_Invalid'
        /\ updatedContactDetail' = Unvalidated(Submitted)
    BY <1>4, RequestRound
  <2>3. /\ updatedContactDetail'.held = NothingHeld
        /\ updatedContactDetail'.checked = FALSE
    BY <2>2 DEF Unvalidated
  <2> QED
    BY <1>4, <2>1, <2>2, <2>3 DEF RoundInv
<1>5. ASSUME NEW valid \in BOOLEAN, validateFields(valid) PROVE RoundInv'
  <2>1. CASE ~valid
    BY <1>1, <1>5, <2>1 DEF validateFields, MaySave, childVars, request
  <2>2. CASE valid
    BY <1>4, <1>5, <2>2 DEF validateFields, MaySave
  <2> QED
    BY <2>1, <2>2
<1>6. CASE callSaveAndNewButton
  <2>1. /\ CanUseForm /\ isSpinner' = TRUE /\ UNCHANGED page
        /\ \/ updateContact /\ UNCHANGED <<childVars, modalLoading>>
           \/ RequestValidation /\ UNCHANGED updates
    BY <1>6 DEF callSaveAndNewButton, MaySave
  <2> QED
    BY <1>1, <1>4, <2>1, DuplicateKeepsHeld DEF childVars, FormInv
<1>7. CASE StartRound
  <2>1. UNCHANGED <<isSpinner, updates, page>> /\ modalLoading > 0
    BY <1>7 DEF StartRound
  <2>2. /\ modalLoading' = 0 /\ polling' = 1
        /\ UNCHANGED <<updatedContactDetail, mounted, showModal_Invalid>>
    BY <1>7, StartsUnvalidated
  <2> QED
    BY <2>1, <2>2 DEF RoundInv, RoundOn
<1>8. CASE ChildAnswered
  BY <1>8, AnswersKeepRound DEF ChildAnswered, formVars, request, RoundInv, RoundOn
<1>9. CASE ChildReports
  <2>1. mounted /\ polling = 1 /\ polling' = 0 /\ modalLoading' = modalLoading
    <3>1. /\ mounted /\ polling > 0 /\ polling' = polling - 1
          /\ modalLoading' = modalLoading
      BY <1>9 DEF ChildReports, DQ!PollValid, DQ!PollException
    <3> QED
      BY <3>1, CountsTyped DEF RoundInv
  <2>2. updatedContactDetail'.held = NothingHeld
    BY <1>9 DEF ChildReports, dqValidationCompleted, ChildData
  <2> QED
    BY <2>1, <2>2 DEF RoundInv, RoundOn
<1>10. CASE ChildAsks
  <2>1. /\ mounted /\ polling > 0
        /\ UNCHANGED <<polling, mounted, modalLoading, isSpinner, updates, page,
                       updatedContactDetail>>
    BY <1>10 DEF ChildAsks, DQ!PollInvalid, formVars, request
  <2> QED
    BY <2>1 DEF RoundInv, RoundOn
<1>11. CASE AnswerYes \/ AnswerNo
  <2>1. showModal_Invalid /\ ~mounted' /\ modalLoading' = modalLoading /\ polling' = polling
    BY <1>11 DEF AnswerYes, AnswerNo, DQ!handleYes, DQ!handleNo, DQ!CloseModal
  <2>2. /\ updatedContactDetail'.held = NothingHeld
        /\ ~(modalLoading > 0)
    BY <1>11, <2>1 DEF AnswerYes, AnswerNo, dqValidationCompleted, ChildData, request, RoundInv
  <2> QED
    BY <2>1, <2>2 DEF RoundInv, RoundOn
<1>12. CASE ServerAnswers
  <2>1. PICK i \in DOMAIN updates :
            /\ \/ handleSuccess(i)
               \/ \E duplicates \in BOOLEAN : handleError(i, duplicates)
               \/ \E isSuccuss \in BOOLEAN : UpdateAnswer(i, isSuccuss)
               \/ UpdateRejected(i)
            /\ updates # <<>> /\ UNCHANGED <<childVars, modalLoading>>
    BY <1>12, ServerAnswersOne
  <2>2. updatedContactDetail' \in {updatedContactDetail, Unvalidated(Nothing)}
    BY <2>1 DEF handleSuccess, handleError, UpdateAnswer, UpdateRejected, request
  <2>3. updatedContactDetail'.held = NothingHeld
    BY <2>2 DEF Unvalidated, RoundInv
  <2> QED
    BY <2>1, <2>3 DEF RoundInv, RoundOn, childVars
<1>13. CASE editButton
  BY <1>13 DEF editButton, RoundInv, RoundOn, childVars, request
<1>14. CASE UNCHANGED vars
  BY <1>14 DEF vars, childVars, formVars, request, RoundInv, RoundOn
<1> QED
  BY <1>2, <1>3, <1>5, <1>6, <1>7, <1>8, <1>9, <1>10, <1>11, <1>12, <1>13, <1>14 DEF Next
-----------------------------------------------------------------------------
(* A form that is saved after the callouts have settled.                     *)
PromptForm == HostPrompt /\ (modalLoading > 0 => inFlight = {})

LEMMA PromptFormKept ==
  ASSUME MaxLate = 0, FormInv, RoundInv, PromptForm, [Next]_vars
  PROVE  PromptForm'
<1>1. round' # round => inFlight = {} /\ VerifiedInv'
  <2>1. SUFFICES ASSUME StartRound PROVE inFlight = {} /\ VerifiedInv'
    BY OnlyStartRound
  <2>2. \A f \in Fields : status'[f] = "unset"
    BY <2>1, StartsUnvalidated DEF NothingHeld
  <2> QED
    BY <2>1, <2>2 DEF StartRound, PromptForm, VerifiedInv, DQ!Statuses
<1>2. HostPrompt'
  BY <1>1, FormStepsChild, ChildStepPrompt DEF PromptForm, FormInv
<1>3. ASSUME modalLoading' > 0, ~(modalLoading > 0) PROVE inFlight' = {}
  <2>1. MaySave /\ RequestValidation
    BY <1>3, ServerAnswersOne DEF Next, EditInput, validateFields, callSaveAndNewButton,
       handleContinueToSave, StartRound, ChildAnswered, ChildReports, ChildAsks,
       AnswerYes, AnswerNo, handleVisibilityOfErrorPopup, cancelEdit, editButton, vars,
       formVars
  <2>2. /\ mounted => Cardinality(inFlight) <= 0
        /\ MountChild
    BY <2>1 DEF MaySave, RequestValidation
  <2> QED
    BY <2>2, NoneOut DEF MountChild, NewChild, PromptForm
<1>4. ASSUME modalLoading' > 0, modalLoading > 0 PROVE inFlight' = {}
  <2>1. ~StartRound /\ ~ChildAnswered
    BY <1>4, StartsUnvalidated DEF ChildAnswered, ChildSettles, PromptForm
  <2>2. UNCHANGED inFlight \/ MountChild
    BY <2>1, ServerAnswersOne DEF Next, EditInput, validateFields, callSaveAndNewButton,
       RequestValidation, handleContinueToSave, ChildReports, DQ!PollValid,
       DQ!PollException, ChildAsks, DQ!PollInvalid, AnswerYes, AnswerNo, DQ!handleYes,
       DQ!handleNo, DQ!CloseModal, handleVisibilityOfErrorPopup, cancelEdit, editButton,
       vars, childVars
  <2> QED
    BY <1>4, <2>2 DEF PromptForm, MountChild, NewChild
<1> QED
  BY <1>2, <1>3, <1>4 DEF PromptForm
-----------------------------------------------------------------------------
(* The records on their way.                                                 *)

(* What Continue to Save, and the Save & New after one, send.                *)
DuplicateText == [updatedContactDetail.text EXCEPT !["Address"] =
                     IF isAddressChanged THEN updatedAddressDetails
                     ELSE contactRecordData["Address"]]

DuplicateRecord == Sent("duplicate", DuplicateText, Held(updatedContactDetail),
                        updatedContactDetail.outcome)

(* One step sends at most one record, or takes one that was answered.        *)
LEMMA UpdatesStep ==
  ASSUME [Next]_vars
  PROVE  \/ UNCHANGED updates
         \/ ServerAnswers
         \/ \E outcome \in DQ!Outcomes :
               /\ \/ ChildReports /\ (outcome = "DQ_CALLOUT" => DQ!PollValid)
                  \/ AnswerNo /\ outcome = "invalidData"
               /\ dqValidationCompleted(outcome)
               /\ updates' = Append(updates, ChildRecord(outcome))
         \/ /\ handleContinueToSave
               \/ (callSaveAndNewButton /\ whichButtonWasClicked = "ContinueToSave")
            /\ updateContact /\ CanUseForm
            /\ updates' = Append(updates, DuplicateRecord)
<1>1. CASE ChildReports \/ AnswerNo
  <2>1. ASSUME NEW outcome, dqValidationCompleted(outcome)
        PROVE  updates' = Append(updates, ChildRecord(outcome))
    BY <2>1 DEF dqValidationCompleted, saveData
  <2>2. \E outcome \in DQ!Outcomes :
            /\ \/ ChildReports /\ (outcome = "DQ_CALLOUT" => DQ!PollValid)
               \/ AnswerNo /\ outcome = "invalidData"
            /\ dqValidationCompleted(outcome)
    <3>1. DQ!Outcomes = {"DQ_CALLOUT", "APIException", "invalidData"}
      BY DEF DQ!Outcomes
    <3>2. CASE ChildReports
      BY <3>1, <3>2 DEF ChildReports
    <3>3. CASE AnswerNo
      BY <3>1, <3>3 DEF AnswerNo
    <3> QED
      BY <1>1, <3>2, <3>3
  <2> QED
    BY <2>1, <2>2
<1>2. ASSUME updateContact PROVE updates' = Append(updates, DuplicateRecord)
  BY <1>2 DEF updateContact, DuplicateRecord, DuplicateText
<1>3. CASE handleContinueToSave
  BY <1>2, <1>3 DEF handleContinueToSave
<1>4. CASE callSaveAndNewButton
  BY <1>2, <1>4 DEF callSaveAndNewButton, MaySave
<1> QED
  BY <1>1, <1>3, <1>4 DEF Next, EditInput, validateFields, StartRound, ChildAnswered,
     ChildAsks, AnswerYes, handleVisibilityOfErrorPopup, cancelEdit, editButton, vars,
     formVars

(* A record that is sent joins those on their way.                           *)
LEMMA SentJoins ==
  ASSUME TypeOK, NEW e, updates' = Append(updates, e)
  PROVE  ToSet(updates') \subseteq ToSet(updates) \union {e}
<1>1. updates \in Seq(Records)
  BY DEF TypeOK
<1> HIDE DEF Records
<1> QED
  BY <1>1, SentElements

LEMMA ServerAnswersFewer ==
  ASSUME TypeOK, ServerAnswers
  PROVE  ToSet(updates') \subseteq ToSet(updates)
BY ServerAnswersOne, AnswerTyped
-----------------------------------------------------------------------------
(* One record at a time, for users who do not change both e-mails and both   *)
(* phones in one save.                                                       *)

(* The text is one of those, but for the address.                            *)
Known(text) == \E k \in Stored \union Inputs : \A f \in Pairs : text[f] = k[f]

KnownInv ==
    /\ page \in {"edit", "view"} => Known(contactRecordData) /\ Known(input)
    /\ modalLoading > 0 => Known(updatedContactDetail.text)
    /\ mounted /\ polling > 0 => Known(form.value)
    /\ \A s \in ToSet(updates) : s.kind = "form" => Known(s.text)

(* No round is about all four fields.                                        *)
AskedInv == ~(Pairs \subseteq dqFieldsToValidate) /\ ~(Pairs \subseteq form.asked)

(* A question is part of a round.                                            *)
LEMMA AskingIsRound ==
  ASSUME DQP!ModalFirm, mounted, showModal_Invalid
  PROVE  mounted /\ polling > 0 /\ RoundOn
BY DEF DQP!ModalFirm, RoundOn

LEMMA SubmittedKnown ==
  ASSUME TypeOK, Known(input)
  PROVE  Known(Submitted)
<1>1. \A f \in Pairs : Submitted[f] = input[f]
  BY DEF TypeOK, Submitted, Pairs, DQ!Emails, DQ!Phones, Fields
<1> QED
  BY <1>1 DEF Known

LEMMA OnePairAsked ==
  ASSUME TypeOK, OnePairChanges, Known(input), Known(contactRecordData)
  PROVE  ~(Pairs \subseteq Changed(Submitted))
<1>1. PICK text \in Stored \union Inputs : \A f \in Pairs : Submitted[f] = text[f]
  BY SubmittedKnown DEF Known
<1>2. PICK stored \in Stored \union Inputs : \A f \in Pairs : contactRecordData[f] = stored[f]
  BY DEF Known
<1>3. PICK f \in Pairs : text[f] \notin Texts \/ text[f] = stored[f]
  BY DEF OnePairChanges
<1> QED
  BY <1>1, <1>2, <1>3 DEF Changed

LEMMA AskedKept ==
  ASSUME FormInv, OnePairChanges, KnownInv, AskedInv, [Next]_vars
  PROVE  AskedInv'
<1>1. ASSUME UNCHANGED form, dqFieldsToValidate' \in {dqFieldsToValidate, {}} PROVE AskedInv'
  BY <1>1 DEF AskedInv, Pairs, DQ!Emails
<1>2. ASSUME RequestValidation, CanUseForm PROVE AskedInv'
  <2>1. UNCHANGED form /\ dqFieldsToValidate' = Changed(Submitted)
    BY <1>2 DEF RequestValidation, MountChild
  <2>2. ~(Pairs \subseteq Changed(Submitted))
    BY <1>2, OnePairAsked DEF KnownInv, CanUseForm, FormInv
  <2> QED
    BY <2>1, <2>2 DEF AskedInv
<1>3. CASE StartRound
  <2>1. form'.asked = dqFieldsToValidate /\ UNCHANGED dqFieldsToValidate
    BY <1>3 DEF StartRound, StartChild, DQ!validateDQServices
  <2> QED
    BY <2>1 DEF AskedInv
<1>4. CASE ChildAnswered
  BY <1>1, <1>4, AnswersKeepRound DEF ChildAnswered, formVars, request
<1>5. CASE ChildReports \/ ChildAsks \/ AnswerYes \/ AnswerNo
  BY <1>1, <1>5 DEF ChildReports, DQ!PollValid, DQ!PollException, ChildAsks,
     DQ!PollInvalid, AnswerYes, AnswerNo, DQ!handleYes, DQ!handleNo, DQ!CloseModal,
     formVars, request
<1>6. CASE ServerAnswers
  BY <1>1, <1>6 DEF ServerAnswers, handleSuccess, handleError, UpdateAnswer,
     UpdateRejected, childVars, request
<1>7. CASE callSaveAndNewButton \/ \E valid \in BOOLEAN : validateFields(valid)
  <2>1. \/ RequestValidation /\ CanUseForm
        \/ UNCHANGED <<form, dqFieldsToValidate>>
    BY <1>7 DEF callSaveAndNewButton, validateFields, MaySave, childVars, request
  <2> QED
    BY <1>1, <1>2, <2>1
<1>8. CASE \/ \E text \in Inputs : EditInput(text)
           \/ handleContinueToSave \/ handleVisibilityOfErrorPopup \/ cancelEdit
           \/ editButton \/ UNCHANGED vars
  BY <1>1, <1>8 DEF EditInput, handleContinueToSave, handleVisibilityOfErrorPopup,
     cancelEdit, editButton, vars, formVars, childVars, request
<1> QED
  BY <1>3, <1>4, <1>5, <1>6, <1>7, <1>8 DEF Next

LEMMA KnownRecords ==
  ASSUME FormInv, RoundInv, DQP!ModalFirm, KnownInv, [Next]_vars,
         NEW s \in ToSet(updates'), s.kind = "form"
  PROVE  Known(s.text)
<1>1. ASSUME s \in ToSet(updates) PROVE Known(s.text)
  BY <1>1 DEF KnownInv
<1>2. CASE ServerAnswers
  BY <1>1, <1>2, ServerAnswersFewer DEF FormInv
<1>3. ASSUME NEW outcome, updates' = Append(updates, ChildRecord(outcome)),
             ChildReports \/ AnswerNo
      PROVE  Known(s.text)
  <2>1. mounted /\ polling > 0
    BY <1>3, AskingIsRound DEF ChildReports, AnswerNo, DQ!PollValid, DQ!PollException,
       DQ!handleNo, DQ!CloseModal
  <2>2. Known(ChildRecord(outcome).text)
    BY <2>1 DEF KnownInv, ChildRecord, Sent
  <2> QED
    BY <1>1, <1>3, <2>2, SentJoins DEF FormInv
<1>4. ASSUME updates' = Append(updates, DuplicateRecord) PROVE Known(s.text)
  <2>1. DuplicateRecord.kind # "form"
    BY DEF DuplicateRecord, Sent
  <2> QED
    BY <1>1, <1>4, <2>1, SentJoins DEF FormInv
<1> QED
  BY <1>1, <1>2, <1>3, <1>4, UpdatesStep

LEMMA KnownPage ==
  ASSUME FormInv, KnownInv, [Next]_vars, page' \in {"edit", "view"}
  PROVE  Known(contactRecordData') /\ Known(input')
<1>1. ASSUME UNCHANGED <<context, input, page>> PROVE Known(contactRecordData') /\ Known(input')
  BY <1>1 DEF KnownInv, context
<1>2. ASSUME NEW text \in Inputs, EditInput(text)
      PROVE  Known(contactRecordData') /\ Known(input')
  <2>1. Known(text)
    BY DEF Known
  <2> QED
    BY <1>2, <2>1 DEF EditInput, CanUseForm, KnownInv, context
<1>3. CASE cancelEdit \/ editButton
  BY <1>3 DEF cancelEdit, editButton, CanUseForm, KnownInv, context
<1>4. CASE ServerAnswers
  <2>1. PICK i \in DOMAIN updates :
            /\ \/ handleSuccess(i)
               \/ \E duplicates \in BOOLEAN : handleError(i, duplicates)
               \/ \E isSuccuss \in BOOLEAN : UpdateAnswer(i, isSuccuss)
               \/ UpdateRejected(i)
            /\ UNCHANGED input
    BY <1>4, ServerAnswersOne
  <2>2. page \in {"edit", "view"}
    BY <1>4 DEF ServerAnswers, Alive
  <2>3. CASE handleSuccess(i)
    <3>1. updates[i] \in ToSet(updates) /\ updates[i].kind = "form"
      BY <2>3 DEF handleSuccess, ToSet
    <3> QED
      BY <2>1, <2>2, <2>3, <3>1 DEF handleSuccess, KnownInv
  <2>4. CASE \E isSuccuss \in BOOLEAN : UpdateAnswer(i, isSuccuss)
    <3>1. UNCHANGED <<contactRecordData, page>>
      BY <2>4 DEF UpdateAnswer
    <3> QED
      BY <2>1, <2>2, <3>1 DEF KnownInv
  <2> QED
    BY <1>1, <2>1, <2>3, <2>4 DEF handleError, UpdateRejected
<1> QED
  BY <1>1, <1>2, <1>3, <1>4 DEF Next, validateFields, callSaveAndNewButton,
     handleContinueToSave, StartRound, ChildAnswered, ChildReports, ChildAsks, AnswerYes,
     AnswerNo, handleVisibilityOfErrorPopup, vars, formVars

(* What a round that is on is about was known before the step, or it is the  *)
(* round the step asks for or starts.                                        *)
LEMMA RoundStep ==
  ASSUME FormInv, RoundInv, UpdateInv, [Next]_vars, RoundOn'
  PROVE  \/ /\ RequestValidation /\ CanUseForm /\ ~(mounted' /\ polling' > 0)
            /\ updates = <<>> /\ UNCHANGED contactRecordData
            /\ whichButtonWasClicked' # "ContinueToSave"
         \/ StartRound
         \/ /\ RoundOn
            /\ UNCHANGED <<modalLoading, mounted, polling, form, contactRecordData,
                           dqFieldsToValidate, updatedContactDetail, buttons>>
<1>1. CASE ChildAnswered \/ ChildAsks \/ UNCHANGED vars
  <2>1. UNCHANGED <<modalLoading, contactRecordData, dqFieldsToValidate,
                    updatedContactDetail, buttons>>
    BY <1>1 DEF ChildAnswered, ChildAsks, formVars, request, context, vars
  <2>2. UNCHANGED <<mounted, polling, form>>
    BY <1>1, AnswersKeepRound DEF ChildAnswered, ChildAsks, DQ!PollInvalid, vars, childVars
  <2>3. RoundOn
    BY <2>1, <2>2 DEF RoundOn
  <2> QED
    BY <2>1, <2>2, <2>3
<1>2. CASE ChildReports \/ AnswerYes \/ AnswerNo
  <2>1. ~RoundOn'
    <3>1. /\ modalLoading' = modalLoading
          /\ \/ mounted /\ polling > 0 /\ polling' = polling - 1
             \/ mounted /\ showModal_Invalid /\ ~mounted'
      BY <1>2 DEF ChildReports, AnswerYes, AnswerNo, DQ!PollValid, DQ!PollException,
         DQ!handleYes, DQ!handleNo, DQ!CloseModal
    <3>2. CASE mounted /\ polling > 0 /\ polling' = polling - 1
      BY <3>1, <3>2, CountsTyped DEF RoundInv, RoundOn
    <3>3. CASE mounted /\ showModal_Invalid /\ ~mounted'
      BY <3>1, <3>3 DEF RoundInv, RoundOn
    <3> QED
      BY <3>1, <3>2, <3>3
  <2> QED
    BY <2>1
<1>3. ASSUME UNCHANGED <<childVars, modalLoading>>, ~RoundOn PROVE FALSE
  BY <1>3 DEF RoundOn, childVars
<1>4. CASE \/ \E text \in Inputs : EditInput(text)
           \/ handleContinueToSave \/ handleVisibilityOfErrorPopup \/ cancelEdit
           \/ editButton
  <2>1. CanUseForm \/ page = "view"
    BY <1>4 DEF EditInput, handleContinueToSave, handleVisibilityOfErrorPopup, cancelEdit,
       editButton
  <2>2. ~RoundOn
    BY <2>1, UsableIsIdle DEF RoundInv
  <2> QED
    BY <1>3, <1>4, <2>2 DEF EditInput, handleContinueToSave,
       handleVisibilityOfErrorPopup, cancelEdit, editButton
<1>5. CASE ServerAnswers
  BY <1>3, <1>5, ServerAnswersOne DEF RoundInv
<1>6. CASE callSaveAndNewButton \/ \E valid \in BOOLEAN : validateFields(valid)
  <2>1. /\ CanUseForm
        /\ UNCHANGED contactRecordData
        /\ \/ RequestValidation /\ whichButtonWasClicked' # "ContinueToSave"
           \/ UNCHANGED <<childVars, modalLoading>>
    BY <1>6 DEF callSaveAndNewButton, validateFields, MaySave, context
  <2> QED
    BY <1>3, <2>1, RequestRound, UsableIsIdle, IdleHasNone
<1> QED
  BY <1>1, <1>2, <1>4, <1>5, <1>6 DEF Next

LEMMA KnownKept ==
  ASSUME FormInv, RoundInv, UpdateInv, DQP!ModalFirm, KnownInv, [Next]_vars
  PROVE  KnownInv'
<1>1. ASSUME modalLoading' > 0 PROVE Known(updatedContactDetail'.text)
  <2>1. CASE RequestValidation /\ CanUseForm
    <3>1. updatedContactDetail'.text = Submitted
      BY <2>1, RequestRound DEF Unvalidated
    <3>2. Known(Submitted)
      BY <2>1, SubmittedKnown DEF KnownInv, CanUseForm, FormInv
    <3> QED
      BY <3>1, <3>2
  <2>2. ~StartRound
    BY <1>1, StartsUnvalidated
  <2> QED
    BY <1>1, <2>1, <2>2, RoundStep DEF RoundOn, KnownInv
<1>2. ASSUME mounted', polling' > 0 PROVE Known(form'.value)
  <2>1. CASE StartRound
    <3>1. form'.value = updatedContactDetail.text /\ modalLoading > 0
      BY <2>1, StartsUnvalidated
    <3> QED
      BY <3>1 DEF KnownInv
  <2> QED
    BY <1>2, <2>1, RoundStep DEF RoundOn, KnownInv
<1> QED
  BY <1>1, <1>2, KnownRecords, KnownPage DEF KnownInv, Known

(* While the user is asked, the interval of the child keeps silent.          *)
FirmInv == KnownInv /\ AskedInv /\ DQP!ModalFirm

LEMMA FirmInvInitially ==
  ASSUME Init
  PROVE  FirmInv
<1>1. updates = <<>> /\ input = contactRecordData /\ contactRecordData \in Stored
      /\ modalLoading = 0 /\ ~mounted /\ dqFieldsToValidate = {} /\ form.asked = {}
  BY DEF Init, NoChild
<1>2. ToSet(updates) = {} /\ Known(input)
  BY <1>1 DEF ToSet, Known
<1> QED
  BY <1>1, <1>2 DEF FirmInv, KnownInv, AskedInv, Pairs, DQ!Emails, DQP!ModalFirm

LEMMA FirmInvKept ==
  ASSUME OnePairChanges, FormInv, RoundInv, UpdateInv, PromptForm, FirmInv, [Next]_vars
  PROVE  FirmInv'
<1>1. round' # round => ~showModal_Invalid
  BY OnlyStartRound DEF StartRound, RoundInv
<1>2. DQP!OnePair(form)
  BY DEF FirmInv, AskedInv, Pairs, DQP!OnePair, DQ!Emails, DQP!Emails, DQ!Phones,
     DQP!Phones
<1>3. DQP!ModalFirm'
  BY <1>1, <1>2, FormStepsChild, ChildStepFirm DEF FormInv, PromptForm, FirmInv
<1> QED
  BY <1>3, AskedKept, KnownKept DEF FirmInv
-----------------------------------------------------------------------------
(* The server's answer.                                                      *)
LEMMA AnsweredAlone ==
  ASSUME FormInv, UpdateInv, NEW i \in DOMAIN updates, updates' = RemoveAt(updates, i)
  PROVE  /\ updates # <<>> /\ updates' = <<>> /\ updates[i] \in ToSet(updates)
         /\ isSpinner /\ page = "edit"
<1>1. updates \in Seq(Records) /\ Len(updates) <= 1
  BY DEF FormInv, TypeOK, UpdateInv
<1>2. RemoveAt(updates, i) = <<>>
  <2> HIDE DEF Records
  <2> QED
    BY <1>1, OneAnswered
<1>3. updates # <<>> /\ updates[i] \in ToSet(updates)
  BY DEF ToSet
<1> QED
  BY <1>2, <1>3 DEF UpdateInv, SpinnerCoversUpdate

(* A save sends its record alone, under the spinner.                         *)
LEMMA SentAlone ==
  ASSUME NEW e, updates = <<>>, updates' = Append(updates, e)
  PROVE  updates' # <<>> /\ Len(updates') = 1 /\ ToSet(updates') = {e}
BY OneSent

LEMMA RoundNotContinued ==
  ASSUME FormInv, RoundInv, UpdateInv, [Next]_vars, RoundOn'
  PROVE  whichButtonWasClicked' # "ContinueToSave"
<1>1. CASE StartRound
  BY <1>1 DEF StartRound, buttons, UpdateInv, RoundOn
<1> QED
  BY <1>1, RoundStep DEF UpdateInv, buttons

LEMMA UpdateInvStep ==
  ASSUME FormInv, RoundInv, DQP!ModalFirm, UpdateInv, [Next]_vars
  PROVE  UpdateInv'
<1>0. RoundOn' => whichButtonWasClicked' # "ContinueToSave"
  BY RoundNotContinued
<1>1. ASSUME updates' = <<>> PROVE UpdateInv'
  <2>1. ToSet(updates') = {} /\ Len(updates') = 0
    BY <1>1 DEF ToSet
  <2> QED
    BY <1>0, <1>1, <2>1 DEF UpdateInv, SpinnerCoversUpdate
<1>2. CASE ServerAnswers
  <2>1. PICK i \in DOMAIN updates : updates' = RemoveAt(updates, i)
    BY <1>2, ServerAnswersOne
  <2> QED
    BY <1>1, <2>1, AnsweredAlone
<1>3. ASSUME NEW outcome, ChildReports \/ AnswerNo,
             updates' = Append(updates, ChildRecord(outcome))
      PROVE  UpdateInv'
  <2>1. RoundOn
    BY <1>3, AskingIsRound DEF ChildReports, AnswerNo, DQ!PollValid, DQ!PollException,
       DQ!handleNo, DQ!CloseModal, RoundOn
  <2>2. updates = <<>> /\ page = "edit" /\ whichButtonWasClicked # "ContinueToSave"
    BY <2>1 DEF RoundInv, UpdateInv
  <2>3. isSpinner' = TRUE /\ UNCHANGED <<page, whichButtonWasClicked>>
    BY <1>3 DEF ChildReports, AnswerNo, dqValidationCompleted, saveData, buttons
  <2>4. Len(updates') = 1
    BY <1>3, <2>2, SentAlone
  <2> QED
    BY <1>0, <2>2, <2>3, <2>4 DEF UpdateInv, SpinnerCoversUpdate
<1>4. ASSUME handleContinueToSave \/ callSaveAndNewButton, CanUseForm,
             updates' = Append(updates, DuplicateRecord)
      PROVE  UpdateInv'
  <2>1. updates = <<>>
    BY <1>4, IdleHasNone
  <2>2. Len(updates') = 1 /\ ToSet(updates') = {DuplicateRecord}
    BY <1>4, <2>1, SentAlone
  <2>3. DuplicateRecord.kind # "form"
    BY DEF DuplicateRecord, Sent
  <2>4. isSpinner' = TRUE /\ page' = "edit"
    BY <1>4 DEF handleContinueToSave, callSaveAndNewButton, CanUseForm
  <2> QED
    BY <1>0, <2>2, <2>3, <2>4 DEF UpdateInv, SpinnerCoversUpdate
<1>5. ASSUME UNCHANGED updates, ~ServerAnswers PROVE UpdateInv'
  <2>1. CASE updates = <<>>
    BY <1>1, <1>5, <2>1
  <2>2. CASE updates # <<>>
    <3>1. ~RoundOn /\ ~CanUseForm /\ page = "edit" /\ isSpinner
      BY <2>2, IdleHasNone DEF RoundInv, UpdateInv, SpinnerCoversUpdate
    <3>2. ~StartRound /\ ~ChildReports /\ ~AnswerYes /\ ~AnswerNo
      BY <3>1, AskingIsRound DEF StartRound, ChildReports, DQ!PollValid,
         DQ!PollException, AnswerYes, AnswerNo, DQ!handleYes, DQ!handleNo, DQ!CloseModal,
         RoundOn
    <3>3. UNCHANGED <<page, isSpinner, whichButtonWasClicked>>
      BY <1>5, <3>1, <3>2 DEF Next, EditInput,
         validateFields, callSaveAndNewButton, MaySave, handleContinueToSave,
         ChildAnswered, ChildAsks, handleVisibilityOfErrorPopup, cancelEdit, editButton,
         vars, formVars, buttons
    <3> QED
      BY <1>0, <1>5, <3>3 DEF UpdateInv, SpinnerCoversUpdate
  <2> QED
    BY <2>1, <2>2
<1> QED
  BY <1>2, <1>3, <1>4, <1>5, UpdatesStep

(* What holds of a form whose user waits for the callouts and does not       *)
(* change both e-mails and both phones.                                      *)
EditInv == RoundInv /\ UpdateInv /\ PromptForm /\ FirmInv

LEMMA EditInvHolds ==
  ASSUME MaxLate = 0, OnePairChanges
  PROVE  Spec => []EditInv
<1>1. Init => EditInv
  <2> SUFFICES ASSUME Init PROVE EditInv
    OBVIOUS
  <2>1. updates = <<>> /\ ~RoundOn /\ modalLoading = 0 /\ polling = 0
    BY DEF Init, NoChild, FreshChild, RoundOn
  <2>2. ToSet(updates) = {} /\ Len(updates) = 0
    BY <2>1 DEF ToSet
  <2>3. UpdateInv
    BY <2>1, <2>2 DEF UpdateInv, SpinnerCoversUpdate
  <2>4. RoundInv
    BY <2>1 DEF Init, Unvalidated, RoundInv
  <2>5. PromptForm
    BY NoChildPrompt DEF Init, PromptForm
  <2> QED
    BY <2>3, <2>4, <2>5, FirmInvInitially DEF EditInv
<1>2. FormInv /\ EditInv /\ [Next]_vars => EditInv'
  BY RoundInvKept, UpdateInvStep, PromptFormKept, FirmInvKept DEF EditInv, FirmInv
<1> QED
  BY <1>1, <1>2, FormInvHolds, PTL DEF Spec

(* The inputs stay covered until the update is answered.                     *)
THEOREM SpinnerCovers ==
  ASSUME MaxLate = 0, OnePairChanges
  PROVE  Spec => []SpinnerCoversUpdate
<1>1. EditInv => SpinnerCoversUpdate
  BY DEF EditInv, UpdateInv
<1> QED
  BY <1>1, EditInvHolds, PTL
-----------------------------------------------------------------------------
(* A round is about fields the user has changed; the record does not change  *)
(* while it is on.                                                           *)
Differs(text, fields) ==
    \A f \in fields : text[f] \in Texts /\ text[f] # contactRecordData[f]

ChangesInv ==
    /\ modalLoading > 0 => Differs(updatedContactDetail.text, dqFieldsToValidate)
    /\ mounted /\ polling > 0 => Differs(form.value, form.asked)

LEMMA ChangesInvHolds ==
  ASSUME MaxLate = 0, OnePairChanges
  PROVE  Spec => []ChangesInv
<1>1. Init => ChangesInv
  BY DEF Init, NoChild, ChangesInv
<1>2. FormInv /\ EditInv /\ ChangesInv /\ [Next]_vars => ChangesInv'
  <2> SUFFICES ASSUME FormInv, RoundInv, UpdateInv, ChangesInv, [Next]_vars, RoundOn'
               PROVE  ChangesInv'
    BY DEF ChangesInv, RoundOn, EditInv
  <2>1. CASE /\ RequestValidation /\ CanUseForm /\ UNCHANGED contactRecordData
             /\ ~(mounted' /\ polling' > 0)
    <3>1. Differs(updatedContactDetail'.text, dqFieldsToValidate')
      BY <2>1, RequestRound DEF RequestValidation, Unvalidated, Changed, Differs
    <3> QED
      BY <2>1, <3>1 DEF ChangesInv, Differs
  <2>2. CASE StartRound
    <3>1. /\ modalLoading > 0 /\ ~(modalLoading' > 0) /\ UNCHANGED contactRecordData
          /\ form' = [value |-> updatedContactDetail.text, asked |-> dqFieldsToValidate]
      BY <2>2, StartsUnvalidated DEF StartRound, context
    <3> QED
      BY <3>1 DEF ChangesInv, Differs
  <2>3. CASE UNCHANGED <<modalLoading, mounted, polling, form, contactRecordData,
                         dqFieldsToValidate, updatedContactDetail, buttons>>
    BY <2>3 DEF ChangesInv, Differs
  <2> QED
    BY <2>1, <2>2, <2>3, RoundStep
<1> QED
  BY <1>1, <1>2, FormInvHolds, EditInvHolds, PTL DEF Spec

(* The user is asked about changed fields only, also when late answers have  *)
(* put further items on the list.                                            *)
THEOREM AsksAboutChanges ==
  ASSUME MaxLate = 0, OnePairChanges
  PROVE  Spec => []QuestionsAreAboutChanges
<1>1. EditInv /\ ChangesInv => QuestionsAreAboutChanges
  <2> SUFFICES ASSUME PromptForm, FirmInv, ChangesInv, mounted, showModal_Invalid,
                      NEW f \in ToSet(invalidDataLists) \union ToSet(phoneNumberTypeDataLists)
               PROVE  form.value[f] \in Texts /\ form.value[f] # contactRecordData[f]
    BY DEF QuestionsAreAboutChanges, EditInv
  <2>1. f \in form.asked
    BY DEF PromptForm, HostPrompt, DQP!PromptInv, DQP!ListedFlagged, DQP!Listed, ToSet,
       DQP!ToSet
  <2>2. mounted /\ polling > 0
    BY AskingIsRound DEF FirmInv
  <2> QED
    BY <2>1, <2>2 DEF ChangesInv, Differs
<1> QED
  BY <1>1, EditInvHolds, ChangesInvHolds, PTL
-----------------------------------------------------------------------------
(* The statuses a record carries.                                            *)

(* The data of the last validated save have the texts of the last round, but *)
(* for the address.                                                          *)
DetailInv ==
    updatedContactDetail.checked =>
        \A f \in Fields \ {"Address"} : updatedContactDetail.text[f] = form.value[f]

(* Of the data, updateContact changes the address.                           *)
LEMMA DuplicateKeepsTexts ==
  ASSUME TypeOK
  PROVE  \A f \in Fields \ {"Address"} : DuplicateText[f] = updatedContactDetail.text[f]
BY DEF TypeOK, Details, DuplicateText

LEMMA DetailInvHolds ==
  ASSUME MaxLate = 0, OnePairChanges
  PROVE  Spec => []DetailInv
<1>1. Init => DetailInv
  BY DEF Init, Unvalidated, DetailInv
<1>2. FormInv /\ EditInv /\ DetailInv /\ [Next]_vars => DetailInv'
  <2> SUFFICES ASSUME FormInv, RoundInv, DetailInv, [Next]_vars PROVE DetailInv'
    BY DEF EditInv
  <2>0. updatedContactDetail \in Details
    BY DEF FormInv, TypeOK
  <2>1. ASSUME UNCHANGED <<updatedContactDetail, form>> PROVE DetailInv'
    BY <2>1 DEF DetailInv
  <2>2. ASSUME RequestValidation PROVE DetailInv'
    BY <2>2 DEF RequestValidation, Unvalidated, DetailInv
  <2>3. ASSUME updateContact, UNCHANGED form PROVE DetailInv'
    <3>1. /\ updatedContactDetail'.text = DuplicateText
          /\ updatedContactDetail'.checked = updatedContactDetail.checked
      BY <2>0, <2>3 DEF updateContact, DuplicateText, Details
    <3> QED
      BY <2>3, <3>1, DuplicateKeepsTexts DEF DetailInv, FormInv
  <2>4. CASE StartRound
    BY <2>4, StartsUnvalidated DEF StartRound, RoundInv, DetailInv
  <2>5. CASE ChildAnswered
    BY <2>1, <2>5, AnswersKeepRound DEF ChildAnswered, formVars, request
  <2>6. CASE ChildReports \/ AnswerNo
    <3>1. form' = form /\ updatedContactDetail'.text = form.value
      BY <2>6 DEF ChildReports, AnswerNo, dqValidationCompleted, ChildData, DQ!PollValid,
         DQ!PollException, DQ!handleNo, DQ!CloseModal
    <3> QED
      BY <3>1 DEF DetailInv
  <2>7. CASE ChildAsks \/ AnswerYes
    BY <2>1, <2>7 DEF ChildAsks, AnswerYes, DQ!PollInvalid, DQ!handleYes, DQ!CloseModal,
       formVars, request
  <2>8. CASE ServerAnswers
    <3>1. PICK i \in DOMAIN updates :
              /\ \/ handleSuccess(i)
                 \/ \E duplicates \in BOOLEAN : handleError(i, duplicates)
                 \/ \E isSuccuss \in BOOLEAN : UpdateAnswer(i, isSuccuss)
                 \/ UpdateRejected(i)
              /\ UNCHANGED <<childVars, modalLoading, input, verified>>
      BY <2>8, ServerAnswersOne
    <3>2. \/ UNCHANGED updatedContactDetail
          \/ updatedContactDetail' = Unvalidated(Nothing)
      BY <3>1 DEF handleSuccess, handleError, UpdateAnswer, UpdateRejected, request
    <3>3. UNCHANGED form
      BY <3>1 DEF childVars
    <3> QED
      BY <2>1, <3>2, <3>3 DEF DetailInv, Unvalidated
  <2>9. CASE callSaveAndNewButton \/ handleContinueToSave
    <3>1. RequestValidation \/ (updateContact /\ UNCHANGED form)
      BY <2>9 DEF callSaveAndNewButton, handleContinueToSave, childVars
    <3> QED
      BY <2>2, <2>3, <3>1
  <2>10. CASE \E valid \in BOOLEAN : validateFields(valid)
    <3>1. RequestValidation \/ UNCHANGED <<updatedContactDetail, form>>
      BY <2>10 DEF validateFields, request, childVars
    <3> QED
      BY <2>1, <2>2, <3>1
  <2>11. CASE \/ \E text \in Inputs : EditInput(text)
              \/ handleVisibilityOfErrorPopup \/ cancelEdit \/ editButton \/ UNCHANGED vars
    BY <2>1, <2>11 DEF EditInput, handleVisibilityOfErrorPopup, cancelEdit, editButton,
       vars, formVars, childVars, request
  <2> QED
    BY <2>4, <2>5, <2>6, <2>7, <2>8, <2>9, <2>10, <2>11 DEF Next
<1> QED
  BY <1>1, <1>2, FormInvHolds, EditInvHolds, PTL DEF Spec

(* Whatever button sends it, a record carries the statuses of its own texts. *)
THEOREM UpdatedStatusesOwn ==
  ASSUME MaxLate = 0, OnePairChanges
  PROVE  Spec => []UpdatedStatusesAreTheirOwn
<1>1. Init => UpdatedStatusesAreTheirOwn
  <2> SUFFICES ASSUME Init PROVE UpdatedStatusesAreTheirOwn
    OBVIOUS
  <2>1. updates = <<>>
    BY DEF Init
  <2>2. ToSet(updates) = {}
    BY <2>1 DEF ToSet
  <2> QED
    BY <2>2 DEF UpdatedStatusesAreTheirOwn
<1>2. FormInv /\ EditInv /\ DetailInv /\ UpdatedStatusesAreTheirOwn /\ [Next]_vars
        => UpdatedStatusesAreTheirOwn'
  <2> SUFFICES ASSUME FormInv, RoundInv, PromptForm, DetailInv, UpdatedStatusesAreTheirOwn,
                      [Next]_vars
               PROVE  UpdatedStatusesAreTheirOwn'
    BY DEF EditInv
  <2>1. ASSUME UNCHANGED updates PROVE UpdatedStatusesAreTheirOwn'
    BY <2>1 DEF UpdatedStatusesAreTheirOwn, VerifiedFor
  <2>2. CASE ServerAnswers
    BY <2>2, ServerAnswersFewer DEF UpdatedStatusesAreTheirOwn, VerifiedFor, FormInv
  <2>3. ASSUME NEW e, VerifiedFor(e, Fields \ {"Address"}), updates' = Append(updates, e)
        PROVE  UpdatedStatusesAreTheirOwn'
    BY <2>3, SentJoins DEF UpdatedStatusesAreTheirOwn, VerifiedFor, FormInv
  <2>4. ASSUME NEW outcome PROVE VerifiedFor(ChildRecord(outcome), Fields \ {"Address"})
    BY DEF ChildRecord, Sent, VerifiedFor, PromptForm, HostPrompt, VerifiedInv
  <2>5. VerifiedFor(DuplicateRecord, Fields \ {"Address"})
    <3>1. CASE updatedContactDetail.checked
      <4>1. ASSUME NEW f \in Fields \ {"Address"}, status[f] \in DQ!Statuses
            PROVE  verified[f] = DuplicateText[f]
        BY <3>1, <4>1, DuplicateKeepsTexts
        DEF FormInv, DetailInv, PromptForm, HostPrompt, VerifiedInv
      <4> QED
        BY <3>1, <4>1 DEF DuplicateRecord, Held, Sent, VerifiedFor
    <3>2. CASE ~updatedContactDetail.checked
      BY <3>2 DEF DuplicateRecord, Held, NothingHeld, Sent, VerifiedFor, RoundInv, DQ!Statuses
    <3> QED
      BY <3>1, <3>2
  <2> QED
    BY <2>1, <2>2, <2>3, <2>4, <2>5, UpdatesStep
<1> QED
  BY <1>1, <1>2, FormInvHolds, EditInvHolds, DetailInvHolds, PTL DEF Spec
-----------------------------------------------------------------------------
(* The toast "Contact Updated and Data Validated".                           *)
LEMMA FlagHolds ==
  ASSUME MaxLate = 0, OnePairChanges
  PROVE  Spec => []DQ!StatusBehindMessage
<1>1. Init => DQ!StatusBehindMessage
  BY NoChildFlag DEF Init
<1>2. FormInv /\ EditInv /\ DQ!StatusBehindMessage /\ [Next]_vars => DQ!StatusBehindMessage'
  <2> SUFFICES ASSUME FormInv, RoundInv, DQ!StatusBehindMessage, [Next]_vars
               PROVE  DQ!StatusBehindMessage'
    BY DEF EditInv
  <2>1. round' # round => \A f \in Fields : status'[f] # "invalid"
    BY OnlyStartRound, StartsUnvalidated DEF NothingHeld
  <2> QED
    BY <2>1, FormStepsChild, ChildStepFlag DEF FormInv
<1> QED
  BY <1>1, <1>2, FormInvHolds, EditInvHolds, PTL DEF Spec

(* What the form sends after a report, or on Continue to Save.               *)
CleanRecord(s) ==
    /\ \A f \in Fields : s.status[f] # "invalid"
    /\ \/ s.outcome = "DQ_CALLOUT"
       \/ isSaveAndNewButton /\ s.kind = "duplicate" /\ s.outcome = "none"

(* As long as the form takes its data for validated, the instance they are   *)
(* from is through with its round and found nothing invalid, and so it is    *)
(* with the records on their way.                                            *)
CleanDetail ==
    formInValidData = "DQ_CALLOUT" /\ updatedContactDetail.checked =>
        /\ inFlight = {} /\ \A f \in Fields : status[f] # "invalid"
        /\ updatedContactDetail.outcome = "DQ_CALLOUT"

CleanUpdates ==
    formInValidData = "DQ_CALLOUT" => \A s \in ToSet(updates) : CleanRecord(s)

(* Data that are not through a round have no outcome.  A warning that stands *)
(* over them, while the form remembers a report of valid data, was left      *)
(* there by Save & New; and it comes for a record that is through one.       *)
WarningInv ==
    /\ ~updatedContactDetail.checked => updatedContactDetail.outcome = "none"
    /\ (\E s \in ToSet(updates) : s.kind = "form") => updatedContactDetail.checked
    /\ warningMessages /\ ~updatedContactDetail.checked /\ formInValidData = "DQ_CALLOUT"
          => isSaveAndNewButton

ValidatedInv == CleanDetail /\ CleanUpdates /\ WarningInv /\ ValidatedToastIsTrue

(* Only a report of valid data makes the form take its data for validated.   *)
LEMMA OnlyValidReports ==
  ASSUME [Next]_vars, formInValidData' = "DQ_CALLOUT"
  PROVE  \/ ChildReports /\ DQ!PollValid /\ dqValidationCompleted("DQ_CALLOUT")
         \/ UNCHANGED formInValidData /\ ~ChildReports /\ ~AnswerNo
<1>1. ASSUME ChildReports PROVE DQ!PollValid /\ dqValidationCompleted("DQ_CALLOUT")
  BY <1>1 DEF ChildReports, dqValidationCompleted
<1>2. ~AnswerNo
  BY DEF AnswerNo, dqValidationCompleted
<1>3. ASSUME ~ChildReports PROVE UNCHANGED formInValidData
  <2>1. CASE ServerAnswers
    BY <2>1 DEF ServerAnswers, handleSuccess, handleError, UpdateAnswer, UpdateRejected
  <2> QED
    BY <1>2, <1>3, <2>1 DEF Next, EditInput, validateFields, callSaveAndNewButton,
       handleContinueToSave, StartRound, ChildAnswered, ChildAsks, AnswerYes,
       handleVisibilityOfErrorPopup, cancelEdit, editButton, vars, formVars
<1> QED
  BY <1>1, <1>2, <1>3

(* Save & New is never forgotten.                                            *)
LEMMA NewRemembered ==
  ASSUME [Next]_vars, isSaveAndNewButton
  PROVE  isSaveAndNewButton'
<1>1. CASE ServerAnswers
  BY <1>1 DEF ServerAnswers, handleSuccess, handleError, UpdateAnswer, UpdateRejected, buttons
<1> QED
  BY <1>1 DEF Next, EditInput, validateFields, callSaveAndNewButton,
     handleContinueToSave, StartRound, ChildAnswered, ChildReports, ChildAsks, AnswerYes,
     AnswerNo, handleVisibilityOfErrorPopup, cancelEdit, editButton, vars, formVars, buttons

(* The data stay those of the last report, but for the address, until a      *)
(* round is asked for or the record is saved.                                *)
LEMMA DetailStep ==
  ASSUME FormInv, RoundInv, [Next]_vars
  PROVE  \/ /\ updatedContactDetail'.checked = updatedContactDetail.checked
            /\ updatedContactDetail'.outcome = updatedContactDetail.outcome
         \/ RequestValidation /\ CanUseForm /\ updatedContactDetail' = Unvalidated(Submitted)
         \/ \E i \in DOMAIN updates :
                handleSuccess(i) /\ updatedContactDetail' = Unvalidated(Nothing)
         \/ \E outcome \in DQ!Outcomes :
                (ChildReports \/ AnswerNo) /\ dqValidationCompleted(outcome)
<1>1. ASSUME UNCHANGED updatedContactDetail
      PROVE  /\ updatedContactDetail'.checked = updatedContactDetail.checked
             /\ updatedContactDetail'.outcome = updatedContactDetail.outcome
  BY <1>1
<1>2. ASSUME RequestValidation
      PROVE  updatedContactDetail' = Unvalidated(Submitted)
  BY <1>2 DEF RequestValidation
<1>3. CASE \E valid \in BOOLEAN : validateFields(valid)
  BY <1>1, <1>2, <1>3 DEF validateFields, MaySave, request
<1>4. CASE callSaveAndNewButton \/ handleContinueToSave
  BY <1>2, <1>4, DuplicateKeepsHeld DEF callSaveAndNewButton, handleContinueToSave, MaySave,
     FormInv
<1>5. CASE StartRound
  BY <1>1, <1>5, StartsUnvalidated
<1>6. CASE ChildReports \/ AnswerNo
  BY <1>6 DEF ChildReports, AnswerNo, DQ!Outcomes
<1>7. CASE ServerAnswers
  BY <1>1, <1>7, ServerAnswersOne DEF handleSuccess, handleError, UpdateAnswer,
     UpdateRejected, request
<1> QED
  BY <1>1, <1>3, <1>4, <1>5, <1>6, <1>7 DEF Next, EditInput, ChildAnswered, ChildAsks,
     AnswerYes, handleVisibilityOfErrorPopup, cancelEdit, editButton, vars, formVars, request

(* A status is changed by an answer, by the next round or with the instance. *)
LEMMA StatusKept ==
  ASSUME [Next]_vars, ~ChildAnswered, ~StartRound
  PROVE  UNCHANGED <<status, inFlight>> \/ RequestValidation
<1>1. CASE ServerAnswers
  BY <1>1, ServerAnswersOne DEF childVars
<1>2. CASE ChildReports \/ ChildAsks \/ AnswerYes \/ AnswerNo
  BY <1>2 DEF ChildReports, ChildAsks, AnswerYes, AnswerNo, DQ!PollValid,
     DQ!PollException, DQ!PollInvalid, DQ!contactData, DQ!handleYes, DQ!handleNo,
     DQ!CloseModal
<1> QED
  BY <1>1, <1>2 DEF Next, EditInput, validateFields, callSaveAndNewButton,
     handleContinueToSave, handleVisibilityOfErrorPopup, cancelEdit, editButton, vars,
     childVars

LEMMA CleanDetailKept ==
  ASSUME FormInv, RoundInv, PromptForm, DQ!StatusBehindMessage, CleanDetail, [Next]_vars
  PROVE  CleanDetail'
<1> SUFFICES ASSUME formInValidData' = "DQ_CALLOUT", updatedContactDetail'.checked
             PROVE  /\ inFlight' = {} /\ \A f \in Fields : status'[f] # "invalid"
                    /\ updatedContactDetail'.outcome = "DQ_CALLOUT"
  BY DEF CleanDetail
<1>1. CASE ChildReports /\ DQ!PollValid /\ dqValidationCompleted("DQ_CALLOUT")
  <2>1. UNCHANGED <<status, inFlight>>
    BY <1>1 DEF DQ!PollValid
  <2>2. updatedContactDetail'.outcome = "DQ_CALLOUT"
    BY <1>1 DEF dqValidationCompleted, ChildData
  <2> QED
    BY <1>1, <2>1, <2>2, ValidReportIsClean DEF FormInv, PromptForm
<1>2. CASE UNCHANGED formInValidData /\ ~ChildReports /\ ~AnswerNo
  <2>0. ASSUME NEW text, updatedContactDetail' = Unvalidated(text) PROVE FALSE
    BY <2>0 DEF Unvalidated
  <2>1. /\ updatedContactDetail.checked
        /\ updatedContactDetail'.outcome = updatedContactDetail.outcome
    BY <1>2, <2>0, DetailStep
  <2>2. /\ inFlight = {} /\ \A f \in Fields : status[f] # "invalid"
        /\ updatedContactDetail.outcome = "DQ_CALLOUT"
    BY <1>2, <2>1 DEF CleanDetail
  <2>3. ~ChildAnswered
    BY <2>2 DEF ChildAnswered, ChildSettles
  <2>4. ~StartRound
    BY <2>1 DEF StartRound, RoundInv
  <2>5. ~RequestValidation
    BY DEF RequestValidation, Unvalidated
  <2> QED
    BY <2>1, <2>2, <2>3, <2>4, <2>5, StatusKept
<1> QED
  BY <1>1, <1>2, OnlyValidReports

LEMMA CleanUpdatesKept ==
  ASSUME FormInv, RoundInv, PromptForm, DQ!StatusBehindMessage, CleanDetail, CleanUpdates,
         WarningInv, PopupHasContent, [Next]_vars
  PROVE  CleanUpdates'
<1> SUFFICES ASSUME formInValidData' = "DQ_CALLOUT", NEW s \in ToSet(updates')
             PROVE  CleanRecord(s)'
  BY DEF CleanUpdates
<1>1. CASE ChildReports /\ DQ!PollValid /\ dqValidationCompleted("DQ_CALLOUT")
  <2>1. updates = <<>>
    BY <1>1 DEF ChildReports, DQ!PollValid, RoundInv, RoundOn
  <2>2. updates' = Append(updates, ChildRecord("DQ_CALLOUT"))
    BY <1>1 DEF dqValidationCompleted, saveData
  <2>3. s = ChildRecord("DQ_CALLOUT")
    BY <2>1, <2>2, SentAlone
  <2> QED
    BY <1>1, <2>3, ValidReportIsClean DEF ChildRecord, Sent, CleanRecord, FormInv, PromptForm
<1>2. CASE UNCHANGED formInValidData /\ ~ChildReports /\ ~AnswerNo
  <2>1. ASSUME s \in ToSet(updates) PROVE CleanRecord(s)'
    <3>1. CleanRecord(s)
      BY <1>2, <2>1 DEF CleanUpdates
    <3> QED
      BY <3>1, NewRemembered DEF CleanRecord
  <2>2. ASSUME updates' = Append(updates, DuplicateRecord),
               \/ handleContinueToSave
               \/ callSaveAndNewButton
        PROVE  CleanRecord(s)'
    <3>1. CASE updatedContactDetail.checked
      <4>1. /\ \A f \in Fields : status[f] # "invalid"
            /\ updatedContactDetail.outcome = "DQ_CALLOUT"
        BY <1>2, <3>1 DEF CleanDetail
      <4>2. /\ \A f \in Fields : DuplicateRecord.status[f] # "invalid"
            /\ DuplicateRecord.outcome = "DQ_CALLOUT"
        BY <3>1, <4>1 DEF DuplicateRecord, Held, Sent
      <4>3. s = DuplicateRecord \/ s \in ToSet(updates)
        BY <2>2, SentJoins DEF FormInv
      <4> QED
        BY <2>1, <4>2, <4>3 DEF CleanRecord
    <3>2. CASE ~updatedContactDetail.checked
      <4>1. isSaveAndNewButton'
        <5>1. CASE handleContinueToSave
          <6>1. warningMessages
            BY <5>1 DEF handleContinueToSave, PopupHasContent
          <6> QED
            BY <1>2, <3>2, <6>1, NewRemembered DEF WarningInv
        <5>2. CASE callSaveAndNewButton
          BY <5>2 DEF callSaveAndNewButton
        <5> QED
          BY <2>2, <5>1, <5>2
      <4>2. /\ updatedContactDetail.outcome = "none"
            /\ Held(updatedContactDetail) = NothingHeld
        BY <3>2 DEF WarningInv, RoundInv, Held
      <4>3. /\ DuplicateRecord.outcome = "none" /\ DuplicateRecord.kind = "duplicate"
            /\ \A f \in Fields : DuplicateRecord.status[f] # "invalid"
        BY <4>2 DEF DuplicateRecord, NothingHeld, Sent
      <4>4. s = DuplicateRecord \/ s \in ToSet(updates)
        BY <2>2, SentJoins DEF FormInv
      <4> QED
        BY <2>1, <4>1, <4>3, <4>4 DEF CleanRecord
    <3> QED
      BY <3>1, <3>2
  <2>3. CASE ServerAnswers
    BY <2>1, <2>3, ServerAnswersFewer DEF FormInv
  <2> QED
    BY <1>2, <2>1, <2>2, <2>3, UpdatesStep
<1> QED
  BY <1>1, <1>2, OnlyValidReports

LEMMA WarningInvKept ==
  ASSUME FormInv, RoundInv, UpdateInv, WarningInv, [Next]_vars
  PROVE  WarningInv'
<1>1. CASE \E outcome \in DQ!Outcomes :
               (ChildReports \/ AnswerNo) /\ dqValidationCompleted(outcome)
  <2>1. updatedContactDetail'.checked = TRUE
    BY <1>1 DEF dqValidationCompleted, ChildData
  <2> QED
    BY <2>1 DEF WarningInv
<1>2. CASE RequestValidation /\ CanUseForm /\ updatedContactDetail' = Unvalidated(Submitted)
  <2>1. /\ updatedContactDetail'.checked = FALSE
        /\ updatedContactDetail'.outcome = "none"
    BY <1>2 DEF Unvalidated
  <2>2. updates' = <<>> /\ (warningMessages' => isSaveAndNewButton')
    <3>1. updates = <<>>
      BY <1>2, IdleHasNone
    <3>2. CASE \E valid \in BOOLEAN : validateFields(valid)
      BY <3>1, <3>2 DEF validateFields
    <3>3. CASE callSaveAndNewButton
      <4>1. modalLoading' = 1 /\ modalLoading = 0
        BY <1>2, RequestRound, UsableIsIdle, CountsTyped DEF RoundOn
      <4>2. isSaveAndNewButton' = TRUE /\ updates' = updates
        BY <3>3, <4>1 DEF callSaveAndNewButton
      <4> QED
        BY <3>1, <4>2
    <3>4. modalLoading' > 0 /\ ~(modalLoading > 0)
      BY <1>2, RequestRound, UsableIsIdle DEF RoundOn
    <3> QED
      BY <3>2, <3>3, <3>4, ServerAnswersOne DEF Next, EditInput, handleContinueToSave,
         StartRound, ChildAnswered, ChildReports, ChildAsks, AnswerYes, AnswerNo,
         handleVisibilityOfErrorPopup, cancelEdit, editButton, vars, formVars
  <2>3. ToSet(updates') = {}
    BY <2>2 DEF ToSet
  <2> QED
    BY <2>1, <2>2, <2>3 DEF WarningInv
<1>3. ASSUME NEW i \in DOMAIN updates, handleSuccess(i),
             updatedContactDetail' = Unvalidated(Nothing)
      PROVE  WarningInv'
  <2>1. /\ updatedContactDetail'.checked = FALSE
        /\ updatedContactDetail'.outcome = "none"
        /\ formInValidData' = ""
    <3>1. formInValidData' = ""
      BY <1>3 DEF handleSuccess
    <3> QED
      BY <1>3, <3>1 DEF Unvalidated
  <2>2. ToSet(updates') = {}
    <3>1. updates' = <<>>
      BY <1>3, AnsweredAlone DEF handleSuccess
    <3> QED
      BY <3>1 DEF ToSet
  <2> QED
    BY <2>1, <2>2 DEF WarningInv
<1>4. CASE /\ updatedContactDetail'.checked = updatedContactDetail.checked
           /\ updatedContactDetail'.outcome = updatedContactDetail.outcome
           /\ ~\E outcome \in DQ!Outcomes :
                  (ChildReports \/ AnswerNo) /\ dqValidationCompleted(outcome)
  <2>1. ASSUME NEW s \in ToSet(updates'), s.kind = "form" PROVE updatedContactDetail.checked
    <3>1. ASSUME s \in ToSet(updates) PROVE updatedContactDetail.checked
      BY <2>1, <3>1 DEF WarningInv
    <3>2. DuplicateRecord.kind # "form"
      BY DEF DuplicateRecord, Sent
    <3>3. ASSUME updates' = Append(updates, DuplicateRecord)
          PROVE  updatedContactDetail.checked
      BY <2>1, <3>1, <3>2, <3>3, SentJoins DEF FormInv
    <3>4. CASE ServerAnswers
      BY <3>1, <3>4, ServerAnswersFewer DEF FormInv
    <3> QED
      BY <1>4, <3>1, <3>3, <3>4, UpdatesStep
  <2>2. ASSUME warningMessages', ~updatedContactDetail.checked, formInValidData' = "DQ_CALLOUT"
        PROVE  isSaveAndNewButton'
    <3>1. UNCHANGED formInValidData
      BY <1>4, <2>2, OnlyValidReports DEF DQ!Outcomes
    <3>2. warningMessages
      <4>1. CASE ServerAnswers
        <5>1. PICK i \in DOMAIN updates :
                \/ handleSuccess(i)
                \/ \E duplicates \in BOOLEAN : handleError(i, duplicates)
                \/ \E isSuccuss \in BOOLEAN : UpdateAnswer(i, isSuccuss)
                \/ UpdateRejected(i)
          BY <4>1, ServerAnswersOne
        <5>2. ASSUME NEW duplicates \in BOOLEAN, handleError(i, duplicates) PROVE FALSE
          <6>1. updates[i] \in ToSet(updates) /\ updates[i].kind = "form"
            BY <5>2 DEF handleError, ToSet
          <6> QED
            BY <2>2, <6>1 DEF WarningInv
        <5> QED
          BY <2>2, <5>1, <5>2 DEF handleSuccess, UpdateAnswer, UpdateRejected, popup
      <4> QED
        BY <2>2, <4>1 DEF Next, EditInput, validateFields, callSaveAndNewButton,
           handleContinueToSave, StartRound, ChildAnswered, ChildReports, ChildAsks,
           AnswerYes, AnswerNo, handleVisibilityOfErrorPopup, cancelEdit, editButton, vars,
           formVars, popup
    <3> QED
      BY <2>2, <3>1, <3>2, NewRemembered DEF WarningInv
  <2> QED
    BY <1>4, <2>1, <2>2 DEF WarningInv
<1> QED
  BY <1>1, <1>2, <1>3, <1>4, DetailStep

LEMMA ValidatedToastKept ==
  ASSUME FormInv, CleanUpdates, ValidatedToastIsTrue, [Next]_vars
  PROVE  ValidatedToastIsTrue'
<1>1. ASSUME UNCHANGED notice PROVE ValidatedToastIsTrue'
  BY <1>1, NewRemembered DEF ValidatedToastIsTrue
<1>2. CASE ServerAnswers
  <2>1. PICK i \in DOMAIN updates :
            /\ \/ handleSuccess(i)
               \/ \E duplicates \in BOOLEAN : handleError(i, duplicates)
               \/ \E isSuccuss \in BOOLEAN : UpdateAnswer(i, isSuccuss)
               \/ UpdateRejected(i)
            /\ updates' = RemoveAt(updates, i)
    BY <1>2, ServerAnswersOne
  <2>2. Toast = "validated" => formInValidData = "DQ_CALLOUT"
    BY DEF Toast
  <2>3. updates[i] \in ToSet(updates)
    BY DEF ToSet
  <2>4. ASSUME NEW toast, notice' = [toast |-> toast, record |-> updates[i]],
               toast = "validated" => Toast = "validated"
        PROVE  ValidatedToastIsTrue'
    <3>1. toast = "validated" => CleanRecord(updates[i])
      BY <2>2, <2>3, <2>4 DEF CleanUpdates
    <3> QED
      BY <2>4, <3>1, NewRemembered DEF CleanRecord, ValidatedToastIsTrue
  <2>5. CASE handleSuccess(i)
    <3> DEFINE toast == IF formInValidData # "invalidData"
                           /\ ~isUpdatedDQSystemRelatedFields
                        THEN "updated" ELSE Toast
    <3>1. notice' = [toast |-> toast, record |-> updates[i]]
      BY <2>5 DEF handleSuccess
    <3>2. toast = "validated" => Toast = "validated"
      OBVIOUS
    <3> HIDE DEF toast
    <3> QED
      BY <2>4, <3>1, <3>2
  <2>6. CASE \E isSuccuss \in BOOLEAN : UpdateAnswer(i, isSuccuss)
    <3>1. \/ notice' = [toast |-> Toast, record |-> updates[i]]
          \/ notice' = [toast |-> "error"]
      BY <2>6 DEF UpdateAnswer
    <3>2. ASSUME notice' = [toast |-> "error"] PROVE ValidatedToastIsTrue'
      BY <3>2 DEF ValidatedToastIsTrue
    <3> QED
      BY <2>4, <3>1, <3>2
  <2> QED
    BY <1>1, <2>1, <2>5, <2>6 DEF handleError, UpdateRejected
<1> QED
  BY <1>1, <1>2 DEF Next, EditInput, validateFields, callSaveAndNewButton,
     handleContinueToSave, StartRound, ChildAnswered, ChildReports, ChildAsks, AnswerYes,
     AnswerNo, handleVisibilityOfErrorPopup, cancelEdit, editButton, vars, formVars

(* The user is told "Data Validated" only of a record DQ found valid, also   *)
(* when Continue to Save sends it again; the exception is the one the        *)
(* property names.                                                           *)
THEOREM ValidatedToast ==
  ASSUME MaxLate = 0, OnePairChanges
  PROVE  Spec => []ValidatedToastIsTrue
<1>1. Init => ValidatedInv
  <2> SUFFICES ASSUME Init PROVE ValidatedInv
    OBVIOUS
  <2>1. updates = <<>> /\ formInValidData = "undefined" /\ notice = [toast |-> "none"]
        /\ updatedContactDetail.outcome = "none"
    BY DEF Init, Unvalidated
  <2>2. ToSet(updates) = {}
    BY <2>1 DEF ToSet
  <2> QED
    BY <2>1, <2>2 DEF ValidatedInv, CleanDetail, CleanUpdates, WarningInv,
       ValidatedToastIsTrue
<1>2. FormInv /\ EditInv /\ DQ!StatusBehindMessage /\ PopupHasContent /\ ValidatedInv
        /\ [Next]_vars => ValidatedInv'
  BY CleanDetailKept, CleanUpdatesKept, WarningInvKept, ValidatedToastKept
  DEF ValidatedInv, EditInv
<1>3. ValidatedInv => ValidatedToastIsTrue
  BY DEF ValidatedInv
<1> QED
  BY <1>1, <1>2, <1>3, FormInvHolds, EditInvHolds, FlagHolds, PopupOfMessages, PTL DEF Spec
-----------------------------------------------------------------------------
(* The form keeps the promise of ContactSave.                                *)

SavePhase == IF page # "edit" THEN "left"
             ELSE IF updates # <<>> THEN "saving"
             ELSE IF mounted /\ showModal_Invalid THEN "asking"
             ELSE IF modalLoading > 0 \/ (mounted /\ polling > 0) THEN "validating"
             ELSE "editing"

Warned == warningMessages \/ whichButtonWasClicked = "ContinueToSave"

(* A form that can be used is being edited.                                  *)
LEMMA UsableIsEditing ==
  ASSUME RoundInv, UpdateInv, CanUseForm
  PROVE  SavePhase = "editing" /\ page = "edit" /\ updates = <<>> /\ ~RoundOn
         /\ ~(mounted /\ showModal_Invalid)
BY IdleHasNone, UsableIsIdle DEF RoundOn, SavePhase

LEMMA AskingPhase ==
  ASSUME RoundInv, DQP!ModalFirm, mounted, showModal_Invalid
  PROVE  SavePhase = "asking" /\ ~(modalLoading > 0) /\ updates = <<>> /\ page = "edit"
BY AskingIsRound DEF RoundInv, SavePhase

(* Once its record is answered the form is edited again, or left.            *)
LEMMA AnsweredPhase ==
  ASSUME FormInv, RoundInv, UpdateInv, DQP!ModalFirm, NEW i \in DOMAIN updates,
         updates' = RemoveAt(updates, i), UNCHANGED <<childVars, modalLoading>>
  PROVE  /\ SavePhase = "saving"
         /\ SavePhase' = IF page' = "edit" THEN "editing" ELSE "left"
<1>1. updates # <<>> /\ updates' = <<>> /\ page = "edit"
  BY AnsweredAlone
<1>2. ~RoundOn /\ ~(mounted /\ showModal_Invalid)
  BY <1>1, AskingIsRound DEF RoundInv
<1> QED
  BY <1>1, <1>2 DEF SavePhase, RoundOn, childVars

(* A click of Save that is accepted.                                         *)
LEMMA RequestPhase ==
  ASSUME FormInv, RoundInv, UpdateInv, CanUseForm, RequestValidation,
         UNCHANGED <<page, updates>>
  PROVE  SavePhase = "editing" /\ SavePhase' = "validating"
<1>1. SavePhase = "editing" /\ page = "edit" /\ updates = <<>>
  BY UsableIsEditing
<1>2. modalLoading' = 1 /\ ~showModal_Invalid'
  BY RequestRound
<1> QED
  BY <1>1, <1>2 DEF SavePhase

(* Continue to Save, and a Save & New after one.                             *)
LEMMA DuplicatePhase ==
  ASSUME RoundInv, UpdateInv, CanUseForm, updateContact, UNCHANGED page
  PROVE  SavePhase = "editing" /\ SavePhase' = "saving"
<1>1. SavePhase = "editing" /\ page = "edit" /\ updates = <<>>
  BY UsableIsEditing
<1>2. updates' = Append(updates, DuplicateRecord)
  BY DEF updateContact, DuplicateRecord, DuplicateText
<1>3. updates' # <<>>
  BY <1>1, <1>2, SentAlone
<1> QED
  BY <1>1, <1>3 DEF SavePhase

LEMMA SaveStep ==
  ASSUME FormInv, RoundInv, UpdateInv, DQP!ModalFirm, PopupHasContent, [Next]_vars
  PROVE  Save!Next \/ UNCHANGED <<SavePhase, Warned>>
<1> USE DEF Save!Next
<1>0. ASSUME UNCHANGED <<warningMessages, buttons>> PROVE UNCHANGED Warned
  BY <1>0 DEF Warned, buttons
<1>1. ASSUME UNCHANGED <<page, updates, mounted, showModal_Invalid, modalLoading, polling,
                         warningMessages, buttons>>
      PROVE  UNCHANGED <<SavePhase, Warned>>
  BY <1>0, <1>1 DEF SavePhase
<1>2. CASE \/ \E text \in Inputs : EditInput(text)
           \/ handleVisibilityOfErrorPopup \/ UNCHANGED vars
  BY <1>1, <1>2 DEF EditInput, handleVisibilityOfErrorPopup, vars, childVars, formVars,
     popup
<1>3. CASE ChildAnswered
  BY <1>1, <1>3, AnswersKeepRound DEF ChildAnswered, formVars, popup
<1>4. ASSUME NEW valid \in BOOLEAN, validateFields(valid) PROVE Save!Next
  <2>1. CanUseForm /\ UNCHANGED <<page, updates>> /\ warningMessages' = FALSE
    BY <1>4 DEF validateFields, MaySave
  <2>2. CASE valid
    <3>1. RequestValidation /\ whichButtonWasClicked' = "Save"
      BY <1>4, <2>2 DEF validateFields
    <3>2. SavePhase = "editing" /\ SavePhase' = "validating" /\ Warned' = FALSE
      BY <2>1, <3>1, RequestPhase DEF Warned
    <3> QED
      BY <3>2 DEF Save!Submit, SavePhase, Warned
  <2>3. CASE ~valid
    <3>1. UNCHANGED <<childVars, modalLoading, whichButtonWasClicked>>
      BY <1>4, <2>3 DEF validateFields
    <3>2. SavePhase = "editing" /\ SavePhase' = "editing"
      BY <2>1, <3>1, UsableIsEditing DEF SavePhase, childVars
    <3>3. Warned' = FALSE \/ Warned' = Warned
      <4>1. CASE whichButtonWasClicked = "ContinueToSave"
        BY <3>1, <4>1 DEF Warned
      <4>2. CASE whichButtonWasClicked # "ContinueToSave"
        BY <2>1, <3>1, <4>2 DEF Warned
      <4> QED
        BY <4>1, <4>2
    <3> QED
      BY <3>2, <3>3 DEF Save!Refuse, SavePhase, Warned
  <2> QED
    BY <2>2, <2>3
<1>5. CASE callSaveAndNewButton
  <2>1. CanUseForm /\ UNCHANGED page /\ UNCHANGED <<warningMessages, whichButtonWasClicked>>
    BY <1>5 DEF callSaveAndNewButton, MaySave
  <2>2. UNCHANGED Warned
    BY <2>1 DEF Warned
  <2>3. CASE whichButtonWasClicked = "ContinueToSave"
    <3>1. updateContact /\ Warned
      BY <1>5, <2>3 DEF callSaveAndNewButton, Warned
    <3>2. SavePhase = "editing" /\ SavePhase' = "saving"
      BY <2>1, <3>1, DuplicatePhase
    <3> QED
      BY <2>2, <3>1, <3>2 DEF Save!SendDuplicate, SavePhase, Warned
  <2>4. CASE whichButtonWasClicked # "ContinueToSave"
    <3>1. RequestValidation /\ UNCHANGED updates
      BY <1>5, <2>4 DEF callSaveAndNewButton
    <3>2. SavePhase = "editing" /\ SavePhase' = "validating"
      BY <2>1, <3>1, RequestPhase
    <3> QED
      BY <2>2, <3>2 DEF Save!Submit, SavePhase, Warned
  <2> QED
    BY <2>3, <2>4
<1>6. CASE handleContinueToSave
  <2>1. /\ CanUseForm /\ isErrorPopup /\ ~errorMessages /\ updateContact
        /\ UNCHANGED <<page, warningMessages>>
    BY <1>6 DEF handleContinueToSave
  <2>2. warningMessages
    BY <2>1 DEF PopupHasContent
  <2>3. Warned = TRUE /\ Warned' = TRUE
    BY <2>1, <2>2 DEF Warned
  <2>4. SavePhase = "editing" /\ SavePhase' = "saving"
    BY <2>1, DuplicatePhase
  <2> QED
    BY <2>3, <2>4 DEF Save!SendDuplicate, SavePhase, Warned
<1>7. CASE StartRound
  <2>1. /\ page = "edit" /\ modalLoading > 0 /\ mounted /\ updates = <<>>
        /\ ~showModal_Invalid /\ polling' > 0
        /\ UNCHANGED <<page, updates, mounted, showModal_Invalid>>
    BY <1>7, StartsUnvalidated DEF StartRound, RoundInv, RoundOn
  <2>2. UNCHANGED <<warningMessages, buttons>>
    BY <1>7 DEF StartRound, popup
  <2>3. UNCHANGED SavePhase
    BY <2>1 DEF SavePhase
  <2> QED
    BY <1>0, <2>2, <2>3
<1>8. CASE ChildReports
  <2>1. mounted /\ polling > 0 /\ UNCHANGED <<page, warningMessages, buttons>>
    BY <1>8 DEF ChildReports, DQ!PollValid, DQ!PollException, popup
  <2>2. ~showModal_Invalid /\ updates = <<>> /\ page = "edit"
    BY <1>8, <2>1, SilentWhileAsking DEF ChildReports, RoundInv, RoundOn
  <2>3. updates' # <<>>
    BY <1>8, <2>2, SentAlone DEF ChildReports, dqValidationCompleted, saveData
  <2>4. SavePhase = "validating" /\ SavePhase' = "saving"
    BY <2>1, <2>2, <2>3 DEF SavePhase
  <2> QED
    BY <1>0, <2>1, <2>4 DEF Save!Send, SavePhase, Warned
<1>9. CASE ChildAsks
  <2>1. /\ mounted /\ polling > 0 /\ (showModal_Invalid => showModal_Invalid')
        /\ showModal_Invalid' \in BOOLEAN /\ showModal_Invalid \in BOOLEAN
        /\ UNCHANGED <<page, updates, mounted, modalLoading, polling>>
    BY <1>9 DEF ChildAsks, DQ!PollInvalid, formVars, FormInv, TypeOK, DQ!TypeOK
  <2>2. UNCHANGED <<warningMessages, buttons>>
    BY <1>9 DEF ChildAsks, formVars, popup
  <2>3. updates = <<>> /\ page = "edit"
    BY <2>1 DEF RoundInv, RoundOn
  <2>4. CASE ~showModal_Invalid /\ showModal_Invalid'
    <3>1. SavePhase = "validating" /\ SavePhase' = "asking"
      BY <2>1, <2>3, <2>4 DEF SavePhase
    <3> QED
      BY <1>0, <2>2, <3>1 DEF Save!Ask, SavePhase, Warned
  <2>5. CASE showModal_Invalid' = showModal_Invalid
    BY <1>1, <2>1, <2>2, <2>5
  <2> QED
    BY <2>1, <2>4, <2>5
<1>10. CASE AnswerYes
  <2>1. /\ mounted /\ showModal_Invalid /\ ~mounted'
        /\ UNCHANGED <<page, updates, modalLoading, warningMessages, buttons>>
    BY <1>10 DEF AnswerYes, DQ!handleYes, DQ!CloseModal, popup
  <2>2. SavePhase = "asking" /\ SavePhase' = "editing"
    BY <2>1, AskingPhase DEF SavePhase
  <2> QED
    BY <1>0, <2>1, <2>2 DEF Save!Correct, SavePhase, Warned
<1>11. CASE AnswerNo
  <2>1. mounted /\ showModal_Invalid /\ UNCHANGED <<page, warningMessages, buttons>>
    BY <1>11 DEF AnswerNo, DQ!handleNo, DQ!CloseModal, popup
  <2>2. SavePhase = "asking" /\ updates = <<>> /\ page = "edit"
    BY <2>1, AskingPhase
  <2>3. updates' # <<>>
    BY <1>11, <2>2, SentAlone DEF AnswerNo, dqValidationCompleted, saveData
  <2>4. SavePhase' = "saving"
    BY <2>1, <2>2, <2>3 DEF SavePhase
  <2> QED
    BY <1>0, <2>1, <2>2, <2>4 DEF Save!Send, SavePhase, Warned
<1>12. CASE ServerAnswers
  <2>1. PICK i \in DOMAIN updates :
            /\ \/ handleSuccess(i)
               \/ \E duplicates \in BOOLEAN : handleError(i, duplicates)
               \/ \E isSuccuss \in BOOLEAN : UpdateAnswer(i, isSuccuss)
               \/ UpdateRejected(i)
            /\ updates' = RemoveAt(updates, i)
            /\ UNCHANGED <<childVars, modalLoading, input, verified>>
    BY <1>12, ServerAnswersOne
  <2>2. /\ SavePhase = "saving"
        /\ SavePhase' = IF page' = "edit" THEN "editing" ELSE "left"
    BY <2>1, AnsweredPhase
  <2>3. updates[i] \in ToSet(updates)
    BY DEF ToSet
  <2>4. ASSUME page' # "edit", UNCHANGED Warned PROVE Save!Next
    BY <2>2, <2>4 DEF Save!Finish, SavePhase, Warned
  <2>5. ASSUME page' = "edit", Warned' = Warned \/ Warned' = TRUE PROVE Save!Next
    BY <2>2, <2>5 DEF Save!GiveBack, SavePhase, Warned
  <2>6. page = "edit"
    BY <2>1, AnsweredAlone
  <2>7. CASE handleSuccess(i)
    <3>1. whichButtonWasClicked # "ContinueToSave"
      BY <2>3, <2>7 DEF handleSuccess, UpdateInv
    <3>2. page' # "edit" /\ whichButtonWasClicked' = "null" /\ UNCHANGED warningMessages
      BY <2>7 DEF handleSuccess, Leave, popup
    <3> QED
      BY <2>4, <3>1, <3>2 DEF Warned
  <2>8. CASE \E duplicates \in BOOLEAN : handleError(i, duplicates)
    <3>1. whichButtonWasClicked # "ContinueToSave"
      BY <2>3, <2>8 DEF handleError, UpdateInv
    <3>2. /\ page' = page /\ whichButtonWasClicked' = "null"
          /\ warningMessages' = warningMessages \/ warningMessages' = TRUE
      BY <2>8 DEF handleError
    <3>3. Warned' = Warned \/ Warned' = TRUE
      BY <3>1, <3>2 DEF Warned
    <3> QED
      BY <2>5, <2>6, <3>2, <3>3
  <2>9. CASE (\E isSuccuss \in BOOLEAN : UpdateAnswer(i, isSuccuss)) \/ UpdateRejected(i)
    <3>1. UNCHANGED <<warningMessages, buttons>>
      BY <2>9 DEF UpdateAnswer, UpdateRejected, popup
    <3> QED
      BY <1>0, <2>4, <2>5, <3>1
  <2> QED
    BY <2>1, <2>7, <2>8, <2>9
<1>13. CASE cancelEdit
  <2>1. CanUseForm /\ page' # "edit" /\ UNCHANGED <<warningMessages, buttons>>
    BY <1>13 DEF cancelEdit
  <2>2. SavePhase = "editing" /\ SavePhase' = "left"
    BY <2>1, UsableIsEditing DEF SavePhase
  <2> QED
    BY <1>0, <2>1, <2>2 DEF Save!Cancel, SavePhase, Warned
<1>14. CASE editButton
  <2>1. /\ page = "view" /\ page' = "edit"
        /\ UNCHANGED <<childVars, modalLoading, updates, warningMessages, buttons>>
    BY <1>14 DEF editButton, popup
  <2>2. updates = <<>> /\ ~RoundOn
    BY <2>1, IdleHasNone DEF RoundInv
  <2>3. ~(mounted /\ showModal_Invalid)
    BY <2>2, AskingIsRound
  <2>4. SavePhase = "left" /\ SavePhase' = "editing"
    BY <2>1, <2>2, <2>3 DEF SavePhase, RoundOn, childVars
  <2> QED
    BY <1>0, <2>1, <2>4 DEF Save!Reopen, SavePhase, Warned
<1> QED
  BY <1>2, <1>3, <1>4, <1>5, <1>6, <1>7, <1>8, <1>9, <1>10, <1>11, <1>12, <1>13, <1>14
  DEF Next

(* A save is validated, then sent, once, or given back; only a duplicate     *)
(* warning, or a Continue to Save that was not answered by a success, lets   *)
(* the contact be sent without a validation.                                 *)
THEOREM KeepsSavePromise ==
  ASSUME MaxLate = 0, OnePairChanges
  PROVE  Spec => ImplementsSave
<1>1. Init => Save!Init
  BY DEF Init, NoChild, FreshChild, Save!Init
<1>2. FormInv /\ EditInv /\ PopupHasContent /\ [Next]_vars => [Save!Next]_(Save!vars)
  BY SaveStep DEF Save!vars, SavePhase, Warned, EditInv, FirmInv
<1> QED
  BY <1>1, <1>2, FormInvHolds, EditInvHolds, PopupOfMessages, PTL
  DEF Spec, ImplementsSave, Save!Spec
=============================================================================
