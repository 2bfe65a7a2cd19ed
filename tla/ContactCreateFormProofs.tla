----------------------- MODULE ContactCreateFormProofs -----------------------
(***************************************************************************)
(* Proofs about ContactCreateForm with the validation component it mounts, *)
(* for any number of rounds and of answers that come late.                 *)
(***************************************************************************)
EXTENDS ContactCreateForm, DQHostProofs, TLAPS

(* The answers of the callouts leave the interval and the modal alone.       *)
LEMMA AnswersKeepRound ==
  ASSUME ChildSettles
  PROVE  UNCHANGED <<polling, mounted, showModal_Invalid, round>>
BY DEF ChildSettles, DQ!Settle, DQ!MetadataAnswer, DQ!MetadataRejected,
   DQ!EmailAnswer, DQ!EmailRejected, DQ!PhoneAnswer, DQ!PhoneRejected,
   DQ!AddressAnswer, DQ!AddressRejected, DQ!display

(* An answer of the server is one to a record on its way.                    *)
LEMMA ServerAnswersKeepRound ==
  ASSUME ServerAnswers
  PROVE  /\ UNCHANGED <<polling, mounted, showModal_Invalid, round, modalLoading,
                        overlapped>>
         /\ creates # <<>>
<1>1. PICK i \in DOMAIN creates :
          \/ handleSucess(i)
          \/ \E duplicates \in BOOLEAN : handleError(i, duplicates)
          \/ \E isSuccuss \in BOOLEAN : InsertAnswer(i, isSuccuss)
          \/ InsertRejected(i)
  BY DEF ServerAnswers
<1>2. creates # <<>>
  BY <1>1
<1>3. UNCHANGED <<childVars, modalLoading, overlapped>>
  BY <1>1 DEF handleSucess, handleError, InsertAnswer, InsertRejected, history
<1> QED
  BY <1>2, <1>3 DEF childVars

(* Saves that overlapped once are not told apart again.                      *)
LEMMA OverlapStays ==
  ASSUME [Next]_vars, ~overlapped'
  PROVE  ~overlapped
<1>1. CASE \E button \in {"Save", "SaveAndNew"}, valid \in BOOLEAN : validateFields(button, valid)
  BY <1>1 DEF validateFields
<1>2. CASE ServerAnswers
  BY <1>2, ServerAnswersKeepRound
<1>3. CASE \/ \E in \in Inputs : EditInput(in)
           \/ AccountAnswer \/ StartRound \/ ChildAnswered \/ ChildReports \/ ChildAsks
           \/ AnswerYes \/ AnswerNo \/ handleContinueToSave
           \/ handleVisibilityOfErrorPopup \/ handleViewRecordDatail \/ closeModal
           \/ UNCHANGED vars
  BY <1>3 DEF EditInput, AccountAnswer, StartRound, ChildAnswered, ChildReports,
     ChildAsks, AnswerYes, AnswerNo, handleContinueToSave,
     handleVisibilityOfErrorPopup, handleViewRecordDatail, closeModal, vars,
     formVars, history
<1> QED
  BY <1>1, <1>2, <1>3 DEF Next

-----------------------------------------------------------------------------
(* Types.                                                                    *)

(* Every step of the form moves its instance by one of the steps DQHostProofs*)
(* knows; the round it starts is about a form it may submit.                 *)
LEMMA FormStepsChild ==
  ASSUME TypeOK, [Next]_vars
  PROVE  ChildStep
<1>1. ASSUME NEW button \in {"Save", "SaveAndNew"}, NEW valid \in BOOLEAN,
             validateFields(button, valid)
      PROVE  ChildStep
  BY <1>1 DEF validateFields, handleSubmit, ChildStep
<1>2. CASE StartRound
  <2>1. [value |-> contactDetail.text, asked |-> dqFieldsToValidate] \in ChildForms
    BY DEF TypeOK, ChildForms
  <2>2. Held(contactDetail) \in Helds
    BY HeldTyped DEF TypeOK, HostTyped
  <2> QED
    BY <1>2, <2>1, <2>2 DEF StartRound, ChildStep
<1>3. CASE ChildAnswered \/ ChildReports \/ ChildAsks \/ AnswerYes \/ AnswerNo
  BY <1>3 DEF ChildAnswered, ChildReports, ChildAsks, AnswerYes, AnswerNo, ChildStep
<1>4. CASE \/ \E in \in Inputs : EditInput(in)
           \/ AccountAnswer \/ handleVisibilityOfErrorPopup \/ handleViewRecordDatail
           \/ closeModal \/ handleContinueToSave \/ UNCHANGED vars
  BY <1>4 DEF EditInput, AccountAnswer, handleVisibilityOfErrorPopup,
     handleViewRecordDatail, closeModal, handleContinueToSave, vars, ChildStep
<1>5. CASE ServerAnswers
  BY <1>5 DEF ServerAnswers, handleSucess, handleError, InsertAnswer, InsertRejected,
     ChildStep
<1> QED
  BY <1>1, <1>2, <1>3, <1>4, <1>5 DEF Next

(* What the types rest on: while the form is open its popup has a message, a *)
(* warning is about a record that was refused, and before the first save     *)
(* there is nothing on its way or warned about.                              *)
BeforeSave ==
    page = "form" =>
        /\ isErrorPopup => errorMessages \/ warningMessages
        /\ warningMessages => refused \in DQ!Outcomes
        /\ lastClicked = "null" =>
              creates = <<>> /\ ~warningMessages /\ ~mounted /\ modalLoading = 0

FormInv == TypeOK /\ BeforeSave

Detail == [text : [Fields -> Contents], checked : BOOLEAN, held : Helds,
           country : {"own", "waiting", "account", "missing"}]

(* TypeOK without the part of the child.                                     *)
FormTypes ==
    /\ input \in Inputs
    /\ contactDetail \in Detail
    /\ dqFieldsToValidate \subseteq Fields
    /\ whichButtonWasClicked \in {"null", "Save", "SaveAndNew", "ContinueToSave"}
    /\ lastClicked \in {"null", "Save", "SaveAndNew"}
    /\ isSpinner \in BOOLEAN
    /\ isErrorPopup \in BOOLEAN
    /\ errorMessages \in BOOLEAN
    /\ warningMessages \in BOOLEAN
    /\ formInValidData \in DQ!Outcomes \union {"undefined"}
    /\ modalLoading \in Nat
    /\ copiedCountry \in {"own", "account", "missing"}
    /\ creates \in Seq(Records)
    /\ page \in {"form", "view", "new", "other", "closed"}
    /\ refused \in DQ!Outcomes \union {"none"}
    /\ overlapped \in BOOLEAN

LEMMA TypesSplit == /\ TypeOK <=> HostTyped /\ FormTypes
                    /\ TypeOK' <=> HostTyped' /\ FormTypes'
BY DEF TypeOK, HostTyped, FormTypes, Detail

(* The counts of intervals, and the records.                                 *)
LEMMA CountsTyped ==
  ASSUME TypeOK
  PROVE  modalLoading \in Nat /\ polling \in Nat
BY DEF TypeOK, DQ!TypeOK

LEMMA CreatesTyped ==
  ASSUME TypeOK
  PROVE  /\ creates \in Seq(ToSet(creates)) /\ ToSet(creates) \subseteq Records
         /\ Len(creates) \in Nat
<1>1. creates \in Seq(Records)
  BY DEF TypeOK
<1> HIDE DEF Records
<1> QED
  BY <1>1, SeqOfOwn

LEMMA AppendTyped ==
  ASSUME NEW R, NEW s \in Seq(R), NEW e \in R
  PROVE  Append(s, e) \in Seq(R)
OBVIOUS

LEMMA RecordTyped ==
  ASSUME TypeOK, NEW kind \in {"form", "duplicate"}, NEW text \in [Fields -> Contents],
         NEW held \in Helds, NEW outcome \in DQ!Outcomes,
         NEW country \in {"own", "account", "missing"}, lastClicked # "null"
  PROVE  Sent(kind, text, held, outcome, country) \in Records
BY DEF Sent, Records, Helds, TypeOK

LEMMA SaveTyped ==
  ASSUME FormInv, page = "form", mounted,
         NEW outcome \in DQ!Outcomes, dqValidationCompleted(outcome)
  PROVE  /\ contactDetail' \in Detail
         /\ formInValidData' \in DQ!Outcomes
         /\ creates' \in Seq(Records)
<1>1. form.value \in [Fields -> Contents]
  BY DEF FormInv, TypeOK, DQ!TypeOK, ChildForms
<1>2. [status |-> status, verified |-> verified] \in Helds
  <2>1. DQ!Fields = Fields
    BY DEF DQ!Fields, DQ!Emails, DQ!Phones, Fields
  <2> QED
    BY <2>1 DEF FormInv, TypeOK, DQ!TypeOK, Helds
<1>3. copiedCountry \in {"own", "account", "missing"} /\ creates \in Seq(Records)
      /\ lastClicked # "null"
  BY DEF FormInv, TypeOK, BeforeSave
<1> DEFINE e == Sent("form", form.value, [status |-> status, verified |-> verified],
                     outcome, copiedCountry)
<1>4. e \in Records
  BY <1>1, <1>2, <1>3, RecordTyped DEF FormInv
<1>5. creates' = Append(creates, e) /\ contactDetail' = ChildData
      /\ formInValidData' = outcome
  BY DEF dqValidationCompleted
<1> HIDE DEF e, Records
<1>6. creates' \in Seq(Records)
  BY <1>3, <1>4, <1>5, AppendTyped
<1>7. ChildData \in Detail
  BY <1>1, <1>3, NothingHeldTyped DEF ChildData, Detail
<1> QED
  BY <1>5, <1>6, <1>7

(* An answer of the server leaves a sequence of records.                     *)
LEMMA AnswerTyped ==
  ASSUME TypeOK, NEW i \in DOMAIN creates, creates' = RemoveAt(creates, i)
  PROVE  /\ creates' \in Seq(Records)
         /\ creates' \in Seq(ToSet(creates')) /\ ToSet(creates') \subseteq ToSet(creates)
         /\ creates[i] \in ToSet(creates) /\ creates[i].outcome \in DQ!Outcomes
         /\ creates # <<>>
<1>1. /\ creates \in Seq(ToSet(creates)) /\ ToSet(creates) \subseteq Records
  BY CreatesTyped
<1>2. creates[i] \in ToSet(creates) /\ creates # <<>>
  BY DEF ToSet
<1>3. creates[i] \in Records
  BY <1>1, <1>2
<1>4. creates[i].outcome \in DQ!Outcomes
  BY <1>3 DEF Records
<1>5. creates' \in Seq(ToSet(creates')) /\ ToSet(creates') \subseteq ToSet(creates)
  BY <1>1, AnsweredElements
<1>6. creates' \in Seq(Records)
  <2> HIDE DEF Records
  <2> QED
    BY <1>1, <1>5
<1> QED
  BY <1>2, <1>4, <1>5, <1>6

LEMMA DuplicateTyped ==
  ASSUME FormInv, handleContinueToSave
  PROVE  creates' \in Seq(Records) /\ warningMessages /\ lastClicked # "null"
<1> DEFINE e == Sent("duplicate", input.text, Held(contactDetail), refused,
                     IF input.addressFrom = "Account" THEN "missing" ELSE "own")
<1>1. warningMessages /\ lastClicked # "null" /\ refused \in DQ!Outcomes
  BY DEF handleContinueToSave, CanUseForm, FormInv, BeforeSave
<1>2. Held(contactDetail) \in Helds
  BY HeldTyped DEF FormInv, TypeOK, HostTyped
<1>3. input.text \in [Fields -> Contents]
  BY InputsAssumption DEF FormInv, TypeOK
<1>4. e \in Records
  BY <1>1, <1>2, <1>3, RecordTyped DEF FormInv
<1>5. creates' = Append(creates, e) /\ creates \in Seq(Records)
  BY DEF handleContinueToSave, FormInv, TypeOK
<1> HIDE DEF e, Records
<1>6. creates' \in Seq(Records)
  BY <1>4, <1>5, AppendTyped
<1> QED
  BY <1>1, <1>6

LEMMA FormTypesKept ==
  ASSUME FormInv, [Next]_vars
  PROVE  FormTypes' /\ BeforeSave'
<1>0. FormTypes /\ BeforeSave
  BY TypesSplit DEF FormInv
<1>1. ASSUME NEW in \in Inputs, EditInput(in) PROVE FormTypes' /\ BeforeSave'
  BY <1>0, <1>1 DEF EditInput, FormTypes, BeforeSave, buttons, popup, sending, childVars,
     history
<1>2. ASSUME NEW button \in {"Save", "SaveAndNew"}, NEW valid \in BOOLEAN,
             validateFields(button, valid)
      PROVE  FormTypes' /\ BeforeSave'
  <2>1. CASE valid
    <3>1. input.text \in [Fields -> Contents] /\ Filled(input) \subseteq Fields
      BY <1>0, InputsAssumption DEF FormTypes, Filled
    <3>2. /\ contactDetail' = [text |-> input.text, checked |-> FALSE,
                               held |-> NothingHeld,
                               country |-> IF input.addressFrom = "Account"
                                           THEN "waiting" ELSE "own"]
          /\ dqFieldsToValidate' = dqFieldsToValidate \union Filled(input)
          /\ modalLoading' = modalLoading + 1 /\ isSpinner' = TRUE
          /\ whichButtonWasClicked' = button /\ lastClicked' = button
          /\ overlapped' = (overlapped \/ creates # <<>>)
      BY <1>2, <2>1 DEF validateFields, handleSubmit, startSpinner
    <3>3. /\ isErrorPopup' = FALSE /\ errorMessages' = FALSE /\ warningMessages' = FALSE
          /\ UNCHANGED <<input, formInValidData, copiedCountry, creates, page, refused>>
      BY <1>2, <2>1 DEF validateFields, showErrors
    <3>4. contactDetail' \in Detail /\ modalLoading' \in Nat
          /\ dqFieldsToValidate' \subseteq Fields /\ overlapped' \in BOOLEAN
      BY <1>0, <3>1, <3>2, NothingHeldTyped DEF FormTypes, Detail
    <3> QED
      BY <1>0, <3>2, <3>3, <3>4 DEF FormTypes, BeforeSave
  <2>2. CASE ~valid
    BY <1>0, <1>2, <2>2 DEF validateFields, showErrors, FormTypes, BeforeSave, buttons,
       childVars, CanUseForm
  <2> QED
    BY <2>1, <2>2
<1>3. CASE AccountAnswer
  <2>1. contactDetail' \in Detail
    BY <1>0, <1>3 DEF AccountAnswer, FormTypes, Detail
  <2> QED
    BY <1>0, <1>3, <2>1 DEF AccountAnswer, FormTypes, BeforeSave, buttons, popup,
       childVars, history
<1>4. CASE StartRound
  <2>1. Held(contactDetail) \in Helds
    BY HeldTyped DEF FormInv, TypeOK, HostTyped
  <2>2. contactDetail' \in Detail /\ copiedCountry' \in {"own", "account", "missing"}
    BY <1>0, <1>4, <2>1 DEF StartRound, FormTypes, Detail
  <2>3. mounted /\ page = "form" /\ modalLoading > 0 /\ modalLoading' = modalLoading - 1
    BY <1>4 DEF StartRound
  <2>4. modalLoading' \in Nat
    BY <1>0, <2>3 DEF FormTypes
  <2>5. FormTypes'
    BY <1>0, <1>4, <2>2, <2>4 DEF StartRound, FormTypes, buttons, popup, history
  <2>6. BeforeSave'
    BY <1>0, <1>4, <2>3 DEF StartRound, BeforeSave, buttons, popup, history
  <2> QED
    BY <2>5, <2>6
<1>5. CASE ChildAnswered
  BY <1>0, <1>5, AnswersKeepRound DEF ChildAnswered, formVars, FormTypes, BeforeSave,
     buttons, popup, sending, history
<1>6. CASE ChildReports
  <2>1. PICK outcome \in DQ!Outcomes : dqValidationCompleted(outcome)
    BY <1>6 DEF ChildReports, DQ!Outcomes
  <2>2. mounted /\ page = "form" /\ UNCHANGED mounted
    BY <1>6 DEF ChildReports, DQ!PollValid, DQ!PollException
  <2>3. /\ UNCHANGED <<input, buttons, isSpinner, popup, dqFieldsToValidate,
                       modalLoading, copiedCountry, page, history>>
        /\ lastClicked # "null"
    BY <1>0, <1>6, <2>2 DEF ChildReports, BeforeSave
  <2>4. /\ contactDetail' \in Detail /\ formInValidData' \in DQ!Outcomes
        /\ creates' \in Seq(Records)
    BY <2>1, <2>2, SaveTyped
  <2>5. FormTypes'
    BY <1>0, <2>3, <2>4 DEF FormTypes, buttons, popup, history
  <2>6. BeforeSave'
    BY <1>0, <2>2, <2>3 DEF BeforeSave, buttons, popup, history
  <2> QED
    BY <2>5, <2>6
<1>7. CASE ChildAsks
  BY <1>0, <1>7 DEF ChildAsks, DQ!PollInvalid, formVars, FormTypes, BeforeSave, buttons,
     popup, sending, history
<1>8. CASE AnswerYes
  <2>1. ~mounted' /\ isSpinner' = FALSE
        /\ UNCHANGED <<input, buttons, popup, sending, page, history>>
    BY <1>8 DEF AnswerYes, DQ!handleYes, DQ!CloseModal, closeDQPopupModal
  <2>2. FormTypes'
    <3>1. isSpinner' \in BOOLEAN
      BY <2>1
    <3>2. UNCHANGED <<input, buttons, popup, sending, page, history>>
      BY <2>1
    <3> QED
      BY <1>0, <3>1, <3>2 DEF FormTypes, buttons, popup, sending, history
  <2> QED
    BY <1>0, <2>1, <2>2 DEF BeforeSave, buttons, popup, sending, history
<1>9. CASE AnswerNo
  <2>1. dqValidationCompleted("invalidData") /\ "invalidData" \in DQ!Outcomes
    BY <1>9 DEF AnswerNo, DQ!Outcomes
  <2>2. mounted /\ page = "form" /\ ~mounted'
    BY <1>9 DEF AnswerNo, DQ!handleNo, DQ!CloseModal
  <2>3. /\ UNCHANGED <<input, buttons, popup, dqFieldsToValidate,
                       modalLoading, copiedCountry, page, history>>
        /\ lastClicked # "null" /\ isSpinner' = FALSE
    BY <1>0, <1>9, <2>2 DEF AnswerNo, closeDQPopupModal, BeforeSave
  <2>4. /\ contactDetail' \in Detail /\ formInValidData' \in DQ!Outcomes
        /\ creates' \in Seq(Records)
    BY <2>1, <2>2, SaveTyped
  <2>5. FormTypes'
    <3>1. isSpinner' \in BOOLEAN
      BY <2>3
    <3>2. UNCHANGED <<input, buttons, popup, dqFieldsToValidate, modalLoading,
                      copiedCountry, page, history>>
      BY <2>3
    <3> QED
      BY <1>0, <2>4, <3>1, <3>2 DEF FormTypes, buttons, popup, history
  <2>6. BeforeSave'
    BY <1>0, <2>2, <2>3 DEF BeforeSave, buttons, popup, history
  <2> QED
    BY <2>5, <2>6
<1>10. CASE ServerAnswers
  <2>1. PICK i \in DOMAIN creates :
            \/ handleSucess(i)
            \/ \E duplicates \in BOOLEAN : handleError(i, duplicates)
            \/ \E isSuccuss \in BOOLEAN : InsertAnswer(i, isSuccuss)
            \/ InsertRejected(i)
    BY <1>10 DEF ServerAnswers
  <2>2. creates' = RemoveAt(creates, i) /\ page = "form" /\ isSpinner' = FALSE
    BY <2>1 DEF handleSucess, handleError, InsertAnswer, InsertRejected
  <2>3. /\ creates' \in Seq(Records) /\ creates # <<>>
        /\ creates[i].outcome \in DQ!Outcomes
    BY <2>2, AnswerTyped DEF FormInv
  <2>4. lastClicked # "null"
    BY <1>0, <2>2, <2>3 DEF BeforeSave
  <2>5. UNCHANGED <<childVars, input, contactDetail, dqFieldsToValidate,
                    formInValidData, modalLoading, copiedCountry, overlapped>>
    BY <2>1 DEF handleSucess, handleError, InsertAnswer, InsertRejected, history
  <2>6. \/ UNCHANGED <<buttons, page>>
        \/ page' = "view" /\ UNCHANGED buttons
        \/ page' = "new" /\ whichButtonWasClicked' = "null" /\ lastClicked' = "null"
    BY <2>1 DEF handleSucess, handleError, InsertAnswer, InsertRejected, Leave
  <2>7. \/ UNCHANGED <<popup, refused>>
        \/ /\ page' # "form" /\ warningMessages' \in BOOLEAN
           /\ UNCHANGED <<isErrorPopup, errorMessages, refused>>
        \/ /\ isErrorPopup' = TRUE
           /\ \/ /\ warningMessages' = TRUE /\ UNCHANGED errorMessages
                 /\ refused' = creates[i].outcome
              \/ errorMessages' = TRUE /\ UNCHANGED <<warningMessages, refused>>
    <3>1. CASE handleSucess(i)
      BY <1>0, <3>1 DEF handleSucess, Leave, FormTypes
    <3>2. ASSUME NEW duplicates \in BOOLEAN, handleError(i, duplicates)
          PROVE  /\ isErrorPopup' = TRUE
                 /\ \/ /\ warningMessages' = TRUE /\ UNCHANGED errorMessages
                       /\ refused' = creates[i].outcome
                    \/ errorMessages' = TRUE /\ UNCHANGED <<warningMessages, refused>>
      BY <3>2 DEF handleError
    <3>3. CASE (\E isSuccuss \in BOOLEAN : InsertAnswer(i, isSuccuss)) \/ InsertRejected(i)
      BY <3>3 DEF InsertAnswer, InsertRejected, history
    <3> QED
      BY <2>1, <3>1, <3>2, <3>3
  <2>8. FormTypes'
    <3>1. /\ whichButtonWasClicked' \in {whichButtonWasClicked, "null"}
          /\ lastClicked' \in {lastClicked, "null"}
          /\ page' \in {page, "view", "new"}
      BY <2>6 DEF buttons
    <3>2. /\ isErrorPopup' \in BOOLEAN /\ errorMessages' \in BOOLEAN
          /\ warningMessages' \in BOOLEAN /\ refused' \in DQ!Outcomes \union {"none"}
          /\ isSpinner' \in BOOLEAN
      BY <1>0, <2>2, <2>3, <2>7 DEF FormTypes, popup
    <3> QED
      BY <1>0, <2>3, <2>5, <3>1, <3>2 DEF FormTypes
  <2>9. BeforeSave'
    <3> SUFFICES ASSUME page' = "form"
                 PROVE  /\ isErrorPopup' => errorMessages' \/ warningMessages'
                        /\ warningMessages' => refused' \in DQ!Outcomes
                        /\ lastClicked' # "null"
      BY DEF BeforeSave
    <3>1. lastClicked' # "null"
      BY <2>4, <2>6 DEF buttons
    <3> QED
      BY <1>0, <2>2, <2>3, <2>7, <3>1 DEF BeforeSave, popup
  <2> QED
    BY <2>8, <2>9
<1>11. CASE handleContinueToSave
  <2>1. creates' \in Seq(Records) /\ warningMessages /\ lastClicked # "null"
    BY <1>11, DuplicateTyped
  <2>2. /\ whichButtonWasClicked' = "ContinueToSave" /\ isSpinner' = TRUE
        /\ isErrorPopup' = FALSE
        /\ UNCHANGED <<childVars, input, lastClicked, errorMessages, warningMessages,
                       contactDetail, dqFieldsToValidate, formInValidData, modalLoading,
                       copiedCountry, page, history>>
    BY <1>11 DEF handleContinueToSave, startSpinner
  <2> QED
    BY <1>0, <2>1, <2>2 DEF FormTypes, BeforeSave, childVars, history
<1>12. CASE handleVisibilityOfErrorPopup
  BY <1>0, <1>12 DEF handleVisibilityOfErrorPopup, CanUseForm, FormTypes, BeforeSave,
     buttons, sending, childVars, history
<1>13. CASE handleViewRecordDatail \/ closeModal
  BY <1>0, <1>13 DEF handleViewRecordDatail, closeModal, FormTypes, BeforeSave, buttons,
     popup, sending, history
<1>14. CASE UNCHANGED vars
  BY <1>0, <1>14 DEF vars, formVars, FormTypes, BeforeSave, buttons, popup, sending,
     childVars, history
<1> QED
  BY <1>1, <1>2, <1>3, <1>4, <1>5, <1>6, <1>7, <1>8, <1>9, <1>10, <1>11, <1>12, <1>13,
     <1>14 DEF Next

LEMMA FormInvHolds == Spec => []FormInv
<1>1. Init => FormInv
  <2> SUFFICES ASSUME Init PROVE FormInv
    OBVIOUS
  <2>1. HostTyped
    BY NoChildTyped DEF Init
  <2>2. creates \in Seq(Records)
    BY DEF Init
  <2>3. contactDetail \in Detail
    BY NothingHeldTyped DEF Init, Contents, Detail
  <2>4. BeforeSave
    BY DEF Init, NoChild, BeforeSave
  <2>5. FormTypes
    BY <2>2, <2>3 DEF Init, FormTypes
  <2> QED
    BY <2>1, <2>4, <2>5, TypesSplit DEF FormInv
<1>2. FormInv /\ [Next]_vars => FormInv'
  <2> SUFFICES ASSUME FormInv, [Next]_vars PROVE FormInv'
    OBVIOUS
  <2>1. HostTyped'
    BY FormStepsChild, ChildStepTyped, TypesSplit DEF FormInv
  <2> QED
    BY <2>1, FormTypesKept, TypesSplit DEF FormInv
<1> QED
  BY <1>1, <1>2, PTL DEF Spec

(* The form's state and the child's have the types they are read with.       *)
THEOREM FormTypeCorrect == Spec => []TypeOK
<1>1. FormInv => TypeOK
  BY DEF FormInv
<1> QED
  BY <1>1, FormInvHolds, PTL

(* On the open form the popup has something to say, also when saves overlap  *)
(* and answers of the validation come late.                                  *)
THEOREM PopupOfMessages == Spec => []PopupHasContent
<1>1. FormInv => PopupHasContent
  BY DEF FormInv, BeforeSave, PopupHasContent
<1> QED
  BY <1>1, FormInvHolds, PTL
-----------------------------------------------------------------------------
(* The rounds of saves that do not overlap.                                  *)

(* A round is on from the click of Save until the report or the user's       *)
(* answer.  The spinner covers the form all that time, nothing is on its way *)
(* to the server, and a round that waits for the component finds it idle.    *)
RoundOn == modalLoading > 0 \/ (mounted /\ polling > 0)

RoundKept ==
    /\ RoundOn => isSpinner = TRUE /\ creates = <<>>
    /\ modalLoading > 0 => mounted /\ polling = 0 /\ ~showModal_Invalid
    /\ modalLoading <= 1 /\ polling <= 1

RoundInv == ~overlapped => RoundKept

LEMMA Counted ==
  ASSUME NEW n \in Nat
  PROVE  /\ n > 0 \/ n = 0
         /\ n <= 1 /\ n > 0 => n = 1
OBVIOUS

LEMMA RoundInvStep ==
  ASSUME FormInv, RoundInv, [Next]_vars, ~overlapped'
  PROVE  RoundKept'
<1>0. RoundKept
  BY OverlapStays DEF RoundInv
<1>0n. modalLoading \in Nat /\ polling \in Nat
  BY CountsTyped DEF FormInv
<1>1. ASSUME UNCHANGED <<polling, mounted, showModal_Invalid, modalLoading,
                         isSpinner, creates>>
      PROVE  RoundKept'
  BY <1>0, <1>1 DEF RoundKept, RoundOn
<1>2. CASE \/ \E in \in Inputs : EditInput(in)
           \/ AccountAnswer
           \/ handleVisibilityOfErrorPopup
           \/ handleViewRecordDatail
           \/ closeModal
  BY <1>1, <1>2 DEF EditInput, AccountAnswer, handleVisibilityOfErrorPopup,
     handleViewRecordDatail, closeModal, childVars, sending
<1>3. ASSUME NEW button \in {"Save", "SaveAndNew"}, NEW valid \in BOOLEAN,
             validateFields(button, valid)
      PROVE  RoundKept'
  <2>1. CASE ~valid
    BY <1>1, <1>3, <2>1 DEF validateFields, childVars
  <2>2. CASE valid
    <3>1. /\ creates' = creates
          /\ isSpinner' = TRUE /\ modalLoading' = modalLoading + 1
          /\ overlapped' = (overlapped \/ creates # <<>>)
          /\ CanUseForm /\ MountChild
      BY <1>3, <2>2 DEF validateFields, startSpinner, handleSubmit
    <3>2. creates = <<>>
      BY <3>1
    <3>3. ~RoundOn
      BY <1>0, <3>1 DEF CanUseForm, RoundKept
    <3>4. modalLoading = 0
      BY <1>0n, <3>3, Counted DEF RoundOn
    <3>5. modalLoading' = 1
      BY <3>1, <3>4
    <3>6. mounted' = TRUE /\ polling' = 0 /\ ~showModal_Invalid'
      <4>1. CASE mounted
        <5>1. polling = 0 /\ ~showModal_Invalid
          BY <1>0n, <3>1, <3>3, <4>1, Counted DEF RoundOn, CanUseForm
        <5> QED
          BY <3>1, <4>1, <5>1 DEF MountChild
      <4>2. CASE ~mounted
        BY <3>1, <4>2 DEF MountChild, NewChild
      <4> QED
        BY <4>1, <4>2
    <3> QED
      BY <3>1, <3>2, <3>5, <3>6 DEF RoundKept
  <2> QED
    BY <2>1, <2>2
<1>4. CASE StartRound
  <2>1. /\ modalLoading > 0 /\ mounted
        /\ modalLoading' = modalLoading - 1 /\ polling' = polling + 1
        /\ UNCHANGED <<mounted, showModal_Invalid, isSpinner, creates>>
    BY <1>4 DEF StartRound, StartChild, DQ!validateDQServices, DQ!display
  <2>2. modalLoading = 1 /\ polling = 0
    BY <1>0, <1>0n, <2>1, Counted DEF RoundKept
  <2>3. modalLoading' = 0 /\ polling' = 1
    BY <2>1, <2>2
  <2>4. isSpinner = TRUE /\ creates = <<>>
    BY <1>0, <2>1 DEF RoundKept, RoundOn
  <2> QED
    BY <2>1, <2>3, <2>4 DEF RoundKept
<1>5. CASE ChildAnswered
  BY <1>1, <1>5, AnswersKeepRound DEF ChildAnswered, formVars, sending
<1>6. CASE ChildReports
  <2>1. /\ mounted /\ polling > 0 /\ polling' = polling - 1
        /\ modalLoading' = modalLoading
    BY <1>6 DEF ChildReports, DQ!PollValid, DQ!PollException
  <2>2. modalLoading = 0 /\ polling = 1
    BY <1>0, <1>0n, <2>1, Counted DEF RoundKept
  <2>3. modalLoading' = 0 /\ polling' = 0
    BY <2>1, <2>2
  <2> QED
    BY <2>3 DEF RoundKept, RoundOn
<1>7. CASE ChildAsks
  <2>1. /\ mounted /\ polling > 0
        /\ UNCHANGED <<polling, mounted, modalLoading, isSpinner, creates>>
    BY <1>7 DEF ChildAsks, DQ!PollInvalid, formVars, sending
  <2>2. ~(modalLoading > 0)
    BY <1>0, <2>1 DEF RoundKept
  <2> QED
    BY <1>0, <2>1, <2>2 DEF RoundKept, RoundOn
<1>8. CASE AnswerYes \/ AnswerNo
  <2>1. /\ showModal_Invalid /\ mounted' = FALSE
        /\ modalLoading' = modalLoading /\ polling' = polling
    BY <1>8 DEF AnswerYes, AnswerNo, DQ!handleYes, DQ!handleNo, DQ!CloseModal, sending
  <2>2. ~(modalLoading > 0)
    BY <1>0, <2>1 DEF RoundKept
  <2> QED
    BY <1>0, <2>1, <2>2 DEF RoundKept, RoundOn
<1>9. CASE ServerAnswers
  <2>1. ~RoundOn /\ UNCHANGED <<polling, mounted, showModal_Invalid, modalLoading>>
    BY <1>0, <1>9, ServerAnswersKeepRound DEF RoundKept
  <2> QED
    BY <1>0, <2>1 DEF RoundKept, RoundOn
<1>10. CASE handleContinueToSave
  <2>1. /\ ~isSpinner
        /\ UNCHANGED <<polling, mounted, showModal_Invalid, modalLoading>>
    BY <1>10 DEF handleContinueToSave, CanUseForm, childVars
  <2> QED
    BY <1>0, <2>1 DEF RoundKept, RoundOn
<1>11. CASE UNCHANGED vars
  BY <1>1, <1>11 DEF vars, childVars, formVars, sending
<1> QED
  BY <1>2, <1>3, <1>4, <1>5, <1>6, <1>7, <1>8, <1>9, <1>10, <1>11 DEF Next

LEMMA RoundInvHolds == Spec => []RoundInv
<1>1. Init => RoundInv
  BY DEF Init, NoChild, FreshChild, RoundInv, RoundKept, RoundOn
<1>2. FormInv /\ RoundInv /\ [Next]_vars => RoundInv'
  BY RoundInvStep DEF RoundInv
<1> QED
  BY <1>1, <1>2, FormInvHolds, PTL DEF Spec

(* Only the interval that waits for the component starts a round.            *)
LEMMA OnlyStartRound ==
  ASSUME [Next]_vars, round' # round
  PROVE  StartRound
<1>1. CASE \E button \in {"Save", "SaveAndNew"}, valid \in BOOLEAN : validateFields(button, valid)
  BY <1>1 DEF validateFields, handleSubmit, MountChild, childVars
<1>2. CASE ChildAnswered
  BY <1>2, AnswersKeepRound DEF ChildAnswered
<1>3. CASE ServerAnswers
  BY <1>3, ServerAnswersKeepRound
<1>4. CASE \/ \E in \in Inputs : EditInput(in)
           \/ AccountAnswer \/ handleVisibilityOfErrorPopup \/ handleViewRecordDatail
           \/ closeModal \/ handleContinueToSave \/ UNCHANGED vars
  BY <1>4 DEF EditInput, AccountAnswer, handleVisibilityOfErrorPopup,
     handleViewRecordDatail, closeModal, handleContinueToSave, vars, childVars
<1>5. CASE ChildReports \/ ChildAsks \/ AnswerYes \/ AnswerNo
  BY <1>5 DEF ChildReports, ChildAsks, AnswerYes, AnswerNo, DQ!PollValid,
     DQ!PollException, DQ!PollInvalid, DQ!handleYes, DQ!handleNo, DQ!CloseModal
<1> QED
  BY <1>1, <1>2, <1>3, <1>4, <1>5 DEF Next

(* The form starts a round only when the component is idle, for as long as   *)
(* no save begins while a create is out.                                     *)
THEOREM OneRoundAtATime == Spec => RoundsDoNotOverlap
<1>1. RoundInv /\ [Next]_vars
        => [round' # round /\ ~overlapped => polling = 0 /\ ~showModal_Invalid]_vars
  <2> SUFFICES ASSUME RoundInv, [Next]_vars, round' # round, ~overlapped
               PROVE  polling = 0 /\ ~showModal_Invalid
    OBVIOUS
  <2>1. StartRound
    BY OnlyStartRound
  <2> QED
    BY <2>1 DEF StartRound, RoundInv, RoundKept
<1> QED
  BY <1>1, RoundInvHolds, PTL DEF Spec, RoundsDoNotOverlap

-----------------------------------------------------------------------------
(* The verdicts of the records on their way.                                 *)

(* An outcome that is not taken for "valid" by mistake: the verdict of the   *)
(* last save is its own, or it is not "valid".                               *)
NotMistaken(outcome) == outcome = "DQ_CALLOUT" \/ formInValidData # "DQ_CALLOUT"

VerdictsKept ==
    /\ RoundOn => ~warningMessages
    /\ warningMessages => NotMistaken(refused)
    /\ \A s \in ToSet(creates) : NotMistaken(s.outcome)
    /\ ToastTellsOutcome

VerdictInv == ~overlapped => VerdictsKept

(* A record of a save is sent with the outcome the form remembers.           *)
LEMMA SaveIsSent ==
  ASSUME TypeOK, VerdictsKept, NEW outcome, dqValidationCompleted(outcome),
         creates = <<>> \/ outcome # "DQ_CALLOUT"
  PROVE  \A s \in ToSet(creates') : NotMistaken(s.outcome)'
<1> DEFINE e == Sent("form", form.value, [status |-> status, verified |-> verified],
                     outcome, copiedCountry)
<1>1. e.outcome = outcome
  BY DEF Sent
<1>2. formInValidData' = outcome /\ creates' = Append(creates, e)
  BY DEF dqValidationCompleted
<1> HIDE DEF e
<1>3. creates \in Seq(ToSet(creates))
  BY CreatesTyped
<1>4. ToSet(creates') \subseteq ToSet(creates) \cup {e}
  BY <1>2, <1>3, SentElements
<1>5. ASSUME NEW s \in ToSet(creates')
      PROVE  s.outcome = "DQ_CALLOUT" \/ outcome # "DQ_CALLOUT"
  <2>1. CASE s = e
    BY <1>1, <2>1
  <2>2. CASE s \in ToSet(creates)
    <3>1. creates # <<>>
      BY <2>2 DEF ToSet
    <3> QED
      BY <3>1
  <2> QED
    BY <1>4, <2>1, <2>2
<1> QED
  BY <1>2, <1>5 DEF NotMistaken

(* A save that is not warned about leaves the other verdicts.                *)
LEMMA SavedVerdicts ==
  ASSUME TypeOK, VerdictsKept, NEW outcome, dqValidationCompleted(outcome),
         \/ outcome # "DQ_CALLOUT"
         \/ creates = <<>> /\ ~warningMessages,
         UNCHANGED <<popup, history>>, ~overlapped, ~RoundOn'
  PROVE  VerdictsKept'
<1>1. \A s \in ToSet(creates') : NotMistaken(s.outcome)'
  BY SaveIsSent
<1>2. formInValidData' = outcome
  BY DEF dqValidationCompleted
<1>3. warningMessages' => NotMistaken(refused)'
  BY <1>2 DEF popup, NotMistaken
<1>4. ToastTellsOutcome'
  BY DEF VerdictsKept, ToastTellsOutcome, history
<1> QED
  BY <1>1, <1>3, <1>4 DEF VerdictsKept

LEMMA VerdictStep ==
  ASSUME FormInv, RoundInv, VerdictInv, [Next]_vars, ~overlapped'
  PROVE  VerdictsKept'
<1>0. RoundKept /\ VerdictsKept /\ ~overlapped /\ TypeOK
  BY OverlapStays DEF RoundInv, VerdictInv, FormInv
<1>0r. RoundKept'
  BY RoundInvStep
<1>1. ASSUME UNCHANGED <<creates, formInValidData, notice, warningMessages, refused>>,
             RoundOn' => RoundOn
      PROVE  VerdictsKept'
  BY <1>0, <1>1 DEF VerdictsKept, NotMistaken, ToastTellsOutcome
<1>2. CASE \/ \E in \in Inputs : EditInput(in)
           \/ AccountAnswer \/ handleVisibilityOfErrorPopup
           \/ handleViewRecordDatail \/ closeModal \/ UNCHANGED vars
  BY <1>1, <1>2 DEF EditInput, AccountAnswer, handleVisibilityOfErrorPopup,
     handleViewRecordDatail, closeModal, vars, formVars, sending, popup, history,
     childVars, RoundOn
<1>3. ASSUME NEW button \in {"Save", "SaveAndNew"}, NEW valid \in BOOLEAN,
             validateFields(button, valid)
      PROVE  VerdictsKept'
  BY <1>0, <1>3 DEF validateFields, showErrors, VerdictsKept, NotMistaken, ToastTellsOutcome
<1>4. CASE StartRound
  <2>1. UNCHANGED <<creates, formInValidData, notice, warningMessages, refused>>
        /\ RoundOn
    BY <1>4 DEF StartRound, RoundOn, popup, history
  <2> QED
    BY <1>1, <2>1
<1>5. CASE ChildAnswered
  BY <1>1, <1>5, AnswersKeepRound DEF ChildAnswered, formVars, sending, popup, history,
     RoundOn
<1>6. CASE ChildReports
  <2>1. RoundOn /\ mounted' = mounted
    BY <1>6 DEF ChildReports, DQ!PollValid, DQ!PollException, RoundOn
  <2>2. creates = <<>> /\ ~warningMessages
    BY <1>0, <2>1 DEF RoundKept, VerdictsKept
  <2>3. creates' # <<>>
    <3>1. \E e : creates' = Append(creates, e)
      BY <1>6 DEF ChildReports, dqValidationCompleted
    <3> QED
      BY <2>2, <3>1, OneSent
  <2>4. ~RoundOn'
    BY <1>0r, <2>3 DEF RoundKept
  <2>5. /\ UNCHANGED <<popup, history>>
        /\ dqValidationCompleted("DQ_CALLOUT") \/ dqValidationCompleted("APIException")
    BY <1>6 DEF ChildReports
  <2> QED
    BY <1>0, <2>2, <2>4, <2>5, SavedVerdicts
<1>7. CASE ChildAsks
  BY <1>1, <1>7 DEF ChildAsks, DQ!PollInvalid, formVars, sending, popup, history, RoundOn
<1>8. CASE AnswerYes
  BY <1>1, <1>8 DEF AnswerYes, DQ!handleYes, DQ!CloseModal, sending, popup, history, RoundOn
<1>9. CASE AnswerNo
  <2>1. /\ UNCHANGED <<popup, history>> /\ dqValidationCompleted("invalidData")
        /\ showModal_Invalid /\ mounted' = FALSE /\ modalLoading' = modalLoading
    BY <1>9 DEF AnswerNo, DQ!handleNo, DQ!CloseModal
  <2>2. ~RoundOn'
    BY <1>0, <2>1 DEF RoundKept, RoundOn
  <2> QED
    BY <1>0, <2>1, <2>2, SavedVerdicts
<1>10. CASE ServerAnswers
  <2>1. PICK i \in DOMAIN creates :
            \/ handleSucess(i)
            \/ \E duplicates \in BOOLEAN : handleError(i, duplicates)
            \/ \E isSuccuss \in BOOLEAN : InsertAnswer(i, isSuccuss)
            \/ InsertRejected(i)
    BY <1>10 DEF ServerAnswers
  <2>2. creates' = RemoveAt(creates, i) /\ UNCHANGED formInValidData
    BY <2>1 DEF handleSucess, handleError, InsertAnswer, InsertRejected
  <2>3. ToSet(creates') \subseteq ToSet(creates) /\ creates[i] \in ToSet(creates)
    BY <1>0, <2>2, AnswerTyped
  <2>4. \A s \in ToSet(creates') : NotMistaken(s.outcome)'
    BY <1>0, <2>2, <2>3 DEF VerdictsKept, NotMistaken
  <2>5. NotMistaken(creates[i].outcome)
    BY <1>0, <2>3 DEF VerdictsKept
  <2>6. ~RoundOn'
    <3>1. ~RoundOn
      BY <1>0, <1>10, ServerAnswersKeepRound DEF RoundKept
    <3> QED
      BY <1>10, <3>1, ServerAnswersKeepRound DEF RoundOn
  <2>7. warningMessages' => NotMistaken(refused)'
    <3>1. /\ \/ warningMessages' = TRUE /\ refused' = creates[i].outcome
             \/ refused' = refused /\ (warningMessages' => warningMessages)
      <4>1. CASE handleSucess(i)
        BY <4>1 DEF handleSucess
      <4>2. ASSUME NEW duplicates \in BOOLEAN, handleError(i, duplicates)
            PROVE  \/ warningMessages' = TRUE /\ refused' = creates[i].outcome
                   \/ refused' = refused /\ (warningMessages' => warningMessages)
        BY <4>2 DEF handleError
      <4>3. CASE (\E isSuccuss \in BOOLEAN : InsertAnswer(i, isSuccuss)) \/ InsertRejected(i)
        BY <4>3 DEF InsertAnswer, InsertRejected, popup, history
      <4> QED
        BY <2>1, <4>1, <4>2, <4>3
    <3> QED
      BY <1>0, <2>2, <2>5, <3>1 DEF VerdictsKept, NotMistaken
  <2>8. ToastTellsOutcome'
    <3>1. \/ UNCHANGED notice
          \/ notice' = [toast |-> "error"]
          \/ notice' = [toast |-> Toast, record |-> creates[i]]
      BY <2>1 DEF handleSucess, handleError, InsertAnswer, InsertRejected, history
    <3>2. Toast = "validated" => formInValidData = "DQ_CALLOUT"
      BY DEF Toast
    <3> QED
      BY <1>0, <2>5, <3>1, <3>2 DEF VerdictsKept, NotMistaken, ToastTellsOutcome
  <2> QED
    BY <2>4, <2>6, <2>7, <2>8 DEF VerdictsKept
<1>11. CASE handleContinueToSave
  <2> DEFINE e == Sent("duplicate", input.text, Held(contactDetail), refused,
                       IF input.addressFrom = "Account" THEN "missing" ELSE "own")
  <2>1. e.outcome = refused
    BY DEF Sent
  <2>2. /\ creates' = Append(creates, e)
        /\ UNCHANGED <<formInValidData, warningMessages, notice, refused>>
        /\ UNCHANGED <<childVars, modalLoading>>
    BY <1>11 DEF handleContinueToSave, history
  <2> HIDE DEF e
  <2>3. ToSet(creates') \subseteq ToSet(creates) \cup {e}
    BY <1>0, <2>2, CreatesTyped, SentElements
  <2>4. NotMistaken(refused)
    <3>1. warningMessages
      BY <1>11, DuplicateTyped
    <3> QED
      BY <1>0, <3>1 DEF VerdictsKept
  <2>5. \A s \in ToSet(creates') : NotMistaken(s.outcome)'
    BY <1>0, <2>1, <2>2, <2>3, <2>4 DEF VerdictsKept, NotMistaken
  <2>6. RoundOn' => RoundOn
    BY <2>2 DEF RoundOn, childVars
  <2> QED
    BY <1>0, <2>2, <2>5, <2>6 DEF VerdictsKept, NotMistaken, ToastTellsOutcome
<1> QED
  BY <1>2, <1>3, <1>4, <1>5, <1>6, <1>7, <1>8, <1>9, <1>10, <1>11 DEF Next

LEMMA VerdictInvHolds == Spec => []VerdictInv
<1>1. Init => VerdictInv
  <2> SUFFICES ASSUME Init PROVE VerdictInv
    OBVIOUS
  <2>1. creates = <<>> /\ notice.toast = "none" /\ ~warningMessages
    BY DEF Init
  <2>2. ToSet(creates) = {}
    BY <2>1 DEF ToSet
  <2> QED
    BY <2>1, <2>2 DEF VerdictInv, VerdictsKept, ToastTellsOutcome
<1>2. FormInv /\ RoundInv /\ VerdictInv /\ [Next]_vars => VerdictInv'
  BY VerdictStep DEF VerdictInv
<1> QED
  BY <1>1, <1>2, FormInvHolds, RoundInvHolds, PTL DEF Spec

(* The toast "validated" is about a record that was.                         *)
THEOREM ToastIsOfItsRecord == Spec => []ToastTellsOutcome
<1>1. VerdictInv => ToastTellsOutcome
  BY DEF VerdictInv, VerdictsKept, ToastTellsOutcome
<1> QED
  BY <1>1, VerdictInvHolds, PTL
-----------------------------------------------------------------------------
(* The buttons.                                                              *)

(* The record on its way was sent for the button the form remembers.         *)
ButtonsKept ==
    /\ whichButtonWasClicked = "null" => lastClicked = "null"
    /\ whichButtonWasClicked = "SaveAndNew" => lastClicked = "SaveAndNew"
    /\ \A s \in ToSet(creates) : s.button = lastClicked

ButtonsInv == page = "form" /\ ~overlapped => ButtonsKept

LEMMA ButtonsStep ==
  ASSUME FormInv, ButtonsInv, [Next]_vars, page' = "form", ~overlapped'
  PROVE  ButtonsKept'
<1>0. ~overlapped /\ creates \in Seq(ToSet(creates))
  BY OverlapStays, CreatesTyped DEF FormInv
<1>1. ASSUME page = "form", UNCHANGED <<buttons, creates>> PROVE ButtonsKept'
  BY <1>0, <1>1 DEF ButtonsInv, ButtonsKept, buttons
<1>2. CASE \/ \E in \in Inputs : EditInput(in)
           \/ AccountAnswer \/ StartRound \/ ChildAnswered \/ ChildAsks \/ AnswerYes
           \/ handleVisibilityOfErrorPopup
  BY <1>1, <1>2 DEF EditInput, AccountAnswer, StartRound, ChildAnswered, ChildAsks,
     AnswerYes, handleVisibilityOfErrorPopup, CanUseForm, formVars, sending
<1>3. CASE handleViewRecordDatail \/ closeModal \/ UNCHANGED vars
  BY <1>1, <1>3 DEF handleViewRecordDatail, closeModal, vars, formVars, sending
<1>4. ASSUME NEW button \in {"Save", "SaveAndNew"}, NEW valid \in BOOLEAN,
             validateFields(button, valid)
      PROVE  ButtonsKept'
  <2>1. CASE ~valid
    BY <1>1, <1>4, <2>1 DEF validateFields, CanUseForm
  <2>2. CASE valid
    <3>1. creates = <<>> /\ creates' = creates
          /\ whichButtonWasClicked' = button /\ lastClicked' = button
      BY <1>4, <2>2 DEF validateFields
    <3>2. ToSet(creates') = {}
      BY <3>1 DEF ToSet
    <3> QED
      BY <3>1, <3>2 DEF ButtonsKept
  <2> QED
    BY <2>1, <2>2
\* A record is added with the button of the last click.
<1>5. ASSUME NEW kind, NEW text, NEW held, NEW outcome, NEW country,
             page = "form", lastClicked' = lastClicked,
             whichButtonWasClicked' \in {whichButtonWasClicked, "ContinueToSave"},
             creates' = Append(creates, Sent(kind, text, held, outcome, country))
      PROVE  ButtonsKept'
  <2> DEFINE e == Sent(kind, text, held, outcome, country)
  <2>1. e.button = lastClicked
    BY DEF Sent
  <2>2. creates' = Append(creates, e)
    BY <1>5
  <2> HIDE DEF e
  <2>3. ToSet(creates') \subseteq ToSet(creates) \cup {e}
    BY <1>0, <2>2, SentElements
  <2> QED
    BY <1>0, <1>5, <2>1, <2>3 DEF ButtonsInv, ButtonsKept
<1>6. CASE ChildReports \/ AnswerNo
  <2>1. /\ page = "form" /\ UNCHANGED buttons
        /\ \E outcome \in {"DQ_CALLOUT", "APIException", "invalidData"} :
              dqValidationCompleted(outcome)
    BY <1>6 DEF ChildReports, AnswerNo
  <2> QED
    BY <1>5, <2>1 DEF dqValidationCompleted, buttons
<1>7. CASE handleContinueToSave
  BY <1>5, <1>7 DEF handleContinueToSave, CanUseForm
<1>8. CASE ServerAnswers
  <2>1. PICK i \in DOMAIN creates :
            \/ handleSucess(i)
            \/ \E duplicates \in BOOLEAN : handleError(i, duplicates)
            \/ \E isSuccuss \in BOOLEAN : InsertAnswer(i, isSuccuss)
            \/ InsertRejected(i)
    BY <1>8 DEF ServerAnswers
  <2>2. /\ page = "form" /\ creates' = RemoveAt(creates, i)
        /\ UNCHANGED buttons
    BY <2>1 DEF handleSucess, handleError, InsertAnswer, InsertRejected, Leave
  <2>3. ToSet(creates') \subseteq ToSet(creates)
    BY <1>0, <2>2, AnsweredElements
  <2> QED
    BY <1>0, <2>2, <2>3 DEF ButtonsInv, ButtonsKept, buttons
<1> QED
  BY <1>2, <1>3, <1>4, <1>6, <1>7, <1>8 DEF Next

LEMMA ButtonsInvHolds == Spec => []ButtonsInv
<1>1. Init => ButtonsInv
  <2> SUFFICES ASSUME Init PROVE ButtonsInv
    OBVIOUS
  <2>1. creates = <<>> /\ whichButtonWasClicked = "null" /\ lastClicked = "null"
    BY DEF Init
  <2>2. ToSet(creates) = {}
    BY <2>1 DEF ToSet
  <2> QED
    BY <2>1, <2>2 DEF ButtonsInv, ButtonsKept
<1>2. FormInv /\ ButtonsInv /\ [Next]_vars => ButtonsInv'
  BY ButtonsStep DEF ButtonsInv
<1> QED
  BY <1>1, <1>2, FormInvHolds, PTL DEF Spec

(* Only an answer of the server opens another page after a create.           *)
LEMMA OnlyAnswersLeave ==
  ASSUME [Next]_vars, page = "form", page' \in {"view", "new"}
  PROVE  ServerAnswers
<1>1. page' # page /\ page' # "other" /\ page' # "closed"
  OBVIOUS
<1> QED
  BY <1>1 DEF Next, EditInput, validateFields, AccountAnswer, StartRound, ChildAnswered,
     ChildReports, ChildAsks, AnswerYes, AnswerNo, handleContinueToSave,
     handleVisibilityOfErrorPopup, handleViewRecordDatail, closeModal, vars, formVars

(* A new form is opened exactly for the record that was sent with Save & New,*)
(* for as long as saves do not overlap.                                      *)
THEOREM NewFormIfAsked == Spec => NewFormWhenAsked
<1>1. ButtonsInv /\ [Next]_vars
        => [page' \in {"view", "new"} /\ page = "form" /\ ~overlapped =>
               (page' = "new" <=> notice'.record.button = "SaveAndNew")]_vars
  <2> SUFFICES ASSUME ButtonsInv, [Next]_vars, page' \in {"view", "new"}, page = "form",
                      ~overlapped
               PROVE  page' = "new" <=> notice'.record.button = "SaveAndNew"
    OBVIOUS
  <2>1. PICK i \in DOMAIN creates :
            \/ handleSucess(i)
            \/ \E duplicates \in BOOLEAN : handleError(i, duplicates)
            \/ \E isSuccuss \in BOOLEAN : InsertAnswer(i, isSuccuss)
            \/ InsertRejected(i)
    BY OnlyAnswersLeave DEF ServerAnswers
  <2>2. notice' = [toast |-> Toast, record |-> creates[i]] /\ Leave
    BY <2>1 DEF handleSucess, handleError, InsertAnswer, InsertRejected, history
  <2>3. notice'.record.button = lastClicked
    BY <2>2 DEF ButtonsInv, ButtonsKept, ToSet
  <2>4. WantsNew <=> lastClicked = "SaveAndNew"
    BY DEF WantsNew, ButtonsInv, ButtonsKept
  <2> QED
    BY <2>2, <2>3, <2>4 DEF Leave
<1> QED
  BY <1>1, ButtonsInvHolds, PTL DEF Spec, NewFormWhenAsked
-----------------------------------------------------------------------------
(* The statuses of a form that is saved after the callouts have settled,     *)
(* also when saves overlap.                                                  *)

(* The callouts out are about the texts of the instance.                     *)
CallsAboutForm ==
    /\ IsFiniteSet(inFlight)
    /\ \A c \in inFlight : c.form.value = form.value

(* The statuses a submission holds are about its texts: those it brought, or *)
(* those of the instance whose contactData it took over.                     *)
OwnDetail ==
    /\ contactDetail.checked => contactDetail.text = form.value
    /\ ~contactDetail.checked =>
          \A f \in Fields : contactDetail.held.status[f] \in DQ!Statuses =>
              contactDetail.held.verified[f] = contactDetail.text[f]

(* A submission that waits for the instance while callouts are out, one of   *)
(* two submissions at once, has the texts these are about.                   *)
SameTexts ==
    mounted /\ modalLoading > 0 /\ inFlight # {} => contactDetail.text = form.value

OwnInv == CallsAboutForm /\ VerifiedInv /\ OwnDetail /\ SameTexts

LEMMA AnswersKeepCalls ==
  ASSUME HostTyped, CallsAboutForm, ChildSettles
  PROVE  CallsAboutForm' /\ form' = form /\ inFlight # {}
<1>1. PICK c \in inFlight : DQ!Settle(c)
  BY DEF ChildSettles
<1>2. ASSUME NEW sw, DQ!MetadataAnswer(c, sw)
      PROVE  CallsAboutForm' /\ form' = form
  <2> DEFINE New == {[round |-> c.round, name |-> f, form |-> c.form] :
                        f \in DQ!Started(sw, form.asked)}
  <2>1. inFlight' = (inFlight \ {c}) \union New /\ form' = form
    BY <1>2 DEF DQ!MetadataAnswer
  <2>2. IsFiniteSet(New)
    <3> DEFINE all == {[round |-> c.round, name |-> "Email", form |-> c.form],
                       [round |-> c.round, name |-> "SecondaryEmail", form |-> c.form],
                       [round |-> c.round, name |-> "Phone", form |-> c.form],
                       [round |-> c.round, name |-> "MobilePhone", form |-> c.form],
                       [round |-> c.round, name |-> "Address", form |-> c.form]}
    <3>1. form.asked \subseteq Fields
      BY DEF HostTyped, DQ!TypeOK, ChildForms
    <3>2. New \subseteq all
      BY <3>1 DEF DQ!Started, Fields
    <3>3. DQP!IsFiniteSet(all)
      BY DQP!FiveFinite, Assumed
    <3>4. IsFiniteSet(all)
      BY <3>3 DEF IsFiniteSet, DQP!IsFiniteSet
    <3> HIDE DEF New, all
    <3> QED
      BY <3>2, <3>4, FS_Subset
  <2>3. IsFiniteSet(inFlight \ {c})
    BY FS_Subset DEF CallsAboutForm
  <2>4. IsFiniteSet(inFlight')
    BY <2>1, <2>2, <2>3, FS_Union
  <2>5. \A d \in New : d.form = c.form
    OBVIOUS
  <2> HIDE DEF New
  <2>6. \A d \in inFlight' : d \in inFlight \/ d \in New
    BY <2>1
  <2> QED
    BY <2>1, <2>4, <2>5, <2>6 DEF CallsAboutForm
<1>3. ASSUME inFlight' = inFlight \ {c}, form' = form
      PROVE  CallsAboutForm' /\ form' = form
  <2>1. IsFiniteSet(inFlight')
    BY <1>3, FS_Subset DEF CallsAboutForm
  <2> QED
    BY <1>3, <2>1 DEF CallsAboutForm
<1>4. CASE \/ DQ!MetadataRejected(c)
           \/ \E a \in DQ!EmailAnswers : DQ!EmailAnswer(c, a)
           \/ DQ!EmailRejected(c)
           \/ \E a \in DQ!PhoneAnswers, t \in NumberTypes : DQ!PhoneAnswer(c, a, t)
           \/ DQ!PhoneRejected(c)
           \/ \E a \in DQ!AddressAnswers : DQ!AddressAnswer(c, a)
           \/ DQ!AddressRejected(c)
  <2>1. inFlight' = inFlight \ {c} /\ form' = form
    BY <1>4 DEF DQ!MetadataRejected, DQ!EmailAnswer, DQ!EmailRejected, DQ!PhoneAnswer,
       DQ!PhoneRejected, DQ!AddressAnswer, DQ!AddressRejected
  <2> QED
    BY <1>3, <2>1
<1> QED
  BY <1>1, <1>2, <1>4 DEF DQ!Settle

LEMMA SettleOwn ==
  ASSUME HostTyped, OwnInv, ChildAnswered
  PROVE  OwnInv'
<1>1. PICK c \in inFlight :
        verified' = [f \in Fields |-> IF status'[f] # status[f]
                                      THEN c.form.value[f] ELSE verified[f]]
  BY DEF ChildAnswered, ChildSettles
<1>2. CallsAboutForm' /\ form' = form /\ inFlight # {}
  BY AnswersKeepCalls DEF ChildAnswered, OwnInv
<1>3. c.form.value = form.value
  BY DEF OwnInv, CallsAboutForm
<1>4. VerifiedInv'
  BY <1>1, <1>2, <1>3 DEF OwnInv, VerifiedInv
<1>5. UNCHANGED <<contactDetail, modalLoading, mounted>>
  BY AnswersKeepRound DEF ChildAnswered, formVars, sending
<1> QED
  BY <1>2, <1>4, <1>5 DEF OwnInv, OwnDetail, SameTexts

LEMMA StartOwn ==
  ASSUME HostTyped, OwnInv, StartRound
  PROVE  OwnInv'
<1> DEFINE g == [value |-> contactDetail.text, asked |-> dqFieldsToValidate]
           new == [round |-> round + 1, name |-> "DQMetadata", form |-> g]
<1>1. /\ form' = g /\ status' = Held(contactDetail).status
      /\ verified' = Held(contactDetail).verified
      /\ inFlight' = inFlight \union {new}
      /\ contactDetail' = [contactDetail EXCEPT !.checked = FALSE,
                                                !.held = Held(contactDetail)]
      /\ mounted /\ modalLoading > 0
  BY DEF StartRound, StartChild, DQ!validateDQServices
<1>2. \A f \in Fields : Held(contactDetail).status[f] \in DQ!Statuses =>
          Held(contactDetail).verified[f] = contactDetail.text[f]
  <2>1. CASE contactDetail.checked
    BY <2>1 DEF Held, OwnInv, OwnDetail, VerifiedInv
  <2>2. CASE ~contactDetail.checked
    BY <2>2 DEF Held, OwnInv, OwnDetail
  <2> QED
    BY <2>1, <2>2
<1>3. form'.value = contactDetail.text
  BY <1>1
<1>4. VerifiedInv'
  BY <1>1, <1>2, <1>3 DEF VerifiedInv
<1>5. CallsAboutForm'
  <2>1. IsFiniteSet(inFlight')
    BY <1>1, FS_AddElement DEF OwnInv, CallsAboutForm
  <2>2. ASSUME NEW c \in inFlight PROVE c.form.value = form'.value
    BY <1>1, <1>3, <2>2 DEF OwnInv, CallsAboutForm, SameTexts
  <2>3. new.form.value = form'.value
    BY <1>3
  <2> HIDE DEF new
  <2> QED
    BY <1>1, <2>1, <2>2, <2>3 DEF CallsAboutForm
<1>6. contactDetail'.text = contactDetail.text
  BY <1>1 DEF StartRound
<1> QED
  BY <1>1, <1>2, <1>3, <1>4, <1>5, <1>6 DEF OwnInv, OwnDetail, SameTexts

LEMMA SaveOwn ==
  ASSUME MaxLate = 0, OwnInv, NEW button, NEW valid, validateFields(button, valid)
  PROVE  OwnInv'
<1>1. CASE ~valid
  BY <1>1 DEF validateFields, childVars, OwnInv, CallsAboutForm, VerifiedInv, OwnDetail,
     SameTexts
<1>2. CASE valid
  <2>1. /\ contactDetail'.checked = FALSE /\ contactDetail'.held = NothingHeld
        /\ MountChild /\ UNCHANGED verified
        /\ mounted => Cardinality(inFlight) <= 0
    BY <1>2 DEF validateFields, handleSubmit
  <2>2. OwnDetail'
    BY <2>1 DEF OwnDetail, NothingHeld, DQ!Statuses
  <2>3. CASE mounted
    <3>1. inFlight = {}
      <4>1. IsFiniteSet(inFlight) /\ Cardinality(inFlight) <= 0
        BY <2>1, <2>3 DEF OwnInv, CallsAboutForm
      <4>2. Cardinality(inFlight) \in Nat
        BY <4>1, FS_CardinalityType
      <4>3. Cardinality(inFlight) = 0
        BY <4>1, <4>2
      <4> QED
        BY <4>1, <4>3, FS_EmptySet
    <3>2. UNCHANGED <<inFlight, form, status>>
      BY <2>1, <2>3 DEF MountChild
    <3> QED
      BY <2>1, <2>2, <3>1, <3>2 DEF OwnInv, CallsAboutForm, VerifiedInv, SameTexts
  <2>4. CASE ~mounted
    <3>1. inFlight' = {} /\ \A f \in Fields : status'[f] = "unset"
      BY <2>1, <2>4 DEF MountChild, NewChild
    <3>2. IsFiniteSet(inFlight')
      BY <3>1, FS_EmptySet
    <3> QED
      BY <2>2, <3>1, <3>2 DEF OwnInv, CallsAboutForm, VerifiedInv, SameTexts, DQ!Statuses
  <2> QED
    BY <2>3, <2>4
<1> QED
  BY <1>1, <1>2

LEMMA OwnInvHolds ==
  ASSUME MaxLate = 0
  PROVE  Spec => []OwnInv
<1>1. Init => OwnInv
  <2> SUFFICES ASSUME Init PROVE OwnInv
    OBVIOUS
  <2>1. /\ inFlight = {} /\ \A f \in Fields : status[f] = "unset"
        /\ ~contactDetail.checked /\ contactDetail.held = NothingHeld
    BY DEF Init, NoChild, FreshChild
  <2>2. IsFiniteSet(inFlight)
    BY <2>1, FS_EmptySet
  <2> QED
    BY <2>1, <2>2 DEF OwnInv, CallsAboutForm, VerifiedInv, OwnDetail, SameTexts,
       NothingHeld, DQ!Statuses
<1>2. FormInv /\ OwnInv /\ [Next]_vars => OwnInv'
  <2> SUFFICES ASSUME FormInv, OwnInv, [Next]_vars PROVE OwnInv'
    OBVIOUS
  <2>0. HostTyped
    BY TypesSplit DEF FormInv
  <2>1. ASSUME UNCHANGED <<inFlight, form, status, verified, mounted, modalLoading>>,
               contactDetail' = contactDetail
                 \/ contactDetail' = [contactDetail EXCEPT !.country = "account"]
        PROVE  OwnInv'
    <3>1. /\ contactDetail'.text = contactDetail.text
          /\ contactDetail'.checked = contactDetail.checked
          /\ contactDetail'.held = contactDetail.held
      BY <2>1 DEF FormInv, TypeOK
    <3> QED
      BY <2>1, <3>1 DEF OwnInv, CallsAboutForm, VerifiedInv, OwnDetail, SameTexts
  <2>2. CASE \/ \E in \in Inputs : EditInput(in)
             \/ AccountAnswer \/ handleVisibilityOfErrorPopup \/ handleViewRecordDatail
             \/ closeModal \/ handleContinueToSave \/ UNCHANGED vars
    BY <2>1, <2>2 DEF EditInput, AccountAnswer, handleVisibilityOfErrorPopup,
       handleViewRecordDatail, closeModal, handleContinueToSave, vars, childVars,
       formVars, sending
  <2>3. CASE \E button \in {"Save", "SaveAndNew"}, valid \in BOOLEAN :
                validateFields(button, valid)
    BY <2>3, SaveOwn
  <2>4. CASE StartRound
    BY <2>0, <2>4, StartOwn
  <2>5. CASE ChildAnswered
    BY <2>0, <2>5, SettleOwn
  <2>6. CASE ChildReports \/ AnswerNo
    <3>1. \E outcome : dqValidationCompleted(outcome)
      BY <2>6 DEF ChildReports, AnswerNo
    <3>2. contactDetail'.checked = TRUE /\ contactDetail'.text = form.value
      BY <3>1 DEF dqValidationCompleted, ChildData
    <3>3. UNCHANGED <<inFlight, form, status, verified>>
      BY <2>6 DEF ChildReports, AnswerNo, DQ!PollValid, DQ!PollException, DQ!handleNo,
         DQ!CloseModal
    <3> QED
      BY <3>2, <3>3 DEF OwnInv, CallsAboutForm, VerifiedInv, OwnDetail, SameTexts
  <2>7. CASE ChildAsks
    BY <2>1, <2>7 DEF ChildAsks, DQ!PollInvalid, DQ!contactData, formVars, sending
  <2>8. CASE AnswerYes
    <3>1. UNCHANGED <<inFlight, form, status, verified, contactDetail>> /\ mounted' = FALSE
      BY <2>8 DEF AnswerYes, DQ!handleYes, DQ!CloseModal, sending
    <3> QED
      BY <3>1 DEF OwnInv, CallsAboutForm, VerifiedInv, OwnDetail, SameTexts
  <2>9. CASE ServerAnswers
    BY <2>1, <2>9 DEF ServerAnswers, handleSucess, handleError, InsertAnswer,
       InsertRejected, childVars
  <2> QED
    BY <2>2, <2>3, <2>4, <2>5, <2>6, <2>7, <2>8, <2>9 DEF Next
<1> QED
  BY <1>1, <1>2, FormInvHolds, PTL DEF Spec

(* The record of a save has the text and the statuses of the instance.       *)
LEMMA SaveIsVerified ==
  ASSUME TypeOK, SavedStatusesAreTheirOwn, VerifiedInv,
         NEW outcome, dqValidationCompleted(outcome)
  PROVE  SavedStatusesAreTheirOwn'
<1> DEFINE e == Sent("form", form.value, [status |-> status, verified |-> verified],
                     outcome, copiedCountry)
<1>1. VerifiedFor(e, Fields)
  BY DEF Sent, VerifiedFor, VerifiedInv
<1>2. creates' = Append(creates, e)
  BY DEF dqValidationCompleted
<1> HIDE DEF e
<1>3. ToSet(creates') \subseteq ToSet(creates) \union {e}
  BY <1>2, CreatesTyped, SentElements
<1> QED
  BY <1>1, <1>3 DEF SavedStatusesAreTheirOwn, VerifiedFor

(* The record of a save carries the statuses of its own texts, whatever was  *)
(* corrected and validated before, and whatever save it overlaps.            *)
THEOREM SavedStatusesOwn ==
  ASSUME MaxLate = 0
  PROVE  Spec => []SavedStatusesAreTheirOwn
<1>1. Init => SavedStatusesAreTheirOwn
  <2> SUFFICES ASSUME Init PROVE SavedStatusesAreTheirOwn
    OBVIOUS
  <2>1. creates = <<>>
    BY DEF Init
  <2>2. ToSet(creates) = {}
    BY <2>1 DEF ToSet
  <2> QED
    BY <2>2 DEF SavedStatusesAreTheirOwn
<1>2. FormInv /\ OwnInv /\ SavedStatusesAreTheirOwn /\ [Next]_vars
        => SavedStatusesAreTheirOwn'
  <2> SUFFICES ASSUME FormInv, OwnInv, SavedStatusesAreTheirOwn, [Next]_vars
               PROVE  SavedStatusesAreTheirOwn'
    OBVIOUS
  <2>0. creates \in Seq(ToSet(creates))
    BY CreatesTyped DEF FormInv
  <2>1. ASSUME UNCHANGED creates PROVE SavedStatusesAreTheirOwn'
    BY <2>1 DEF SavedStatusesAreTheirOwn, VerifiedFor
  <2>2. CASE ChildReports \/ AnswerNo
    BY <2>2, SaveIsVerified DEF ChildReports, AnswerNo, OwnInv, FormInv
  <2>3. CASE ServerAnswers
    <3>1. PICK i \in DOMAIN creates : creates' = RemoveAt(creates, i)
      BY <2>3 DEF ServerAnswers, handleSucess, handleError, InsertAnswer, InsertRejected
    <3>2. ToSet(creates') \subseteq ToSet(creates)
      BY <2>0, <3>1, AnsweredElements
    <3> QED
      BY <3>2 DEF SavedStatusesAreTheirOwn, VerifiedFor
  <2>4. CASE handleContinueToSave
    <3> DEFINE e == Sent("duplicate", input.text, Held(contactDetail), refused,
                         IF input.addressFrom = "Account" THEN "missing" ELSE "own")
    <3>1. e.kind = "duplicate"
      BY DEF Sent
    <3>2. creates' = Append(creates, e)
      BY <2>4 DEF handleContinueToSave
    <3> HIDE DEF e
    <3>3. ToSet(creates') \subseteq ToSet(creates) \union {e}
      BY <2>0, <3>2, SentElements
    <3> QED
      BY <3>1, <3>3 DEF SavedStatusesAreTheirOwn, VerifiedFor
  <2> QED
    BY <2>1, <2>2, <2>3, <2>4 DEF Next, EditInput, validateFields, AccountAnswer,
       StartRound, ChildAnswered, ChildAsks, AnswerYes, handleVisibilityOfErrorPopup,
       handleViewRecordDatail, closeModal, vars, formVars, sending
<1> QED
  BY <1>1, <1>2, FormInvHolds, OwnInvHolds, PTL DEF Spec
-----------------------------------------------------------------------------
(* What the component keeps while saves do not overlap.                      *)
PromptForm == ~overlapped => HostPrompt /\ (modalLoading > 0 => inFlight = {})

LEMMA PromptStep ==
  ASSUME MaxLate = 0, FormInv, RoundInv, OwnInv, OwnInv', PromptForm, [Next]_vars,
         ~overlapped'
  PROVE  HostPrompt' /\ (modalLoading' > 0 => inFlight' = {})
<1>0. RoundKept /\ HostPrompt /\ (modalLoading > 0 => inFlight = {}) /\ modalLoading \in Nat
  BY OverlapStays, CountsTyped DEF RoundInv, PromptForm, FormInv
<1>1. round' # round => inFlight = {} /\ VerifiedInv'
  BY <1>0, OnlyStartRound DEF StartRound, OwnInv
<1>2. HostPrompt'
  BY <1>0, <1>1, FormStepsChild, ChildStepPrompt, TypesSplit DEF FormInv
<1>3. CASE \E button \in {"Save", "SaveAndNew"}, valid \in BOOLEAN : validateFields(button, valid)
  <2>1. PICK button \in {"Save", "SaveAndNew"}, valid \in BOOLEAN :
            validateFields(button, valid)
    BY <1>3
  <2>2. CASE valid
    <3>1. /\ mounted => Cardinality(inFlight) <= 0
          /\ MountChild
      BY <2>1, <2>2 DEF validateFields, handleSubmit
    <3> QED
      BY <1>0, <1>2, <3>1, NoneOut DEF MountChild, NewChild
  <2>3. CASE ~valid
    BY <1>0, <1>2, <2>1, <2>3 DEF validateFields, childVars
  <2> QED
    BY <2>2, <2>3
<1>4. CASE StartRound
  <2>1. modalLoading > 0 /\ modalLoading' = modalLoading - 1
    BY <1>4 DEF StartRound
  <2>2. modalLoading = 1
    BY <1>0, <2>1, Counted DEF RoundKept
  <2>3. ~(modalLoading' > 0)
    BY <2>1, <2>2
  <2> QED
    BY <1>2, <2>3
<1>5. CASE ChildAnswered
  <2>1. inFlight # {} /\ UNCHANGED modalLoading
    BY <1>5 DEF ChildAnswered, ChildSettles, formVars, sending
  <2> QED
    BY <1>0, <1>2, <2>1
<1>6. CASE \/ \E in \in Inputs : EditInput(in)
           \/ AccountAnswer \/ ChildReports \/ ChildAsks \/ AnswerYes \/ AnswerNo
           \/ ServerAnswers \/ handleContinueToSave \/ handleVisibilityOfErrorPopup
           \/ handleViewRecordDatail \/ closeModal \/ UNCHANGED vars
  <2>1. UNCHANGED <<inFlight, modalLoading>>
    BY <1>6 DEF EditInput, AccountAnswer, ChildReports, DQ!PollValid, DQ!PollException,
       ChildAsks, DQ!PollInvalid, AnswerYes, AnswerNo, DQ!handleYes, DQ!handleNo,
       DQ!CloseModal, ServerAnswers, handleSucess, handleError, InsertAnswer,
       InsertRejected, handleContinueToSave, handleVisibilityOfErrorPopup,
       handleViewRecordDatail, closeModal, vars, childVars, formVars, sending
  <2> QED
    BY <1>0, <1>2, <2>1
<1> QED
  BY <1>3, <1>4, <1>5, <1>6 DEF Next

LEMMA PromptFormHolds ==
  ASSUME MaxLate = 0
  PROVE  Spec => []PromptForm
<1>1. Init => PromptForm
  BY NoChildPrompt DEF Init, PromptForm
<1>2. FormInv /\ RoundInv /\ OwnInv /\ OwnInv' /\ PromptForm /\ [Next]_vars => PromptForm'
  BY PromptStep DEF PromptForm
<1> QED
  BY <1>1, <1>2, FormInvHolds, RoundInvHolds, OwnInvHolds, PTL DEF Spec

(* Users who cannot ask about both e-mails and both phones: the fields asked *)
(* for accumulate over the saves of a visit.                                 *)
AskedInv ==
    /\ dqFieldsToValidate \subseteq Askable
    /\ form.asked \subseteq Askable

LEMMA AskedInvHolds == Spec => []AskedInv
<1>1. Init => AskedInv
  BY DEF Init, NoChild, AskedInv
<1>2. FormInv /\ AskedInv /\ [Next]_vars => AskedInv'
  <2> SUFFICES ASSUME FormInv, AskedInv, [Next]_vars PROVE AskedInv'
    OBVIOUS
  <2>1. ASSUME UNCHANGED <<dqFieldsToValidate, form>> PROVE AskedInv'
    BY <2>1 DEF AskedInv
  <2>2. ASSUME NEW button \in {"Save", "SaveAndNew"}, NEW valid \in BOOLEAN,
               validateFields(button, valid)
        PROVE  AskedInv'
    <3>1. UNCHANGED form
      BY <2>2 DEF validateFields, handleSubmit, MountChild, childVars
    <3>2. Filled(input) \subseteq Askable
      BY DEF Askable, FormInv, TypeOK
    <3>3. dqFieldsToValidate' \in {dqFieldsToValidate, dqFieldsToValidate \union Filled(input)}
      BY <2>2 DEF validateFields, handleSubmit
    <3> QED
      BY <3>1, <3>2, <3>3 DEF AskedInv
  <2>3. CASE StartRound
    BY <2>3 DEF StartRound, StartChild, DQ!validateDQServices, AskedInv
  <2>4. CASE ChildAnswered
    BY <2>1, <2>4 DEF ChildAnswered, formVars, sending, ChildSettles, DQ!Settle,
       DQ!MetadataAnswer, DQ!MetadataRejected, DQ!EmailAnswer, DQ!EmailRejected,
       DQ!PhoneAnswer, DQ!PhoneRejected, DQ!AddressAnswer, DQ!AddressRejected
  <2>5. CASE ChildReports \/ ChildAsks \/ AnswerYes \/ AnswerNo
    BY <2>1, <2>5 DEF ChildReports, DQ!PollValid, DQ!PollException, ChildAsks,
       DQ!PollInvalid, AnswerYes, AnswerNo, DQ!handleYes, DQ!handleNo, DQ!CloseModal,
       formVars, sending
  <2>6. CASE ServerAnswers
    BY <2>1, <2>6 DEF ServerAnswers, handleSucess, handleError, InsertAnswer,
       InsertRejected, childVars
  <2>7. CASE \/ \E in \in Inputs : EditInput(in)
             \/ AccountAnswer \/ handleVisibilityOfErrorPopup \/ handleViewRecordDatail
             \/ closeModal \/ handleContinueToSave \/ UNCHANGED vars
    BY <2>1, <2>7 DEF EditInput, AccountAnswer, handleVisibilityOfErrorPopup,
       handleViewRecordDatail, closeModal, handleContinueToSave, vars, childVars,
       formVars, sending
  <2> QED
    BY <2>2, <2>3, <2>4, <2>5, <2>6, <2>7 DEF Next
<1> QED
  BY <1>1, <1>2, FormInvHolds, PTL DEF Spec

(* While the user is asked, the interval of the child keeps silent.          *)
FirmInv == ~overlapped => DQP!ModalFirm

LEMMA FormFirmHolds ==
  ASSUME MaxLate = 0, OnePairAskable
  PROVE  Spec => []FirmInv
<1>1. Init => FirmInv
  BY DEF Init, NoChild, FreshChild, FirmInv, DQP!ModalFirm
<1>2. FormInv /\ RoundInv /\ PromptForm /\ AskedInv /\ FirmInv /\ [Next]_vars => FirmInv'
  <2> SUFFICES ASSUME FormInv, RoundInv, PromptForm, AskedInv, FirmInv, [Next]_vars,
                      ~overlapped'
               PROVE  DQP!ModalFirm'
    BY DEF FirmInv
  <2>0. RoundKept /\ HostPrompt /\ DQP!ModalFirm
    BY OverlapStays DEF RoundInv, PromptForm, FirmInv
  <2>1. round' # round => ~showModal_Invalid
    BY <2>0, OnlyStartRound DEF StartRound, RoundKept
  <2>2. DQP!OnePair(form)
    BY DEF AskedInv, OnePairAskable, DQP!OnePair, DQ!Emails, DQP!Emails, DQ!Phones, DQP!Phones
  <2> QED
    BY <2>0, <2>1, <2>2, FormStepsChild, ChildStepFirm, TypesSplit DEF FormInv
<1> QED
  BY <1>1, <1>2, FormInvHolds, RoundInvHolds, PromptFormHolds, AskedInvHolds, PTL DEF Spec

(* A question is part of a round.                                            *)
LEMMA AskingIsRound ==
  ASSUME DQP!ModalFirm, mounted, showModal_Invalid
  PROVE  RoundOn /\ polling > 0
BY SilentWhileAsking DEF RoundOn
-----------------------------------------------------------------------------
(* One record at a time.                                                     *)

(* Nobody is told anything while a round is on or a record on its way, but   *)
(* for a record the user kept, whose form may refuse another save: Continue  *)
(* to Save cannot send a second one.                                         *)
CreateKept ==
    /\ Len(creates) <= 1
    /\ page = "form" =>
         /\ RoundOn => ~isErrorPopup /\ ~errorMessages /\ ~warningMessages
         /\ creates # <<>> => \/ isSpinner /\ ~isErrorPopup
                              \/ Keeping /\ ~warningMessages
         /\ (\E s \in ToSet(creates) : s.kind = "form") => ~warningMessages

CreateInv == ~overlapped => CreateKept

(* The answer of the server leaves nothing on its way.                       *)
LEMMA AnsweredAlone ==
  ASSUME TypeOK, Len(creates) <= 1, NEW i \in DOMAIN creates
  PROVE  /\ creates # <<>> /\ RemoveAt(creates, i) = <<>> /\ creates[i] \in ToSet(creates)
<1>1. creates \in Seq(ToSet(creates))
  BY CreatesTyped
<1>2. RemoveAt(creates, i) = <<>>
  BY <1>1, OneAnswered
<1> QED
  BY <1>1, <1>2 DEF ToSet

(* A record is sent in a round, or with Continue to Save, when none is out.  *)
LEMMA SentAlone ==
  ASSUME creates = <<>>, NEW outcome, dqValidationCompleted(outcome)
  PROVE  /\ creates' # <<>> /\ Len(creates') = 1
         /\ creates'[1].kind = "form" /\ creates'[1].outcome = outcome
<1> DEFINE e == Sent("form", form.value, [status |-> status, verified |-> verified],
                     outcome, copiedCountry)
<1>1. e.kind = "form" /\ e.outcome = outcome
  BY DEF Sent
<1>2. creates' = Append(creates, e)
  BY DEF dqValidationCompleted
<1> HIDE DEF e
<1>3. creates' # <<>> /\ Len(creates') = 1
  BY <1>2, OneSent
<1>4. creates'[1] = e
  BY <1>2
<1> QED
  BY <1>1, <1>3, <1>4

LEMMA CreateInvStep ==
  ASSUME FormInv, RoundInv, FirmInv, CreateInv, [Next]_vars, ~overlapped'
  PROVE  CreateKept'
<1>0. RoundKept /\ RoundKept' /\ DQP!ModalFirm /\ CreateKept /\ BeforeSave /\ TypeOK
  BY OverlapStays, RoundInvStep DEF RoundInv, FirmInv, CreateInv, FormInv
<1>1. ASSUME UNCHANGED <<creates, popup, isSpinner>>, RoundOn' => RoundOn,
             page' = "form" => page = "form"
      PROVE  CreateKept'
  BY <1>0, <1>1 DEF popup, CreateKept, Keeping
<1>2. CASE \/ \E in \in Inputs : EditInput(in)
           \/ AccountAnswer \/ handleViewRecordDatail \/ closeModal \/ UNCHANGED vars
  BY <1>1, <1>2 DEF EditInput, CanUseForm, AccountAnswer, handleViewRecordDatail,
     closeModal, vars, childVars, formVars, sending, RoundOn
<1>3. ASSUME NEW button \in {"Save", "SaveAndNew"}, NEW valid \in BOOLEAN,
             validateFields(button, valid)
      PROVE  CreateKept'
  <2>1. UNCHANGED <<creates, page>> /\ ~isSpinner /\ page = "form" /\ warningMessages' = FALSE
        /\ isErrorPopup' = ~valid /\ errorMessages' = ~valid
    BY <1>3 DEF validateFields, CanUseForm, showErrors
  <2>2. CASE valid
    <3>1. creates = <<>>
      BY <1>3, <2>2 DEF validateFields
    <3>2. ToSet(creates') = {}
      BY <2>1, <3>1 DEF ToSet
    <3> QED
      BY <1>0, <2>1, <2>2, <3>1, <3>2 DEF CreateKept
  <2>3. CASE ~valid
    <3>1. UNCHANGED <<childVars, modalLoading, isSpinner>>
      BY <1>3, <2>3 DEF validateFields
    <3>2. ~RoundOn /\ ~RoundOn'
      BY <1>0, <2>1, <3>1 DEF RoundKept, RoundOn, childVars
    <3>3. creates # <<>> => Keeping
      BY <1>0, <2>1 DEF CreateKept
    <3>4. Keeping' <=> Keeping
      BY <2>1 DEF Keeping
    <3> QED
      BY <1>0, <2>1, <3>2, <3>3, <3>4 DEF CreateKept
  <2> QED
    BY <2>2, <2>3
<1>4. CASE StartRound
  <2>1. RoundOn /\ UNCHANGED <<creates, popup, isSpinner, page>>
    BY <1>4 DEF StartRound, RoundOn
  <2> QED
    BY <1>1, <2>1
<1>5. CASE ChildAnswered
  BY <1>1, <1>5, AnswersKeepRound DEF ChildAnswered, formVars, sending, RoundOn
<1>6. CASE ChildReports
  <2>1. RoundOn /\ page = "form" /\ UNCHANGED <<popup, isSpinner, page>>
    BY <1>6 DEF ChildReports, DQ!PollValid, DQ!PollException, RoundOn
  <2>2. creates = <<>> /\ isSpinner = TRUE
    BY <1>0, <2>1 DEF RoundKept
  <2>3. creates' # <<>> /\ Len(creates') = 1
    BY <1>6, <2>2, SentAlone DEF ChildReports
  <2>4. ~RoundOn'
    BY <1>0, <2>3 DEF RoundKept
  <2> QED
    BY <1>0, <2>1, <2>2, <2>3, <2>4 DEF popup, CreateKept
<1>7. CASE ChildAsks
  BY <1>1, <1>7 DEF ChildAsks, DQ!PollInvalid, formVars, sending, RoundOn
<1>8. CASE AnswerYes
  <2>1. RoundOn /\ page = "form" /\ UNCHANGED <<popup, creates, page>>
    BY <1>0, <1>8, AskingIsRound DEF AnswerYes, DQ!handleYes, DQ!CloseModal, sending
  <2>2. creates = <<>>
    BY <1>0, <2>1 DEF RoundKept
  <2>3. ToSet(creates') = {}
    BY <2>1, <2>2 DEF ToSet
  <2> QED
    BY <1>0, <2>1, <2>2, <2>3 DEF popup, CreateKept
<1>9. CASE AnswerNo
  <2>1. RoundOn /\ page = "form" /\ UNCHANGED <<popup, page>>
    BY <1>0, <1>9, AskingIsRound DEF AnswerNo, DQ!handleNo, DQ!CloseModal
  <2>2. creates = <<>>
    BY <1>0, <2>1 DEF RoundKept
  <2>3. creates' # <<>> /\ Len(creates') = 1 /\ Keeping'
    BY <1>9, <2>2, SentAlone DEF AnswerNo, Keeping
  <2> QED
    BY <1>0, <2>1, <2>3 DEF popup, CreateKept, RoundKept
<1>10. CASE ServerAnswers
  <2>1. PICK i \in DOMAIN creates : creates' = RemoveAt(creates, i)
    BY <1>10 DEF ServerAnswers, handleSucess, handleError, InsertAnswer, InsertRejected
  <2>2. creates # <<>> /\ creates' = <<>>
    BY <1>0, <2>1, AnsweredAlone DEF CreateKept
  <2>3. ToSet(creates') = {} /\ Len(creates') <= 1
    BY <2>2 DEF ToSet
  <2>4. ~RoundOn'
    <3>1. ~RoundOn
      BY <1>0, <2>2 DEF RoundKept
    <3> QED
      BY <1>10, <3>1, ServerAnswersKeepRound DEF RoundOn
  <2> QED
    BY <2>2, <2>3, <2>4 DEF CreateKept
<1>11. CASE handleContinueToSave
  <2>1. /\ page = "form" /\ ~isSpinner /\ isErrorPopup /\ ~errorMessages /\ UNCHANGED page
        /\ isErrorPopup' = FALSE /\ isSpinner' = TRUE
    BY <1>11 DEF handleContinueToSave, CanUseForm, startSpinner
  <2>2. creates = <<>>
    <3>1. warningMessages
      BY <1>0, <2>1 DEF BeforeSave
    <3> QED
      BY <1>0, <2>1, <3>1 DEF CreateKept
  <2> DEFINE e == Sent("duplicate", input.text, Held(contactDetail), refused,
                       IF input.addressFrom = "Account" THEN "missing" ELSE "own")
  <2>3. e.kind = "duplicate"
    BY DEF Sent
  <2>4. creates' = Append(creates, e)
    BY <1>11 DEF handleContinueToSave
  <2> HIDE DEF e
  <2>5. Len(creates') = 1 /\ ToSet(creates') = {e} /\ creates' # <<>>
    BY <2>2, <2>4, OneSent
  <2>6. ~RoundOn'
    BY <1>0, <2>5 DEF RoundKept
  <2> QED
    BY <2>1, <2>3, <2>5, <2>6 DEF CreateKept
<1>12. CASE handleVisibilityOfErrorPopup
  <2>1. /\ page = "form" /\ ~isSpinner
        /\ UNCHANGED <<childVars, isSpinner, errorMessages, warningMessages, sending, page>>
    BY <1>12 DEF handleVisibilityOfErrorPopup, CanUseForm
  <2>2. ~RoundOn /\ ~RoundOn'
    BY <1>0, <2>1 DEF RoundOn, RoundKept, childVars, sending
  <2>3. creates' = creates /\ (Keeping' <=> Keeping)
    BY <2>1 DEF Keeping, sending
  <2> QED
    BY <1>0, <2>1, <2>2, <2>3 DEF CreateKept
<1> QED
  BY <1>2, <1>3, <1>4, <1>5, <1>6, <1>7, <1>8, <1>9, <1>10, <1>11, <1>12 DEF Next

LEMMA CreateInvHolds ==
  ASSUME MaxLate = 0, OnePairAskable
  PROVE  Spec => []CreateInv
<1>1. Init => CreateInv
  <2> SUFFICES ASSUME Init PROVE CreateInv
    OBVIOUS
  <2>1. creates = <<>> /\ isErrorPopup = FALSE /\ warningMessages = FALSE
        /\ errorMessages = FALSE
    BY DEF Init
  <2> QED
    BY <2>1 DEF CreateInv, CreateKept
<1>2. FormInv /\ RoundInv /\ FirmInv /\ CreateInv /\ [Next]_vars => CreateInv'
  BY CreateInvStep DEF CreateInv
<1> QED
  BY <1>1, <1>2, FormInvHolds, RoundInvHolds, FormFirmHolds, PTL DEF Spec

(* One record is on its way at a time, behind the spinner or kept by the     *)
(* user.                                                                     *)
THEOREM CreatesOneAtATime ==
  ASSUME MaxLate = 0, OnePairAskable
  PROVE  Spec => []OneCreateAtATime
<1>1. CreateInv => OneCreateAtATime
  BY DEF CreateInv, CreateKept, OneCreateAtATime
<1> QED
  BY <1>1, CreateInvHolds, PTL
-----------------------------------------------------------------------------
(* The form keeps the promise of ContactSave.                                *)

SavePhase == IF page # "form" THEN "left"
             ELSE IF overlapped THEN "overlapping"
             ELSE IF creates # <<>> THEN IF Keeping THEN "keeping" ELSE "saving"
             ELSE IF mounted /\ showModal_Invalid THEN "asking"
             ELSE IF modalLoading > 0 \/ (mounted /\ polling > 0) THEN "validating"
             ELSE "editing"

(* A form that was left does nothing more.                                   *)
LEMMA LeftForGood ==
  ASSUME [Next]_vars, page # "form"
  PROVE  UNCHANGED <<page, warningMessages>>
<1>1. CASE ServerAnswers
  BY <1>1 DEF ServerAnswers, handleSucess, handleError, InsertAnswer, InsertRejected
<1>2. CASE UNCHANGED vars
  BY <1>2 DEF vars, formVars, popup
<1> QED
  BY <1>1, <1>2 DEF Next, EditInput, validateFields, CanUseForm, AccountAnswer, StartRound,
     ChildAnswered, ChildReports, ChildAsks, AnswerYes, AnswerNo, handleContinueToSave,
     handleVisibilityOfErrorPopup, handleViewRecordDatail, closeModal

(* What a form in no round is doing.                                         *)
LEMMA UsablePhase ==
  ASSUME RoundKept, CreateKept, CanUseForm, ~overlapped
  PROVE  /\ page = "form" /\ ~RoundOn
         /\ SavePhase = IF creates = <<>> THEN "editing" ELSE "keeping"
<1>1. page = "form" /\ ~RoundOn /\ ~(mounted /\ showModal_Invalid)
  BY DEF RoundKept, CanUseForm
<1>2. creates # <<>> => Keeping
  BY DEF CreateKept, CanUseForm
<1> QED
  BY <1>1, <1>2 DEF RoundOn, SavePhase

LEMMA AskingPhase ==
  ASSUME RoundKept, DQP!ModalFirm, page = "form", mounted, showModal_Invalid, ~overlapped
  PROVE  SavePhase = "asking" /\ ~(modalLoading > 0) /\ creates = <<>>
BY AskingIsRound DEF RoundKept, SavePhase

(* Once its record is answered the form is edited again, or left.            *)
LEMMA AnsweredPhase ==
  ASSUME TypeOK, RoundKept, CreateKept, DQP!ModalFirm, NEW i \in DOMAIN creates,
         creates' = RemoveAt(creates, i), page = "form", ~overlapped, ~overlapped',
         UNCHANGED <<childVars, modalLoading>>
  PROVE  /\ SavePhase \in {"saving", "keeping"}
         /\ SavePhase' = IF page' = "form" THEN "editing" ELSE "left"
<1>1. creates # <<>> /\ creates' = <<>>
  BY AnsweredAlone DEF CreateKept
<1>2. ~RoundOn /\ ~(mounted /\ showModal_Invalid)
  BY <1>1, AskingIsRound DEF RoundKept
<1> QED
  BY <1>1, <1>2 DEF SavePhase, RoundOn, childVars

LEMMA SingleSaveStep ==
  ASSUME FormInv, RoundInv, CreateInv, FirmInv, [Next]_vars, ~overlapped
  PROVE  Save!Next \/ UNCHANGED <<SavePhase, warningMessages>>
<1>0. RoundKept /\ CreateKept /\ DQP!ModalFirm /\ TypeOK
  BY DEF RoundInv, CreateInv, FirmInv, FormInv
<1>1. ASSUME UNCHANGED <<page, creates, mounted, showModal_Invalid, modalLoading, polling,
                         warningMessages, overlapped>>
      PROVE  UNCHANGED <<SavePhase, warningMessages>>
  BY <1>1 DEF SavePhase, Keeping
<1>2. CASE \/ \E in \in Inputs : EditInput(in)
           \/ AccountAnswer \/ handleVisibilityOfErrorPopup \/ UNCHANGED vars
  BY <1>1, <1>2 DEF EditInput, AccountAnswer, handleVisibilityOfErrorPopup, vars,
     childVars, formVars, sending, popup, history
<1>3. CASE ChildAnswered
  BY <1>1, <1>3, AnswersKeepRound DEF ChildAnswered, formVars, sending, popup, history
<1>4. ASSUME NEW button \in {"Save", "SaveAndNew"}, NEW valid \in BOOLEAN,
             validateFields(button, valid)
      PROVE  Save!Next
  <2>1. /\ page = "form" /\ ~RoundOn
        /\ SavePhase = IF creates = <<>> THEN "editing" ELSE "keeping"
        /\ UNCHANGED <<page, creates>> /\ warningMessages' = FALSE
    BY <1>0, <1>4, UsablePhase DEF validateFields, showErrors
  <2>2. CASE valid /\ creates = <<>>
    <3>1. modalLoading' = modalLoading + 1 /\ ~overlapped' /\ ~showModal_Invalid'
      BY <1>4, <2>1, <2>2 DEF validateFields, handleSubmit, MountChild, NewChild, CanUseForm
    <3>2. modalLoading' > 0
      BY <1>0, <3>1, CountsTyped
    <3>3. SavePhase' = "validating"
      BY <2>1, <2>2, <3>1, <3>2 DEF SavePhase
    <3> QED
      BY <2>1, <2>2, <3>3 DEF Save!Next, Save!Submit, SavePhase
  <2>3. CASE valid /\ creates # <<>>
    <3>1. overlapped'
      BY <1>4, <2>3 DEF validateFields
    <3>2. SavePhase' = "overlapping"
      BY <2>1, <3>1 DEF SavePhase
    <3> QED
      BY <2>1, <2>3, <3>2 DEF Save!Next, Save!SaveAgain, SavePhase
  <2>4. CASE ~valid
    <3>1. UNCHANGED <<page, creates, mounted, showModal_Invalid, modalLoading, polling,
                      overlapped>>
      BY <1>4, <2>4 DEF validateFields, childVars
    <3>2. SavePhase' = SavePhase
      BY <3>1 DEF SavePhase, Keeping
    <3> QED
      BY <2>1, <3>2 DEF Save!Next, Save!Refuse, SavePhase
  <2> QED
    BY <2>2, <2>3, <2>4
<1>5. CASE StartRound
  <2>1. /\ page = "form" /\ modalLoading > 0 /\ mounted /\ polling' = polling + 1
        /\ UNCHANGED <<page, creates, mounted, showModal_Invalid, warningMessages, overlapped>>
    BY <1>5 DEF StartRound, StartChild, DQ!validateDQServices, DQ!display, popup, history
  <2>2. creates = <<>> /\ ~showModal_Invalid
    BY <1>0, <2>1 DEF RoundKept, RoundOn
  <2>3. polling' > 0
    BY <1>0, <2>1, CountsTyped
  <2>4. SavePhase = "validating" /\ SavePhase' = "validating"
    BY <2>1, <2>2, <2>3 DEF SavePhase
  <2> QED
    BY <2>1, <2>4
<1>6. CASE ChildReports
  <2>1. /\ page = "form" /\ mounted /\ polling > 0
        /\ UNCHANGED <<page, warningMessages, overlapped>>
    BY <1>6 DEF ChildReports, DQ!PollValid, DQ!PollException, popup, history
  <2>2. ~showModal_Invalid /\ creates = <<>>
    BY <1>0, <1>6, <2>1, SilentWhileAsking DEF ChildReports, RoundKept, RoundOn
  <2>3. creates' # <<>> /\ ~Keeping'
    <3>1. PICK outcome \in {"DQ_CALLOUT", "APIException"} : dqValidationCompleted(outcome)
      BY <1>6 DEF ChildReports
    <3> QED
      BY <2>2, <3>1, SentAlone DEF Keeping
  <2>4. SavePhase = "validating" /\ SavePhase' = "saving"
    BY <2>1, <2>2, <2>3 DEF SavePhase
  <2> QED
    BY <2>1, <2>4 DEF Save!Next, Save!Send, SavePhase
<1>7. CASE ChildAsks
  <2>1. /\ page = "form" /\ mounted /\ polling > 0 /\ (showModal_Invalid => showModal_Invalid')
        /\ UNCHANGED <<page, creates, mounted, modalLoading, polling, warningMessages,
                       overlapped>>
    BY <1>7 DEF ChildAsks, DQ!PollInvalid, formVars, sending, popup, history
  <2>2. creates = <<>>
    BY <1>0, <2>1 DEF RoundKept, RoundOn
  <2>3. CASE ~showModal_Invalid /\ showModal_Invalid'
    <3>1. SavePhase = "validating" /\ SavePhase' = "asking"
      BY <2>1, <2>2, <2>3 DEF SavePhase
    <3> QED
      BY <2>1, <3>1 DEF Save!Next, Save!Ask, SavePhase
  <2>4. CASE showModal_Invalid /\ showModal_Invalid'
    BY <2>1, <2>2, <2>4 DEF SavePhase
  <2>5. CASE ~showModal_Invalid /\ ~showModal_Invalid'
    BY <2>1, <2>2, <2>5 DEF SavePhase
  <2> QED
    BY <2>1, <2>3, <2>4, <2>5
<1>8. CASE AnswerYes
  <2>1. /\ page = "form" /\ mounted /\ showModal_Invalid /\ mounted' = FALSE
        /\ UNCHANGED <<page, creates, modalLoading, warningMessages, overlapped>>
    BY <1>8 DEF AnswerYes, DQ!handleYes, DQ!CloseModal, sending, popup, history
  <2>2. SavePhase = "asking" /\ ~(modalLoading > 0) /\ creates = <<>>
    BY <1>0, <2>1, AskingPhase
  <2>3. SavePhase' = "editing"
    BY <2>1, <2>2 DEF SavePhase
  <2> QED
    BY <2>1, <2>2, <2>3 DEF Save!Next, Save!Correct, SavePhase
<1>9. CASE AnswerNo
  <2>1. /\ page = "form" /\ mounted /\ showModal_Invalid
        /\ UNCHANGED <<page, warningMessages, overlapped>>
    BY <1>9 DEF AnswerNo, DQ!handleNo, DQ!CloseModal, popup, history
  <2>2. SavePhase = "asking" /\ creates = <<>>
    BY <1>0, <2>1, AskingPhase
  <2>3. creates' # <<>> /\ Keeping'
    BY <1>9, <2>2, SentAlone DEF AnswerNo, Keeping
  <2>4. SavePhase' = "keeping"
    BY <2>1, <2>3 DEF SavePhase
  <2> QED
    BY <2>1, <2>2, <2>4 DEF Save!Next, Save!Keep, SavePhase
<1>10. CASE ServerAnswers
  <2>1. PICK i \in DOMAIN creates :
            \/ handleSucess(i)
            \/ \E duplicates \in BOOLEAN : handleError(i, duplicates)
            \/ \E isSuccuss \in BOOLEAN : InsertAnswer(i, isSuccuss)
            \/ InsertRejected(i)
    BY <1>10 DEF ServerAnswers
  <2>2. /\ creates' = RemoveAt(creates, i) /\ page = "form" /\ UNCHANGED overlapped
        /\ UNCHANGED <<childVars, modalLoading>>
    BY <2>1 DEF handleSucess, handleError, InsertAnswer, InsertRejected, history
  <2>3. /\ SavePhase \in {"saving", "keeping"}
        /\ SavePhase' = IF page' = "form" THEN "editing" ELSE "left"
    BY <1>0, <2>2, AnsweredPhase
  <2>4. /\ warningMessages' \in {warningMessages, TRUE}
        /\ page' # "form" => UNCHANGED warningMessages
    <3>1. CASE handleSucess(i)
      <4>1. creates[i] \in ToSet(creates) /\ creates[i].kind = "form" /\ page = "form"
        BY <1>0, <3>1, AnsweredAlone DEF handleSucess, CreateKept
      <4>2. ~warningMessages /\ warningMessages \in BOOLEAN
        BY <1>0, <4>1 DEF CreateKept, TypeOK
      <4> QED
        BY <3>1, <4>2 DEF handleSucess
    <3>2. CASE \E duplicates \in BOOLEAN : handleError(i, duplicates)
      BY <2>2, <3>2 DEF handleError
    <3>3. CASE (\E isSuccuss \in BOOLEAN : InsertAnswer(i, isSuccuss)) \/ InsertRejected(i)
      BY <3>3 DEF InsertAnswer, InsertRejected, popup
    <3> QED
      BY <2>1, <3>1, <3>2, <3>3
  <2> QED
    BY <2>3, <2>4 DEF Save!Next, Save!GiveBack, Save!Finish, SavePhase
<1>11. CASE handleContinueToSave
  <2>1. /\ CanUseForm /\ isErrorPopup /\ ~errorMessages /\ page = "form"
        /\ UNCHANGED <<page, warningMessages, overlapped>>
    BY <1>11 DEF handleContinueToSave, CanUseForm, history
  <2>2. creates = <<>> /\ warningMessages
    <3>1. warningMessages
      BY <1>11, DuplicateTyped
    <3> QED
      BY <1>0, <2>1, <3>1 DEF CreateKept, CanUseForm
  <2>3. SavePhase = "editing"
    BY <1>0, <2>1, <2>2, UsablePhase
  <2> DEFINE e == Sent("duplicate", input.text, Held(contactDetail), refused,
                       IF input.addressFrom = "Account" THEN "missing" ELSE "own")
  <2>4. e.kind = "duplicate" /\ creates' = Append(creates, e)
    BY <1>11 DEF handleContinueToSave, Sent
  <2> HIDE DEF e
  <2>5. creates' # <<>> /\ creates'[1] = e
    BY <2>2, <2>4, OneSent
  <2>6. SavePhase' = "saving"
    BY <2>1, <2>4, <2>5 DEF SavePhase, Keeping
  <2> QED
    BY <2>1, <2>2, <2>3, <2>6 DEF Save!Next, Save!SendDuplicate, SavePhase
<1>12. CASE handleViewRecordDatail \/ closeModal
  <2>1. SavePhase # "left" /\ SavePhase' = "left" /\ UNCHANGED warningMessages
    BY <1>12 DEF handleViewRecordDatail, closeModal, CanUseForm, SavePhase, popup
  <2> QED
    BY <2>1 DEF Save!Next, Save!Cancel, SavePhase
<1> QED
  BY <1>2, <1>3, <1>4, <1>5, <1>6, <1>7, <1>8, <1>9, <1>10, <1>11, <1>12 DEF Next

LEMMA SaveStep ==
  ASSUME FormInv, FormInv', RoundInv, CreateInv, FirmInv, [Next]_vars
  PROVE  Save!Next \/ UNCHANGED <<SavePhase, warningMessages>>
<1>1. CASE ~overlapped
  BY <1>1, SingleSaveStep
<1>2. CASE overlapped /\ page = "form"
  <2>1. overlapped'
    BY <1>2, OverlapStays
  <2>2. SavePhase = "overlapping" /\ SavePhase' \in {"overlapping", "left"}
    BY <1>2, <2>1 DEF SavePhase
  <2>3. warningMessages' \in BOOLEAN
    BY DEF FormInv, TypeOK
  <2> QED
    BY <2>2, <2>3 DEF Save!Next, Save!Overlap, SavePhase
<1>3. CASE page # "form"
  BY <1>3, LeftForGood DEF SavePhase
<1> QED
  BY <1>1, <1>2, <1>3

(* A save is validated, then sent, once, or given back; only a duplicate     *)
(* warning lets a contact be sent without a validation, and only a save      *)
(* during the create of a record the user kept is promised nothing.          *)
THEOREM KeepsSavePromise ==
  ASSUME MaxLate = 0, OnePairAskable
  PROVE  Spec => ImplementsSave
<1>1. Init => Save!Init
  BY DEF Init, NoChild, FreshChild, Save!Init
<1>2. FormInv /\ FormInv' /\ RoundInv /\ CreateInv /\ FirmInv /\ [Next]_vars
        => [Save!Next]_(Save!vars)
  BY SaveStep DEF Save!vars, SavePhase
<1> QED
  BY <1>1, <1>2, FormInvHolds, RoundInvHolds, CreateInvHolds, FormFirmHolds, PTL
  DEF Spec, ImplementsSave, Save!Spec
=============================================================================
