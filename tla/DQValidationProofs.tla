------------------------- MODULE DQValidationProofs -------------------------
(***************************************************************************)
(* Proofs about DQValidation, for every set of forms and of metadata       *)
(* answers and for every value of the two bounds: late answers of earlier  *)
(* rounds are allowed throughout.                                          *)
(***************************************************************************)
EXTENDS DQValidation, SequenceTheorems, TLAPS

(* A report to the parent is well typed.                                     *)
LEMMA ReportTyped ==
  ASSUME round \in Nat,
         passed \in Seq([round : Nat, outcome : Outcomes]),
         NEW outcome \in Outcomes,
         passDataToParent(outcome)
  PROVE  /\ inValidData' = outcome
         /\ passed' \in Seq([round : Nat, outcome : Outcomes])
<1> DEFINE R == [round : Nat, outcome : Outcomes]
           r == [round |-> round, outcome |-> outcome]
<1>1. r \in R
  OBVIOUS
<1>2. Append(passed, r) \in Seq(R)
  <2> HIDE DEF R, r
  <2>1. passed \in Seq(R)
    BY DEF R
  <2> QED
    BY <1>1, <2>1
<1>3. passed' = Append(passed, r) \/ passed' = passed
  BY DEF passDataToParent
<1> QED
  BY <1>2, <1>3 DEF passDataToParent

(* What an answer can do to the lists of the modal.                          *)
LEMMA EmailAnswerLists ==
  ASSUME NEW c, NEW a, EmailAnswer(c, a)
  PROVE  \/ invalidDataLists' = invalidDataLists
         \/ invalidDataLists' = Append(invalidDataLists, c.name)
BY DEF EmailAnswer, DQVerifyEmail

LEMMA PhoneAnswerLists ==
  ASSUME NEW c, NEW a, NEW t, PhoneAnswer(c, a, t)
  PROVE  /\ \/ invalidDataLists' = invalidDataLists
            \/ invalidDataLists' = Append(invalidDataLists, c.name)
         /\ \/ UNCHANGED <<phoneNumberTypeDataLists, phoneModalType_Invalid>>
            \/ /\ phoneNumberTypeDataLists' = Append(phoneNumberTypeDataLists, c.name)
               /\ phoneModalType_Invalid' = TRUE
<1>1. CASE a \in Statuses /\ c.form.value[c.name] # "absent"
  <2>1. DQVerifyPhone(c.name, a, WrongType(c.name, t))
    BY <1>1 DEF PhoneAnswer
  <2> QED
    BY <2>1 DEF DQVerifyPhone
<1>2. CASE ~(a \in Statuses /\ c.form.value[c.name] # "absent")
  BY <1>2 DEF PhoneAnswer, lists
<1> QED
  BY <1>1, <1>2

(* A round that starts, and every step, keeps the types.                     *)
LEMMA StartTyped ==
  ASSUME TypeOK, NEW f \in Forms,
         NEW statuses \in [Fields -> Statuses \union {"unset", "null"}],
         validateDQServices(f, statuses)
  PROVE  TypeOK'
BY DEF TypeOK, validateDQServices, resetALL, display, lists, Calls

LEMMA TypeKept ==
  ASSUME TypeOK, [Next]_vars
  PROVE  TypeOK'
<1> USE DEF TypeOK
<1>1. ASSUME NEW f \in Forms, ParentMayCall, validateDQServices(f, Unchecked) PROVE TypeOK'
  BY <1>1, StartTyped DEF Unchecked
<1>2. ASSUME NEW c \in inFlight, NEW sw \in Switches, MetadataAnswer(c, sw) PROVE TypeOK'
  <2>1. received' \in [Fields -> BOOLEAN]
    BY <1>2 DEF MetadataAnswer
  <2>2. status' \in [Fields -> Statuses \union {"unset", "null"}]
    BY <1>2 DEF MetadataAnswer
  <2>3. form.asked \subseteq Fields
    BY FormsAssumption
  <2>4. \A f \in Started(sw, form.asked) :
           [round |-> c.round, name |-> f, form |-> c.form] \in Calls
    BY <2>3 DEF Started, Calls
  <2>5. inFlight' \subseteq Calls
    BY <1>2, <2>4 DEF MetadataAnswer
  <2>6. UNCHANGED <<msg, lists, display, phoneResponss, inValidData, form,
                    polling, mounted, round, passed, failed>>
    BY <1>2 DEF MetadataAnswer
  <2> QED
    BY <2>1, <2>2, <2>5, <2>6 DEF lists, display
<1>3. ASSUME NEW c \in inFlight, MetadataRejected(c) PROVE TypeOK'
  BY <1>3 DEF MetadataRejected, display, lists, contactData
<1>4. ASSUME NEW c \in inFlight, NEW a \in EmailAnswers, EmailAnswer(c, a) PROVE TypeOK'
  <2>1. c.name \in Fields
    BY <1>4 DEF EmailAnswer, DQVerifyEmail, Fields
  <2>2. received' \in [Fields -> BOOLEAN] /\ inFlight' \subseteq Calls
    BY <1>4 DEF EmailAnswer, DQVerifyEmail
  <2>3. msg' \in [Fields -> {"ok", "invalid", "exception"}]
    BY <1>4 DEF EmailAnswer, DQVerifyEmail
  <2>4. status' \in [Fields -> Statuses \union {"unset", "null"}]
    BY <1>4 DEF EmailAnswer, DQVerifyEmail, Statuses
  <2>5. invalidDataLists' \in Seq(Fields)
    <3>1. \/ invalidDataLists' = invalidDataLists
          \/ invalidDataLists' = Append(invalidDataLists, c.name)
      BY <1>4, EmailAnswerLists
    <3>2. invalidDataLists \in Seq(Fields) /\ phoneNumberTypeDataLists \in Seq(Phones)
      OBVIOUS
    <3> HIDE DEF TypeOK
    <3> QED
      BY <3>1, <3>2, <2>1, AppendProperties
  <2>6. failed' \subseteq Fields
    BY <1>4, <2>1 DEF EmailAnswer, DQVerifyEmail, Fails
  <2>7. UNCHANGED <<phoneNumberTypeDataLists, display, phoneResponss,
                    inValidData, form, polling, mounted, round, passed>>
    BY <1>4 DEF EmailAnswer, DQVerifyEmail
  <2> QED
    BY <2>2, <2>3, <2>4, <2>5, <2>6, <2>7 DEF display
<1>5. ASSUME NEW c \in inFlight, EmailRejected(c) PROVE TypeOK'
  BY <1>5 DEF EmailRejected, display, lists, contactData, Fails, Emails, Fields
<1>6. ASSUME NEW c \in inFlight, NEW a \in PhoneAnswers, NEW t \in NumberTypes,
             PhoneAnswer(c, a, t) PROVE TypeOK'
  <2>1. c.name \in Phones /\ c.name \in Fields
    BY <1>6 DEF PhoneAnswer, Fields
  <2>2. /\ invalidDataLists' \in Seq(Fields)
        /\ phoneNumberTypeDataLists' \in Seq(Phones)
    <3>1. /\ \/ invalidDataLists' = invalidDataLists
             \/ invalidDataLists' = Append(invalidDataLists, c.name)
          /\ \/ phoneNumberTypeDataLists' = phoneNumberTypeDataLists
             \/ phoneNumberTypeDataLists' = Append(phoneNumberTypeDataLists, c.name)
      BY <1>6, PhoneAnswerLists
    <3>2. invalidDataLists \in Seq(Fields) /\ phoneNumberTypeDataLists \in Seq(Phones)
      OBVIOUS
    <3> HIDE DEF TypeOK
    <3>3. invalidDataLists' \in Seq(Fields)
      BY <3>1, <3>2, <2>1, AppendProperties
    <3>4. phoneNumberTypeDataLists' \in Seq(Phones)
      BY <3>1, <3>2, <2>1, AppendProperties
    <3> QED
      BY <3>3, <3>4
  <2>3. phoneModalType_Invalid' \in BOOLEAN
    <3>1. phoneModalType_Invalid' = phoneModalType_Invalid \/ phoneModalType_Invalid' = TRUE
      BY <1>6, PhoneAnswerLists
    <3> QED
      BY <3>1
  <2>4. received' \in [Fields -> BOOLEAN] /\ inFlight' \subseteq Calls
        /\ phoneResponss' \in {"Mobile", "LandLine", "undefined"}
    BY <1>6, NumberTypesAssumption DEF PhoneAnswer
  <2>5. /\ msg' \in [Fields -> {"ok", "invalid", "exception"}]
        /\ status' \in [Fields -> Statuses \union {"unset", "null"}]
    BY <1>6 DEF PhoneAnswer, DQVerifyPhone
  <2>6. failed' \subseteq Fields
    BY <1>6, <2>1 DEF PhoneAnswer, Fails
  <2>7. UNCHANGED <<showModal_Invalid, isInvalidListEmpty, inValidData, form,
                    polling, mounted, round, passed>>
    BY <1>6 DEF PhoneAnswer
  <2> QED
    BY <2>2, <2>3, <2>4, <2>5, <2>6, <2>7
<1>7. ASSUME NEW c \in inFlight, PhoneRejected(c) PROVE TypeOK'
  BY <1>7 DEF PhoneRejected, display, lists, contactData, Fails, Phones, Fields
<1>8. ASSUME NEW c \in inFlight, NEW a \in AddressAnswers, AddressAnswer(c, a) PROVE TypeOK'
  BY <1>8 DEF AddressAnswer, display, Fails, Fields, Statuses, AddressAnswers
<1>9. ASSUME NEW c \in inFlight, AddressRejected(c) PROVE TypeOK'
  BY <1>9 DEF AddressRejected, display, lists, contactData, Fails, Fields
<1>10. CASE Poll
  <2>1. CASE PollValid
    <3>1. inValidData' \in Outcomes \union {"unset"}
          /\ passed' \in Seq([round : Nat, outcome : Outcomes])
      BY <2>1, ReportTyped DEF PollValid, Outcomes
    <3> QED
      BY <2>1, <3>1 DEF PollValid, lists, display
  <2>2. CASE PollException
    <3>1. inValidData' \in Outcomes \union {"unset"}
          /\ passed' \in Seq([round : Nat, outcome : Outcomes])
      BY <2>2, ReportTyped DEF PollException, Outcomes
    <3> QED
      BY <2>2, <3>1 DEF PollException, lists, display
  <2>3. CASE PollInvalid
    <3>1. showModal_Invalid' \in BOOLEAN /\ isInvalidListEmpty' \in BOOLEAN
      BY <2>3 DEF PollInvalid
    <3>2. UNCHANGED <<received, msg, lists, phoneModalType_Invalid,
                      phoneResponss, contactData, form, inFlight, polling,
                      mounted, round, passed, failed>>
      BY <2>3 DEF PollInvalid
    <3> QED
      BY <3>1, <3>2 DEF lists, contactData
  <2> QED
    BY <1>10, <2>1, <2>2, <2>3 DEF Poll
<1>11. CASE handleYes
  <2>1. received' \in [Fields -> BOOLEAN] /\ invalidDataLists' \in Seq(Fields)
        /\ phoneNumberTypeDataLists' \in Seq(Phones)
    BY <1>11 DEF handleYes, CloseModal, resetALL
  <2>2. showModal_Invalid' \in BOOLEAN /\ phoneModalType_Invalid' \in BOOLEAN
        /\ mounted' \in BOOLEAN
    BY <1>11 DEF handleYes, CloseModal
  <2>3. UNCHANGED <<msg, isInvalidListEmpty, phoneResponss, contactData, form,
                    inFlight, polling, round, passed, failed>>
    BY <1>11 DEF handleYes, CloseModal, contactData
  <2> QED
    BY <2>1, <2>2, <2>3 DEF contactData
<1>12. CASE handleNo
  <2>1. received' \in [Fields -> BOOLEAN] /\ invalidDataLists' \in Seq(Fields)
        /\ phoneNumberTypeDataLists' \in Seq(Phones)
    BY <1>12 DEF handleNo, CloseModal, resetALL
  <2>2. showModal_Invalid' \in BOOLEAN /\ phoneModalType_Invalid' \in BOOLEAN
        /\ mounted' \in BOOLEAN
    BY <1>12 DEF handleNo, CloseModal
  <2>3. inValidData' \in Outcomes \union {"unset"}
        /\ passed' \in Seq([round : Nat, outcome : Outcomes])
    BY <1>12, ReportTyped DEF handleNo, Outcomes
  <2>4. UNCHANGED <<msg, isInvalidListEmpty, phoneResponss, status, form,
                    inFlight, polling, round, failed>>
    BY <1>12 DEF handleNo, CloseModal
  <2> QED
    BY <2>1, <2>2, <2>3, <2>4
<1>13. CASE UNCHANGED vars
  BY <1>13 DEF vars, lists, display, contactData
<1> QED
  BY <1>1, <1>2, <1>3, <1>4, <1>5, <1>6, <1>7, <1>8, <1>9, <1>10, <1>11,
     <1>12, <1>13 DEF Next, Settle

(* Type correctness of the component.                                        *)
THEOREM TypeCorrect == Spec => []TypeOK
<1>1. Init => TypeOK
  <2> SUFFICES ASSUME Init PROVE TypeOK
    OBVIOUS
  <2>1. inFlight \subseteq Calls /\ failed \subseteq Fields
    BY DEF Init
  <2>2. /\ invalidDataLists \in Seq(Fields)
        /\ phoneNumberTypeDataLists \in Seq(Phones)
        /\ passed \in Seq([round : Nat, outcome : Outcomes])
    BY DEF Init
  <2> QED
    BY <2>1, <2>2 DEF Init, TypeOK
<1>2. TypeOK /\ [Next]_vars => TypeOK'
  BY TypeKept
<1> QED
  BY <1>1, <1>2, PTL DEF Spec

-----------------------------------------------------------------------------
(* Once the service has called a field invalid, only an answer that replaces *)
(* its status can make its message "ok" again.                               *)
LEMMA FlagKept ==
  ASSUME TypeOK, StatusBehindMessage, [Next]_vars
  PROVE  StatusBehindMessage'
<1> USE DEF TypeOK, StatusBehindMessage
<1>1. ASSUME NEW f \in Forms, validateDQServices(f, Unchecked) PROVE StatusBehindMessage'
  BY <1>1 DEF validateDQServices, Unchecked
<1>2. ASSUME NEW c \in inFlight, NEW sw \in Switches, MetadataAnswer(c, sw)
      PROVE  StatusBehindMessage'
  <2>1. \A f \in Fields : status'[f] = "invalid" => status[f] = "invalid"
    BY <1>2 DEF MetadataAnswer
  <2>2. msg' = msg
    BY <1>2 DEF MetadataAnswer
  <2> QED
    BY <2>1, <2>2
<1>3. ASSUME NEW c \in inFlight, MetadataRejected(c) PROVE StatusBehindMessage'
  BY <1>3 DEF MetadataRejected, contactData
<1>4. ASSUME NEW c \in inFlight, NEW a \in EmailAnswers, EmailAnswer(c, a)
      PROVE  StatusBehindMessage'
  BY <1>4 DEF EmailAnswer, DQVerifyEmail, EmailAnswers, Statuses
<1>5. ASSUME NEW c \in inFlight, EmailRejected(c) PROVE StatusBehindMessage'
  BY <1>5 DEF EmailRejected, contactData
<1>6. ASSUME NEW c \in inFlight, NEW a \in PhoneAnswers, NEW t \in NumberTypes,
             PhoneAnswer(c, a, t)
      PROVE  StatusBehindMessage'
  BY <1>6 DEF PhoneAnswer, DQVerifyPhone, PhoneAnswers, EmailAnswers, Statuses
<1>7. ASSUME NEW c \in inFlight, PhoneRejected(c) PROVE StatusBehindMessage'
  BY <1>7 DEF PhoneRejected, contactData
<1>8. ASSUME NEW c \in inFlight, NEW a \in AddressAnswers, AddressAnswer(c, a)
      PROVE  StatusBehindMessage'
  BY <1>8 DEF AddressAnswer, AddressAnswers, Statuses
<1>9. ASSUME NEW c \in inFlight, AddressRejected(c) PROVE StatusBehindMessage'
  BY <1>9 DEF AddressRejected, contactData
<1>10. CASE Poll
  BY <1>10 DEF Poll, PollValid, PollInvalid, PollException, contactData
<1>11. CASE handleYes
  BY <1>11 DEF handleYes, CloseModal
<1>12. CASE handleNo
  BY <1>12 DEF handleNo, CloseModal
<1>13. CASE UNCHANGED vars
  BY <1>13 DEF vars, contactData
<1> QED
  BY <1>1, <1>2, <1>3, <1>4, <1>5, <1>6, <1>7, <1>8, <1>9, <1>10, <1>11,
     <1>12, <1>13 DEF Next, Settle

(* A status the service called invalid is never behind an "ok" message.      *)
THEOREM InvalidStatusFlagged == Spec => []StatusBehindMessage
<1>1. Init => StatusBehindMessage
  BY DEF Init, StatusBehindMessage
<1> QED
  BY <1>1, FlagKept, TypeCorrect, PTL DEF Spec

(* Which steps report to the parent.                                         *)
LEMMA OnlyReportsPass ==
  ASSUME [Next]_vars
  PROVE  PollValid \/ PollException \/ handleNo \/ UNCHANGED passed
<1>1. ASSUME NEW f \in Forms, validateDQServices(f, Unchecked) PROVE UNCHANGED passed
  BY <1>1 DEF validateDQServices
<1>2. ASSUME NEW c \in inFlight, Settle(c) PROVE UNCHANGED passed
  BY <1>2 DEF Settle, MetadataAnswer, MetadataRejected, EmailAnswer,
     EmailRejected, PhoneAnswer, PhoneRejected, AddressAnswer, AddressRejected
<1>3. CASE PollInvalid \/ handleYes
  BY <1>3 DEF PollInvalid, handleYes
<1>4. CASE UNCHANGED vars
  BY <1>4 DEF vars
<1> QED
  BY <1>1, <1>2, <1>3, <1>4 DEF Next, Poll

(* A report of valid data comes from PollValid: the only step that passes    *)
(* DQ_CALLOUT.                                                               *)
LEMMA ValidReportIsPollValid ==
  ASSUME TypeOK, [Next]_vars, Reports("DQ_CALLOUT")
  PROVE  PollValid
<1> DEFINE R == [round : Nat, outcome : Outcomes]
<1>1. passed \in Seq(R) /\ round \in Nat
  BY DEF TypeOK
<1>2. passed' # passed
  BY <1>1 DEF Reports
<1>3. ~handleNo /\ ~PollException
  <2>1. ASSUME NEW o \in Outcomes \ {"DQ_CALLOUT"}, passDataToParent(o) PROVE FALSE
    <3> DEFINE r == [round |-> round, outcome |-> o]
    <3>1. r \in R
      BY <1>1
    <3>2. passed' = Append(passed, r)
      BY <1>2, <2>1 DEF passDataToParent
    <3>3. passed'[Len(passed')] = r
      <4> HIDE DEF R, r
      <4> QED
        BY <1>1, <3>1, <3>2
    <3> QED
      BY <3>3 DEF Reports
  <2> QED
    BY <2>1 DEF handleNo, PollException, Outcomes
<1> QED
  BY <1>2, <1>3, OnlyReportsPass

(* Data passed on as valid never carries an invalid verification status,     *)
(* however many answers of earlier rounds come in late.                      *)
THEOREM ValidDataCarriesNoInvalidStatus == Spec => NoInvalidDataPassedAsValid
<1>1. ASSUME TypeOK, StatusBehindMessage, [Next]_vars
      PROVE  [Reports("DQ_CALLOUT") =>
                \A f \in Fields : status'[f] # "invalid"]_vars
  <2> SUFFICES ASSUME Reports("DQ_CALLOUT"), NEW f \in Fields
               PROVE  status'[f] # "invalid"
    OBVIOUS
  <2>1. PollValid
    BY <1>1, ValidReportIsPollValid
  <2> QED
    BY <1>1, <2>1 DEF PollValid, AllOk, StatusBehindMessage
<1> QED
  BY <1>1, TypeCorrect, InvalidStatusFlagged, PTL DEF Spec, NoInvalidDataPassedAsValid

-----------------------------------------------------------------------------
(* While a list has an item its text is switched on; the flag is only reset  *)
(* together with the lists.                                                  *)
ModalInv ==
    /\ ModalNamesItems
    /\ phoneNumberTypeDataLists # <<>> => phoneModalType_Invalid

(* The modal is never open over nothing, in any order of answers.            *)
THEOREM ModalAlwaysNamesItems == Spec => []ModalNamesItems
<1>1. Init => ModalInv
  BY DEF Init, ModalInv, ModalNamesItems
<1>2. TypeOK /\ ModalInv /\ [Next]_vars => ModalInv'
  <2> SUFFICES ASSUME TypeOK, ModalInv, [Next]_vars PROVE ModalInv'
    OBVIOUS
  <2> USE DEF ModalInv, ModalNamesItems
  <2>0. /\ invalidDataLists \in Seq(Fields)
        /\ phoneNumberTypeDataLists \in Seq(Phones)
    BY DEF TypeOK
  <2>1. ASSUME NEW f \in Forms, ParentMayCall, validateDQServices(f, Unchecked) PROVE ModalInv'
    BY <2>1 DEF ParentMayCall, validateDQServices, resetALL, display
  <2>2. ASSUME UNCHANGED <<lists, display>> PROVE ModalInv'
    BY <2>2 DEF lists, display
  <2>3. ASSUME NEW c \in inFlight, NEW a \in EmailAnswers, EmailAnswer(c, a)
        PROVE  ModalInv'
    <3>1. c.name \in Fields
      BY <2>3 DEF EmailAnswer, DQVerifyEmail, Fields
    <3>2. invalidDataLists' # <<>> \/ invalidDataLists' = invalidDataLists
      BY <2>0, <2>3, <3>1 DEF EmailAnswer, DQVerifyEmail
    <3>3. invalidDataLists # <<>> => invalidDataLists' # <<>>
      BY <2>0, <2>3, <3>1 DEF EmailAnswer, DQVerifyEmail
    <3> QED
      BY <2>3, <3>2, <3>3 DEF EmailAnswer, DQVerifyEmail, display
  <2>4. ASSUME NEW c \in inFlight, NEW a \in PhoneAnswers, NEW t \in NumberTypes,
               PhoneAnswer(c, a, t)
        PROVE  ModalInv'
    <3>1. c.name \in Phones /\ c.name \in Fields
      BY <2>4 DEF PhoneAnswer, DQVerifyPhone, Fields
    <3>0. /\ Append(invalidDataLists, c.name) # <<>>
          /\ Append(phoneNumberTypeDataLists, c.name) # <<>>
      BY <2>0, <3>1, AppendProperties
    <3>2. invalidDataLists # <<>> => invalidDataLists' # <<>>
      BY <2>4, <3>0, PhoneAnswerLists
    <3>3. phoneNumberTypeDataLists # <<>> => phoneNumberTypeDataLists' # <<>>
      BY <2>4, <3>0, PhoneAnswerLists
    <3>4. phoneNumberTypeDataLists' # phoneNumberTypeDataLists
            => phoneModalType_Invalid'
      BY <2>4, PhoneAnswerLists
    <3>5. phoneModalType_Invalid => phoneModalType_Invalid'
      BY <2>4, PhoneAnswerLists
    <3>6. UNCHANGED <<showModal_Invalid, isInvalidListEmpty>>
      BY <2>4 DEF PhoneAnswer, DQVerifyPhone
    <3> QED
      BY <3>2, <3>3, <3>4, <3>5, <3>6
  <2>5. ASSUME NEW c \in inFlight, NEW a \in AddressAnswers, AddressAnswer(c, a)
        PROVE  ModalInv'
    <3>1. invalidDataLists # <<>> => invalidDataLists' # <<>>
      BY <2>0, <2>5 DEF AddressAnswer, Fields
    <3> QED
      BY <2>5, <3>1 DEF AddressAnswer, display
  <2>6. CASE PollInvalid
    <3>1. UNCHANGED <<lists, phoneModalType_Invalid>>
      BY <2>6 DEF PollInvalid
    <3>2. showModal_Invalid' =>
            \/ showModal_Invalid
            \/ invalidDataLists # <<>>
            \/ phoneNumberTypeDataLists # <<>>
      BY <2>6 DEF PollInvalid
    <3>3. invalidDataLists = <<>> =>
            isInvalidListEmpty' \/ phoneNumberTypeDataLists = <<>>
      BY <2>6 DEF PollInvalid
    <3> QED
      BY <3>1, <3>2, <3>3 DEF lists
  <2>7. CASE handleYes \/ handleNo
    BY <2>7 DEF handleYes, handleNo, CloseModal, resetALL
  <2>8. ASSUME NEW c \in inFlight, Settle(c) PROVE ModalInv'
    BY <2>2, <2>3, <2>4, <2>5, <2>8 DEF Settle, MetadataAnswer, MetadataRejected,
       EmailRejected, PhoneRejected, AddressRejected
  <2>9. CASE PollValid \/ PollException \/ UNCHANGED vars
    BY <2>2, <2>9 DEF PollValid, PollException, vars
  <2> QED
    BY <2>1, <2>6, <2>7, <2>8, <2>9 DEF Next, Poll
<1>3. ModalInv => ModalNamesItems
  BY DEF ModalInv
<1> QED
  BY <1>1, <1>2, <1>3, TypeCorrect, PTL DEF Spec

-----------------------------------------------------------------------------
(* One interval runs at most.  No report is of a later round, and while the   *)
(* interval of a round runs the only report that round can have is the user's. *)
ReportInv ==
    /\ \A i \in 1..Len(passed) : passed[i].round <= round
    /\ polling <= 1
    /\ polling > 0 => \A i \in 1..Len(passed) :
                     passed[i].round = round => passed[i].outcome = "invalidData"
    /\ OneAutomaticReport

(* Adding a report to the parent keeps ReportInv.                            *)
LEMMA ReportKeepsInv ==
  ASSUME TypeOK, ReportInv, NEW o \in Outcomes, passDataToParent(o),
         round' = round,
         \/ o = "invalidData" /\ polling' = polling
         \/ polling > 0 /\ polling' = polling - 1
  PROVE  ReportInv'
<1> DEFINE R == [round : Nat, outcome : Outcomes]
           r == [round |-> round, outcome |-> o]
<1>1. passed \in Seq(R) /\ round \in Nat
  BY DEF TypeOK
<1>0. /\ polling' <= 1
      /\ (o = "invalidData" /\ polling' = polling) \/ ~(polling' > 0)
  BY DEF ReportInv, TypeOK
<1>2. CASE UNCHANGED passed
  BY <1>0, <1>2 DEF ReportInv, OneAutomaticReport
<1>3. CASE passed' = Append(passed, r)
  <2>1. r \in R /\ r.round = round /\ r.outcome = o
    BY <1>1
  <2>2. Len(passed') = Len(passed) + 1 /\ Len(passed) \in Nat
        /\ passed'[Len(passed) + 1] = r
        /\ \A i \in 1..Len(passed) : passed'[i] = passed[i]
    <3> HIDE DEF R, r
    <3> QED
      BY <1>1, <1>3, <2>1
  <2>3. \A i \in 1..Len(passed') : i \in 1..Len(passed) \/ i = Len(passed) + 1
    BY <2>2
  <2> HIDE DEF r
  <2>4. \A i \in 1..Len(passed') : passed'[i].round <= round'
    BY <1>1, <2>1, <2>2, <2>3 DEF ReportInv
  <2>5. polling' > 0 => \A i \in 1..Len(passed') :
           passed'[i].round = round' => passed'[i].outcome = "invalidData"
    BY <1>0, <2>1, <2>2, <2>3 DEF ReportInv
  <2>6. OneAutomaticReport'
    BY <2>1, <2>2, <2>3 DEF ReportInv, OneAutomaticReport
  <2> QED
    BY <1>0, <2>4, <2>5, <2>6 DEF ReportInv
<1> QED
  BY <1>2, <1>3 DEF passDataToParent

LEMMA ReportInvHolds == Spec => []ReportInv
<1>1. Init => ReportInv
  BY DEF Init, ReportInv, OneAutomaticReport
<1>2. TypeOK /\ ReportInv /\ [Next]_vars => ReportInv'
  <2> SUFFICES ASSUME TypeOK, ReportInv, [Next]_vars PROVE ReportInv'
    OBVIOUS
  <2>1. ASSUME UNCHANGED <<passed, round, polling>> PROVE ReportInv'
    BY <2>1 DEF ReportInv, OneAutomaticReport
  <2>2. ASSUME NEW f \in Forms, ParentMayCall, validateDQServices(f, Unchecked)
        PROVE  ReportInv'
    <3>1. passed' = passed /\ round' = round + 1 /\ round \in Nat /\ polling' = 1
      BY <2>2 DEF validateDQServices, ParentMayCall, TypeOK
    <3>2. \A i \in 1..Len(passed) : passed[i].round \in Nat
      <4>1. passed \in Seq([round : Nat, outcome : Outcomes])
        BY DEF TypeOK
      <4>2. \A i \in 1..Len(passed) : passed[i] \in [round : Nat, outcome : Outcomes]
        BY <4>1, ElementOfSeq
      <4> QED
        BY <4>2
    <3> QED
      BY <3>1, <3>2 DEF ReportInv, OneAutomaticReport
  <2>3. CASE PollValid \/ PollException
    BY <2>3, ReportKeepsInv DEF PollValid, PollException, Outcomes
  <2>4. CASE handleNo
    BY <2>4, ReportKeepsInv DEF handleNo, CloseModal, Outcomes
  <2>5. CASE PollInvalid \/ handleYes \/ UNCHANGED vars
    BY <2>1, <2>5 DEF PollInvalid, handleYes, CloseModal, vars
  <2>6. ASSUME NEW c \in inFlight, Settle(c) PROVE ReportInv'
    BY <2>1, <2>6 DEF Settle, MetadataAnswer, MetadataRejected, EmailAnswer,
       EmailRejected, PhoneAnswer, PhoneRejected, AddressAnswer, AddressRejected
  <2> QED
    BY <2>2, <2>3, <2>4, <2>5, <2>6 DEF Next, Poll
<1> QED
  BY <1>1, <1>2, TypeCorrect, PTL DEF Spec

(* The interval reports a round at most once.                                *)
THEOREM IntervalReportsOnce == Spec => []OneAutomaticReport
<1>1. ReportInv => OneAutomaticReport
  BY DEF ReportInv
<1> QED
  BY <1>1, ReportInvHolds, PTL

=============================================================================
