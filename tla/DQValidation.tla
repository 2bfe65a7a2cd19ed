---------------------------- MODULE DQValidation ----------------------------
(***************************************************************************)
(* The data-quality validation component                                   *)
(* force-app/main/default/lwc/dQValidation/dQValidation.js.                *)
(*                                                                         *)
(* A contact form mounts one instance and calls validateDQServices for a   *)
(* round of validation.  A round fetches the service switches, starts one  *)
(* Apex callout per field to be validated and starts a one-second interval *)
(* that waits until five "callback received" flags are set; it then hands  *)
(* the data to the form, or asks the user about invalid data.  Every       *)
(* promise settles in its own step, in any order, possibly after the round *)
(* it belongs to is over.                                                  *)
(***************************************************************************)
EXTENDS Naturals, Sequences, FiniteSets

CONSTANTS
    Texts,       \* what a field can hold
    Forms,       \* contact data a form can submit, with the fields to validate
    Switches,    \* answers of getDQMetadata
    NumberTypes, \* numberType of a phone answer; "undefined" when it is absent
    MaxRounds,   \* bound: rounds of validation on one mounted instance
    MaxLate      \* bound: callouts still in flight when a round starts

Emails == {"Email", "SecondaryEmail"}
Phones == {"Phone", "MobilePhone"}
Fields == Emails \union Phones \union {"Address"}
Services == {"Email_Validation", "Phone_Validation", "Address_Validation"}

ASSUME FormsAssumption ==
    Forms \subseteq [value : [Fields -> Texts \union {"blank", "absent"}],
                     asked : SUBSET Fields]
ASSUME SwitchesAssumption == Switches \subseteq [Services -> {"on", "off", "missing"}]
ASSUME NumberTypesAssumption == NumberTypes \subseteq {"Mobile", "LandLine", "undefined"}
ASSUME BoundsAssumption == MaxRounds \in Nat /\ MaxLate \in Nat

VARIABLES
    received,                 \* is...ValidationCallbackReceived, by field
    msg,                      \* showSuccessMsg..., by field
    invalidDataLists,         \* fields shown to the user as invalid
    phoneNumberTypeDataLists, \* numbers shown to the user as of the wrong type
    showModal_Invalid,
    phoneModalType_Invalid,
    isInvalidListEmpty,
    phoneResponss,            \* numberType of the last phone answer
    status,                   \* contactData.*_Verification_Status__c, by field
    inValidData,              \* contactData.inValidData
    form,                     \* the @api contactDetailData and dqFieldToValidates
    inFlight,                 \* unsettled promises
    polling,                  \* how many intervals of rounds are running
    mounted,                  \* the parent renders the component
    round,                    \* rounds started so far
    passed,                   \* contactdataupdated events the parent received
    failed                    \* history: fields whose callout failed this round

display == <<showModal_Invalid, phoneModalType_Invalid, isInvalidListEmpty>>
lists == <<invalidDataLists, phoneNumberTypeDataLists>>
contactData == <<status, inValidData>>
vars == <<received, msg, lists, display, phoneResponss, contactData, form,
          inFlight, polling, mounted, round, passed, failed>>

Outcomes == {"DQ_CALLOUT", "APIException", "invalidData"}
Calls == [round : Nat, name : Fields \union {"DQMetadata"}, form : Forms]

(* Statuses abstract statusDescription: "good" is an accepted one, "invalid" *)
(* a rejected one, "other" any other text.  "exception" is an answer with    *)
(* exceptionMessage set and no statusDescription, "none" one with neither.   *)
(* An address answer is an "error" when its status text contains 'Error'.    *)
Statuses == {"good", "invalid", "other"}
EmailAnswers == Statuses \union {"none", "exception"}
PhoneAnswers == EmailAnswers
AddressAnswers == Statuses \union {"error"}

ServiceOf(f) == IF f \in Emails THEN "Email_Validation"
                ELSE IF f \in Phones THEN "Phone_Validation"
                ELSE "Address_Validation"

(* A callout is made when its service is on and the parent asked for it.     *)
Started(sw, asked) == {f \in asked : sw[ServiceOf(f)] = "on"}

(* The else branches: a metadata record exists but no callout is needed.     *)
Skipped(sw, asked) ==
    {f \in Fields : sw[ServiceOf(f)] # "missing"} \ Started(sw, asked)

(* isEmptyOrNull.  newAddress is a string concatenation, so an absent part   *)
(* gives 'undefined' or 'null' and only five blank strings count as empty.   *)
IsEmptyOrNull(f, value) ==
    value[f] = "blank" \/ (f # "Address" /\ value[f] = "absent")

(* The type test of DQVerifyPhone and of DQVerifyMobilePhone.  The LABEL of  *)
(* this component has no Landline entry, so the second compares with         *)
(* undefined.                                                                *)
WrongType(f, numberType) ==
    numberType = (IF f = "Phone" THEN "Mobile" ELSE "undefined")

(* The definitions named ..._<fault> are faulty variants of the definition   *)
(* they precede; the model never uses them, the properties must tell them    *)
(* from it.                                                                  *)
AllReceived_primaryOnly == \A f \in {"Email", "Phone", "Address"} : received[f]
AllReceived == \A f \in Fields : received[f]
AllOk_primaryOnly == \A f \in {"Email", "Phone", "Address"} : msg[f] = "ok"
AllOk == \A f \in Fields : msg[f] = "ok"
SomeInvalid == \E f \in Fields : msg[f] = "invalid"
SomeException == \E f \in {"Address", "Email", "Phone"} : msg[f] = "exception"

-----------------------------------------------------------------------------
Init ==
    /\ received = [f \in Fields |-> FALSE]
    /\ msg = [f \in Fields |-> "ok"]
    /\ invalidDataLists = <<>>
    /\ phoneNumberTypeDataLists = <<>>
    /\ showModal_Invalid = FALSE
    /\ phoneModalType_Invalid = FALSE
    /\ isInvalidListEmpty = FALSE
    /\ phoneResponss = "undefined"
    /\ status = [f \in Fields |-> "unset"]
    /\ inValidData = "unset"
    /\ form \in Forms
    /\ inFlight = {}
    /\ polling = 0
    /\ mounted = TRUE
    /\ round = 0
    /\ passed = <<>>
    /\ failed = {}

resetALL_keepsLists ==
    /\ received' = [f \in Fields |-> FALSE]
    /\ UNCHANGED lists

resetALL ==
    /\ received' = [f \in Fields |-> FALSE]
    /\ phoneNumberTypeDataLists' = <<>>
    /\ invalidDataLists' = <<>>

passDataToParent_oldFlag(outcome) ==
    /\ inValidData' = IF outcome = "DQ_CALLOUT" THEN "validData" ELSE outcome
    /\ passed' = Append(passed, [round |-> round, outcome |-> outcome])

(* dispatchEvent: an unmounted component has no listener left.               *)
passDataToParent(outcome) ==
    /\ inValidData' = outcome
    /\ passed' = IF mounted
                 THEN Append(passed, [round |-> round, outcome |-> outcome])
                 ELSE passed

validateDQServices_keepsContactData(f, statuses) ==
    /\ resetALL
    /\ form' = f
    /\ msg' = [x \in Fields |-> "ok"]
    /\ round' = round + 1
    /\ inFlight' = inFlight \union
                     {[round |-> round + 1, name |-> "DQMetadata", form |-> f]}
    /\ polling' = polling + 1
    /\ failed' = {}
    /\ UNCHANGED <<display, phoneResponss, contactData, mounted, passed>>

(* The parent sets its contact data and calls the API method of the child,   *)
(* which copies them with the statuses they carry.  Messages and modal flags *)
(* keep the value the previous round left.                                   *)
validateDQServices(f, statuses) ==
    /\ resetALL
    /\ form' = f
    /\ status' = statuses
    /\ inValidData' = "unset"
    /\ round' = round + 1
    /\ inFlight' = inFlight \union
                     {[round |-> round + 1, name |-> "DQMetadata", form |-> f]}
    /\ polling' = polling + 1
    /\ failed' = {}
    /\ UNCHANGED <<msg, display, phoneResponss, mounted, passed>>

(* getDQMetadata resolves: the forEach over the metadata records.            *)
MetadataAnswer(c, sw) ==
    LET started == Started(sw, form.asked)
        skipped == Skipped(sw, form.asked)
        nulled(f) == IsEmptyOrNull(f, IF f = "Address" THEN form.value
                                                       ELSE c.form.value)
    IN /\ c \in inFlight /\ c.name = "DQMetadata"
       /\ received' = [f \in Fields |-> received[f] \/ f \in skipped]
       /\ status' = [f \in Fields |-> IF f \in skipped /\ nulled(f)
                                      THEN "null" ELSE status[f]]
       /\ inFlight' = (inFlight \ {c}) \union
                        {[round |-> c.round, name |-> f, form |-> c.form] :
                            f \in started}
       /\ UNCHANGED <<msg, lists, display, phoneResponss, inValidData, form,
                      polling, mounted, round, passed, failed>>

MetadataRejected_ignored(c) ==
    /\ c \in inFlight /\ c.name = "DQMetadata"
    /\ inFlight' = inFlight \ {c}
    /\ UNCHANGED <<received, msg, lists, display, phoneResponss, contactData,
                   form, polling, mounted, round, passed, failed>>

MetadataRejected(c) ==
    /\ c \in inFlight /\ c.name = "DQMetadata"
    /\ received' = [f \in Fields |-> TRUE]
    /\ inFlight' = inFlight \ {c}
    /\ UNCHANGED <<msg, lists, display, phoneResponss, contactData, form,
                   polling, mounted, round, passed, failed>>

(* History of this round's failed callouts.                                  *)
Fails(c) == failed' = IF c.round = round THEN failed \union {c.name} ELSE failed

(* DQVerifyPrimaryEmail and DQVerifySecondaryEmail.                          *)
DQVerifyEmail(f, answer) ==
    IF answer = "other" THEN UNCHANGED <<msg, status, invalidDataLists>>
    ELSE /\ status' = [status EXCEPT ![f] = answer]
         /\ msg' = [msg EXCEPT ![f] = IF answer = "good" THEN "ok" ELSE "invalid"]
         /\ invalidDataLists' = IF answer = "invalid"
                                THEN Append(invalidDataLists, f)
                                ELSE invalidDataLists

(* The .then of DQValidationEmail.  An exception is recorded for the primary *)
(* email, whichever email the callout was for.                               *)
EmailAnswer(c, answer) ==
    /\ c \in inFlight /\ c.name \in Emails
    /\ inFlight' = inFlight \ {c}
    /\ received' = [received EXCEPT ![c.name] = TRUE]
    /\ IF answer \in Statuses /\ c.form.value[c.name] # "absent"
       THEN DQVerifyEmail(c.name, answer)
       ELSE /\ msg' = IF answer = "exception"
                      THEN [msg EXCEPT !["Email"] = "exception"] ELSE msg
            /\ UNCHANGED <<status, invalidDataLists>>
    /\ IF answer = "exception" THEN Fails(c) ELSE UNCHANGED failed
    /\ UNCHANGED <<phoneNumberTypeDataLists, display, phoneResponss,
                   inValidData, form, polling, mounted, round, passed>>

(* The .catch of DQValidationEmail sets the flags of both emails.            *)
EmailRejected_silent(c) ==
    /\ c \in inFlight /\ c.name \in Emails
    /\ inFlight' = inFlight \ {c}
    /\ received' = [f \in Fields |-> received[f] \/ f \in Emails]
    /\ Fails(c)
    /\ UNCHANGED <<msg, lists, display, phoneResponss, contactData, form,
                   polling, mounted, round, passed>>

EmailRejected(c) ==
    /\ c \in inFlight /\ c.name \in Emails
    /\ inFlight' = inFlight \ {c}
    /\ received' = [f \in Fields |-> received[f] \/ f \in Emails]
    /\ msg' = [msg EXCEPT !["Email"] = "exception"]
    /\ Fails(c)
    /\ UNCHANGED <<lists, display, phoneResponss, contactData, form, polling,
                   mounted, round, passed>>

(* DQVerifyPhone and DQVerifyMobilePhone; the status is always recorded.     *)
DQVerifyPhone(f, answer, wrongType) ==
    LET invalid == answer = "invalid" /\ ~wrongType
    IN /\ status' = [status EXCEPT ![f] = answer]
       /\ msg' = IF wrongType \/ invalid THEN [msg EXCEPT ![f] = "invalid"]
                 ELSE IF answer = "good" THEN [msg EXCEPT ![f] = "ok"]
                 ELSE msg
       /\ phoneModalType_Invalid' = IF wrongType THEN TRUE ELSE phoneModalType_Invalid
       /\ phoneNumberTypeDataLists' = IF wrongType
                                      THEN Append(phoneNumberTypeDataLists, f)
                                      ELSE phoneNumberTypeDataLists
       /\ invalidDataLists' = IF invalid THEN Append(invalidDataLists, f)
                              ELSE invalidDataLists

(* The .then of DQValidationPhone.                                           *)
PhoneAnswer(c, answer, numberType) ==
    /\ c \in inFlight /\ c.name \in Phones
    /\ inFlight' = inFlight \ {c}
    /\ phoneResponss' = numberType
    /\ received' = [received EXCEPT ![c.name] = TRUE]
    /\ IF answer \in Statuses /\ c.form.value[c.name] # "absent"
       THEN DQVerifyPhone(c.name, answer, WrongType(c.name, numberType))
       ELSE /\ msg' = IF answer = "exception"
                      THEN [msg EXCEPT !["Phone"] = "exception"] ELSE msg
            /\ UNCHANGED <<status, lists, phoneModalType_Invalid>>
    /\ IF answer = "exception" THEN Fails(c) ELSE UNCHANGED failed
    /\ UNCHANGED <<showModal_Invalid, isInvalidListEmpty, inValidData, form,
                   polling, mounted, round, passed>>

(* The .catch of DQValidationPhone.                                          *)
PhoneRejected(c) ==
    /\ c \in inFlight /\ c.name \in Phones
    /\ inFlight' = inFlight \ {c}
    /\ received' = [f \in Fields |-> received[f] \/ f \in Phones]
    /\ msg' = [msg EXCEPT !["Phone"] = "exception"]
    /\ Fails(c)
    /\ UNCHANGED <<lists, display, phoneResponss, contactData, form, polling,
                   mounted, round, passed>>

(* The .then of DQValidationAddress.                                         *)
AddressAnswer(c, answer) ==
    /\ c \in inFlight /\ c.name = "Address"
    /\ inFlight' = inFlight \ {c}
    /\ received' = [received EXCEPT !["Address"] = TRUE]
    /\ msg' = [msg EXCEPT !["Address"] = CASE answer = "error" -> "exception"
                                           [] answer = "good" -> "ok"
                                           [] answer = "invalid" -> "invalid"
                                           [] answer = "other" -> @]
    /\ status' = IF answer \in Statuses THEN [status EXCEPT !["Address"] = answer]
                 ELSE status
    /\ invalidDataLists' = IF answer = "invalid"
                           THEN Append(invalidDataLists, "Address")
                           ELSE invalidDataLists
    /\ IF answer = "error" THEN Fails(c) ELSE UNCHANGED failed
    /\ UNCHANGED <<phoneNumberTypeDataLists, display, phoneResponss, inValidData,
                   form, polling, mounted, round, passed>>

AddressRejected(c) ==
    /\ c \in inFlight /\ c.name = "Address"
    /\ inFlight' = inFlight \ {c}
    /\ received' = [received EXCEPT !["Address"] = TRUE]
    /\ msg' = [msg EXCEPT !["Address"] = "exception"]
    /\ Fails(c)
    /\ UNCHANGED <<lists, display, phoneResponss, contactData, form, polling,
                   mounted, round, passed>>

-----------------------------------------------------------------------------
(* The interval callback, by branch.  A tick with a flag missing does        *)
(* nothing.                                                                  *)
PollValid ==
    /\ polling > 0 /\ AllReceived /\ AllOk
    /\ polling' = polling - 1
    /\ passDataToParent("DQ_CALLOUT")
    /\ UNCHANGED <<received, msg, lists, display, phoneResponss, status, form,
                   inFlight, mounted, round, failed>>

PollInvalid_always ==
    /\ polling > 0 /\ AllReceived /\ SomeInvalid
    /\ showModal_Invalid' = TRUE
    /\ isInvalidListEmpty' = (invalidDataLists = <<>>)
    /\ UNCHANGED <<received, msg, lists, phoneModalType_Invalid, phoneResponss,
                   contactData, form, inFlight, polling, mounted, round, passed,
                   failed>>

PollInvalid ==
    /\ polling > 0 /\ AllReceived /\ SomeInvalid
    /\ showModal_Invalid' = (\/ showModal_Invalid
                             \/ invalidDataLists # <<>>
                             \/ phoneNumberTypeDataLists # <<>>)
    /\ isInvalidListEmpty' = IF invalidDataLists # <<>> THEN FALSE
                             ELSE IF phoneNumberTypeDataLists # <<>> THEN TRUE
                             ELSE isInvalidListEmpty
    /\ UNCHANGED <<received, msg, lists, phoneModalType_Invalid, phoneResponss,
                   contactData, form, inFlight, polling, mounted, round, passed,
                   failed>>

PollException_keepsInterval ==
    /\ polling > 0 /\ AllReceived /\ ~AllOk /\ ~SomeInvalid /\ SomeException
    /\ passDataToParent("APIException")
    /\ UNCHANGED <<received, msg, lists, display, phoneResponss, status, form,
                   inFlight, polling, mounted, round, failed>>

PollException ==
    /\ polling > 0 /\ AllReceived /\ ~AllOk /\ ~SomeInvalid /\ SomeException
    /\ polling' = polling - 1
    /\ passDataToParent("APIException")
    /\ UNCHANGED <<received, msg, lists, display, phoneResponss, status, form,
                   inFlight, mounted, round, failed>>

Poll == PollValid \/ PollInvalid \/ PollException

CloseModal_withoutEvent ==
    /\ showModal_Invalid /\ mounted
    /\ showModal_Invalid' = FALSE
    /\ phoneModalType_Invalid' = FALSE
    /\ resetALL
    /\ UNCHANGED <<msg, isInvalidListEmpty, phoneResponss, status, form,
                   inFlight, polling, mounted, round, failed>>

(* The buttons of the modal.  closeDQModal makes the parent stop rendering   *)
(* the component; the interval is not cleared.                               *)
CloseModal ==
    /\ showModal_Invalid /\ mounted
    /\ showModal_Invalid' = FALSE
    /\ phoneModalType_Invalid' = FALSE
    /\ mounted' = FALSE
    /\ resetALL
    /\ UNCHANGED <<msg, isInvalidListEmpty, phoneResponss, status, form,
                   inFlight, polling, round, failed>>

handleYes == CloseModal /\ UNCHANGED <<inValidData, passed>>

handleNo == CloseModal /\ passDataToParent("invalidData")

-----------------------------------------------------------------------------
(* The data a form hands over carry no statuses yet.                         *)
Unchecked == [f \in Fields |-> "unset"]

(* When the parent may start a round: its spinner covers the form while a    *)
(* round runs, and the modal covers it while the user is asked.              *)
ParentMayCall ==
    /\ mounted /\ polling = 0 /\ ~showModal_Invalid
    /\ round < MaxRounds
    /\ Cardinality(inFlight) <= MaxLate

Settle(c) ==
    \/ \E sw \in Switches : MetadataAnswer(c, sw)
    \/ MetadataRejected(c)
    \/ \E a \in EmailAnswers : EmailAnswer(c, a)
    \/ EmailRejected(c)
    \/ \E a \in PhoneAnswers, t \in NumberTypes : PhoneAnswer(c, a, t)
    \/ PhoneRejected(c)
    \/ \E a \in AddressAnswers : AddressAnswer(c, a)
    \/ AddressRejected(c)

Next ==
    \/ \E f \in Forms : ParentMayCall /\ validateDQServices(f, Unchecked)
    \/ \E c \in inFlight : Settle(c)
    \/ Poll
    \/ handleYes
    \/ handleNo

Spec == Init /\ [][Next]_vars

(* Every promise settles and the interval keeps firing; nothing obliges the  *)
(* user to answer the modal or to save again.                                *)
Fairness ==
    /\ WF_vars(\E c \in inFlight : Settle(c))
    /\ WF_vars(Poll)

FairSpec == Spec /\ Fairness

-----------------------------------------------------------------------------
(* Types of the component's state.                                           *)
TypeOK ==
    /\ received \in [Fields -> BOOLEAN]
    /\ msg \in [Fields -> {"ok", "invalid", "exception"}]
    /\ invalidDataLists \in Seq(Fields)
    /\ phoneNumberTypeDataLists \in Seq(Phones)
    /\ showModal_Invalid \in BOOLEAN
    /\ phoneModalType_Invalid \in BOOLEAN
    /\ isInvalidListEmpty \in BOOLEAN
    /\ phoneResponss \in {"Mobile", "LandLine", "undefined"}
    /\ status \in [Fields -> Statuses \union {"unset", "null"}]
    /\ inValidData \in Outcomes \union {"unset"}
    /\ form \in Forms
    /\ inFlight \subseteq Calls
    /\ polling \in Nat
    /\ mounted \in BOOLEAN
    /\ round \in Nat
    /\ passed \in Seq([round : Nat, outcome : Outcomes])
    /\ failed \subseteq Fields

(* The modal never asks about nothing: it is open only over a list with an   *)
(* item, a list of wrongly typed numbers is on screen with its text, and the *)
(* "data you entered is invalid" heading never stands over an empty list,    *)
(* in spite of lists that are reset and answers that come late.              *)
ModalNamesItems ==
    showModal_Invalid =>
        /\ invalidDataLists # <<>> \/ phoneNumberTypeDataLists # <<>>
        /\ phoneNumberTypeDataLists # <<>> => phoneModalType_Invalid
        /\ invalidDataLists = <<>> => isInvalidListEmpty

(* A verification status the service called invalid is never behind an "ok"  *)
(* message, whichever round the answer belongs to.                           *)
StatusBehindMessage == \A f \in Fields : status[f] = "invalid" => msg[f] # "ok"

Reports(outcome) == /\ Len(passed') > Len(passed)
                    /\ passed'[Len(passed')].outcome = outcome

(* The data handed to the form as DQ_CALLOUT carries no invalid status: the  *)
(* form saves it and shows "data validated".                                 *)
NoInvalidDataPassedAsValid ==
    [][Reports("DQ_CALLOUT") => \A f \in Fields : status'[f] # "invalid"]_vars

(* Of two reports of one round, one is the user's decision to keep invalid   *)
(* data: the interval itself reports a round at most once, so that it does   *)
(* not save the record twice.                                                *)
OneAutomaticReport ==
    \A i, j \in 1..Len(passed) :
        /\ passed[i].round = passed[j].round
        /\ passed[i].outcome # "invalidData"
        /\ passed[j].outcome # "invalidData"
        => i = j

(* When a round is reported as valid, none of its callouts is unsettled,     *)
(* although a rejected callout sets the flag of its sibling too.             *)
ValidOnlyWhenComplete ==
    [][Reports("DQ_CALLOUT") => \A c \in inFlight : c.round # round]_vars

(* A round in which the address callout or the callout of a primary email or *)
(* phone failed is not reported as valid.                                    *)
PrimaryFailureReported ==
    [][Reports("DQ_CALLOUT") => failed \intersect {"Email", "Phone", "Address"} = {}]_vars

(* The header comment of the file: APIException tells of any API exception.  *)
AnyFailureReported == [][Reports("DQ_CALLOUT") => failed = {}]_vars

(* Comment SFSC-6173 of validateDQServices: no field is displayed twice.     *)
NoItemListedTwice ==
    /\ \A i, j \in 1..Len(invalidDataLists) :
          invalidDataLists[i] = invalidDataLists[j] => i = j
    /\ \A i, j \in 1..Len(phoneNumberTypeDataLists) :
          phoneNumberTypeDataLists[i] = phoneNumberTypeDataLists[j] => i = j

(* The first round of an instance comes to an end the user can see: the data *)
(* goes to the form, or the modal asks about it.                             *)
FirstRoundSettles ==
    (mounted /\ polling > 0 /\ round = 1) ~> (~mounted \/ polling = 0 \/ showModal_Invalid)

(* "To stop spinner when invalid modal is displayed": so does every round.   *)
RoundSettles == (mounted /\ polling > 0) ~> (~mounted \/ polling = 0 \/ showModal_Invalid)

(* The component implements the protocol the form expects.                   *)
Outcome == INSTANCE DQOutcome WITH
    phase <- IF ~mounted THEN "closed"
             ELSE IF showModal_Invalid THEN "asking"
             ELSE IF polling > 0 THEN "validating" ELSE "idle",
    reports <- [i \in 1..Len(passed) |-> passed[i].outcome]

ImplementsOutcome == Outcome!Spec

-----------------------------------------------------------------------------
(* The form does not ask for both e-mails and both phones.                   *)
OnePair(g) == ~(Emails \union Phones \subseteq g.asked)
=============================================================================
