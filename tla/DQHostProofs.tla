----------------------------- MODULE DQHostProofs -----------------------------
(***************************************************************************)
(* What the contact forms may rely on: the invariants of the validation    *)
(* component (DQPromptProofs), carried over to the instance a form mounts, *)
(* creates anew after a question, and calls from its own steps.            *)
(***************************************************************************)
EXTENDS DQHost, FiniteSetTheorems, SequenceTheorems, TLAPS

DQP == INSTANCE DQPromptProofs WITH Forms <- ChildForms

(* The instance is given what the proofs about the component assume.         *)
LEMMA Assumed ==
  /\ DQP!FormsAssumption /\ DQP!SwitchesAssumption
  /\ DQP!NumberTypesAssumption /\ DQP!BoundsAssumption
<1>1. DQP!FormsAssumption
  BY DEF DQP!FormsAssumption, DQP!Fields, DQP!Emails, DQP!Phones, ChildForms,
     Fields, Contents
<1> QED
  BY <1>1, HostSwitchesAssumption, HostNumberTypesAssumption, HostBoundsAssumption
  DEF DQP!SwitchesAssumption, DQP!NumberTypesAssumption, DQP!BoundsAssumption,
      DQP!Services

(* The instance is the component that was proved about.                      *)
LEMMA SameTypes == (DQ!TypeOK <=> DQP!TypeOK) /\ (DQ!TypeOK' <=> DQP!TypeOK')
BY DEF DQ!TypeOK, DQP!TypeOK, DQ!Fields, DQP!Fields, DQ!Emails, DQP!Emails,
   DQ!Phones, DQP!Phones, DQ!Statuses, DQP!Statuses, DQ!Outcomes, DQP!Outcomes,
   DQ!Calls, DQP!Calls

LEMMA SameStart ==
  ASSUME NEW g, NEW statuses, DQ!validateDQServices(g, statuses)
  PROVE  DQP!validateDQServices(g, statuses)
BY DEF DQ!validateDQServices, DQP!validateDQServices, DQ!resetALL, DQP!resetALL,
   DQ!display, DQP!display, DQ!Fields, DQP!Fields, DQ!Emails, DQP!Emails,
   DQ!Phones, DQP!Phones

LEMMA SamePoll ==
  ASSUME DQ!PollValid \/ DQ!PollInvalid \/ DQ!PollException
  PROVE  DQP!Poll
BY DEF DQ!PollValid, DQP!PollValid, DQ!PollInvalid, DQP!PollInvalid,
   DQ!PollException, DQP!PollException, DQP!Poll, DQ!AllReceived, DQP!AllReceived,
   DQ!AllOk, DQP!AllOk, DQ!SomeInvalid, DQP!SomeInvalid, DQ!SomeException,
   DQP!SomeException, DQ!passDataToParent, DQP!passDataToParent, DQ!lists, DQP!lists,
   DQ!display, DQP!display, DQ!contactData, DQP!contactData, DQ!Fields, DQP!Fields,
   DQ!Emails, DQP!Emails, DQ!Phones, DQP!Phones

LEMMA SameClose ==
  ASSUME DQ!handleYes \/ DQ!handleNo
  PROVE  /\ DQP!handleYes \/ DQP!handleNo
         /\ DQP!CloseModal
BY DEF DQ!handleYes, DQP!handleYes, DQ!handleNo, DQP!handleNo, DQ!CloseModal,
   DQP!CloseModal, DQ!resetALL, DQP!resetALL, DQ!passDataToParent,
   DQP!passDataToParent, DQ!Fields, DQP!Fields, DQ!Emails, DQP!Emails,
   DQ!Phones, DQP!Phones

LEMMA SameSettle ==
  ASSUME NEW c, DQ!Settle(c)
  PROVE  DQP!Settle(c)
<1> USE DEF DQ!lists, DQP!lists, DQ!display, DQP!display, DQ!contactData,
    DQP!contactData, DQ!Fields, DQP!Fields, DQ!Emails, DQP!Emails, DQ!Phones,
    DQP!Phones, DQ!Statuses, DQP!Statuses, DQ!Fails, DQP!Fails
<1>1. ASSUME NEW sw, DQ!MetadataAnswer(c, sw) PROVE DQP!MetadataAnswer(c, sw)
  BY <1>1 DEF DQ!MetadataAnswer, DQP!MetadataAnswer, DQ!Started, DQP!Started,
     DQ!Skipped, DQP!Skipped, DQ!ServiceOf, DQP!ServiceOf, DQ!IsEmptyOrNull,
     DQP!IsEmptyOrNull
<1>2. ASSUME NEW a, DQ!EmailAnswer(c, a) PROVE DQP!EmailAnswer(c, a)
  BY <1>2 DEF DQ!EmailAnswer, DQP!EmailAnswer, DQ!DQVerifyEmail, DQP!DQVerifyEmail
<1>3. ASSUME NEW a, NEW t, DQ!PhoneAnswer(c, a, t) PROVE DQP!PhoneAnswer(c, a, t)
  BY <1>3 DEF DQ!PhoneAnswer, DQP!PhoneAnswer, DQ!DQVerifyPhone, DQP!DQVerifyPhone,
     DQ!WrongType, DQP!WrongType
<1>4. ASSUME NEW a, DQ!AddressAnswer(c, a) PROVE DQP!AddressAnswer(c, a)
  BY <1>4 DEF DQ!AddressAnswer, DQP!AddressAnswer
<1>5. /\ DQ!MetadataRejected(c) => DQP!MetadataRejected(c)
      /\ DQ!EmailRejected(c) => DQP!EmailRejected(c)
      /\ DQ!PhoneRejected(c) => DQP!PhoneRejected(c)
      /\ DQ!AddressRejected(c) => DQP!AddressRejected(c)
  BY DEF DQ!MetadataRejected, DQP!MetadataRejected, DQ!EmailRejected,
     DQP!EmailRejected, DQ!PhoneRejected, DQP!PhoneRejected, DQ!AddressRejected,
     DQP!AddressRejected
<1>6. /\ DQ!EmailAnswers = DQP!EmailAnswers /\ DQ!PhoneAnswers = DQP!PhoneAnswers
      /\ DQ!AddressAnswers = DQP!AddressAnswers
  BY DEF DQ!EmailAnswers, DQP!EmailAnswers, DQ!PhoneAnswers, DQP!PhoneAnswers,
     DQ!AddressAnswers, DQP!AddressAnswers
<1> QED
  BY <1>1, <1>2, <1>3, <1>4, <1>5, <1>6 DEF DQ!Settle, DQP!Settle

-----------------------------------------------------------------------------
(* What the steps of a form do to the instance.                              *)
ChildStep ==
    \/ ChildSettles
    \/ \E g \in ChildForms, held \in Helds : StartChild(g, held)
    \/ /\ \/ MountChild
          \/ DQ!PollValid \/ DQ!PollInvalid \/ DQ!PollException
          \/ DQ!handleYes \/ DQ!handleNo
          \/ UNCHANGED childVars
       /\ UNCHANGED verified

(* Types of what the forms share.                                            *)
HostTyped == DQ!TypeOK /\ verified \in [Fields -> Contents]

LEMMA NoChildTyped ==
  ASSUME NoChild
  PROVE  HostTyped
<1>1. /\ form \in ChildForms
      /\ verified \in [Fields -> Contents]
  BY DEF NoChild, ChildForms, Contents
<1>2. DQ!Fields = Fields
  BY DEF DQ!Fields, DQ!Emails, DQ!Phones, Fields
<1>3. <<>> \in Seq(Fields) /\ <<>> \in Seq(DQ!Phones)
      /\ <<>> \in Seq([round : Nat, outcome : DQ!Outcomes])
  OBVIOUS
<1> QED
  BY <1>1, <1>2, <1>3 DEF NoChild, FreshChild, HostTyped, DQ!TypeOK

LEMMA MountTyped ==
  ASSUME DQ!TypeOK, MountChild
  PROVE  DQ!TypeOK'
<1>1. DQ!Fields = Fields
  BY DEF DQ!Fields, DQ!Emails, DQ!Phones, Fields
<1>2. CASE mounted
  BY <1>2 DEF MountChild, DQ!TypeOK
<1>3. CASE ~mounted
  <2>1. <<>> \in Seq(Fields) /\ <<>> \in Seq(DQ!Phones)
        /\ <<>> \in Seq([round : Nat, outcome : DQ!Outcomes])
    OBVIOUS
  <2>2. /\ received' \in [Fields -> BOOLEAN]
        /\ msg' \in [Fields -> {"ok", "invalid", "exception"}]
        /\ status' \in [Fields -> DQ!Statuses \union {"unset", "null"}]
    BY <1>3 DEF MountChild, NewChild
  <2>3. inFlight' \subseteq DQ!Calls /\ failed' \subseteq Fields /\ polling' \in Nat
    BY <1>3 DEF MountChild, NewChild
  <2> QED
    BY <1>1, <1>3, <2>1, <2>2, <2>3 DEF MountChild, NewChild, DQ!TypeOK
<1> QED
  BY <1>2, <1>3

(* The text a callout was about is one of the contents of its field.         *)
LEMMA CallsTyped ==
  ASSUME DQ!TypeOK, NEW c \in inFlight
  PROVE  c.form \in ChildForms /\ c.form.value \in [Fields -> Contents]
BY DEF DQ!TypeOK, DQ!Calls, ChildForms

LEMMA ChildStepTyped ==
  ASSUME HostTyped, ChildStep
  PROVE  HostTyped'
<1>1. DQP!TypeOK
  BY SameTypes DEF HostTyped
<1>2. CASE ChildSettles
  <2>1. PICK c \in inFlight :
          /\ DQ!Settle(c)
          /\ verified' = [f \in Fields |-> IF status'[f] # status[f]
                                           THEN c.form.value[f] ELSE verified[f]]
    BY <1>2 DEF ChildSettles
  <2>2. DQP!Next
    BY <2>1, SameSettle DEF DQP!Next
  <2>3. DQP!TypeOK'
    BY <1>1, <2>2, DQP!TypeKept, Assumed
  <2>4. verified' \in [Fields -> Contents]
    BY <2>1, CallsTyped DEF HostTyped
  <2> QED
    BY <2>3, <2>4, SameTypes DEF HostTyped
<1>3. ASSUME NEW g \in ChildForms, NEW held \in Helds, StartChild(g, held)
      PROVE  HostTyped'
  <2>1. DQP!validateDQServices(g, held.status)
    BY <1>3, SameStart DEF StartChild
  <2>2. held.status \in [DQP!Fields -> DQP!Statuses \union {"unset", "null"}]
    BY DEF Helds, DQP!Fields, DQP!Emails, DQP!Phones, Fields, DQ!Statuses, DQP!Statuses
  <2>3. DQP!TypeOK'
    BY <1>1, <2>1, <2>2, DQP!StartTyped, Assumed
  <2> QED
    BY <1>3, <2>3, SameTypes DEF StartChild, Helds, HostTyped
<1>4. CASE UNCHANGED verified /\ MountChild
  BY <1>4, MountTyped DEF HostTyped
<1>5. CASE UNCHANGED verified /\ (DQ!PollValid \/ DQ!PollInvalid \/ DQ!PollException)
  BY <1>1, <1>5, SamePoll, DQP!TypeKept, Assumed, SameTypes DEF HostTyped, DQP!Next
<1>6. CASE UNCHANGED verified /\ (DQ!handleYes \/ DQ!handleNo)
  BY <1>1, <1>6, SameClose, DQP!TypeKept, Assumed, SameTypes DEF HostTyped, DQP!Next
<1>7. CASE UNCHANGED verified /\ UNCHANGED childVars
  BY <1>7 DEF HostTyped, DQ!TypeOK, childVars
<1> QED
  BY <1>2, <1>3, <1>4, <1>5, <1>6, <1>7 DEF ChildStep

LEMMA NothingHeldTyped == NothingHeld \in Helds
BY DEF NothingHeld, Helds, Contents

LEMMA HeldTyped ==
  ASSUME HostTyped, NEW detail, detail.held \in Helds
  PROVE  Held(detail) \in Helds
<1>1. DQ!Fields = Fields
  BY DEF DQ!Fields, DQ!Emails, DQ!Phones, Fields
<1>2. [status |-> status, verified |-> verified] \in Helds
  BY <1>1 DEF HostTyped, DQ!TypeOK, Helds
<1> QED
  BY <1>2 DEF Held
-----------------------------------------------------------------------------
(* The texts the statuses are about.                                         *)
VerifiedInv ==
    \A f \in Fields : status[f] \in DQ!Statuses => verified[f] = form.value[f]

(* What holds of the instance when a round starts only after the callouts    *)
(* have settled.                                                             *)
HostPrompt == DQP!PromptInv /\ VerifiedInv

LEMMA NoChildPrompt ==
  ASSUME NoChild
  PROVE  HostPrompt
<1>1. inFlight = {} /\ invalidDataLists = <<>> /\ phoneNumberTypeDataLists = <<>>
      /\ failed = {} /\ \A f \in Fields : status[f] = "unset"
  BY DEF NoChild, FreshChild
<1>2. /\ ToSet(invalidDataLists) = {} /\ ToSet(phoneNumberTypeDataLists) = {}
      /\ DQP!Listed = {}
  BY <1>1 DEF DQP!Listed, ToSet, DQP!ToSet
<1>3. DQP!NoItemListedTwice
  BY <1>1 DEF DQP!NoItemListedTwice
<1>4. DQP!IsFiniteSet(inFlight)
  BY <1>1, DQP!FS_EmptySet, Assumed
<1>5. VerifiedInv
  BY <1>1 DEF VerifiedInv, DQ!Statuses
<1> QED
  BY <1>1, <1>2, <1>3, <1>4, <1>5 DEF HostPrompt, DQP!PromptInv, DQP!CurrentCalls,
     DQP!MetadataFirst, DQP!UnsettledFields, DQP!FailuresKept, DQP!ListedFlagged
(* A save of a prompt form finds no callout out.                             *)
LEMMA NoneOut ==
  ASSUME HostPrompt, Cardinality(inFlight) <= 0
  PROVE  inFlight = {}
<1>1. IsFiniteSet(inFlight)
  BY DEF HostPrompt, DQP!PromptInv, IsFiniteSet, DQP!IsFiniteSet
<1>2. Cardinality(inFlight) \in Nat
  BY <1>1, FS_CardinalityType
<1>3. Cardinality(inFlight) = 0
  BY <1>2
<1> QED
  BY <1>1, <1>3, FS_EmptySet

LEMMA MountKeepsPrompt ==
  ASSUME HostPrompt, MountChild, UNCHANGED verified
  PROVE  HostPrompt'
<1>1. CASE mounted
  <2>1. UNCHANGED <<received, msg, DQP!lists, failed, inFlight, form, round, status>>
    BY <1>1 DEF MountChild, DQP!lists
  <2> QED
    BY <2>1, DQP!StutterKeepsInv, Assumed DEF HostPrompt, VerifiedInv
<1>2. CASE ~mounted
  <2>1. inFlight' = {} /\ invalidDataLists' = <<>> /\ phoneNumberTypeDataLists' = <<>>
        /\ failed' = {} /\ \A f \in Fields : status'[f] = "unset"
    BY <1>2 DEF MountChild, NewChild
  <2>2. DQP!Listed' = {}
    BY <2>1 DEF DQP!Listed, DQP!ToSet
  <2>3. DQP!NoItemListedTwice'
    BY <2>1 DEF DQP!NoItemListedTwice
  <2>4. DQP!IsFiniteSet(inFlight')
    BY <2>1, DQP!FS_EmptySet, Assumed
  <2>5. VerifiedInv'
    BY <2>1 DEF VerifiedInv, DQ!Statuses
  <2> QED
    BY <2>1, <2>2, <2>3, <2>4, <2>5 DEF HostPrompt, DQP!PromptInv, DQP!CurrentCalls,
       DQP!MetadataFirst, DQP!UnsettledFields, DQP!FailuresKept, DQP!ListedFlagged
<1> QED
  BY <1>1, <1>2

(* A status is written by the answer of a callout about this round's texts.  *)
LEMMA SettleKeepsPrompt ==
  ASSUME HostTyped, HostPrompt, ChildSettles
  PROVE  HostPrompt'
<1>1. PICK c \in inFlight :
        /\ DQ!Settle(c)
        /\ verified' = [f \in Fields |-> IF status'[f] # status[f]
                                         THEN c.form.value[f] ELSE verified[f]]
  BY DEF ChildSettles
<1>2. DQP!PromptInv'
  BY <1>1, SameTypes, SameSettle, DQP!SettleKeepsInv, Assumed DEF HostTyped, HostPrompt
<1>3. c.form = form /\ form' = form
  <2>1. c.form = form
    BY DEF HostPrompt, DQP!PromptInv, DQP!CurrentCalls
  <2>2. form' = form
    BY <1>1 DEF DQ!Settle, DQ!MetadataAnswer, DQ!MetadataRejected, DQ!EmailAnswer,
       DQ!EmailRejected, DQ!PhoneAnswer, DQ!PhoneRejected, DQ!AddressAnswer,
       DQ!AddressRejected
  <2> QED
    BY <2>1, <2>2
<1> QED
  BY <1>1, <1>2, <1>3 DEF HostPrompt, VerifiedInv

LEMMA ChildStepPrompt ==
  ASSUME HostTyped, HostPrompt, ChildStep, round' # round => inFlight = {} /\ VerifiedInv'
  PROVE  HostPrompt'
<1>1. ASSUME NEW g \in ChildForms, NEW held \in Helds, StartChild(g, held)
      PROVE  HostPrompt'
  <2>1. inFlight = {} /\ VerifiedInv'
    <3>1. round' = round + 1 /\ round \in Nat
      BY <1>1 DEF StartChild, DQ!validateDQServices, HostTyped, DQ!TypeOK
    <3> QED
      BY <3>1
  <2>2. DQP!PromptInv'
    BY <1>1, <2>1, SameStart, DQP!StartKeepsInv, Assumed DEF StartChild
  <2> QED
    BY <2>1, <2>2 DEF HostPrompt
<1>2. CASE UNCHANGED verified /\ (DQ!PollValid \/ DQ!PollInvalid \/ DQ!PollException)
  <2>1. UNCHANGED <<received, msg, DQP!lists, failed, inFlight, form, round, status>>
    BY <1>2 DEF DQ!PollValid, DQ!PollInvalid, DQ!PollException, DQ!contactData,
       DQ!lists, DQP!lists
  <2> QED
    BY <1>2, <2>1, DQP!StutterKeepsInv, Assumed DEF HostPrompt, VerifiedInv
<1>3. CASE UNCHANGED verified /\ (DQ!handleYes \/ DQ!handleNo)
  <2>1. DQP!PromptInv'
    BY <1>3, SameClose, SameTypes, DQP!CloseKeepsInv, Assumed DEF HostTyped, HostPrompt
  <2>2. UNCHANGED <<status, form>>
    BY <1>3 DEF DQ!handleYes, DQ!handleNo, DQ!CloseModal
  <2> QED
    BY <1>3, <2>1, <2>2 DEF HostPrompt, VerifiedInv
<1>4. CASE UNCHANGED <<childVars, verified>>
  BY <1>4, DQP!StutterKeepsInv, Assumed DEF HostPrompt, VerifiedInv, childVars, DQP!lists
<1> QED
  BY <1>1, <1>2, <1>3, <1>4, SettleKeepsPrompt, MountKeepsPrompt DEF ChildStep

-----------------------------------------------------------------------------
(* While the user is asked, the component keeps silent, for forms that do    *)
(* not ask about both e-mails and both phones.                               *)
LEMMA ChildStepFirm ==
  ASSUME HostTyped, HostPrompt, DQP!ModalFirm, DQP!OnePair(form), ChildStep,
         round' # round => ~showModal_Invalid
  PROVE  DQP!ModalFirm'
<1>1. CASE ChildSettles
  BY <1>1, SameTypes, SameSettle, DQP!SettleKeepsFirm, Assumed
  DEF HostTyped, HostPrompt, ChildSettles
<1>2. ASSUME NEW g \in ChildForms, NEW held \in Helds, StartChild(g, held)
      PROVE  DQP!ModalFirm'
  <2>1. round' = round + 1 /\ round \in Nat /\ UNCHANGED showModal_Invalid
    BY <1>2 DEF StartChild, DQ!validateDQServices, HostTyped, DQ!TypeOK, DQ!display
  <2> QED
    BY <2>1 DEF DQP!ModalFirm
<1>3. CASE MountChild
  BY <1>3 DEF MountChild, NewChild, DQP!ModalFirm, DQP!Firm
<1>4. CASE DQ!PollValid \/ DQ!PollInvalid \/ DQ!PollException
  BY <1>4, SameTypes, SamePoll, DQP!PollKeepsFirm, Assumed DEF HostTyped, HostPrompt
<1>5. CASE DQ!handleYes \/ DQ!handleNo
  BY <1>5 DEF DQ!handleYes, DQ!handleNo, DQ!CloseModal, DQP!ModalFirm
<1>6. CASE UNCHANGED childVars
  BY <1>6 DEF childVars, DQP!ModalFirm, DQP!Firm
<1> QED
  BY <1>1, <1>2, <1>3, <1>4, <1>5, <1>6 DEF ChildStep

LEMMA SilentWhileAsking ==
  ASSUME DQP!ModalFirm, mounted, showModal_Invalid
  PROVE  ~DQ!PollValid /\ ~DQ!PollException /\ polling > 0
<1>1. ~DQP!PollValid /\ ~DQP!PollException
  BY DQP!NoReportWhileAsking, Assumed
<1> QED
  BY <1>1 DEF DQ!PollValid, DQP!PollValid,
   DQ!PollException, DQP!PollException, DQ!AllReceived, DQP!AllReceived,
   DQ!AllOk, DQP!AllOk, DQ!SomeInvalid, DQP!SomeInvalid, DQ!SomeException,
   DQP!SomeException, DQ!passDataToParent, DQP!passDataToParent, DQ!lists, DQP!lists,
   DQ!display, DQP!display, DQ!Fields, DQP!Fields,
   DQ!Emails, DQP!Emails, DQ!Phones, DQP!Phones, DQP!ModalFirm
-----------------------------------------------------------------------------
(* The records on their way to the server, a sequence.                       *)

(* A sequence is one of its own elements.                                    *)
LEMMA SeqOfOwn ==
  ASSUME NEW S, NEW s \in Seq(S)
  PROVE  s \in Seq(ToSet(s)) /\ ToSet(s) \subseteq S
<1>1. s \in [1..Len(s) -> S] /\ Len(s) \in Nat /\ DOMAIN s = 1..Len(s)
  OBVIOUS
<1>2. \A i \in 1..Len(s) : s[i] \in ToSet(s)
  BY <1>1 DEF ToSet
<1>3. s \in Seq(ToSet(s))
  BY <1>1, <1>2, IsASeq
<1> QED
  BY <1>1, <1>3 DEF ToSet

LEMMA SentElements ==
  ASSUME NEW S, NEW s \in Seq(S), NEW e
  PROVE  /\ Append(s, e) \in Seq(ToSet(Append(s, e)))
         /\ ToSet(Append(s, e)) \subseteq ToSet(s) \cup {e}
<1>1. s \in Seq(ToSet(s))
  BY SeqOfOwn
<1>2. s \in Seq(ToSet(s) \cup {e})
  BY <1>1
<1>3. Append(s, e) \in Seq(ToSet(s) \cup {e})
  BY <1>2, AppendProperties
<1> QED
  BY <1>3, SeqOfOwn

LEMMA AnsweredElements ==
  ASSUME NEW S, NEW s \in Seq(S), NEW i \in DOMAIN s
  PROVE  /\ RemoveAt(s, i) \in Seq(ToSet(RemoveAt(s, i)))
         /\ ToSet(RemoveAt(s, i)) \subseteq ToSet(s)
<1>1. s \in Seq(ToSet(s)) /\ i \in 1..Len(s) /\ Len(s) \in Nat
  BY SeqOfOwn
<1>2. SubSeq(s, 1, i - 1) \in Seq(ToSet(s)) /\ SubSeq(s, i + 1, Len(s)) \in Seq(ToSet(s))
  BY <1>1
<1>3. RemoveAt(s, i) \in Seq(ToSet(s))
  BY <1>2 DEF RemoveAt
<1> QED
  BY <1>3, SeqOfOwn

LEMMA OneAnswered ==
  ASSUME NEW S, NEW s \in Seq(S), Len(s) <= 1, NEW i \in DOMAIN s
  PROVE  RemoveAt(s, i) = <<>>
<1>1. Len(s) = 1 /\ i = 1
  <2>1. DOMAIN s = 1..Len(s) /\ Len(s) \in Nat
    OBVIOUS
  <2> QED
    BY <2>1
<1>2. RemoveAt(s, i) = SubSeq(s, 1, 0) \o SubSeq(s, 2, 1)
  BY <1>1 DEF RemoveAt
<1>3. SubSeq(s, 1, 0) = <<>> /\ SubSeq(s, 2, 1) = <<>>
  BY <1>1, SubSeqProperties
<1> QED
  BY <1>2, <1>3

LEMMA OneSent ==
  ASSUME NEW s, NEW e, s = <<>>
  PROVE  /\ Append(s, e) # <<>> /\ Len(Append(s, e)) = 1
         /\ ToSet(Append(s, e)) = {e}
<1>1. s \in Seq({e})
  OBVIOUS
<1>2. Len(Append(s, e)) = 1 /\ Append(s, e)[1] = e /\ DOMAIN Append(s, e) = 1..1
  BY <1>1
<1> QED
  BY <1>1, <1>2 DEF ToSet
-----------------------------------------------------------------------------
(* A status the service called invalid stays behind a message that says so,  *)
(* however late the answers come.                                            *)
LEMMA NoChildFlag ==
  ASSUME NoChild
  PROVE  DQ!StatusBehindMessage
BY DEF NoChild, FreshChild, DQ!StatusBehindMessage, DQ!Fields, DQ!Emails, DQ!Phones, Fields

LEMMA SameFlag == /\ DQ!StatusBehindMessage <=> DQP!StatusBehindMessage
                  /\ DQ!StatusBehindMessage' <=> DQP!StatusBehindMessage'
BY DEF DQ!StatusBehindMessage, DQP!StatusBehindMessage, DQ!Fields, DQP!Fields,
   DQ!Emails, DQP!Emails, DQ!Phones, DQP!Phones

LEMMA ChildStepFlag ==
  ASSUME HostTyped, DQ!StatusBehindMessage, ChildStep,
         round' # round => \A f \in Fields : status'[f] # "invalid"
  PROVE  DQ!StatusBehindMessage'
<1>1. DQP!TypeOK /\ DQP!StatusBehindMessage
  BY SameTypes, SameFlag DEF HostTyped
<1>2. CASE \/ ChildSettles
           \/ DQ!PollValid \/ DQ!PollInvalid \/ DQ!PollException
           \/ DQ!handleYes \/ DQ!handleNo
  <2>1. DQP!Next
    BY <1>2, SameSettle, SamePoll, SameClose DEF ChildSettles, DQP!Next
  <2> QED
    BY <1>1, <2>1, DQP!FlagKept, Assumed, SameFlag
<1>3. ASSUME NEW g \in ChildForms, NEW held \in Helds, StartChild(g, held)
      PROVE  DQ!StatusBehindMessage'
  <2>1. round' = round + 1 /\ round \in Nat
    BY <1>3 DEF StartChild, DQ!validateDQServices, HostTyped, DQ!TypeOK
  <2> QED
    BY <2>1 DEF DQ!StatusBehindMessage, DQ!Fields, DQ!Emails, DQ!Phones, Fields
<1>4. CASE MountChild
  BY <1>4 DEF MountChild, NewChild, DQ!StatusBehindMessage, DQ!Fields, DQ!Emails,
     DQ!Phones, Fields
<1>5. CASE UNCHANGED childVars
  BY <1>5 DEF childVars, DQ!StatusBehindMessage
<1> QED
  BY <1>2, <1>3, <1>4, <1>5 DEF ChildStep

(* What is reported as valid carries no invalid status, and no answer can    *)
(* change that.                                                              *)
LEMMA ValidReportIsClean ==
  ASSUME HostTyped, HostPrompt, DQ!StatusBehindMessage, DQ!PollValid
  PROVE  /\ \A f \in Fields : status[f] # "invalid"
         /\ inFlight = {}
<1>1. \A f \in Fields : status[f] # "invalid"
  BY DEF DQ!PollValid, DQ!AllOk, DQ!StatusBehindMessage, DQ!Fields, DQ!Emails,
     DQ!Phones, Fields
<1>2. DQP!PollValid
  BY DEF DQ!PollValid, DQP!PollValid, DQ!AllReceived, DQP!AllReceived,
   DQ!AllOk, DQP!AllOk, DQ!passDataToParent, DQP!passDataToParent, DQ!lists, DQP!lists,
   DQ!display, DQP!display, DQ!Fields, DQP!Fields,
   DQ!Emails, DQP!Emails, DQ!Phones, DQP!Phones
<1> QED
  BY <1>1, <1>2, SameTypes, DQP!ValidIsComplete, Assumed DEF HostTyped, HostPrompt
=============================================================================
