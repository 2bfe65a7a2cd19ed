------------------------- MODULE AdoptProfileProofs -------------------------
(***************************************************************************)
(* Proofs about AdoptProfile, for every set of fields, profiles and texts, *)
(* any number of loads and adoptions in flight, and writes of other pages  *)
(* at any time.                                                            *)
(***************************************************************************)
EXTENDS AdoptProfile, SequenceTheorems, TLAPS

(* What a place in a shown list stands for is a text of the profile.         *)
LEMMA RowIsValue ==
  ASSUME TypeOK, NEW f \in Fields, NEW index \in Rows(f)
  PROVE  /\ isRecordAvailable
         /\ index \in Nat \ {0}
         /\ globalProfileDetailWrapper[f][index] \in Values
<1>1. isRecordAvailable /\ index \in DOMAIN globalProfileDetailWrapper[f]
  BY DEF Rows, CanUseProfile
<1>2. globalProfileDetailWrapper[f] \in Seq(Values)
  BY <1>1, ProfilesAssumption DEF TypeOK
<1>3. /\ DOMAIN globalProfileDetailWrapper[f] = 1..Len(globalProfileDetailWrapper[f])
      /\ Len(globalProfileDetailWrapper[f]) \in Nat
      /\ \A i \in 1..Len(globalProfileDetailWrapper[f]) :
             globalProfileDetailWrapper[f][i] \in Values
  BY <1>2, LenProperties, ElementOfSeq
<1> QED
  BY <1>1, <1>3

(* Adopting sends texts of the profile, whatever the selection was made for. *)
LEMMA AdoptedIsValue ==
  ASSUME TypeOK, adoptContactDetails, NEW f \in Fields
  PROVE  Adopted(f) \in Values \cup {Null}
<1>1. CASE selected[f] = 0
  BY <1>1 DEF Adopted
<1>2. CASE selected[f] # 0
  <2>1. globalProfileDetailWrapper[f] \in Seq(Values)
    BY ProfilesAssumption DEF TypeOK, adoptContactDetails, CanUseProfile
  <2>2. selected[f] \in 1..Len(globalProfileDetailWrapper[f])
    BY <1>2, <2>1, LenProperties DEF TypeOK, adoptContactDetails
  <2>3. globalProfileDetailWrapper[f][selected[f]] \in Values
    BY <2>1, <2>2, ElementOfSeq
  <2> QED
    BY <1>2, <2>3 DEF Adopted
<1> QED
  BY <1>1, <1>2

(* A call on its way carries texts.                                          *)
LEMMA SentIsTyped ==
  ASSUME TypeOK, NEW i \in 1..MaxAdoptions, calls[i].phase = "sent"
  PROVE  calls[i].values \in [Fields -> Values \cup {Null}]
<1>1. calls[i] \in Calls
  BY DEF TypeOK
<1> QED
  BY <1>1 DEF Calls, Idle

LEMMA AnsweredIsTyped ==
  ASSUME TypeOK, NEW i \in 1..MaxAdoptions, calls[i].phase = "answered"
  PROVE  calls[i].title \in {"Success", "Error"} /\ calls[i].saved \in BOOLEAN
<1>1. calls[i] \in Calls
  BY DEF TypeOK
<1> QED
  BY <1>1 DEF Calls, Idle

(* The record and what is sent to it are texts, never positions in a list,   *)
(* and a profile that is shown is one of C360's.                             *)
THEOREM TypeCorrect == Spec => []TypeOK
<1>1. Init => TypeOK
  <2> SUFFICES ASSUME Init PROVE TypeOK
    OBVIOUS
  <2>1. record \in [Fields -> Values]
    BY TextsAssumption DEF Init
  <2> QED
    BY <2>1 DEF Init, TypeOK, NoSelection, NoChoice, Calls, Idle
<1>2. TypeOK /\ [Next]_vars => TypeOK'
  <2> SUFFICES ASSUME TypeOK, [Next]_vars PROVE TypeOK'
    OBVIOUS
  <2>1. CASE connectedCallback
    BY <2>1 DEF connectedCallback, TypeOK, selectionVars
  <2>2. CASE LoadAnswer
    <3>1. replaced' \in BOOLEAN
      BY <2>2 DEF LoadAnswer
    <3>2. loads' \in Nat
      BY <2>2 DEF LoadAnswer, TypeOK
    <3>3. /\ isRecordAvailable' \in BOOLEAN /\ isWaitingForData' \in BOOLEAN
          /\ globalProfileDetailWrapper' \in Profiles \cup {Null}
          /\ isRecordAvailable' => globalProfileDetailWrapper' \in Profiles
      BY <2>2 DEF LoadAnswer, EndWait, TypeOK
    <3>4. UNCHANGED <<objectApiName, record, rejected, selected,
                      isAdoptButtonDisabled, chosen, calls, toast>>
      BY <2>2 DEF LoadAnswer
    <3> QED
      BY <3>1, <3>2, <3>3, <3>4 DEF TypeOK
  <2>3. CASE LoadRejected
    BY <2>3 DEF LoadRejected, TypeOK, selectionVars
  <2>4. ASSUME NEW f \in Fields, NEW index \in Rows(f), selectRecordIndex(f, index)
        PROVE  TypeOK'
    <3>1. index \in Nat /\ globalProfileDetailWrapper[f][index] \in Values
      BY RowIsValue
    <3>2. selected' \in [Fields -> Nat] /\ chosen' \in [Fields -> Values \cup {Null}]
      BY <2>4, <3>1 DEF selectRecordIndex, TypeOK
    <3> QED
      BY <2>4, <3>2 DEF selectRecordIndex, TypeOK, profileVars
  <2>5. CASE Reset
    BY <2>5 DEF Reset, resetRadioButton, ForgetChoice, NoSelection, NoChoice,
       TypeOK, profileVars
  <2>6. CASE adoptContactDetails
    <3>1. [f \in Fields |-> Adopted(f)] \in [Fields -> Values \cup {Null}]
      BY <2>6, AdoptedIsValue
    <3>2. [phase |-> "sent", values |-> [f \in Fields |-> Adopted(f)]] \in Calls
      BY <3>1 DEF Calls
    <3>3. calls' \in [1..MaxAdoptions -> Calls]
      BY <2>6, <3>2 DEF adoptContactDetails, TypeOK
    <3> QED
      BY <2>6, <3>3 DEF adoptContactDetails, TypeOK, profileVars, selectionVars
  <2>7. ASSUME NEW i \in 1..MaxAdoptions, NEW outcome \in Outcomes,
               Adopt(i, outcome)
        PROVE  TypeOK'
    <3>1. calls[i].values \in [Fields -> Values \cup {Null}]
      BY <2>7, SentIsTyped DEF Adopt
    <3>2. record' \in [Fields -> Values]
      BY <2>7, <3>1 DEF Adopt, Updated, TypeOK
    <3>3. Response(outcome) \in {"Success", "Error"}
      BY DEF Response
    <3>4. [phase |-> "answered", title |-> Response(outcome),
           saved |-> Saved(outcome)] \in Calls
      BY <3>3 DEF Calls, Saved
    <3>5. calls' \in [1..MaxAdoptions -> Calls]
      BY <2>7, <3>4 DEF Adopt, TypeOK
    <3> QED
      BY <2>7, <3>2, <3>5 DEF Adopt, TypeOK, profileVars, selectionVars
  <2>8. ASSUME NEW i \in 1..MaxAdoptions, AdoptAnswer(i) PROVE TypeOK'
    <3>1. toast' \in [title : {"none", "Success", "Error"}, saved : BOOLEAN]
      BY <2>8, AnsweredIsTyped DEF AdoptAnswer
    <3>2. calls' \in [1..MaxAdoptions -> Calls]
      BY <2>8 DEF AdoptAnswer, TypeOK, Calls
    <3> QED
      BY <2>8, <3>1, <3>2 DEF AdoptAnswer, resetRadioButton, ForgetChoice,
         NoSelection, NoChoice, TypeOK, profileVars
  <2>9. ASSUME NEW i \in 1..MaxAdoptions, AdoptRejected(i) PROVE TypeOK'
    <3>1. calls' \in [1..MaxAdoptions -> Calls]
      BY <2>9 DEF AdoptRejected, TypeOK, Calls
    <3> QED
      BY <2>9, <3>1 DEF AdoptRejected, TypeOK, profileVars, selectionVars
  <2>10. ASSUME NEW f \in Fields, NEW text \in OtherTexts, RecordSaved(f, text)
         PROVE  TypeOK'
    <3>1. record' \in [Fields -> Values]
      BY <2>10, TextsAssumption DEF RecordSaved, TypeOK
    <3> QED
      BY <2>10, <3>1 DEF RecordSaved, TypeOK, profileVars, selectionVars
  <2>11. CASE UNCHANGED vars
    BY <2>11 DEF vars, profileVars, selectionVars, TypeOK
  <2> QED
    BY <2>1, <2>2, <2>3, <2>4, <2>5, <2>6, <2>7, <2>8, <2>9, <2>10, <2>11
       DEF Next, LoadSettles
<1> QED
  BY <1>1, <1>2, PTL DEF Spec

-----------------------------------------------------------------------------
(* The selection, in any order of answers and refreshes, is the user's.      *)
THEOREM AdoptsWhatWasChecked == Spec => []SelectionIsChoice
<1>1. Init => SelectionIsChoice
  BY DEF Init, SelectionIsChoice, Adopted, NoSelection, NoChoice
<1>2. TypeOK /\ SelectionIsChoice /\ [Next]_vars => SelectionIsChoice'
  <2> SUFFICES ASSUME TypeOK, SelectionIsChoice, [Next]_vars,
                      ~replaced', NEW f \in Fields
               PROVE  Adopted(f)' = chosen'[f]
    BY DEF SelectionIsChoice
  <2>1. ASSUME UNCHANGED <<selected, chosen, replaced, globalProfileDetailWrapper>>
        PROVE  Adopted(f)' = chosen'[f]
    BY <2>1 DEF SelectionIsChoice, Adopted
  <2>2. ASSUME resetRadioButton PROVE Adopted(f)' = chosen'[f]
    BY <2>2 DEF resetRadioButton, ForgetChoice, Adopted, NoSelection, NoChoice
  <2>3. CASE LoadAnswer
    \* Only a profile without a selection was replaced.
    <3>1. selected = NoSelection /\ selected' = selected /\ chosen' = chosen /\ ~replaced
      BY <2>3 DEF LoadAnswer
    <3>2. selected[f] = 0
      BY <3>1 DEF NoSelection
    <3> QED
      BY <3>1, <3>2 DEF SelectionIsChoice, Adopted
  <2>4. ASSUME NEW g \in Fields, NEW index \in Rows(g), selectRecordIndex(g, index)
        PROVE  Adopted(f)' = chosen'[f]
    <3>1. index # 0
      BY RowIsValue
    <3>2. UNCHANGED <<replaced, globalProfileDetailWrapper>>
      BY <2>4 DEF selectRecordIndex, profileVars
    <3>3. CASE f = g
      BY <2>4, <3>1, <3>2, <3>3 DEF selectRecordIndex, Adopted, TypeOK
    <3>4. CASE f # g
      BY <2>4, <3>2, <3>4 DEF selectRecordIndex, Adopted, TypeOK, SelectionIsChoice
    <3> QED
      BY <3>3, <3>4
  <2>5. CASE Reset
    BY <2>2, <2>5 DEF Reset
  <2>6. ASSUME NEW i \in 1..MaxAdoptions, AdoptAnswer(i) PROVE Adopted(f)' = chosen'[f]
    BY <2>2, <2>6 DEF AdoptAnswer
  <2>7. CASE connectedCallback \/ LoadRejected \/ adoptContactDetails
    BY <2>1, <2>7 DEF connectedCallback, LoadRejected, adoptContactDetails,
       selectionVars, profileVars
  <2>8. ASSUME NEW i \in 1..MaxAdoptions,
               AdoptRejected(i) \/ \E outcome \in Outcomes : Adopt(i, outcome)
        PROVE  Adopted(f)' = chosen'[f]
    BY <2>1, <2>8 DEF Adopt, AdoptRejected, selectionVars, profileVars
  <2>9. ASSUME NEW g \in Fields, NEW text \in OtherTexts, RecordSaved(g, text)
        PROVE  Adopted(f)' = chosen'[f]
    BY <2>1, <2>9 DEF RecordSaved, selectionVars, profileVars
  <2>10. CASE UNCHANGED vars
    BY <2>1, <2>10 DEF vars, selectionVars, profileVars
  <2> QED
    BY <2>3, <2>4, <2>5, <2>6, <2>7, <2>8, <2>9, <2>10 DEF Next, LoadSettles
<1> QED
  BY <1>1, <1>2, TypeCorrect, PTL DEF Spec

-----------------------------------------------------------------------------
(* What the toast will say of a contact is decided with the answer: a title  *)
(* on its way is already that of its outcome.                                *)
AnswersTellOutcome ==
    objectApiName = "Contact" =>
        \A i \in 1..MaxAdoptions :
            calls[i].phase = "answered" /\ calls[i].title = "Success" => calls[i].saved

ToastInv == AnswersTellOutcome /\ ToastTellsOutcome

(* Success is said of a contact only when it was saved.                      *)
THEOREM SuccessMeansSaved == Spec => []ToastTellsOutcome
<1>1. Init => ToastInv
  BY DEF Init, ToastInv, AnswersTellOutcome, ToastTellsOutcome, Idle
<1>2. TypeOK /\ ToastInv /\ [Next]_vars => ToastInv'
  <2> SUFFICES ASSUME TypeOK, ToastInv, [Next]_vars PROVE ToastInv'
    OBVIOUS
  <2> USE DEF ToastInv
  <2>1. ASSUME UNCHANGED <<objectApiName, calls, toast>> PROVE ToastInv'
    BY <2>1 DEF AnswersTellOutcome, ToastTellsOutcome
  <2>2. CASE adoptContactDetails
    BY <2>2 DEF adoptContactDetails, AnswersTellOutcome, ToastTellsOutcome, TypeOK
  <2>3. ASSUME NEW i \in 1..MaxAdoptions, NEW outcome \in Outcomes,
               Adopt(i, outcome)
        PROVE  ToastInv'
    <3>1. objectApiName = "Contact" /\ Response(outcome) = "Success" => Saved(outcome)
      BY DEF Response, Saved
    <3>2. AnswersTellOutcome'
      BY <2>3, <3>1 DEF Adopt, AnswersTellOutcome, TypeOK
    <3> QED
      BY <2>3, <3>2 DEF Adopt, ToastTellsOutcome
  <2>4. ASSUME NEW i \in 1..MaxAdoptions, AdoptAnswer(i) PROVE ToastInv'
    <3>1. AnswersTellOutcome'
      BY <2>4 DEF AdoptAnswer, AnswersTellOutcome, TypeOK, Idle
    <3> QED
      BY <2>4, <3>1 DEF AdoptAnswer, AnswersTellOutcome, ToastTellsOutcome
  <2>5. ASSUME NEW i \in 1..MaxAdoptions, AdoptRejected(i) PROVE ToastInv'
    BY <2>5 DEF AdoptRejected, AnswersTellOutcome, ToastTellsOutcome, TypeOK, Idle
  <2>6. CASE connectedCallback \/ LoadSettles \/ Reset \/ UNCHANGED vars
    BY <2>1, <2>6 DEF connectedCallback, LoadSettles, LoadAnswer, LoadRejected,
       Reset, vars
  <2>7. ASSUME NEW f \in Fields, NEW index \in Rows(f), selectRecordIndex(f, index)
        PROVE  ToastInv'
    BY <2>1, <2>7 DEF selectRecordIndex
  <2>8. ASSUME NEW f \in Fields, NEW text \in OtherTexts, RecordSaved(f, text)
        PROVE  ToastInv'
    BY <2>1, <2>8 DEF RecordSaved
  <2> QED
    BY <2>2, <2>3, <2>4, <2>5, <2>6, <2>7, <2>8 DEF Next
<1>3. ToastInv => ToastTellsOutcome
  BY DEF ToastInv
<1> QED
  BY <1>1, <1>2, <1>3, TypeCorrect, PTL DEF Spec
=============================================================================
