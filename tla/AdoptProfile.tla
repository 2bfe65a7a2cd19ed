---------------------------- MODULE AdoptProfile ----------------------------
(***************************************************************************)
(* The global profile next to a contact or a lead,                         *)
(* force-app/main/default/lwc/displayGlobalProfile, and the Apex method    *)
(* that adopts values of it, DisplayGlobalProfileController.               *)
(*                                                                         *)
(* The profile lists values for each field of the record.  The user checks *)
(* one in any of the lists and adopts them.  A selection is an index into  *)
(* the list; Refresh loads the profile again, whatever is selected or in   *)
(* flight.  Neither promise of the component has a catch.                  *)
(***************************************************************************)
EXTENDS Integers, Sequences

CONSTANTS
    Null,
    Fields,        \* email, phone, mobile and address of the record
    Values,        \* texts of a field
    OtherTexts,    \* those stored by other pages
    Profiles,      \* what C360 lists: a sequence of values for each field
    Objects,       \* objectApiName: Contact, Lead
    MaxLoads,      \* bound: loads in flight
    MaxAdoptions   \* bound: adoptions in flight

ASSUME NullAssumption == Null \notin Values
ASSUME TextsAssumption == OtherTexts \subseteq Values
ASSUME ProfilesAssumption == Profiles \subseteq [Fields -> Seq(Values)]

VARIABLES
    objectApiName,
    record,          \* the stored texts
    \* the component
    loads,           \* loads of the profile in flight
    globalProfileDetailWrapper, isRecordAvailable, isWaitingForData,
    selected,        \* the selected index of each field; 0 is undefined
    isAdoptButtonDisabled,
    calls,           \* adoptions in flight
    toast,           \* the last toast, and whether its adoption was saved
    \* history
    chosen,          \* the value the user checked in each field
    replaced,        \* the profile was replaced under a selection
    rejected         \* a load was rejected

profileVars == <<loads, globalProfileDetailWrapper, isRecordAvailable,
                 isWaitingForData, rejected>>
selectionVars == <<selected, isAdoptButtonDisabled, chosen, replaced>>
vars == <<objectApiName, record, profileVars, selectionVars, calls, toast>>

Idle == [phase |-> "idle"]
NoSelection == [f \in Fields |-> 0]
NoChoice == [f \in Fields |-> Null]

Init ==
    /\ objectApiName \in Objects
    /\ \E text \in OtherTexts : record = [f \in Fields |-> text]
    /\ loads = 1
    /\ globalProfileDetailWrapper = Null
    /\ isRecordAvailable = FALSE
    /\ isWaitingForData = TRUE
    /\ selected = NoSelection
    /\ isAdoptButtonDisabled = TRUE
    /\ calls = [i \in 1..MaxAdoptions |-> Idle]
    /\ toast = [title |-> "none", saved |-> FALSE]
    /\ chosen = NoChoice
    /\ replaced = FALSE
    /\ rejected = FALSE

-----------------------------------------------------------------------------
(* The profile.                                                              *)

(* Refresh.                                                                  *)
connectedCallback ==
    /\ loads < MaxLoads
    /\ loads' = loads + 1
    /\ isWaitingForData' = TRUE
    /\ UNCHANGED <<objectApiName, record, globalProfileDetailWrapper,
                   isRecordAvailable, rejected, selectionVars, calls, toast>>

EndWait_ofProfile(available) == isWaitingForData' = ~available
EndWait(available) == isWaitingForData' = FALSE

(* An error status, which leaves the profile; a profile without a            *)
(* globalPartyId; a profile.                                                 *)
LoadAnswer ==
    /\ loads > 0
    /\ loads' = loads - 1
    /\ \/ /\ isRecordAvailable' = FALSE
          /\ EndWait(FALSE)
          /\ globalProfileDetailWrapper' \in {globalProfileDetailWrapper, Null}
       \/ /\ isRecordAvailable' = TRUE
          /\ EndWait(TRUE)
          /\ globalProfileDetailWrapper' \in Profiles
    /\ replaced' = (replaced \/ selected # NoSelection)
    /\ UNCHANGED <<objectApiName, record, rejected, selected,
                   isAdoptButtonDisabled, chosen, calls, toast>>

LoadRejected ==
    /\ loads > 0
    /\ loads' = loads - 1
    /\ rejected' = TRUE
    /\ UNCHANGED <<objectApiName, record, globalProfileDetailWrapper,
                   isRecordAvailable, isWaitingForData, selectionVars, calls,
                   toast>>

-----------------------------------------------------------------------------
(* The selection.                                                            *)

CanUseProfile == isRecordAvailable /\ ~isWaitingForData

Rows(f) == IF CanUseProfile THEN DOMAIN globalProfileDetailWrapper[f] ELSE {}

(* selectEmailRecordIndex, selectPhoneRecordIndex, ...                       *)
selectRecordIndex(f, index) ==
    /\ index \in Rows(f)
    /\ selected' = [selected EXCEPT ![f] = index]
    /\ isAdoptButtonDisabled' = FALSE
    /\ chosen' = [chosen EXCEPT ![f] = globalProfileDetailWrapper[f][index]]
    /\ UNCHANGED <<objectApiName, record, profileVars, replaced, calls, toast>>

ForgetChoice == chosen' = NoChoice /\ replaced' = FALSE

resetRadioButton_keepsIndexes ==
    /\ UNCHANGED selected
    /\ isAdoptButtonDisabled' = TRUE
    /\ ForgetChoice

resetRadioButton ==
    /\ selected' = NoSelection
    /\ isAdoptButtonDisabled' = TRUE
    /\ ForgetChoice

Reset ==
    /\ CanUseProfile
    /\ resetRadioButton
    /\ UNCHANGED <<objectApiName, record, profileVars, calls, toast>>

-----------------------------------------------------------------------------
(* Adopting.                                                                 *)

Adopted_index(f) == IF selected[f] = 0 THEN Null ELSE selected[f]

Adopted(f) ==
    IF selected[f] = 0 THEN Null ELSE globalProfileDetailWrapper[f][selected[f]]

(* An index beyond the list throws before anything is sent.  A call takes    *)
(* the first free place.                                                     *)
adoptContactDetails ==
    /\ CanUseProfile /\ ~isAdoptButtonDisabled
    /\ \A f \in Fields : selected[f] <= Len(globalProfileDetailWrapper[f])
    /\ \E i \in 1..MaxAdoptions :
           /\ calls[i] = Idle /\ \A j \in 1..(i - 1) : calls[j] # Idle
           /\ calls' = [calls EXCEPT ![i] =
                  [phase |-> "sent", values |-> [f \in Fields |-> Adopted(f)]]]
    /\ UNCHANGED <<objectApiName, record, profileVars, selectionVars, toast>>

(* A contact's field also loses the verification status of its old text.     *)
Updated(values) ==
    [f \in Fields |-> IF values[f] = Null THEN record[f] ELSE values[f]]

(* Database.update saves, refuses in its SaveResult, or throws; once it has  *)
(* saved, the log may throw ("unlogged"), in the same try block.  Only for a *)
(* contact the SaveResult is looked at.                                      *)
Outcomes == {"saved", "unlogged", "refused", "thrown"}
Saved(outcome) == outcome \in {"saved", "unlogged"}

Response_unchecked(outcome) ==
    IF outcome \in {"thrown", "unlogged"} THEN "Error" ELSE "Success"

Response(outcome) ==
    IF outcome = "saved" \/ (outcome = "refused" /\ objectApiName = "Lead")
    THEN "Success" ELSE "Error"

Adopt(i, outcome) ==
    /\ calls[i].phase = "sent"
    /\ record' = IF Saved(outcome) THEN Updated(calls[i].values) ELSE record
    /\ calls' = [calls EXCEPT ![i] = [phase |-> "answered",
                                      title |-> Response(outcome),
                                      saved |-> Saved(outcome)]]
    /\ UNCHANGED <<objectApiName, profileVars, selectionVars, toast>>

AdoptAnswer(i) ==
    /\ calls[i].phase = "answered"
    /\ toast' = [title |-> calls[i].title, saved |-> calls[i].saved]
    /\ calls' = [calls EXCEPT ![i] = Idle]
    /\ resetRadioButton
    /\ UNCHANGED <<objectApiName, record, profileVars>>

(* The call or its answer is lost.                                           *)
AdoptRejected(i) ==
    /\ calls[i] # Idle
    /\ calls' = [calls EXCEPT ![i] = Idle]
    /\ UNCHANGED <<objectApiName, record, profileVars, selectionVars, toast>>

(* Another page or user saves a field.                                       *)
RecordSaved(f, text) ==
    /\ record' = [record EXCEPT ![f] = text]
    /\ UNCHANGED <<objectApiName, profileVars, selectionVars, calls, toast>>

-----------------------------------------------------------------------------
LoadSettles == LoadAnswer \/ LoadRejected

Next ==
    \/ connectedCallback
    \/ LoadSettles
    \/ \E f \in Fields : \E index \in Rows(f) : selectRecordIndex(f, index)
    \/ Reset
    \/ adoptContactDetails
    \/ \E i \in 1..MaxAdoptions, outcome \in Outcomes : Adopt(i, outcome)
    \/ \E i \in 1..MaxAdoptions : AdoptAnswer(i)
    \/ \E i \in 1..MaxAdoptions : AdoptRejected(i)
    \/ \E f \in Fields, text \in OtherTexts : RecordSaved(f, text)

Spec == Init /\ [][Next]_vars

(* A callout to Apex is answered or rejected; nothing is assumed of the user.*)
FairSpec == Spec /\ WF_vars(LoadSettles)

-----------------------------------------------------------------------------
Calls ==
    [phase : {"sent"}, values : [Fields -> Values \cup {Null}]]
        \cup [phase : {"answered"}, title : {"Success", "Error"}, saved : BOOLEAN]
        \cup {Idle}

(* The record and what is sent to it are texts, never positions in a list.   *)
TypeOK ==
    /\ objectApiName \in Objects
    /\ record \in [Fields -> Values]
    /\ loads \in Nat
    /\ globalProfileDetailWrapper \in Profiles \cup {Null}
    /\ isRecordAvailable \in BOOLEAN
    /\ isRecordAvailable => globalProfileDetailWrapper \in Profiles
    /\ isWaitingForData \in BOOLEAN
    /\ selected \in [Fields -> Nat]
    /\ isAdoptButtonDisabled \in BOOLEAN
    /\ calls \in [1..MaxAdoptions -> Calls]
    /\ toast \in [title : {"none", "Success", "Error"}, saved : BOOLEAN]
    /\ chosen \in [Fields -> Values \cup {Null}]
    /\ replaced \in BOOLEAN /\ rejected \in BOOLEAN

(* Unless Refresh replaced the profile under the selection, adopting sends   *)
(* exactly the values the user checked since the last reset: no index        *)
(* outlives the adoption, answered at any time, that it was used for.        *)
SelectionIsChoice == ~replaced => \A f \in Fields : Adopted(f) = chosen[f]

(* Of a contact, the toast says Success only of an adoption that was saved,  *)
(* though a refused update does not throw.  An error may be said of a saved  *)
(* one, that of the log.                                                     *)
ToastTellsOutcome ==
    toast.title = "Success" /\ objectApiName = "Contact" => toast.saved

(* However often the profile is refreshed, the spinner ends, unless a load   *)
(* was rejected.                                                             *)
WaitEnds == isWaitingForData ~> (~isWaitingForData \/ rejected)
=============================================================================
