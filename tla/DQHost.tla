------------------------------- MODULE DQHost -------------------------------
(***************************************************************************)
(* What the contact forms have in common: the instance of c-d-q-validation *)
(* a form mounts (module DQValidation, with the same variables), its       *)
(* creation, and the history of which text a verification status is about. *)
(***************************************************************************)
EXTENDS Naturals, FiniteSets, SequencesExt

CONSTANTS
    Texts,       \* what a field can hold
    Switches,    \* answers of getDQMetadata
    NumberTypes, \* numberType of a phone answer
    MaxRounds,   \* bound: rounds of validation
    MaxLate      \* bound: callouts in flight on a mounted instance at a save

VARIABLES
    received, msg, invalidDataLists, phoneNumberTypeDataLists,
    showModal_Invalid, phoneModalType_Invalid, isInvalidListEmpty,
    phoneResponss, status, inValidData, form, inFlight, polling,
    mounted,  \* also showDQMOdal of the form
    round, passed, failed,
    verified  \* history: by field, the text its status is about

Fields == {"Email", "SecondaryEmail", "Phone", "MobilePhone", "Address"}
Contents == Texts \union {"blank", "absent"}
ChildForms == [value : [Fields -> Contents], asked : SUBSET Fields]

(* The assumptions of DQValidation about what its instance is given.         *)
ASSUME HostSwitchesAssumption ==
    Switches \subseteq [{"Email_Validation", "Phone_Validation", "Address_Validation"}
                            -> {"on", "off", "missing"}]
ASSUME HostNumberTypesAssumption ==
    NumberTypes \subseteq {"Mobile", "LandLine", "undefined"}
ASSUME HostBoundsAssumption == MaxRounds \in Nat /\ MaxLate \in Nat

DQ == INSTANCE DQValidation WITH Forms <- ChildForms

childVars == <<received, msg, invalidDataLists, phoneNumberTypeDataLists,
               showModal_Invalid, phoneModalType_Invalid, isInvalidListEmpty,
               phoneResponss, status, inValidData, form, inFlight, polling,
               mounted, round, passed, failed>>

FreshChild ==
    /\ received = [f \in Fields |-> FALSE]
    /\ msg = [f \in Fields |-> "ok"]
    /\ invalidDataLists = <<>>
    /\ phoneNumberTypeDataLists = <<>>
    /\ showModal_Invalid = FALSE
    /\ phoneModalType_Invalid = FALSE
    /\ isInvalidListEmpty = FALSE
    /\ phoneResponss = "undefined"
    /\ status = [f \in Fields |-> "unset"]
    /\ inValidData = "unset"
    /\ inFlight = {}
    /\ polling = 0
    /\ passed = <<>>
    /\ failed = {}

(* Before the first save no instance is on the page.                         *)
NoChild ==
    /\ FreshChild
    /\ mounted = FALSE
    /\ round = 0
    /\ form = [value |-> [f \in Fields |-> "absent"], asked |-> {}]
    /\ verified = [f \in Fields |-> "absent"]

NewChild ==
    /\ received' = [f \in Fields |-> FALSE]
    /\ msg' = [f \in Fields |-> "ok"]
    /\ invalidDataLists' = <<>>
    /\ phoneNumberTypeDataLists' = <<>>
    /\ showModal_Invalid' = FALSE
    /\ phoneModalType_Invalid' = FALSE
    /\ isInvalidListEmpty' = FALSE
    /\ phoneResponss' = "undefined"
    /\ status' = [f \in Fields |-> "unset"]
    /\ inValidData' = "unset"
    /\ inFlight' = {}
    /\ polling' = 0
    /\ passed' = <<>>
    /\ failed' = {}

(* showDQMOdal = true: an instance is created unless one is on the page.  An *)
(* instance that left the page has no listener and loses its contactData to  *)
(* the new contactDetail, so it is forgotten.                                *)
MountChild ==
    /\ mounted' = TRUE
    /\ UNCHANGED <<form, round>>
    /\ IF mounted
       THEN UNCHANGED <<received, msg, invalidDataLists,
                        phoneNumberTypeDataLists, showModal_Invalid,
                        phoneModalType_Invalid, isInvalidListEmpty,
                        phoneResponss, status, inValidData, inFlight, polling,
                        passed, failed>>
       ELSE NewChild

(* The data a form submits: those of its fields, or (checked) the child's    *)
(* contactData itself, to which late answers write.  Their statuses, and     *)
(* the texts these are about:                                                *)
Held(detail) == IF detail.checked THEN [status |-> status, verified |-> verified]
                ELSE detail.held

NothingHeld == [status |-> [f \in Fields |-> "unset"],
                verified |-> [f \in Fields |-> "absent"]]

Helds == [status : [Fields -> DQ!Statuses \union {"unset", "null"}],
          verified : [Fields -> Contents]]

(* The form calls the child, which copies the data with their statuses.      *)
StartChild(f, held) ==
    /\ DQ!validateDQServices(f, held.status)
    /\ verified' = held.verified

(* A callout is answered.                                                    *)
ChildSettles ==
    \E c \in inFlight :
        /\ DQ!Settle(c)
        /\ verified' = [f \in Fields |-> IF status'[f] # status[f]
                                         THEN c.form.value[f] ELSE verified[f]]

(* The statuses of a record sent to the server are about its own texts.      *)
VerifiedFor(s, fields) ==
    \A f \in fields : s.status[f] \in DQ!Statuses => s.verified[f] = s.text[f]

=============================================================================
