# Contacts and global profiles: a verification project

The repository is a Salesforce project around one business object, the
contact: Lightning web components (`force-app/main/default/lwc`) in which a
user searches, creates and edits contacts, and Apex classes
(`force-app/main/default/classes`) that make the callouts behind them. A
TypeScript utility kit (`src/`), build scripts and a good deal of vendored code
share the tree.

The part with a logic of its own, and with almost no tests, is the **save of a
contact**: a form collects the fields, mounts `c-d-q-validation`, which has up
to five fields checked by external services, waits for the answers, asks the
user about invalid ones, and hands the data back to the form, which submits the
record, shows a duplicate warning if the server has one, and may send it again.
All of that is callbacks: promises that settle in any order, intervals,
events between components, and state that outlives a round.

Beside it stands the use of **global profiles**, what a data platform knows of a
person: a page searches them, pages through the results and creates a contact or
a lead from one through a wizard of windows; another shows the profile next to a
contact or lead, and values of it are adopted into the record.

This project models both parts, checks them with TLC and proves theorems about
them with TLAPS.

Paths below are relative to `src/force-app/main/default/lwc/`.

## Inventory

| Component | State it keeps | Operations | Hard behaviour | Modelled |
|---|---|---|---|---|
| `dQValidation` | five "callback received" flags, five message variables, two lists, the modal's flags, a copy of the contact | `validateDQServices`, the callouts' `.then`/`.catch`, the interval, Yes, No | answers in any order, late ones, shared flags and messages, an interval that must stop | `DQValidation` |
| `contactCreateForm` | the fields, `contactDetail`, spinner, popup, buttons, `inValidData` | Save, Save & New, Continue to Save, the answers of the server, the child's events | overlapping rounds, double creates, stale statuses, a promise nobody waits for | `ContactCreateForm` |
| `contactRecordDetails` | the same, and the stored record, `isAddressChanged`, `isSaveAndNewButton` | the same for an update, Cancel, the pencil | flags no handler resets, data of an earlier save, two kinds of window | `ContactRecordDetails` |
| `contactDetails` | an older form with its own validation inside | as above | as above | no |
| `globalProfileDataComponent` | search key, profiles, page and its rows, the row clicked, three windows, access flags | search, page back and forth, the wizard from Create New to the form | answers of searches out of order, an index looked up later than it is stored, windows switched by many handlers, a check repeated by timers | `GlobalProfileSearch` |
| `contactRecordSelectionPage` | the record type selected | select, next, cancel | its default, and what is handed on | `GlobalProfileSearch` |
| `GlobalProfileData.cls` | none between requests | the answer of a search: sorted contact points, source records, the records of the org | a hand-written sort, a record listed twice, an access that is not read | `GlobalProfileData` |
| `displayGlobalProfile`, `DisplayGlobalProfileController.cls` | the profile, one selected index per field | select, reset, refresh, adopt | a second adoption, an answer that clears a newer selection, a profile replaced under a selection, two writers of one record | `AdoptProfile` |
| `globalSearch`, `contactGlobalSearchBeforeCreate`, `oneview` | as the components above | the same wizard and lists over other data | as above | no |
| `displayUnifiedProfile` | | | the file does not parse | no |
| small views (`cdpRestOneView`, `contactViewForm`, ...) | one wire result | render | none | no |
| Apex controllers, CDP REST client, JWT, Jira, CSV | none between requests | one callout and its conversion | none across requests | no |
| TypeScript kit, build scripts, vendored code | | | | no |

How they interact: a form renders `<c-d-q-validation>` when `showDQMOdal` turns
true and calls its `@api validateDQServices()` from a 100 ms interval that waits
for the element. The component reports with the event `contactdataupdated`
(the contact with its statuses and `inValidData`) and with `closedqmodalpopup`,
which takes it off the page. The form sends the record through
`lightning-record-edit-form.submit` or, after a duplicate warning, through an
Apex method. The search page opens the
create form with the data it filled in; `displayGlobalProfile` writes to the
record through its controller, and so do other pages.

What makes each right, in short:

* validation: a round is reported once, only when every callout of it has
  settled; data called valid carries no invalid status; the modal names what it
  asks about; a failure is not forgotten; a round ends;
* forms: one record per save; the statuses sent are about the texts sent; the
  toast tells the truth; the spinner covers the form as long as something is on
  its way, and not longer; a duplicate rule is skipped only when the user says so;
* search: the page shown is the page its number says; the contact is created from
  the profile that was clicked, with its latest contact points; no record is
  listed twice; one window at a time; the spinner ends;
* adoption: what is sent is what the user checked; Success is said of what was
  saved; the wait ends.

`PROJECT.json` lists every hazard at its line with the properties that watch it.

## Modules

```
DQOutcome      the protocol a form expects of the validation component
  ^ implemented by
DQValidation   the component                 <- DQValidationProofs
  ^ INSTANCE DQ                                   ^ EXTENDS
  |                                          <- DQPromptProofs
DQHost         what both forms share:             ^ INSTANCE DQP
               mounting the component,       <- DQHostProofs
               its answers, the history           ^ EXTENDS
               of which text a status is about    |
  ^ EXTENDS                     ^ EXTENDS         |
ContactCreateForm             ContactRecordDetails
  |  <- ContactCreateFormProofs |  <- ContactRecordDetailsProofs
  v implement                   v
ContactSave    what the user of a form is promised about a save
```

```
GlobalProfileData      what a search answers (Apex)
  ^ EXTENDS            <- GlobalProfileDataProofs
GlobalProfileSearch    the search page, the wizard, the record type page
                       <- GlobalProfileSearchProofs
AdoptProfile           the profile beside a record, and the controller that
                       writes to the record <- AdoptProfileProofs
```

The modules named `...Proofs` hold the theorems. `MC<module>` gives the constants of `<module>` small values for TLC. A
definition named `<definition>_<fault>` is a faulty variant that no model uses;
the properties must tell it from the definition.

### DQValidation

The variables carry the names of the code; families of variables become
functions of the field: `received` stands for the five
`is...ValidationCallbackReceived`, `msg` for `showSuccessMsg...`, `status` for
`contactData.*_Verification_Status__c`. What the code shares is shared here:
the catch of an e-mail sets the flag of both e-mails, and both write the message
of the primary one; the number type of the last phone answer is one variable.
`inFlight` is the set of promises that have not settled, each with its round
and the data it was started with. `passed`, `failed` are histories.

| Action | Code |
|---|---|
| `validateDQServices` | the `@api` method: `resetALL`, the copy of the contact, `getDQMetadata` (`dQValidation.js:69-86`) and the interval (`:206`) |
| `MetadataAnswer`, `MetadataRejected` | which services are on: start a callout or set the flag (`:86-203`) |
| `EmailAnswer`, `PhoneAnswer`, `AddressAnswer`, `...Rejected` | `.then` and `.catch` of the callouts with `DQVerify...` (`:272-525`) |
| `PollValid`, `PollInvalid`, `PollException` | the three branches of the interval (`:206-268`) |
| `handleYes`, `handleNo` | the modal's buttons (`:526-542`) |

The answer of a service is abstracted to what the code tells apart: a status it
accepts ("good"), one it calls invalid, any other, none, an exception.

### DQHost, ContactCreateForm, ContactRecordDetails

`DQHost` instantiates `DQValidation` over the same variables. `MountChild` is
`showDQMOdal = true`: a new instance, unless one is on the page. An instance that
left the page is forgotten: its events have no listener. `verified` is a history
variable: for each field the text the component's status is about.

A form's handlers are actions of the same name. A click runs synchronously up
to the first `await` point, so `validateFields`, `handleOnSubmit`, the click of
the hidden submit button and `handleSubmit` are one action. The interval of
`handleSubmit` (`modalLoading`) calls the child in an action of its own
(`StartRound`). The events of the child are synchronous: `ChildReports` is a poll
of the child together with `dqValidationCompleted` of the form, `AnswerNo` is
`handleNo`, whose `closeDQModal` makes the form run `closeDQPopupModal` before
`passDataToParent` makes it run `dqValidationCompleted`. A record on its way to the
server is an element of `creates` (`updates`) with the texts, statuses and outcome
sent; `ServerAnswers` are the form's `onsuccess` and `onerror` and the
`.then`/`.catch` of the Apex call.

The data a form submits are an object that changes hands. `contactDetail`
(`updatedContactDetail`) is at first the fields of the form; after
`contactdataupdated` it is the very `contactData` of the child, to which late
answers still write (`checked`); when the child is called again it takes a copy,
and the form keeps the old object with the statuses it had then (`held`). `Held`
says which statuses the object has and what text each is about.

Neither form asks whether a record is on its way before it saves. The edit form
turns the spinner on with every update, which is proved to be enough
(`SpinnerCoversUpdate`). The create form does not: after No the modal's closing
turns the spinner off (`contactCreateForm.js:1185`) while the create is out, and
the user can save again. The history `overlapped` says that this has happened;
`refused` is the outcome of the record the duplicate rule last refused.

Texts are model values: "blank" is the empty string, "absent" is null. Picklists,
defaults and layouts are reduced to what the user can have entered. An address
is one text; in the create form it has a source (`addressFrom`), as the code
validates a manual address only and copies the country of the account.

### GlobalProfileData, GlobalProfileSearch

`GlobalProfileData` is a pure module: `AllData(source)` is what
`getCustomer360Data` makes of a source, that is of the individuals the platform
found and the records the org found. `sortPoints` keeps the loops of the three
sort methods of the class: `Compare` is the body of the inner loop, `SortPass`
the inner loop. `parseIndividual` and `canCreate` read the source
records, `appendLocal` adds the records of the org that no profile lists. A date
is a number, and a contact point has no text. `Answers` is what a search of a
source can answer: the data, a timeout, or the message of another exception. For
a source record of this org that is neither contact nor lead the code reads no
access; the condition on it may be false or throw, and both are taken. In the
search page `OfType` and `FirstOr0` are the component's loops that stop at the
first home or mobile number.

| Action | Code (`globalProfileDataComponent.js`) |
|---|---|
| `handleSearchExpressionChange`, `handleSearch` | the box, the button and Enter; `resetAll`; `trim` of an undefined key throws after the spinner is on |
| `SearchAnswer`, `SearchRejected` | `.then` and `.catch`, with the access flags and the first page |
| `previousHandler`, `nextHandler` | the buttons, with `displayRecordPerPage` |
| `openObjectSelectionModal`, `handleObjectSelection`, `handleCancel`, `navigateFromObjectModal` | Create New and the object selection; a user who may create one object gets no window |
| `handleRecordType`, `handleRecordTypeNext`, `closeRecordTypeModal` | the record type page: select, Next, Cancel |
| `closeContactCreateModal`, `ContactCreated` | the form is left, or has created the contact |
| `checkForMultipleRecordTypeAccess` | the timer of `renderedCallback` |
| `ObjectInfoArrives` | the wires of `getObjectInfo` |

The row of the button is an index on the page (`globalprofileindex`, 0 for
undefined); `RowOnPage` looks it up when the wizard goes on. Two histories are
kept: `chosen`, the profile whose button was clicked, and `overlapped`, that a
search was started while another was in flight. `CanUsePage` is false under any
window, since a window covers the page.

Taken for granted: every handler counts as re-rendering the component; a write to
`contactData` succeeds also after it was handed to the form; the navigation to
the search page keeps the component; the record type page has its object info.

### AdoptProfile

`record[f]` is the stored text of a field; that adopting also blanks the field's
verification status is left out, as no reader of the status is modelled with
it. `loads` and `calls` are the callouts in flight. An adoption is applied
(`Adopt`, the Apex transaction) and answered (`AdoptAnswer`, `AdoptRejected`, the
promise) in two steps, between which everything else may happen. `RecordSaved` is
another page that stores a text. The update of `Adopt` is saved, refused in its
`SaveResult`, or throws; after a saved one the log, in the same `try`, may throw,
and the answer is then an error ("unlogged").

| Action | Code (`displayGlobalProfile.js`, `DisplayGlobalProfileController.cls`) |
|---|---|
| `connectedCallback` | the load, at the start and by Refresh |
| `LoadAnswer`, `LoadRejected` | the profile, none, or an error; a rejection has no handler |
| `selectRecordIndex`, `Reset` | the check marks: an index per field, and `resetRadioButton` |
| `adoptContactDetails` | the values at the indices are sent |
| `Adopt` | the controller: values stored, or refused, or an exception before or after they are stored |
| `AdoptAnswer`, `AdoptRejected` | the toast and the reset of the selection; a rejection has no handler |

Histories: `chosen`, the value checked in each field since the last reset;
`replaced`, a profile was replaced under a selection; `rejected`, a load was.

### Abstract specifications

`DQOutcome` says that a round reports once on its own, or asks once, and that
after the question there is one report ("invalidData") or none, and the
component is gone. `ContactSave` says that a save is validated, then sent once
or given back, that the server's answer ends the visit or gives the form back,
and that only a duplicate warning lets a form send without a validation. While a
record the user kept with No is sent ("keeping") the form may be usable; who saves
again then has two saves at once ("overlapping"), of which nothing is promised.
In the
edit form this leave lasts as long as `whichButtonWasClicked` names Continue to
Save, since that is what the code asks; that it should last shorter is the
finding `edit_skip`.

## Runs

| Run | Question | Bounds |
|---|---|---|
| `dq_late` | What holds in any order of answers, with answers of the first round arriving in the second? | 2 rounds, 2 late answers, 4 forms, services on, off and missing |
| `dq_prompt` | Does the component implement `DQOutcome`, and end its first round, when answers are not late? | 2 rounds, no late answer, 4 forms, services on and off |
| `form_prompt` | Does the create form keep `ContactSave`, send one record at a time, each with its own statuses, and end its spinner? | 3 inputs, 2 rounds, no late answer; the second save may begin during the first create |
| `form_late` | Which of its promises survive a late answer? | 3 inputs, one with the address of the account, 2 rounds, 1 late answer |
| `edit_prompt` | Does the edit form, inline and in the modal window, keep `ContactSave`, cover its updates, and ask about changes only? | 2 rounds, no late answer |
| `search` | Are the page, the profile a contact is made from, its contact points and the windows right, whatever is searched, turned, cancelled and answered? | page of 2 rows (5 in the code), 2 searches in flight, 2 timers, 4 sources, 4 users |
| `adopt` | Is what was checked what is sent, and Success said only of what was saved, whatever is answered in between? | 2 fields, 2 texts, 2 profiles, 2 loads and 2 adoptions in flight, contact and lead |
| `dq_any_failure` (violation) | Is any API exception reported? | 1 round |
| `dq_stuck` (violation) | Does every round end? | 2 rounds |
| `form_statuses` (violation) | Do statuses belong to texts on Continue to Save? | 2 rounds |
| `form_country` (violation) | Does a synchronized contact get the account's country? | 1 account |
| `edit_skip` (violation) | Is the duplicate rule skipped on Continue to Save only? | 2 rounds |

Why the bounds are enough. Two rounds show every influence of one round on the
next; the component keeps no count of rounds, and its proofs are for any number
of them. One or two late answers are enough for a flag, a message and a list
entry to arrive in the wrong round. The two e-mails share a flag and a message,
the two phones a flag and a type: the forms of `MCDQValidation` have both of a
pair, one of a pair, and a cleared field that is still asked for. In the forms
two texts per field tell "the same" from "another".

A search finds nothing, one record of the org, one profile that is an account of
the org, or three profiles and two records, one of which a profile lists: four
rows, two full pages. The profile with contact points has the latest of them
neither first nor last, so that a sort that stops early is seen. The users may
create contacts, leads, both or none, with one record type or two. Two searches
in flight give every order of two answers. Two adoptions in flight are the second
click on Adopt; two loads are a Refresh during the first. `MaxTimers` bounds the
timers of `renderedCallback`, all of which do the same. The two profiles have
lists of different lengths, so that an index can point past the end of a list
that replaced the one it was chosen from.

One pair at a time. The instances of the forms change one or two e-mails, never
both e-mails and both phones. With both pairs asked for, a rejected callout sets
the flag of its sibling while that is still out, so that the modal opens early;
the late answer can then turn the last invalid message to ok, and the interval
reports behind the modal. In the instance with both pairs this takes two rounds:
a phone is rejected, round one is reported, and the mobile number is found
invalid after that. In round two the first e-mail is invalid, which is listed,
but the exception of the second replaces its message; the phone is rejected
again; the old message of the mobile number and the list open the modal; the
new answer for the mobile number is good, and the interval reports the
exception. `OneCreateAtATime` of the create form and
`SpinnerCoversUpdate` and `QuestionsAreAboutChanges` of the edit form do not hold
in that instance, which is no run of this project: they are claimed for one pair
at a time, and so are `ImplementsSave` and `ImplementsOutcome`. What "one pair at
a time" means is said beside each model: `OnePair` of a form of the component,
`OnePairAskable` of the inputs of the create form, whose fields to validate
accumulate over a visit, `OnePairChanges` of the texts of the edit form, which
asks about changes only. The theorems have these as hypotheses, and TLC evaluates
them on every instance (`OnePairForms`, `OnePairInputs`, `OnePairTexts`). A theorem
that does not name one is about both pairs as well.

Saves that overlap. `RoundsDoNotOverlap`, `OneCreateAtATime`, `ToastTellsOutcome`,
`NewFormWhenAsked` and `ImplementsSave` of the create form are about the time
before a save begins while a create is out (`overlapped`). The runs go on after
that, but none of the five holds then: the second save creates the contact a
second time; the answer of the first create turns the spinner off in the middle of
the second round, and a third save starts another beside it; a second round that
ends with `DQ_CALLOUT` has the invalid record of the first called validated; a
Save & New of the second decides what follows the first. The only way there is a
save after No: this is what `OneCreateAtATime` says, since before that the form
is usable under a create only if the user kept the data of that create.
`TypeOK`, `SavedStatusesAreTheirOwn`, `PopupHasContent` and `SpinnerEnds` hold for
saves that overlap as well.

Bounds in the guards: `MaxRounds` and `MaxLate`; nothing else keeps a user from
saving who sees the form without spinner, modal or window.
`MaxLate = 0` hides a hazard: with a late answer an interval left running after a
modal can report a second time, and `OneCreateAtATime`,
`SavedStatusesAreTheirOwn` and `ImplementsSave` of the create form fail. They are
therefore claimed for prompt answers only, and `form_late` checks the ones that
survive.

Deadlock is not checked: a form that was left, and a component whose user does
not answer, stop for good.

Fairness. Promises settle and intervals keep firing, so the answers of the
callouts, the polls, `StartRound` and the answers of the server are weakly
fair, each as the disjunction over what is pending. Nothing is assumed of the
user: no button has to be clicked, no modal answered. A callout of Apex has a
timeout, so that its promise settles. `getAccountData` is not assumed to answer.

Searches and loads are callouts too: `SearchSettles` and `LoadSettles`
are weakly fair, each as an answer or a rejection of any that is in flight.
Adoptions need no fairness, as nothing waits for them.

Liveness. `SpinnerEnds` of the search is about a search that was sent: with an
undefined key the spinner is on and nothing is sent. `WaitEnds` leaves out rejected
loads, which have no handler. `FirstRoundSettles` and `SpinnerEnds` of the forms are about the first round of an
instance and about records on their way, because `dq_stuck` shows that a second
round may hang: a message left from the first keeps the interval in the
invalid branch with both lists empty. In the edit form a rejected
`updateDuplicateContact`, whose catch only logs, is left out of `SpinnerEnds`.
`SpinnerEnds` and `FirstRoundSettles` are checked with services that have a
metadata record: without one the interval polls for ever
(`dQValidation.js:88`).

## Findings

* `dq_any_failure`: the exception of the secondary e-mail is overwritten by the
  answer of the primary one when that arrives later; the round is reported as
  `DQ_CALLOUT`.
* `dq_stuck`: see Liveness.
* `form_statuses`: an e-mail edited under a duplicate warning is created with the
  verification status of the e-mail before the edit.
* `form_country`: the country of the account arrives after the fields were
  copied, and the contact is created without it.
* `edit_skip`: after a Continue to Save that failed, Save & New sends the data
  of the earlier save, unvalidated and past the duplicate rule, whatever is on
  screen.

## Proofs

`DQValidationProofs` proves, for every set of texts, forms, service switches and
number types and every bound on rounds and late answers:

| Theorem | Property | Inductive invariant |
|---|---|---|
| `TypeCorrect` | `TypeOK` | itself; the work is in the sequences (`passed`, the two lists) and in the calls started by `MetadataAnswer` |
| `InvalidStatusFlagged` | `StatusBehindMessage` | itself with `TypeOK`: every handler that stores an invalid status stores a message in the same step, and a round that resets the statuses does it for all fields |
| `ValidDataCarriesNoInvalidStatus` | `NoInvalidDataPassedAsValid` | from the former: only `PollValid` reports `DQ_CALLOUT` (`ValidReportIsPollValid`), its guard is that all messages are ok |
| `ModalAlwaysNamesItems` | `ModalNamesItems` | `ModalInv`: adds that a list of wrong number types is never hidden, whether the modal is open or not; without it an answer that comes while the modal is open could not be handled |
| `IntervalReportsOnce` | `OneAutomaticReport` | `ReportInv`: adds that no report is of a later round and that, while the interval runs, the current round has no report but the user's; the property alone says nothing about the interval and is not inductive |

The lemmas say what an answer does to the lists (`EmailAnswerLists`,
`PhoneAnswerLists`), who can report (`OnlyReportsPass`) and that a report keeps
the types and `ReportInv`.

`ContactCreateFormProofs`, for every set of inputs, any number of rounds and any
number of late answers. These five need nothing of the order of the answers; the
invariants of the last three are about the time before saves overlap, as the
properties are:

| Theorem | Property | Inductive invariant |
|---|---|---|
| `FormTypeCorrect` | `TypeOK` | `FormInv`: adds `BeforeSave`, that before the first save nothing is on its way, mounted or warned of, and that a warning comes with the outcome of the record refused |
| `PopupOfMessages` | `PopupHasContent` | `FormInv`, which has the popup of the open form |
| `OneRoundAtATime` | `RoundsDoNotOverlap` | `RoundInv`: from the click of Save to the report or the user's answer the spinner covers the form and nothing is on its way to the server, at most one interval waits and one polls, and a round that waits for the component finds it idle; the property is about the step that starts a round and says nothing of the wait before it |
| `ToastIsOfItsRecord` | `ToastTellsOutcome` | `VerdictInv` with `RoundInv`: the record on its way, or that of the warning shown, ended with `DQ_CALLOUT`, or the form does not remember `DQ_CALLOUT`; a round that ends while another record is out would break it, and so would a warning that survives a round |
| `NewFormIfAsked` | `NewFormWhenAsked` | `ButtonsInv`: every record on its way was sent for the button `lastClicked` names, and `whichButtonWasClicked`, which a warning resets, does not contradict it; the property compares the button of the record with the two variables the form looks at |

`DQPromptProofs` is about rounds whose answers are not late (`MaxLate = 0`). Its
inductive invariant is `PromptInv`: every callout out is one of the current round
and of the form it was started with (`CurrentCalls`), nothing of the round has
happened before the switches are known (`MetadataFirst`), a field whose callout is
out is neither listed nor failed, and if its flag is set its sibling has failed
(`UnsettledFields`), the failure of a primary field stands in its message
(`FailuresKept`), and the message of a listed field is "invalid" unless its
sibling has failed (`ListedFlagged`).

| Theorem | Property | Argument |
|---|---|---|
| `NoItemTwice` | `NoItemListedTwice` | part of `PromptInv`: a callout settles once, and a listed field has none out |
| `ValidMeansComplete` | `ValidOnlyWhenComplete` | `PollValid` needs all messages ok; a flag set by the failure of a sibling goes with a message that is not |
| `PrimaryFailureKept` | `PrimaryFailureReported` | `FailuresKept` against the same guard |
| `ImplementsProtocol` | `ImplementsOutcome` | `ModalFirm`: while the user is asked, some message is "invalid" that no callout out can change, so that the interval cannot report behind the modal; this needs one pair at a time |

`DQHostProofs` carries these over to the component as a form mounts it, whose
form, rounds and instance are the host's: the types, `PromptInv`, and
`VerifiedInv`, that a status is about the text `verified` names.

The forms, for prompt answers, and, all but `SavedStatusesOwn`, for one pair at a
time. `PromptForm` says that the mounted component is in `HostPrompt` and that none
of its callouts is out while the form waits to call it; a form in which a round
waits has given the last one back. In the create form this ends where saves
overlap.

| Module and theorem | Property | Inductive invariant, with the types and `PromptForm` |
|---|---|---|
| `ContactCreateFormProofs` | | |
| `SavedStatusesOwn` | `SavedStatusesAreTheirOwn` | `OwnInv`, also for saves that overlap: the callouts out are about the texts of the round (`CallsAboutForm`), the statuses the submitted data hold are about their own texts (`OwnDetail`), and data that wait for the component while callouts are out have the texts of those (`SameTexts`); a create is sent with the texts of the round just reported |
| `CreatesOneAtATime` | `OneCreateAtATime` | `CreateInv`: at most one create is out, nobody is told anything while a round is on, and a form that is usable under a create shows no warning, so that Continue to Save cannot send another; with `AskedInv` (what can be asked about) and `FirmInv` (`ModalFirm`), without which a report could come behind a modal the user answers |
| `KeepsSavePromise` | `ImplementsSave` | the same; each action maps to a step of `ContactSave` or to a stutter |
| `ContactRecordDetailsProofs` | | |
| `FormTypeCorrect` (any number of late answers, both pairs) | `TypeOK` | `FormInv` |
| `UpdatedStatusesOwn` | `UpdatedStatusesAreTheirOwn` | `DetailInv`: the data of the last validated save, from which Continue to Save sends, have the texts of the last round, but for the address |
| `ValidatedToast` | `ValidatedToastIsTrue` | `ValidatedInv`: while the form remembers `DQ_CALLOUT`, the data of its last report are settled, of that outcome and without an invalid status (`CleanDetail`), and so are the updates on their way, but for the exception (`CleanUpdates`); a warning over data no report has come for was left there by Save & New (`WarningInv`) |
| `AsksAboutChanges` | `QuestionsAreAboutChanges` | `FirmInv` (`KnownInv`: the texts on screen and in the round are texts a contact can have; `AskedInv`: no round is about all four fields; `ModalFirm`) and `ChangesInv`: the form of the round differs from the stored record in the fields asked for |
| `SpinnerCovers` | `SpinnerCoversUpdate` | `UpdateInv`: one update is out at a time, under the spinner of the open form, and a save that was validated does not remember Continue to Save |
| `KeepsSavePromise` | `ImplementsSave` | the same |

`PopupOfMessages` of the edit form (`PopupHasContent`) holds for any number of
late answers: each handler that takes the last message away closes the popup.

`GlobalProfileDataProofs`: `SortsByDate`, that the hand-written sort returns a
list of the same points from the latest to the oldest, for lists of every
length. The loop is a fold; `FoldExists` gives the function behind it and
`SetInduction` the induction over its range, both from the fact that a set of
numbers has a least element, since the induction theorems of the library take
an operator. `SortPassRuns` keeps `SortedUpTo` and `FrontLatest` along the two
loops. `AllDataRuns` and `AllDataKeeps` do the same for the loop that appends
the records of the org.

`GlobalProfileSearchProofs`, for every set of sources and users, every page size
and any number of searches in flight:

| Theorem | Property | Inductive invariant |
|---|---|---|
| `WindowsExclude` | `OneWindowAtATime` | itself: a window is opened by a handler of the page, which no window may cover then, or in the step that closes the one before |
| `PageIsOfTable` | `PageShown` | `PageInv`: as long as searches do not overlap, the one in flight has found the page reset and the table hidden, and `totalPage` is the number of pages of the table; the property is not inductive, since the answer builds the table on the page it finds |
| `CreatesChosenProfile` | `FormIsOfChosenProfile` | `ChoiceInv`: while the wizard is at the object selection the row remembered is, on the current page, that of the profile clicked; afterwards the data are that profile's |
| `SearchTypeCorrect` | `TypeOK` | `FieldsInv` (flags, counters and the data handed to the form) with `PageInv` and `DataInv` |
| `ListsRecordsOnce` | `NoRecordListedTwice` | `DataInv`: the table is that of one answer, `AllData` of a source, and the rows of the page and the profile clicked are profiles of such an answer; for sources in which C360 has merged a record into one individual (`MergedOnce`); that the loop over the records of the org appends none twice is `AllDataKeeps` |
| `FillsInLatest` | `AutofillIsLatest` | `ChoiceInv` and `DataInv` with `SortsByDate`: of sorted points the first of a type is the latest of it (`FirstIsLatest`) |

They rest on lemmas about pages (`SliceRows`, `PagesHaveRows`, `MinOfThree`).

`AdoptProfileProofs`, for every set of fields, texts and profiles and any number
of loads and adoptions in flight:

| Theorem | Property | Inductive invariant |
|---|---|---|
| `TypeCorrect` | `TypeOK` | itself |
| `AdoptsWhatWasChecked` | `SelectionIsChoice` | itself with `TypeOK` |
| `SuccessMeansSaved` | `ToastTellsOutcome` | `ToastInv`: adds the same of the answers not yet received |

The assumptions are those the modules state about their constants
(`FormsAssumption` and the like), which TLC evaluates for each instance, and the
hypotheses a theorem names:

* `MaxLate = 0`, that no answer of a round comes after the next one has started;
  `dq_late` and `form_late` check what survives without it, and the theorems
  that do not name it hold for any number of late answers.
* One pair at a time, as said under Runs.
* `MergedOnce`, that C360 gives a source record to one individual, and once: its
  purpose is to merge records. Without it the table shows what C360 answers.

Every invariant, action property and refinement that a run shows to hold has a
theorem. Only model-checked: liveness (`FirstRoundSettles`, `SpinnerEnds` of the
forms and of the search, `WaitEnds`), which is out of this prover's reach, and
the violations of the runs that expect one.

## Not modelled

* The page: layout sections, picklists, defaults, map markers, links,
  the compact view.
* Timers that only delay: the 2.5 s spinner at the start of the create form, the
  1.5 s before the reload after an update.
* An exception thrown inside `handleSubmit`, which leaves the spinner on.
* The Apex side: each method answers, answers with an error, or is rejected.
* An answer of a service with both `statusDescription` and `exceptionMessage`: a
  service answers with a status, with an exception, or with neither.
* The two wires of `getObjectInfo` of the search page answer in one step
  (`ObjectInfoArrives`).
* Of the search: the number of the party and the links a row shows, and
  `navigateToRecord`. The search box of `globalSearch` is commented out of its
  template; its wizard is that of `globalProfileDataComponent`.
* Of the adoption: `oneview` and `CDP_DisplayUnifiedProfile`, which repeat the
  component and its controller for another data source, and the conversion of the
  profile into lists.
* `contactDetails`, the predecessor of the edit form with a validation of its own.
* Most of the tree. The lines of the implementation are for the most part
  vendored code: a copy of webpack, lodash, marked, an HTML converter, metadata
  caches. None of it is part of this program, and the map leaves it out; the
  program's own state is in the components above, the rest are views, request
  builders and conversions, each with its reason in `PROJECT.json`.

## Disagreements that are hazards only

Behaviour the models show and no run is about; each is in `PROJECT.json` at its
line, with a note.

* `isCreateButtonAvailableToUser` becomes false when an answer comes before the
  object infos, and nothing sets it to true again: Create New stays away from a
  user who may create.
* The `SaveResult` of a lead is not looked at, so that a refused update is
  reported as Success.
* Refresh replaces the profile under a selection of indices: what is adopted is
  not what was checked.
* The answers of two searches in flight are applied as they come.
* With both e-mails and both phones the interval can report behind the modal
  (see Runs).
* After No a second save creates the contact a second time (see Saves that
  overlap).
* In the edit form a record can be called validated that was not: Save ends with
  `DQ_CALLOUT` and a duplicate warning; Save & New, which does not clear the
  warning, starts a round that finds the data invalid; the user answers Yes, and
  Continue to Save, still offered, sends the data of that unfinished save under
  the verdict of the first. The comment at `contactRecordDetails.js:669` says
  "show success message only if data is valid". `ValidatedToastIsTrue` names this
  case as its one exception, and is violated without it.
* A profile known as a readable account of this org is offered Create New: only
  contacts and leads are looked up (`GlobalProfileData.cls:609-625`).
* A log that throws after a saved adoption makes the toast an error
  (`DisplayGlobalProfileController.cls:443`); `ToastTellsOutcome` of the adoption
  is about Success only.
* The edit form of this repository, with a service switched off, stores a new text
  beside the status of the old one (`dQValidation.js:99-107`); an adoption blanks
  the status, so the two writers of a record do not agree on what a status is
  about.

## Plan

What would come next, in this order:

1. An instance of the forms with both pairs, once the properties named under
   "One pair at a time" have a form that holds there.
2. `contactDetails`, against `ContactSave`.
3. Proofs: what survives of `SavedStatusesOwn` and `CreatesOneAtATime` when
   answers are late; the invariants of both pairs once item 1 has them.
4. `oneview` as an instance of `AdoptProfile` with the data source of
   `CDP_DisplayUnifiedProfile`.
