---------------------- MODULE GlobalProfileSearchProofs ----------------------
(***************************************************************************)
(* Proofs about GlobalProfileSearch, for every size of a page, every set   *)
(* of sources and users, and any number of searches in flight.             *)
(***************************************************************************)
EXTENDS GlobalProfileSearch, GlobalProfileDataProofs

-----------------------------------------------------------------------------
(* The windows.                                                              *)

(* The search leaves the windows alone.                                      *)
LEMMA SearchKeepsWizard ==
  ASSUME \/ ObjectInfoArrives
         \/ \E key \in {"empty", "spaces", "text"} : handleSearchExpressionChange(key)
         \/ \E enter \in BOOLEAN : handleSearch(enter)
         \/ SearchSettles
         \/ previousHandler
         \/ nextHandler
  PROVE  UNCHANGED <<modals, globalprofileindex, contactData, chosen, at>>
BY DEF ObjectInfoArrives, handleSearchExpressionChange, handleSearch, SearchSettles,
   SearchAnswer, SearchRejected, previousHandler, nextHandler, Turn, wizard

(* What navigateContactCreation does to the windows.                         *)
LEMMA NavigationOpensOne ==
  ASSUME NEW row, navigateContactCreation(row),
         ~showRecordTypeModal, ~showContactCreateModal
  PROVE  ~(showRecordTypeModal' /\ showContactCreateModal')
BY DEF navigateContactCreation

(* Each way through the wizard shows one window at a time.                   *)
THEOREM WindowsExclude == Spec => []OneWindowAtATime
<1>1. Init => OneWindowAtATime
  BY DEF Init, OneWindowAtATime
<1>2. OneWindowAtATime /\ [Next]_vars => OneWindowAtATime'
  <2> SUFFICES ASSUME OneWindowAtATime, [Next]_vars PROVE OneWindowAtATime'
    OBVIOUS
  <2>1. ASSUME UNCHANGED <<showObjectSelectionModal, showRecordTypeModal,
                           showContactCreateModal>>
        PROVE  OneWindowAtATime'
    BY <2>1 DEF OneWindowAtATime
  <2>2. CASE \/ ObjectInfoArrives
             \/ \E key \in {"empty", "spaces", "text"} : handleSearchExpressionChange(key)
             \/ \E enter \in BOOLEAN : handleSearch(enter)
             \/ SearchSettles
             \/ previousHandler
             \/ nextHandler
    BY <2>1, <2>2, SearchKeepsWizard DEF modals
  <2>3. ASSUME NEW row \in 0..Len(globalProfileCurrentPage), openObjectSelectionModal(row)
        PROVE  OneWindowAtATime'
    <3>1. ~showObjectSelectionModal /\ ~showRecordTypeModal /\ ~showContactCreateModal
      BY <2>3 DEF openObjectSelectionModal, CanUsePage
    <3>2. CASE contactCreateAccess /\ leadCreateAccess
      BY <2>3, <3>1, <3>2 DEF openObjectSelectionModal, OneWindowAtATime
    <3>3. CASE contactCreateAccess /\ ~leadCreateAccess
      BY <2>3, <3>1, <3>3, NavigationOpensOne DEF openObjectSelectionModal, OneWindowAtATime
    <3>4. CASE ~contactCreateAccess /\ leadCreateAccess
      BY <2>3, <3>1, <3>4 DEF openObjectSelectionModal, navigateToLeadCreation,
         OneWindowAtATime
    <3> QED
      BY <2>3, <3>2, <3>3, <3>4 DEF openObjectSelectionModal
  <2>4. CASE navigateFromObjectModal
    <3>1. showObjectSelectionModal /\ ~showRecordTypeModal /\ ~showContactCreateModal
      BY <2>4 DEF navigateFromObjectModal, OneWindowAtATime
    <3>2. CASE selectedObject = "Contact"
      BY <2>4, <3>1, <3>2, NavigationOpensOne
         DEF navigateFromObjectModal, closeObjectModal, OneWindowAtATime
    <3>3. CASE selectedObject = "Lead"
      BY <2>4, <3>1, <3>3 DEF navigateFromObjectModal, navigateToLeadCreation,
         OneWindowAtATime
    <3> QED
      BY <2>4, <3>2, <3>3 DEF navigateFromObjectModal
  <2>5. ASSUME NEW object \in {"Contact", "Lead"}, handleObjectSelection(object)
        PROVE  OneWindowAtATime'
    BY <2>1, <2>5 DEF handleObjectSelection, modals
  <2>6. ASSUME NEW type \in user.types, handleRecordType(type) PROVE OneWindowAtATime'
    BY <2>1, <2>6 DEF handleRecordType
  <2>7. CASE handleCancel \/ handleRecordTypeNext
    BY <2>7 DEF handleCancel, handleRecordTypeNext, OneWindowAtATime
  <2>8. CASE closeRecordTypeModal \/ closeContactCreateModal
    <3>1. ~showRecordTypeModal'
      BY <2>8 DEF closeRecordTypeModal, closeContactCreateModal
    <3>2. CASE closeRecordTypeModal
      <4>1. showContactCreateModal' = showContactCreateModal /\ showRecordTypeModal
        BY <3>2 DEF closeRecordTypeModal
      <4> QED
        BY <3>1, <4>1 DEF OneWindowAtATime
    <3>3. CASE closeContactCreateModal
      <4>1. ~showContactCreateModal'
        BY <3>3 DEF closeContactCreateModal
      <4> QED
        BY <3>1, <4>1 DEF OneWindowAtATime
    <3> QED
      BY <2>8, <3>2, <3>3
  <2>9. CASE ContactCreated \/ checkForMultipleRecordTypeAccess \/ UNCHANGED vars
    BY <2>1, <2>9 DEF ContactCreated, checkForMultipleRecordTypeAccess, vars, wizard, modals
  <2> QED
    BY <2>2, <2>3, <2>4, <2>5, <2>6, <2>7, <2>8, <2>9 DEF Next
<1> QED
  BY <1>1, <1>2, PTL DEF Spec

-----------------------------------------------------------------------------
(* The page.                                                                 *)

(* displayRecordPerPage takes the least of three bounds.                     *)
LEMMA MinOfThree ==
  ASSUME NEW a \in Int, NEW b \in Int, NEW c \in Int
  PROVE  /\ Min({a, b, c}) \in {a, b, c}
         /\ Min({a, b, c}) <= a /\ Min({a, b, c}) <= b /\ Min({a, b, c}) <= c
<1>1. \E x \in {a, b, c} : \A y \in {a, b, c} : x <= y
  OBVIOUS
<1>2. Min({a, b, c}) \in {a, b, c} /\ \A y \in {a, b, c} : Min({a, b, c}) <= y
  BY <1>1 DEF Min
<1> QED
  BY <1>2

(* Every page up to the last has a first row, and there is a page if there   *)
(* is a row: Math.ceil(count / pageSize).                                    *)
LEMMA PagesHaveRows ==
  ASSUME NEW n \in Nat, NEW d \in Nat \ {0}, NEW p \in Nat \ {0}
  PROVE  /\ (n + d - 1) \div d \in Nat
         /\ n > 0 => (n + d - 1) \div d >= 1
         /\ p <= (n + d - 1) \div d => (p - 1) * d < n
<1> DEFINE q == (n + d - 1) \div d
<1>1. q \in Int /\ d * q <= n + d - 1 /\ n + d - 1 < d * q + d
  BY Z3
<1>2. q >= 0 /\ (n > 0 => q >= 1)
  BY <1>1, Z3
<1>3. p <= q => (p - 1) * d < n
  BY <1>1, Z3
<1> QED
  BY <1>1, <1>2, <1>3, Z3

(* A page that exists has rows, and its rows are those the wizard looks up.  *)
LEMMA SliceRows ==
  ASSUME NEW profiles, profiles \in Seq(Range(profiles)), profiles # <<>>,
         NEW p \in Nat \ {0}, p <= (Len(profiles) + pageSize - 1) \div pageSize
  PROVE  /\ Slice(profiles, p, Len(profiles)) # <<>>
         /\ \A row \in 1..Len(Slice(profiles, p, Len(profiles))) :
                /\ pageSize * (p - 1) + row \in 1..Len(profiles)
                /\ Slice(profiles, p, Len(profiles))[row] = profiles[pageSize * (p - 1) + row]
<1> DEFINE n == Len(profiles)
           m == p * pageSize
           end == Min({m, n, n})
           s == SubSeq(profiles, (p - 1) * pageSize + 1, end)
<1>1. n \in Nat \ {0} /\ pageSize \in Nat \ {0}
  BY PageSizeAssumption
<1>2. m \in Int /\ (p - 1) * pageSize \in Nat
  BY <1>1, Z3
<1>3. end \in {m, n} /\ end <= n
  <2> HIDE DEF m, n
  <2>1. m \in Int /\ n \in Int
    BY <1>1, <1>2
  <2> QED
    BY <2>1, MinOfThree
<1>4. (p - 1) * pageSize < n
  BY <1>1, PagesHaveRows
<1>5. (p - 1) * pageSize + 1 <= m
  BY <1>1, Z3
<1>6. Slice(profiles, p, Len(profiles)) = s
  BY DEF Slice
<1> HIDE DEF end
<1>7. (p - 1) * pageSize + 1 <= end /\ end \in Int
  BY <1>1, <1>2, <1>3, <1>4, <1>5
<1>8. s # <<>>
  BY <1>1, <1>2, <1>3, <1>7
<1>9. \A row \in 1..Len(s) : /\ pageSize * (p - 1) + row \in 1..Len(profiles)
                             /\ s[row] = profiles[pageSize * (p - 1) + row]
  BY <1>1, <1>3, <1>7, SMT
<1> QED
  BY <1>6, <1>8, <1>9

(* What Apex answers is the data of a source, or nothing.                    *)
LEMMA AnswersAreData ==
  ASSUME NEW result \in AllAnswers
  PROVE  \/ result.allData = <<>>
         \/ \E source \in Sources : result.allData = AllData(source)
<1>1. PICK source \in Sources : result \in Answers(source)
  BY DEF AllAnswers
<1>2. \/ result = TimedOut \/ result = Failed
      \/ result = [allData |-> AllData(source), exceptionMessage |-> "none"]
  BY <1>1 DEF Answers
<1>3. TimedOut.allData = <<>> /\ Failed.allData = <<>>
  BY DEF TimedOut, Failed
<1>4. \/ result.allData = <<>>
      \/ result.allData = AllData(source)
  <2> DEFINE data == AllData(source)
  <2>1. \/ result = TimedOut \/ result = Failed
        \/ result = [allData |-> data, exceptionMessage |-> "none"]
    BY <1>2
  <2> HIDE DEF data
  <2>2. result.allData = <<>> \/ result.allData = data
    BY <1>3, <2>1
  <2> QED
    BY <2>2 DEF data
<1> QED
  BY <1>4

LEMMA AnswersAreLists ==
  ASSUME NEW result \in AllAnswers
  PROVE  result.allData \in Seq(Range(result.allData)) /\ result.allData # Null
<1>1. CASE result.allData = <<>>
  BY <1>1, NullAssumption
<1>2. CASE result.allData # <<>>
  <2>1. PICK source \in Sources : result.allData = AllData(source)
    BY <1>2, AnswersAreData
  <2>2. AllData(source) \in Seq(Profiles(source))
    BY SourcesAssumption, AllDataIsList DEF IsSource
  <2>3. \A list \in Seq(Profiles(source)) : list \in Seq(Range(list))
    BY DEF Range
  <2> QED
    BY <2>1, <2>2, <2>3, NullAssumption
<1> QED
  BY <1>1, <1>2

(* Unless searches overlapped: the one in flight has found the page reset,   *)
(* and what is shown is a page of the profiles it answered with.             *)
PageInv ==
    /\ page \in Nat \ {0} /\ {inFlight, totalPage, totalRecountCount} \subseteq Nat
    /\ ~overlapped =>
          /\ inFlight <= 1
          /\ inFlight = 1 => page = 1 /\ ~displayGlobalProfileTable
          /\ displayGlobalProfileTable =>
                /\ globalProfiles # Null
                /\ globalProfiles \in Seq(Range(globalProfiles))
                /\ globalProfiles # <<>>
                /\ totalRecountCount = Len(globalProfiles)
                /\ totalPage = (totalRecountCount + pageSize - 1) \div pageSize
                /\ page <= totalPage
                /\ globalProfileCurrentPage = Slice(globalProfiles, page, Len(globalProfiles))

LEMMA PageInvShows == PageInv => PageShown
<1> SUFFICES ASSUME PageInv, displayGlobalProfileTable, ~overlapped
             PROVE  /\ page \in 1..totalPage
                    /\ globalProfileCurrentPage # <<>>
                    /\ globalProfileCurrentPage =
                          Slice(globalProfiles, page, Len(globalProfiles))
  BY DEF PageShown
<1>1. globalProfiles \in Seq(Range(globalProfiles)) /\ globalProfiles # <<>>
  BY DEF PageInv
<1>2. page \in Nat \ {0} /\ page <= (Len(globalProfiles) + pageSize - 1) \div pageSize
  BY DEF PageInv
<1> QED
  BY <1>1, <1>2, SliceRows DEF PageInv

LEMMA PageInvHolds == Spec => []PageInv
<1>1. Init => PageInv
  BY DEF Init, PageInv
<1>2. PageInv /\ [Next]_vars => PageInv'
  <2> SUFFICES ASSUME PageInv, [Next]_vars PROVE PageInv'
    OBVIOUS
  <2>1. ASSUME UNCHANGED search PROVE PageInv'
    BY <2>1 DEF PageInv, search, Slice
  <2>2. ASSUME NEW key \in {"empty", "spaces", "text"}, handleSearchExpressionChange(key)
        PROVE  PageInv'
    <3>1. CASE key = "empty"
      BY <2>2, <3>1 DEF handleSearchExpressionChange, PageInv
    <3>2. CASE key # "empty"
      BY <2>2, <3>2 DEF handleSearchExpressionChange, PageInv, Slice
    <3> QED
      BY <3>1, <3>2
  <2>3. ASSUME NEW enter \in BOOLEAN, handleSearch(enter) PROVE PageInv'
    <3>1. /\ page' = 1 /\ displayGlobalProfileTable' = FALSE
          /\ totalPage' = 0 /\ totalRecountCount' = 0
      BY <2>3 DEF handleSearch, resetAll
    <3>2. CASE searchKey = "undefined"
      BY <2>3, <3>1, <3>2 DEF handleSearch, PageInv
    <3>3. CASE searchKey # "undefined"
      <4>1. inFlight' = inFlight + 1 /\ (~overlapped' => ~(inFlight > 0))
        BY <2>3, <3>3 DEF handleSearch
      <4>2. inFlight' \in Nat /\ (~overlapped' => inFlight' <= 1)
        BY <4>1 DEF PageInv
      <4> QED
        BY <3>1, <4>2 DEF PageInv
    <3> QED
      BY <3>2, <3>3
  <2>4. ASSUME NEW result \in AllAnswers, SearchAnswer(result) PROVE PageInv'
    <3>1. /\ inFlight > 0 /\ inFlight' = inFlight - 1
          /\ page' = page /\ overlapped' = overlapped
          /\ \/ totalRecountCount' = totalRecountCount
             \/ totalRecountCount' = Len(result.allData)
          /\ totalPage' = (totalRecountCount' + pageSize - 1) \div pageSize
      BY <2>4 DEF SearchAnswer
    <3>2. /\ page' \in Nat \ {0} /\ inFlight' \in Nat
          /\ ~overlapped' => inFlight' <= 1 /\ inFlight' # 1
      BY <3>1 DEF PageInv
    <3>3. totalRecountCount' \in Nat
      BY <3>1, AnswersAreLists DEF PageInv
    <3>4. totalPage' \in Nat
      BY <3>1, <3>3, PagesHaveRows, PageSizeAssumption
    <3>5. ASSUME ~overlapped', displayGlobalProfileTable'
          PROVE  /\ globalProfiles' # Null
                 /\ globalProfiles' \in Seq(Range(globalProfiles'))
                 /\ globalProfiles' # <<>>
                 /\ totalRecountCount' = Len(globalProfiles')
                 /\ page' <= totalPage'
                 /\ globalProfileCurrentPage' =
                       Slice(globalProfiles', page', Len(globalProfiles'))
      <4>1. page = 1
        BY <3>1, <3>5 DEF PageInv
      <4>2. /\ result.allData # <<>>
            /\ globalProfiles' = result.allData
            /\ totalRecountCount' = Len(result.allData)
            /\ displayRecordPerPage(result.allData, page, Len(result.allData))
        BY <2>4, <3>5 DEF SearchAnswer
      <4>3. result.allData \in Seq(Range(result.allData)) /\ result.allData # Null
        BY AnswersAreLists
      <4>4. Len(result.allData) > 0
        BY <4>2, <4>3
      <4>5. totalPage' >= 1
        BY <3>1, <3>3, <4>2, <4>4, PagesHaveRows, PageSizeAssumption
      <4> QED
        BY <3>1, <3>4, <4>1, <4>2, <4>3, <4>5 DEF displayRecordPerPage
    <3> QED
      BY <3>1, <3>2, <3>3, <3>4, <3>5 DEF PageInv, Slice
  <2>5. CASE SearchRejected
    BY <2>5 DEF SearchRejected, PageInv
  <2>6. ASSUME NEW to \in Nat \ {0}, Turn(to), to <= totalPage \/ to <= page PROVE PageInv'
    <3>1. /\ displayGlobalProfileTable
          /\ page' = to
          /\ displayRecordPerPage(globalProfiles, to, totalRecountCount)
          /\ UNCHANGED <<inFlight, globalProfiles, totalPage, totalRecountCount,
                         displayGlobalProfileTable, overlapped>>
      BY <2>6 DEF Turn
    <3>2. CASE overlapped
      BY <2>6, <3>1, <3>2 DEF PageInv
    <3>3. CASE ~overlapped
      <4>1. inFlight # 1 /\ globalProfiles # Null /\ page <= totalPage
            /\ totalRecountCount = Len(globalProfiles)
        BY <3>1, <3>3 DEF PageInv
      <4>2. globalProfileCurrentPage' = Slice(globalProfiles, to, Len(globalProfiles))
        BY <3>1, <4>1 DEF displayRecordPerPage
      <4>3. to <= totalPage
        BY <2>6, <4>1 DEF PageInv
      <4> QED
        BY <2>6, <3>1, <3>3, <4>1, <4>2, <4>3 DEF PageInv, Slice
    <3> QED
      BY <3>2, <3>3
  <2>7. CASE previousHandler
    BY <2>6, <2>7 DEF previousHandler, PageInv
  <2>8. CASE nextHandler
    BY <2>6, <2>8 DEF nextHandler, PageInv
  <2>9. CASE \/ ObjectInfoArrives \/ handleCancel \/ navigateFromObjectModal
             \/ handleRecordTypeNext \/ closeRecordTypeModal \/ closeContactCreateModal
             \/ ContactCreated \/ checkForMultipleRecordTypeAccess \/ UNCHANGED vars
    BY <2>1, <2>9 DEF ObjectInfoArrives, handleCancel, navigateFromObjectModal,
       handleRecordTypeNext, closeRecordTypeModal, closeContactCreateModal,
       ContactCreated, checkForMultipleRecordTypeAccess, vars
  <2>10. ASSUME NEW row \in 0..Len(globalProfileCurrentPage), openObjectSelectionModal(row)
         PROVE  PageInv'
    BY <2>1, <2>10 DEF openObjectSelectionModal
  <2>11. ASSUME NEW object \in {"Contact", "Lead"}, handleObjectSelection(object)
         PROVE  PageInv'
    BY <2>1, <2>11 DEF handleObjectSelection
  <2>12. ASSUME NEW type \in user.types, handleRecordType(type) PROVE PageInv'
    BY <2>1, <2>12 DEF handleRecordType
  <2> QED
    BY <2>2, <2>3, <2>4, <2>5, <2>7, <2>8, <2>9, <2>10, <2>11, <2>12
       DEF Next, SearchSettles
<1> QED
  BY <1>1, <1>2, PTL DEF Spec

(* The page on screen exists, has rows, and has all of them.                 *)
THEOREM PageIsOfTable == Spec => []PageShown
BY PageInvHolds, PageInvShows, PTL

-----------------------------------------------------------------------------
(* The profile.                                                              *)

InWizard == \/ showObjectSelectionModal \/ showRecordTypeModal
            \/ showContactCreateModal \/ at = "away"

DataShape == DOMAIN contactData = {"id", "fill", "typeId", "typeName"}

(* While the wizard works on a row, the row still is the chosen profile.     *)
RowIsChosen ==
    ~overlapped /\ chosen # Null /\ InWizard =>
        /\ inFlight = 0
        /\ globalprofileindex # 0
        /\ CanMap(globalprofileindex)
        /\ chosen = globalProfiles[RowOnPage(globalprofileindex)]

DataIsChosen ==
    Creating => /\ contactData.id = chosen.id
                /\ contactData.fill = Autofill(chosen)

ChoiceInv == DataShape /\ RowIsChosen /\ DataIsChosen

(* The mapping copies the row it is given.                                   *)
LEMMA MappedIsRow ==
  ASSUME DataShape, NEW row, row # 0
  PROVE  /\ DOMAIN Mapped(row) = {"id", "fill", "typeId", "typeName"}
         /\ Mapped(row).id = globalProfiles[RowOnPage(row)].id
         /\ Mapped(row).fill = Autofill(globalProfiles[RowOnPage(row)])
<1> DEFINE fill == Autofill(globalProfiles[RowOnPage(row)])
           id == globalProfiles[RowOnPage(row)].id
<1> HIDE DEF fill, id
<1>1. Mapped(row) = [contactData EXCEPT !.id = id, !.fill = fill]
  BY DEF Mapped, fill, id
<1>2. /\ Mapped(row).id = id /\ Mapped(row).fill = fill
      /\ DOMAIN Mapped(row) = DOMAIN contactData
  BY <1>1 DEF DataShape
<1> QED
  BY <1>2 DEF DataShape, fill, id

LEMMA MappedHasShape ==
  ASSUME DataShape, NEW row
  PROVE  DOMAIN Mapped(row) = {"id", "fill", "typeId", "typeName"}
<1>1. CASE row = 0
  BY <1>1 DEF Mapped, DataShape
<1>2. CASE row # 0
  BY <1>2, MappedIsRow
<1> QED
  BY <1>1, <1>2

(* Going on with a row copies it, or shows nothing new.                      *)
LEMMA GoingOnCopies ==
  ASSUME NEW row, navigateContactCreation(row) \/ navigateToLeadCreation(row)
  PROVE  \/ contactData' = Mapped(row)
         \/ UNCHANGED <<contactData, showRecordTypeModal, showContactCreateModal>>
BY DEF navigateContactCreation, navigateToLeadCreation

(* A row that can be clicked is its profile, on every page.                  *)
LEMMA RowOnScreen ==
  ASSUME PageInv, displayGlobalProfileTable, ~overlapped,
         NEW row \in 1..Len(globalProfileCurrentPage)
  PROVE  /\ inFlight = 0
         /\ row # 0
         /\ CanMap(row)
         /\ globalProfileCurrentPage[row] = globalProfiles[RowOnPage(row)]
<1>1. /\ globalProfiles # Null
      /\ globalProfiles \in Seq(Range(globalProfiles)) /\ globalProfiles # <<>>
      /\ globalProfileCurrentPage = Slice(globalProfiles, page, Len(globalProfiles))
  BY DEF PageInv
<1>2. page \in Nat \ {0} /\ page <= (Len(globalProfiles) + pageSize - 1) \div pageSize
  BY DEF PageInv
<1>3. /\ RowOnPage(row) \in 1..Len(globalProfiles)
      /\ globalProfileCurrentPage[row] = globalProfiles[RowOnPage(row)]
  BY <1>1, <1>2, SliceRows DEF RowOnPage
<1>4. RowOnPage(row) <= Len(globalProfiles)
  BY <1>3, <1>1
<1>5. inFlight = 0
  BY DEF PageInv
<1>6. row # 0
  OBVIOUS
<1> QED
  BY <1>1, <1>3, <1>4, <1>5, <1>6 DEF CanMap

LEMMA ChoiceInvKept ==
  ASSUME PageInv, OneWindowAtATime, ChoiceInv, [Next]_vars
  PROVE  ChoiceInv'
<1>1. ASSUME UNCHANGED <<search, wizard, at>> PROVE ChoiceInv'
  BY <1>1 DEF ChoiceInv, DataShape, RowIsChosen, DataIsChosen, InWizard, Creating,
     CanMap, RowOnPage, search, wizard, modals
<1>2. ASSUME UNCHANGED <<modals, contactData, at>>, CanUsePage PROVE ChoiceInv'
  BY <1>2 DEF ChoiceInv, DataShape, RowIsChosen, DataIsChosen, InWizard, Creating,
     CanUsePage, modals
<1>3. CASE \/ \E key \in {"empty", "spaces", "text"} : handleSearchExpressionChange(key)
           \/ \E enter \in BOOLEAN : handleSearch(enter)
           \/ previousHandler \/ nextHandler
  <2>1. CanUsePage
    BY <1>3 DEF handleSearchExpressionChange, handleSearch, previousHandler, nextHandler, Turn
  <2> QED
    BY <1>2, <1>3, <2>1, SearchKeepsWizard
<1>4. CASE SearchSettles
  <2>1. UNCHANGED <<modals, globalprofileindex, contactData, chosen, at>>
    BY <1>4, SearchKeepsWizard
  <2>2. inFlight > 0 /\ overlapped' = overlapped
    BY <1>4 DEF SearchSettles, SearchAnswer, SearchRejected
  <2>3. inFlight # 0
    BY <2>2
  <2>4. UNCHANGED InWizard /\ UNCHANGED Creating
    BY <2>1, <2>2 DEF InWizard, Creating, modals
  <2>5. RowIsChosen' /\ ~(~overlapped /\ chosen # Null /\ InWizard)
    BY <2>1, <2>2, <2>3, <2>4 DEF ChoiceInv, RowIsChosen
  <2>6. ~Creating
    BY <2>5 DEF Creating, InWizard
  <2> QED
    BY <2>1, <2>4, <2>5, <2>6 DEF ChoiceInv, DataShape, DataIsChosen
\* A step of the wizard that keeps the search, the row and the choice.
<1>5. ASSUME UNCHANGED <<search, globalprofileindex, chosen>>, InWizard,
             DataShape',
             Creating' => \/ Creating /\ contactData'.id = contactData.id
                                     /\ contactData'.fill = contactData.fill
                          \/ contactData' = Mapped(globalprofileindex)
      PROVE  ChoiceInv'
  <2>1. UNCHANGED <<overlapped, inFlight, globalProfiles, page>>
    BY <1>5 DEF search
  <2>2. RowIsChosen'
    BY <1>5, <2>1 DEF ChoiceInv, RowIsChosen, CanMap, RowOnPage
  <2>3. ASSUME Creating' PROVE contactData'.id = chosen.id /\ contactData'.fill = Autofill(chosen)
    <3>1. ~overlapped /\ chosen # Null
      BY <1>5, <2>1, <2>3 DEF Creating
    <3>2. /\ globalprofileindex # 0
          /\ chosen = globalProfiles[RowOnPage(globalprofileindex)]
      BY <1>5, <3>1 DEF ChoiceInv, RowIsChosen
    <3>3. CASE contactData' = Mapped(globalprofileindex)
      BY <3>2, <3>3, MappedIsRow DEF ChoiceInv
    <3>4. CASE Creating /\ contactData'.id = contactData.id /\ contactData'.fill = contactData.fill
      BY <3>4 DEF ChoiceInv, DataIsChosen
    <3> QED
      BY <1>5, <2>3, <3>3, <3>4
  <2>4. chosen' = chosen
    BY <1>5
  <2>5. DataIsChosen'
    BY <2>3, <2>4 DEF DataIsChosen
  <2> QED
    BY <1>5, <2>2, <2>5 DEF ChoiceInv
<1>6. ASSUME NEW row \in 0..Len(globalProfileCurrentPage), openObjectSelectionModal(row)
      PROVE  ChoiceInv'
  <2>1. /\ CanUsePage
        /\ globalprofileindex' = row
        /\ UNCHANGED search
    BY <1>6 DEF openObjectSelectionModal
  <2>2. \/ UNCHANGED <<contactData, showRecordTypeModal, showContactCreateModal, at>>
        \/ contactData' = Mapped(row)
        \/ UNCHANGED <<modals, contactData, at>>
    BY <1>6 DEF openObjectSelectionModal, navigateContactCreation,
       navigateToLeadCreation, modals
  <2>3. DataShape'
    BY <2>2, MappedHasShape DEF ChoiceInv, DataShape
  <2>4. CASE row = 0
    <3>1. chosen' = Null
      BY <1>6, <2>4 DEF openObjectSelectionModal
    <3> QED
      BY <2>3, <3>1 DEF ChoiceInv, RowIsChosen, DataIsChosen, Creating
  <2>5. CASE row # 0
    <3>1. /\ chosen' = globalProfileCurrentPage[row]
          /\ displayGlobalProfileTable
      BY <1>6, <2>5 DEF openObjectSelectionModal
    <3>2. row \in 1..Len(globalProfileCurrentPage)
      BY <2>5
    <3>3. ~overlapped => /\ inFlight = 0
                         /\ CanMap(row)
                         /\ globalProfileCurrentPage[row] = globalProfiles[RowOnPage(row)]
      BY <3>1, <3>2, RowOnScreen
    <3>4. UNCHANGED <<overlapped, inFlight, globalProfiles, page>>
      BY <2>1 DEF search
    <3>5. RowIsChosen'
      BY <2>1, <2>5, <3>1, <3>3, <3>4 DEF RowIsChosen, CanMap, RowOnPage
    <3>6. ASSUME Creating' PROVE contactData' = Mapped(row)
      BY <2>1, <2>2, <3>6 DEF Creating, CanUsePage, modals
    <3>7. ASSUME Creating'
          PROVE  contactData'.id = (chosen').id /\ contactData'.fill = Autofill(chosen')
      <4>1. ~overlapped
        BY <3>4, <3>7 DEF Creating
      <4>2. chosen' = globalProfiles[RowOnPage(row)]
        BY <3>1, <3>3, <4>1
      <4> QED
        BY <2>5, <3>6, <3>7, <4>2, MappedIsRow DEF ChoiceInv
    <3>8. DataIsChosen'
      BY <3>7 DEF DataIsChosen
    <3> QED
      BY <2>3, <3>5, <3>8 DEF ChoiceInv
  <2> QED
    BY <2>4, <2>5
<1>7. CASE navigateFromObjectModal
  <2>1. UNCHANGED <<search, globalprofileindex, chosen>> /\ InWizard
    BY <1>7 DEF navigateFromObjectModal, InWizard
  <2>2. \/ contactData' = Mapped(globalprofileindex)
        \/ UNCHANGED <<contactData, showRecordTypeModal, showContactCreateModal, at>>
    BY <1>7 DEF navigateFromObjectModal, navigateContactCreation, navigateToLeadCreation
  <2>3. DataShape'
    BY <2>2, MappedHasShape DEF ChoiceInv, DataShape
  <2>4. Creating' => \/ contactData' = Mapped(globalprofileindex)
                     \/ Creating /\ contactData' = contactData
    BY <2>1, <2>2 DEF Creating, search
  <2> QED
    BY <1>5, <2>1, <2>3, <2>4
<1>8. ASSUME NEW object \in {"Contact", "Lead"}, handleObjectSelection(object)
      PROVE  ChoiceInv'
  <2>1. UNCHANGED <<search, globalprofileindex, chosen, modals, contactData, at>> /\ InWizard
    BY <1>8 DEF handleObjectSelection, InWizard
  <2> QED
    BY <1>5, <2>1 DEF ChoiceInv, DataShape, Creating, modals, search
<1>9. ASSUME NEW type \in user.types, handleRecordType(type) PROVE ChoiceInv'
  <2>1. /\ UNCHANGED <<search, globalprofileindex, chosen, showRecordTypeModal,
                       showContactCreateModal, contactData, at>>
        /\ InWizard
    BY <1>9 DEF handleRecordType, InWizard
  <2> QED
    BY <1>5, <2>1 DEF ChoiceInv, DataShape, Creating, search
<1>10. CASE handleCancel
  <2>1. /\ UNCHANGED <<search, globalprofileindex, chosen, showRecordTypeModal,
                       showContactCreateModal, contactData, at>>
        /\ InWizard
    BY <1>10 DEF handleCancel, InWizard
  <2> QED
    BY <1>5, <2>1 DEF ChoiceInv, DataShape, Creating, search
<1>11. CASE handleRecordTypeNext
  <2>1. /\ UNCHANGED <<search, globalprofileindex, chosen, at>>
        /\ showRecordTypeModal
        /\ contactData' = [contactData EXCEPT !.typeId = recordTypePage.id,
                                              !.typeName = recordTypePage.name]
    BY <1>11 DEF handleRecordTypeNext
  <2>2. DataShape' /\ contactData'.id = contactData.id /\ contactData'.fill = contactData.fill
    BY <2>1 DEF ChoiceInv, DataShape
  <2>3. Creating' => Creating
    BY <2>1 DEF Creating, search
  <2>4. InWizard
    BY <2>1 DEF InWizard
  <2> QED
    BY <1>5, <2>1, <2>2, <2>3, <2>4
<1>12. CASE closeRecordTypeModal \/ closeContactCreateModal
  <2>1. /\ UNCHANGED <<search, globalprofileindex, chosen, contactData, at>>
        /\ showRecordTypeModal \/ showContactCreateModal
    BY <1>12 DEF closeRecordTypeModal, closeContactCreateModal
  <2>2. Creating' => Creating
    BY <2>1 DEF Creating, search
  <2>3. InWizard /\ DataShape'
    BY <2>1 DEF InWizard, ChoiceInv, DataShape
  <2> QED
    BY <1>5, <2>1, <2>2, <2>3
<1>13. CASE ContactCreated
  <2>1. /\ UNCHANGED <<search, globalprofileindex, chosen, contactData>>
        /\ showContactCreateModal
    BY <1>13 DEF ContactCreated, wizard
  <2>2. Creating' => Creating
    BY <2>1 DEF Creating, search
  <2>3. InWizard /\ DataShape'
    BY <2>1 DEF InWizard, ChoiceInv, DataShape
  <2> QED
    BY <1>5, <2>1, <2>2, <2>3
<1>14. CASE checkForMultipleRecordTypeAccess
  <2>1. /\ UNCHANGED <<search, globalprofileindex, chosen, modals, at>>
        /\ \/ contactData' = contactData
           \/ contactData' = [contactData EXCEPT !.typeId = DefaultType]
    BY <1>14 DEF checkForMultipleRecordTypeAccess
  <2>2. DataShape' /\ contactData'.id = contactData.id /\ contactData'.fill = contactData.fill
    BY <2>1 DEF ChoiceInv, DataShape
  <2>3. Creating' => Creating
    BY <2>1 DEF Creating, search, modals
  <2>4. CASE InWizard
    BY <1>5, <2>1, <2>2, <2>3, <2>4
  <2>5. CASE ~InWizard
    BY <2>1, <2>2, <2>5 DEF ChoiceInv, RowIsChosen, DataIsChosen, Creating, InWizard, modals
  <2> QED
    BY <2>4, <2>5
<1>15. CASE ObjectInfoArrives \/ UNCHANGED vars
  BY <1>1, <1>15 DEF ObjectInfoArrives, vars
<1> QED
  BY <1>3, <1>4, <1>6, <1>7, <1>8, <1>9, <1>10, <1>11, <1>12, <1>13, <1>14, <1>15
     DEF Next

(* What is created comes from the profile that was clicked.                  *)
THEOREM CreatesChosenProfile == Spec => []FormIsOfChosenProfile
<1>1. Init => ChoiceInv
  BY DEF Init, ChoiceInv, DataShape, NoData, RowIsChosen, DataIsChosen, Creating
<1>2. PageInv /\ OneWindowAtATime /\ ChoiceInv /\ [Next]_vars => ChoiceInv'
  BY ChoiceInvKept
<1>3. ChoiceInv => FormIsOfChosenProfile
  BY DEF ChoiceInv, DataIsChosen, FormIsOfChosenProfile
<1> QED
  BY <1>1, <1>2, <1>3, PageInvHolds, WindowsExclude, PTL DEF Spec

-----------------------------------------------------------------------------
(* The data.                                                                 *)

KnownProfiles == UNION {Profiles(source) : source \in Sources}

(* A profile on the page, and the one clicked, is one that a search found.   *)
DataInv ==
    /\ globalProfiles \in {Null, <<>>} \cup {AllData(source) : source \in Sources}
    /\ globalProfileCurrentPage \in Seq(KnownProfiles)
    /\ Len(globalProfileCurrentPage) <= pageSize
    /\ chosen # Null => chosen \in KnownProfiles

(* A page has the profiles of the list, and no more than fit.                *)
LEMMA SliceIsPage ==
  ASSUME NEW Q, NEW profiles \in Seq(Q), NEW p \in Nat \ {0}, NEW count \in Nat
  PROVE  /\ Slice(profiles, p, count) \in Seq(Q)
         /\ Len(Slice(profiles, p, count)) <= pageSize
<1> DEFINE n == Len(profiles)
           start == (p - 1) * pageSize
           end == Min({p * pageSize, count, n})
<1>1. n \in Nat /\ pageSize \in Nat \ {0}
  BY PageSizeAssumption
<1>2. start \in Nat /\ p * pageSize = start + pageSize /\ p * pageSize \in Int
  BY <1>1, Z3
<1> HIDE DEF start, n
<1>3. end \in Int /\ end <= n /\ end <= start + pageSize
  <2> DEFINE m == p * pageSize
  <2>1. m \in Int /\ count \in Int /\ n \in Int
    BY <1>1, <1>2
  <2>2. m = start + pageSize
    BY <1>2
  <2> HIDE DEF m
  <2>3. end \in {m, count, n} /\ end <= m /\ end <= n
    BY <2>1, MinOfThree DEF m
  <2> QED
    BY <1>1, <2>1, <2>2, <2>3
<1> HIDE DEF end
<1>4. SubSeq(profiles, start + 1, end) \in Seq(Q)
  BY <1>1, <1>2, <1>3 DEF n
<1>5. Len(SubSeq(profiles, start + 1, end)) = IF start + 1 <= end THEN end - start ELSE 0
  BY <1>1, <1>2, <1>3 DEF n
<1>6. Slice(profiles, p, count) = SubSeq(profiles, start + 1, end)
  BY DEF Slice, start, end, n
<1> QED
  BY <1>1, <1>2, <1>3, <1>4, <1>5, <1>6

LEMMA DataIsKnown ==
  ASSUME NEW source \in Sources
  PROVE  AllData(source) \in Seq(KnownProfiles)
<1>1. AllData(source) \in Seq(Profiles(source))
  BY SourcesAssumption, AllDataIsList DEF IsSource
<1>2. Profiles(source) \subseteq KnownProfiles
  BY DEF KnownProfiles
<1> QED
  BY <1>1, <1>2

LEMMA DisplayKeepsKnown ==
  ASSUME DataInv, NEW profiles, profiles = Null \/ profiles \in Seq(KnownProfiles),
         NEW p \in Nat \ {0}, NEW count \in Nat,
         displayRecordPerPage(profiles, p, count)
  PROVE  /\ globalProfileCurrentPage' \in Seq(KnownProfiles)
         /\ Len(globalProfileCurrentPage') <= pageSize
<1>1. CASE profiles = Null
  BY <1>1 DEF displayRecordPerPage, DataInv
<1>2. CASE profiles # Null
  BY <1>2, SliceIsPage DEF displayRecordPerPage
<1> QED
  BY <1>1, <1>2

LEMMA DataInvHolds == Spec => []DataInv
<1>1. Init => DataInv
  <2> SUFFICES ASSUME Init PROVE DataInv
    OBVIOUS
  <2>1. <<>> \in Seq(KnownProfiles) /\ Len(<<>>) <= pageSize
    BY PageSizeAssumption
  <2> QED
    BY <2>1 DEF Init, DataInv
<1>2. PageInv /\ DataInv /\ [Next]_vars => DataInv'
  <2> SUFFICES ASSUME PageInv, DataInv, [Next]_vars PROVE DataInv'
    OBVIOUS
  <2>1. ASSUME UNCHANGED <<globalProfiles, globalProfileCurrentPage, chosen>>
        PROVE  DataInv'
    BY <2>1 DEF DataInv
  <2>2. page \in Nat \ {0} /\ totalRecountCount \in Nat
    BY DEF PageInv
  <2>3. <<>> \in Seq(KnownProfiles) /\ Len(<<>>) <= pageSize
    BY PageSizeAssumption
  <2>4. ASSUME NEW key \in {"empty", "spaces", "text"}, handleSearchExpressionChange(key)
        PROVE  DataInv'
    <3>1. /\ globalProfiles' \in {<<>>, globalProfiles}
          /\ UNCHANGED <<globalProfileCurrentPage, chosen>>
      BY <2>4 DEF handleSearchExpressionChange
    <3> QED
      BY <3>1 DEF DataInv
  <2>5. ASSUME NEW enter \in BOOLEAN, handleSearch(enter) PROVE DataInv'
    <3>1. /\ globalProfiles' = <<>> /\ globalProfileCurrentPage' = <<>>
          /\ chosen' = chosen
      BY <2>5 DEF handleSearch, resetAll
    <3> QED
      BY <2>3, <3>1 DEF DataInv
  <2>6. ASSUME NEW result \in AllAnswers, SearchAnswer(result) PROVE DataInv'
    <3>1. /\ globalProfiles' \in {<<>>, result.allData}
          /\ displayRecordPerPage(globalProfiles', page, totalRecountCount')
          /\ \/ totalRecountCount' = totalRecountCount
             \/ totalRecountCount' = Len(result.allData)
          /\ chosen' = chosen
      BY <2>6 DEF SearchAnswer
    <3>2. \/ result.allData = <<>>
          \/ \E source \in Sources : result.allData = AllData(source)
      BY AnswersAreData
    <3>3. globalProfiles' \in Seq(KnownProfiles)
      BY <2>3, <3>1, <3>2, DataIsKnown
    <3>4. totalRecountCount' \in Nat
      BY <2>2, <3>1, AnswersAreLists
    <3>5. /\ globalProfileCurrentPage' \in Seq(KnownProfiles)
          /\ Len(globalProfileCurrentPage') <= pageSize
      BY <2>2, <3>1, <3>3, <3>4, DisplayKeepsKnown
    <3>6. globalProfiles' \in {Null, <<>>} \cup {AllData(source) : source \in Sources}
      BY <3>1, <3>2
    <3> QED
      BY <3>1, <3>5, <3>6 DEF DataInv
  <2>7. CASE SearchRejected
    BY <2>7 DEF SearchRejected, DataInv
  <2>8. ASSUME NEW to \in Nat \ {0}, Turn(to) PROVE DataInv'
    <3>1. /\ displayRecordPerPage(globalProfiles, to, totalRecountCount)
          /\ UNCHANGED <<globalProfiles, chosen>>
      BY <2>8 DEF Turn
    <3>2. globalProfiles = Null \/ globalProfiles \in Seq(KnownProfiles)
      BY <2>3, DataIsKnown DEF DataInv
    <3>3. /\ globalProfileCurrentPage' \in Seq(KnownProfiles)
          /\ Len(globalProfileCurrentPage') <= pageSize
      BY <2>2, <3>1, <3>2, DisplayKeepsKnown
    <3> QED
      BY <3>1, <3>3 DEF DataInv
  <2>9. CASE previousHandler \/ nextHandler
    <3>1. \E to \in Nat \ {0} : Turn(to)
      BY <2>2, <2>9 DEF previousHandler, nextHandler
    <3> QED
      BY <2>8, <3>1
  <2>10. ASSUME NEW row \in 0..Len(globalProfileCurrentPage), openObjectSelectionModal(row)
         PROVE  DataInv'
    <3>1. /\ UNCHANGED <<globalProfiles, globalProfileCurrentPage>>
          /\ chosen' = IF row = 0 THEN Null ELSE globalProfileCurrentPage[row]
      BY <2>10 DEF openObjectSelectionModal, search
    <3>2. row # 0 => globalProfileCurrentPage[row] \in KnownProfiles
      BY DEF DataInv
    <3> QED
      BY <3>1, <3>2 DEF DataInv
  <2>11. CASE \/ ObjectInfoArrives
              \/ \E object \in {"Contact", "Lead"} : handleObjectSelection(object)
              \/ handleCancel \/ navigateFromObjectModal
              \/ \E type \in user.types : handleRecordType(type)
              \/ handleRecordTypeNext \/ closeRecordTypeModal
              \/ closeContactCreateModal \/ ContactCreated
              \/ checkForMultipleRecordTypeAccess \/ UNCHANGED vars
    <3>1. UNCHANGED <<globalProfiles, globalProfileCurrentPage, chosen>>
      BY <2>11 DEF ObjectInfoArrives, handleObjectSelection, handleCancel,
         navigateFromObjectModal, handleRecordType, handleRecordTypeNext,
         closeRecordTypeModal, closeContactCreateModal, ContactCreated,
         checkForMultipleRecordTypeAccess, vars, wizard, search
    <3> QED
      BY <2>1, <3>1
  <2> QED
    BY <2>4, <2>5, <2>6, <2>7, <2>9, <2>10, <2>11 DEF Next, SearchSettles
<1> QED
  BY <1>1, <1>2, PageInvHolds, PTL DEF Spec

(* A row is a profile of the source that was found.                          *)
LEMMA RowsAreProfiles ==
  ASSUME DataInv, NEW i \in Rows
  PROVE  \E source \in Sources : /\ globalProfiles = AllData(source)
                                 /\ globalProfiles[i] \in Profiles(source)
<1>1. globalProfiles # Null /\ i \in DOMAIN globalProfiles
  BY DEF Rows
<1>2. globalProfiles # <<>>
  BY <1>1
<1>3. PICK source \in Sources : globalProfiles = AllData(source)
  BY <1>1, <1>2 DEF DataInv
<1>4. AllData(source) \in Seq(Profiles(source))
  BY SourcesAssumption, AllDataIsList DEF IsSource
<1>5. globalProfiles[i] \in Profiles(source)
  BY <1>1, <1>3, <1>4
<1> QED
  BY <1>3, <1>5

(* No record is in two rows, if C360 itself has merged each record into one  *)
(* individual: the records of the org never add a second row for it.         *)
THEOREM ListsRecordsOnce ==
  ASSUME \A source \in Sources : MergedOnce(source)
  PROVE  Spec => []NoRecordListedTwice
<1>1. DataInv => NoRecordListedTwice
  <2> SUFFICES ASSUME DataInv, NEW i \in Rows, NEW j \in Rows,
                      NEW k \in DOMAIN globalProfiles[i].points,
                      NEW l \in DOMAIN globalProfiles[j].points,
                      globalProfiles[i].points[k].id = globalProfiles[j].points[l].id
               PROVE  (i = j /\ k = l) \/ globalProfiles[i].points[k].id = NoId
    BY DEF NoRecordListedTwice
  <2>1. PICK source \in Sources : globalProfiles = AllData(source)
    BY RowsAreProfiles
  <2>2. OnceIn(globalProfiles)
    BY <2>1, SourcesAssumption, AllDataOnce DEF IsSource
  <2>3. i \in DOMAIN globalProfiles /\ j \in DOMAIN globalProfiles
    BY DEF Rows
  <2> QED
    BY <2>2, <2>3 DEF OnceIn
<1> QED
  BY <1>1, DataInvHolds, PTL

(* The first of some sorted points is the latest of them.                    *)
LEMMA FirstIsLatest ==
  ASSUME NEW points, Sorted(points), NEW among \in SUBSET DOMAIN points
  PROVE  FirstOr0(points, among) = Latest(points, among)
<1>1. CASE among = {}
  BY <1>1 DEF FirstOr0, Latest
<1>2. CASE among # {}
  <2> DEFINE first == Min(among)
             dates == {points[i].date : i \in among}
  <2>1. among \in SUBSET Nat
    BY DEF Sorted, IsList
  <2>2. first \in among /\ \A i \in among : first <= i
    BY <1>2, <2>1, MinOfIndices
  <2> HIDE DEF first
  <2>3. \A i \in among : points[i].date \in Nat
    BY DEF Sorted
  <2>4. \A i \in among : points[first].date >= points[i].date
    <3> TAKE i \in among
    <3>1. CASE i = first
      BY <2>3, <3>1
    <3>2. CASE i # first
      <4>1. first < i
        BY <2>1, <2>2, <3>2
      <4> QED
        BY <2>2, <4>1 DEF Sorted
    <3> QED
      BY <3>1, <3>2
  <2>5. /\ dates \in SUBSET Int /\ points[first].date \in dates
        /\ \A date \in dates : points[first].date >= date
    BY <2>2, <2>3, <2>4
  <2>6. Max(dates) = points[first].date
    <3> HIDE DEF dates
    <3> QED
      BY <2>5, MaxIs
  <2> QED
    BY <1>2, <2>6 DEF FirstOr0, Latest, first
<1> QED
  BY <1>1, <1>2

(* The form is filled with the latest phone, mobile, email and address.      *)
THEOREM FillsInLatest == Spec => []AutofillIsLatest
<1>1. Init => ChoiceInv
  BY DEF Init, ChoiceInv, DataShape, NoData, RowIsChosen, DataIsChosen, Creating
<1>2. PageInv /\ OneWindowAtATime /\ ChoiceInv /\ [Next]_vars => ChoiceInv'
  BY ChoiceInvKept
<1>3. DataInv /\ ChoiceInv => AutofillIsLatest
  <2> SUFFICES ASSUME DataInv, ChoiceInv, Creating
               PROVE  AutofillIsLatest
    BY DEF AutofillIsLatest
  <2>1. chosen \in KnownProfiles /\ contactData.fill = Autofill(chosen)
    BY DEF Creating, DataInv, ChoiceInv, DataIsChosen
  <2>2. PICK source \in Sources : chosen \in Profiles(source)
    BY <2>1 DEF KnownProfiles
  <2>3. /\ Sorted(chosen.phoneNumbers)
        /\ Sorted(chosen.contactPointEmails)
        /\ Sorted(chosen.fullAddress)
    BY <2>2, SourcesAssumption, ProfilesAreSorted
  <2>4. \A type : OfType(chosen.phoneNumbers, type) \in SUBSET DOMAIN chosen.phoneNumbers
    BY DEF OfType
  <2> QED
    BY <2>1, <2>3, <2>4, FirstIsLatest DEF AutofillIsLatest, Autofill
<1> QED
  BY <1>1, <1>2, <1>3, PageInvHolds, WindowsExclude, DataInvHolds, PTL DEF Spec

-----------------------------------------------------------------------------
(* Types.                                                                    *)

SearchFlags ==
    /\ isSearchButton \in BOOLEAN /\ showSpinner \in BOOLEAN
    /\ displayGlobalProfileTable \in BOOLEAN
    /\ isResult \in BOOLEAN /\ isTimeOut \in BOOLEAN /\ overlapped \in BOOLEAN

AccessFlags ==
    /\ user \in Users
    /\ objectInfo \in BOOLEAN
    /\ contactCreateAccess \in BOOLEAN /\ leadCreateAccess \in BOOLEAN
    /\ isCreateButtonAvailableToUser \in BOOLEAN

WizardFlags ==
    /\ showObjectSelectionModal \in BOOLEAN /\ showRecordTypeModal \in BOOLEAN
    /\ showContactCreateModal \in BOOLEAN
    /\ hasMultipleRecordTypeAccess \in BOOLEAN /\ isRendered \in BOOLEAN

Counters ==
    /\ searchKey \in {"undefined", "empty", "spaces", "text"}
    /\ inFlight \in 0..MaxInFlight
    /\ timers \in 0..MaxTimers
    /\ selectedObject \in {"none", "Contact", "Lead"}
    /\ globalprofileindex \in 0..pageSize
    /\ at \in {"search", "away"}

(* The types of the record type page and of the form are the user's; where   *)
(* there is no record type page, the form has had its type already.          *)
UserTypes == {NoType} \cup user.types

FormData ==
    /\ DataShape
    /\ contactData.id \in Ids \cup {"none"}
    /\ contactData.typeId \in UserTypes /\ contactData.typeName \in UserTypes
    /\ recordTypePage.id \in UserTypes /\ recordTypePage.name \in UserTypes
    /\ showRecordTypeModal =>
          recordTypePage.id \in user.types /\ recordTypePage.name \in user.types
    /\ showContactCreateModal => contactData.typeId \in user.types
    /\ ~hasMultipleRecordTypeAccess => contactData.typeId \in user.types

FieldsInv == SearchFlags /\ AccessFlags /\ WizardFlags /\ Counters /\ FormData

LEMMA SearchFlagsKept ==
  ASSUME SearchFlags, [Next]_vars
  PROVE  SearchFlags'
<1>1. ASSUME UNCHANGED search PROVE SearchFlags'
  BY <1>1 DEF SearchFlags, search
<1>2. ASSUME NEW key \in {"empty", "spaces", "text"}, handleSearchExpressionChange(key)
      PROVE  SearchFlags'
  <2>1. CASE key = "empty"
    BY <1>2, <2>1 DEF SearchFlags, handleSearchExpressionChange
  <2>2. CASE key # "empty"
    BY <1>2, <2>2 DEF SearchFlags, handleSearchExpressionChange
  <2> QED
    BY <2>1, <2>2
<1>3. ASSUME NEW enter \in BOOLEAN, handleSearch(enter) PROVE SearchFlags'
  <2>1. /\ isSearchButton' = isSearchButton /\ showSpinner' = TRUE
        /\ isResult' = FALSE /\ isTimeOut' = FALSE
        /\ displayGlobalProfileTable' = FALSE
    BY <1>3 DEF handleSearch, resetAll
  <2>2. overlapped' = overlapped \/ overlapped' = (inFlight > 0)
    BY <1>3 DEF handleSearch
  <2>3. overlapped' \in BOOLEAN
    <3>1. (inFlight > 0) \in BOOLEAN
      OBVIOUS
    <3>2. overlapped \in BOOLEAN
      BY DEF SearchFlags
    <3> QED
      BY <2>2, <3>1, <3>2, Zenon
  <2> QED
    BY <2>1, <2>3 DEF SearchFlags
<1>4. ASSUME NEW result \in AllAnswers, SearchAnswer(result) PROVE SearchFlags'
  BY <1>4 DEF SearchFlags, SearchAnswer
<1>5. CASE SearchRejected
  BY <1>5 DEF SearchFlags, SearchRejected
<1>6. ASSUME NEW to, Turn(to) PROVE SearchFlags'
  BY <1>6 DEF SearchFlags, Turn
<1>7. CASE \/ ObjectInfoArrives
           \/ \E row \in 0..Len(globalProfileCurrentPage) : openObjectSelectionModal(row)
           \/ \E object \in {"Contact", "Lead"} : handleObjectSelection(object)
           \/ handleCancel \/ navigateFromObjectModal
           \/ \E type \in user.types : handleRecordType(type)
           \/ handleRecordTypeNext \/ closeRecordTypeModal
           \/ closeContactCreateModal \/ ContactCreated
           \/ checkForMultipleRecordTypeAccess \/ UNCHANGED vars
  BY <1>1, <1>7 DEF ObjectInfoArrives, openObjectSelectionModal,
     handleObjectSelection, handleCancel, navigateFromObjectModal,
     handleRecordType, handleRecordTypeNext, closeRecordTypeModal,
     closeContactCreateModal, ContactCreated, checkForMultipleRecordTypeAccess, vars
<1> QED
  BY <1>2, <1>3, <1>4, <1>5, <1>6, <1>7
     DEF Next, SearchSettles, previousHandler, nextHandler

LEMMA AccessFlagsKept ==
  ASSUME AccessFlags, [Next]_vars
  PROVE  AccessFlags'
<1>1. ASSUME UNCHANGED <<access, user, objectInfo>> PROVE AccessFlags'
  BY <1>1 DEF AccessFlags, access
<1>2. CASE ObjectInfoArrives
  BY <1>2 DEF AccessFlags, ObjectInfoArrives, access
<1>3. ASSUME NEW result \in AllAnswers, SearchAnswer(result) PROVE AccessFlags'
  <2>1. user.contact \in BOOLEAN /\ user.lead \in BOOLEAN
    BY UsersAssumption DEF AccessFlags
  <2>2. /\ contactCreateAccess' \in {contactCreateAccess, user.contact}
        /\ leadCreateAccess' \in {leadCreateAccess, user.lead}
        /\ isCreateButtonAvailableToUser' \in BOOLEAN
        /\ UNCHANGED <<user, objectInfo>>
    BY <1>3 DEF SearchAnswer
  <2> QED
    BY <2>1, <2>2 DEF AccessFlags
<1>4. ASSUME NEW row, openObjectSelectionModal(row) PROVE UNCHANGED <<access, user, objectInfo>>
  BY <1>4 DEF openObjectSelectionModal
<1>5. CASE \/ \E key \in {"empty", "spaces", "text"} : handleSearchExpressionChange(key)
           \/ \E enter \in BOOLEAN : handleSearch(enter)
           \/ SearchRejected \/ previousHandler \/ nextHandler
           \/ \E object \in {"Contact", "Lead"} : handleObjectSelection(object)
           \/ handleCancel \/ navigateFromObjectModal
           \/ \E type \in user.types : handleRecordType(type)
           \/ handleRecordTypeNext \/ closeRecordTypeModal
           \/ closeContactCreateModal \/ ContactCreated
           \/ checkForMultipleRecordTypeAccess \/ UNCHANGED vars
  BY <1>1, <1>5 DEF handleSearchExpressionChange, handleSearch, SearchRejected,
     previousHandler, nextHandler, Turn, handleObjectSelection, handleCancel,
     navigateFromObjectModal, handleRecordType, handleRecordTypeNext,
     closeRecordTypeModal, closeContactCreateModal, ContactCreated,
     checkForMultipleRecordTypeAccess, vars
<1> QED
  BY <1>1, <1>2, <1>3, <1>4, <1>5 DEF Next, SearchSettles

LEMMA WizardFlagsKept ==
  ASSUME WizardFlags, AccessFlags, [Next]_vars
  PROVE  WizardFlags'
<1>1. ASSUME UNCHANGED <<modals, hasMultipleRecordTypeAccess, isRendered>>
      PROVE  WizardFlags'
  BY <1>1 DEF WizardFlags, modals
<1>2. CASE \/ ObjectInfoArrives
           \/ \E key \in {"empty", "spaces", "text"} : handleSearchExpressionChange(key)
           \/ \E enter \in BOOLEAN : handleSearch(enter)
           \/ SearchSettles \/ previousHandler \/ nextHandler
           \/ \E object \in {"Contact", "Lead"} : handleObjectSelection(object)
           \/ ContactCreated \/ UNCHANGED vars
  BY <1>1, <1>2 DEF ObjectInfoArrives, handleSearchExpressionChange, handleSearch,
     SearchSettles, SearchAnswer, SearchRejected, previousHandler, nextHandler, Turn,
     handleObjectSelection, ContactCreated, vars, wizard
<1>3. ASSUME NEW row, navigateContactCreation(row) \/ navigateToLeadCreation(row)
      PROVE  showRecordTypeModal' \in BOOLEAN /\ showContactCreateModal' \in BOOLEAN
  BY <1>3 DEF navigateContactCreation, navigateToLeadCreation, WizardFlags
<1>4. ASSUME NEW row, openObjectSelectionModal(row) PROVE WizardFlags'
  <2>1. /\ showObjectSelectionModal' \in {TRUE, showObjectSelectionModal}
        /\ UNCHANGED <<hasMultipleRecordTypeAccess, isRendered>>
    BY <1>4 DEF openObjectSelectionModal
  <2>2. \/ UNCHANGED <<showRecordTypeModal, showContactCreateModal>>
        \/ navigateContactCreation(row) \/ navigateToLeadCreation(row)
    BY <1>4 DEF openObjectSelectionModal
  <2> QED
    BY <1>3, <2>1, <2>2 DEF WizardFlags
<1>5. CASE navigateFromObjectModal
  <2>1. /\ showObjectSelectionModal' \in {FALSE, showObjectSelectionModal}
        /\ UNCHANGED <<hasMultipleRecordTypeAccess, isRendered>>
    BY <1>5 DEF navigateFromObjectModal, closeObjectModal
  <2>2. \/ navigateContactCreation(globalprofileindex)
        \/ navigateToLeadCreation(globalprofileindex)
    BY <1>5 DEF navigateFromObjectModal
  <2> QED
    BY <1>3, <2>1, <2>2 DEF WizardFlags
<1>6. CASE handleCancel \/ handleRecordTypeNext
  BY <1>6 DEF WizardFlags, handleCancel, handleRecordTypeNext
<1>7. ASSUME NEW type, handleRecordType(type) PROVE WizardFlags'
  BY <1>7 DEF WizardFlags, handleRecordType
<1>8. CASE closeRecordTypeModal
  BY <1>8 DEF WizardFlags, AccessFlags, closeRecordTypeModal
<1>9. CASE closeContactCreateModal
  BY <1>9 DEF WizardFlags, AccessFlags, closeContactCreateModal
<1>10. CASE checkForMultipleRecordTypeAccess
  <2>1. CASE objectInfo
    BY <1>10, <2>1 DEF WizardFlags, checkForMultipleRecordTypeAccess, modals
  <2>2. CASE ~objectInfo
    BY <1>10, <2>2 DEF WizardFlags, checkForMultipleRecordTypeAccess, modals
  <2> QED
    BY <2>1, <2>2
<1> QED
  BY <1>2, <1>4, <1>5, <1>6, <1>7, <1>8, <1>9, <1>10 DEF Next

(* One more timer, up to the bound.                                          *)
LEMMA RenderedKeepsBound ==
  ASSUME timers \in 0..MaxTimers, NEW checked, Rendered(checked)
  PROVE  timers' \in 0..MaxTimers
BY BoundsAssumption DEF Rendered

LEMMA CountersKept ==
  ASSUME Counters, DataInv, [Next]_vars
  PROVE  Counters'
<1>1. timers' \in 0..MaxTimers
  <2>1. \/ UNCHANGED timers
        \/ \E checked : Rendered(checked)
        \/ timers > 0 /\ timers' = timers - 1
    <3>1. ASSUME NEW row, openObjectSelectionModal(row) PROVE Rendered(isRendered)
      BY <3>1 DEF openObjectSelectionModal
    <3>2. ASSUME NEW type, handleRecordType(type) PROVE UNCHANGED timers
      BY <3>2 DEF handleRecordType
    <3>3. CASE \/ \E key \in {"empty", "spaces", "text"} : handleSearchExpressionChange(key)
               \/ \E enter \in BOOLEAN : handleSearch(enter)
               \/ SearchSettles \/ previousHandler \/ nextHandler
               \/ \E object \in {"Contact", "Lead"} : handleObjectSelection(object)
               \/ handleCancel \/ navigateFromObjectModal \/ handleRecordTypeNext
      BY <3>3 DEF handleSearchExpressionChange, handleSearch, SearchSettles,
         SearchAnswer, SearchRejected, previousHandler, nextHandler, Turn,
         handleObjectSelection, handleCancel, navigateFromObjectModal,
         handleRecordTypeNext
    <3>4. CASE closeRecordTypeModal \/ closeContactCreateModal
      BY <3>4 DEF closeRecordTypeModal, closeContactCreateModal
    <3>5. CASE ObjectInfoArrives \/ ContactCreated \/ UNCHANGED vars
      BY <3>5 DEF ObjectInfoArrives, ContactCreated, vars, wizard
    <3>6. CASE checkForMultipleRecordTypeAccess
      BY <3>6 DEF checkForMultipleRecordTypeAccess
    <3> QED
      BY <3>1, <3>2, <3>3, <3>4, <3>5, <3>6 DEF Next
  <2>2. timers \in 0..MaxTimers
    BY DEF Counters
  <2>3. timers > 0 /\ timers' = timers - 1 => timers' \in 0..MaxTimers
    BY <2>2, BoundsAssumption
  <2> QED
    BY <2>1, <2>2, <2>3, RenderedKeepsBound
<1>2. inFlight' \in 0..MaxInFlight
  <2>1. \/ UNCHANGED inFlight
        \/ inFlight < MaxInFlight /\ inFlight' = inFlight + 1
        \/ inFlight > 0 /\ inFlight' = inFlight - 1
    <3>1. ASSUME NEW enter \in BOOLEAN, handleSearch(enter)
          PROVE  \/ UNCHANGED inFlight
                 \/ inFlight < MaxInFlight /\ inFlight' = inFlight + 1
      BY <3>1 DEF handleSearch
    <3>2. CASE SearchSettles
      BY <3>2 DEF SearchSettles, SearchAnswer, SearchRejected
    <3>3. CASE \/ \E key \in {"empty", "spaces", "text"} : handleSearchExpressionChange(key)
               \/ previousHandler \/ nextHandler
      BY <3>3 DEF handleSearchExpressionChange, previousHandler, nextHandler, Turn
    <3>4. CASE \/ ObjectInfoArrives
               \/ \E row \in 0..Len(globalProfileCurrentPage) : openObjectSelectionModal(row)
               \/ \E object \in {"Contact", "Lead"} : handleObjectSelection(object)
               \/ handleCancel \/ navigateFromObjectModal
               \/ \E type \in user.types : handleRecordType(type)
               \/ handleRecordTypeNext \/ closeRecordTypeModal
               \/ closeContactCreateModal \/ ContactCreated
               \/ checkForMultipleRecordTypeAccess \/ UNCHANGED vars
      BY <3>4 DEF ObjectInfoArrives, openObjectSelectionModal,
         handleObjectSelection, handleCancel, navigateFromObjectModal,
         handleRecordType, handleRecordTypeNext, closeRecordTypeModal,
         closeContactCreateModal, ContactCreated, checkForMultipleRecordTypeAccess,
         vars, search
    <3> QED
      BY <3>1, <3>2, <3>3, <3>4 DEF Next
  <2> QED
    BY <2>1, BoundsAssumption DEF Counters
<1>3. ASSUME UNCHANGED <<searchKey, selectedObject, globalprofileindex, at>>
      PROVE  Counters'
  BY <1>1, <1>2, <1>3 DEF Counters
<1>4. ASSUME NEW key \in {"empty", "spaces", "text"}, handleSearchExpressionChange(key)
      PROVE  Counters'
  BY <1>1, <1>2, <1>4 DEF Counters, handleSearchExpressionChange
<1>5. ASSUME NEW enter \in BOOLEAN, handleSearch(enter) PROVE Counters'
  <2>1. searchKey' \in {searchKey, "empty"}
        /\ UNCHANGED <<selectedObject, globalprofileindex, at>>
    BY <1>5 DEF handleSearch
  <2> QED
    BY <1>1, <1>2, <2>1 DEF Counters
<1>6. ASSUME NEW row \in 0..Len(globalProfileCurrentPage), openObjectSelectionModal(row)
      PROVE  Counters'
  <2>1. /\ UNCHANGED <<searchKey, selectedObject>>
        /\ globalprofileindex' = row
        /\ at' = at \/ at' = "away"
    BY <1>6 DEF openObjectSelectionModal, navigateToLeadCreation, search
  <2>2. row \in 0..pageSize
    BY PageSizeAssumption DEF DataInv
  <2> QED
    BY <1>1, <1>2, <2>1, <2>2 DEF Counters
<1>7. CASE \E object \in {"Contact", "Lead"} : handleObjectSelection(object)
  BY <1>1, <1>2, <1>7 DEF Counters, handleObjectSelection, search
<1>8. CASE handleCancel
  BY <1>1, <1>2, <1>8 DEF Counters, handleCancel, search
<1>9. CASE navigateFromObjectModal
  <2>1. /\ UNCHANGED <<searchKey, selectedObject, globalprofileindex>>
        /\ at' = at \/ at' = "away"
    BY <1>9 DEF navigateFromObjectModal, navigateToLeadCreation, search
  <2> QED
    BY <1>1, <1>2, <2>1 DEF Counters
<1>10. CASE ContactCreated
  BY <1>1, <1>2, <1>10 DEF Counters, ContactCreated, wizard, search
<1>11. CASE \/ ObjectInfoArrives \/ SearchSettles \/ previousHandler \/ nextHandler
            \/ \E type \in user.types : handleRecordType(type)
            \/ handleRecordTypeNext \/ closeRecordTypeModal
            \/ closeContactCreateModal \/ checkForMultipleRecordTypeAccess
            \/ UNCHANGED vars
  <2>1. UNCHANGED <<searchKey, selectedObject, globalprofileindex, at>>
    BY <1>11 DEF ObjectInfoArrives, SearchSettles, SearchAnswer, SearchRejected,
       previousHandler, nextHandler, Turn, handleRecordType, handleRecordTypeNext,
       closeRecordTypeModal, closeContactCreateModal,
       checkForMultipleRecordTypeAccess, vars, wizard, search
  <2> QED
    BY <1>3, <2>1
<1> QED
  BY <1>4, <1>5, <1>6, <1>7, <1>8, <1>9, <1>10, <1>11 DEF Next

(* The row that is looked up is a profile that a search found.               *)
LEMMA MappedIsTyped ==
  ASSUME FormData, PageInv, DataInv, NEW row \in Nat, CanMap(row)
  PROVE  /\ DOMAIN Mapped(row) = {"id", "fill", "typeId", "typeName"}
         /\ Mapped(row).id \in Ids \cup {"none"}
         /\ Mapped(row).typeId = contactData.typeId
         /\ Mapped(row).typeName = contactData.typeName
<1>1. CASE row = 0
  BY <1>1 DEF Mapped, FormData, DataShape
<1>2. CASE row # 0
  <2> DEFINE at_ == RowOnPage(row)
             fill == Autofill(globalProfiles[at_])
             id == globalProfiles[at_].id
  <2>1. at_ \in Nat \ {0}
    <3>1. page - 1 \in Nat /\ pageSize \in Nat
      BY PageSizeAssumption DEF PageInv
    <3>2. pageSize * (page - 1) \in Nat
      BY <3>1, Z3
    <3> QED
      BY <1>2, <3>2 DEF RowOnPage
  <2>2. globalProfiles # Null /\ at_ <= Len(globalProfiles)
    BY <1>2 DEF CanMap
  <2>3. globalProfiles # <<>>
    <3>1. Len(<<>>) = 0
      OBVIOUS
    <3> HIDE DEF at_
    <3> QED
      BY <2>1, <2>2, <3>1
  <2>4. PICK source \in Sources : globalProfiles = AllData(source)
    BY <2>2, <2>3 DEF DataInv
  <2>5. at_ \in DOMAIN AllData(source)
    <3>1. AllData(source) \in Seq(Profiles(source))
      BY SourcesAssumption, AllDataIsList DEF IsSource
    <3> HIDE DEF at_
    <3> QED
      BY <2>1, <2>2, <2>4, <3>1
  <2>6. id \in Ids
    BY <2>4, <2>5 DEF Ids
  <2>7. Mapped(row) = [contactData EXCEPT !.id = id, !.fill = fill]
    BY <1>2 DEF Mapped
  <2> HIDE DEF id, fill
  <2> QED
    BY <2>6, <2>7 DEF FormData, DataShape
<1> QED
  BY <1>1, <1>2

(* The record type page starts with types of the user.                       *)
LEMMA NewPageIsTyped ==
  ASSUME UsersAssumption, user \in Users,
         NEW data, data.typeId \in UserTypes, data.typeName \in UserTypes
  PROVE  /\ NewRecordTypePage(data).id \in user.types
         /\ NewRecordTypePage(data).name \in user.types
BY DEF NewRecordTypePage, UserTypes

(* Going on with a row keeps the types.                                      *)
LEMMA GoingOnIsTyped ==
  ASSUME FormData, PageInv, DataInv, AccessFlags, NEW row \in Nat, UNCHANGED user,
         UNCHANGED hasMultipleRecordTypeAccess,
         \/ navigateContactCreation(row) \/ navigateToLeadCreation(row)
  PROVE  FormData'
<1>1. CASE UNCHANGED <<contactData, showRecordTypeModal, showContactCreateModal, recordTypePage>>
  BY <1>1 DEF FormData, DataShape, UserTypes
<1>2. CASE CanMap(row) /\ navigateContactCreation(row)
  <2>1. /\ contactData' = Mapped(row)
        /\ showRecordTypeModal' = hasMultipleRecordTypeAccess
        /\ showContactCreateModal' = ~hasMultipleRecordTypeAccess
        /\ recordTypePage' = IF hasMultipleRecordTypeAccess
                             THEN NewRecordTypePage(Mapped(row))
                             ELSE recordTypePage
    BY <1>2 DEF navigateContactCreation
  <2>2. /\ DataShape'
        /\ contactData'.id \in Ids \cup {"none"}
        /\ contactData'.typeId = contactData.typeId
        /\ contactData'.typeName = contactData.typeName
    BY <1>2, <2>1, MappedIsTyped DEF DataShape
  <2>3. user \in Users
    BY DEF AccessFlags
  <2>4. /\ NewRecordTypePage(Mapped(row)).id \in user.types
        /\ NewRecordTypePage(Mapped(row)).name \in user.types
    <3>1. Mapped(row).typeId \in UserTypes /\ Mapped(row).typeName \in UserTypes
      BY <2>1, <2>2 DEF FormData
    <3> QED
      BY <2>3, <3>1, NewPageIsTyped, UsersAssumption
  <2>5. CASE hasMultipleRecordTypeAccess
    BY <2>1, <2>2, <2>4, <2>5 DEF FormData, UserTypes
  <2>6. CASE ~hasMultipleRecordTypeAccess
    BY <2>1, <2>2, <2>6 DEF FormData, UserTypes
  <2> QED
    BY <2>5, <2>6
<1>3. CASE CanMap(row) /\ navigateToLeadCreation(row)
  <2>1. /\ contactData' = Mapped(row)
        /\ UNCHANGED <<showRecordTypeModal, showContactCreateModal, recordTypePage>>
    BY <1>3 DEF navigateToLeadCreation
  <2>2. /\ DataShape'
        /\ contactData'.id \in Ids \cup {"none"}
        /\ contactData'.typeId = contactData.typeId
        /\ contactData'.typeName = contactData.typeName
    BY <1>3, <2>1, MappedIsTyped DEF DataShape
  <2> QED
    BY <2>1, <2>2 DEF FormData, UserTypes
<1> QED
  BY <1>1, <1>2, <1>3 DEF navigateContactCreation, navigateToLeadCreation

LEMMA FormDataKept ==
  ASSUME FieldsInv, PageInv, DataInv, [Next]_vars
  PROVE  FormData'
<1>1. ASSUME UNCHANGED <<contactData, recordTypePage, showRecordTypeModal,
                         showContactCreateModal, hasMultipleRecordTypeAccess, user>>
      PROVE  FormData'
  BY <1>1 DEF FieldsInv, FormData, DataShape, UserTypes
<1>2. FormData /\ AccessFlags /\ user \in Users /\ DefaultType \in user.types
  BY UsersAssumption DEF FieldsInv, AccessFlags
<1>3. CASE \/ ObjectInfoArrives
           \/ \E key \in {"empty", "spaces", "text"} : handleSearchExpressionChange(key)
           \/ \E enter \in BOOLEAN : handleSearch(enter)
           \/ SearchSettles \/ previousHandler \/ nextHandler
           \/ \E object \in {"Contact", "Lead"} : handleObjectSelection(object)
           \/ handleCancel \/ ContactCreated \/ UNCHANGED vars
  BY <1>1, <1>3 DEF ObjectInfoArrives, handleSearchExpressionChange, handleSearch,
     SearchSettles, SearchAnswer, SearchRejected, previousHandler, nextHandler, Turn,
     handleObjectSelection, handleCancel, ContactCreated, vars, wizard, modals
<1>4. ASSUME NEW row \in 0..Len(globalProfileCurrentPage), openObjectSelectionModal(row)
      PROVE  FormData'
  <2>1. UNCHANGED <<hasMultipleRecordTypeAccess, user>>
    BY <1>4 DEF openObjectSelectionModal
  <2>2. \/ UNCHANGED <<contactData, showRecordTypeModal, showContactCreateModal, recordTypePage>>
        \/ navigateContactCreation(row) \/ navigateToLeadCreation(row)
    BY <1>4 DEF openObjectSelectionModal
  <2>3. row \in Nat
    BY DEF DataInv
  <2> QED
    BY <1>1, <1>2, <2>1, <2>2, <2>3, GoingOnIsTyped
<1>5. CASE navigateFromObjectModal
  <2>1. UNCHANGED <<hasMultipleRecordTypeAccess, user>>
    BY <1>5 DEF navigateFromObjectModal
  <2>2. \/ navigateContactCreation(globalprofileindex)
        \/ navigateToLeadCreation(globalprofileindex)
    BY <1>5 DEF navigateFromObjectModal
  <2>3. globalprofileindex \in Nat
    BY PageSizeAssumption DEF FieldsInv, Counters
  <2> QED
    BY <1>2, <2>1, <2>2, <2>3, GoingOnIsTyped
<1>6. ASSUME NEW type \in user.types, handleRecordType(type) PROVE FormData'
  <2>1. /\ recordTypePage' = [id |-> type, name |-> type]
        /\ UNCHANGED <<contactData, showRecordTypeModal, showContactCreateModal,
                       hasMultipleRecordTypeAccess, user>>
    BY <1>6 DEF handleRecordType
  <2>2. recordTypePage'.id = type /\ recordTypePage'.name = type
    BY <2>1
  <2> QED
    BY <1>2, <2>1, <2>2 DEF FormData, DataShape, UserTypes
<1>7. CASE handleRecordTypeNext
  <2>1. /\ contactData' = [contactData EXCEPT !.typeId = recordTypePage.id,
                                              !.typeName = recordTypePage.name]
        /\ showRecordTypeModal /\ ~showRecordTypeModal'
        /\ UNCHANGED <<recordTypePage, hasMultipleRecordTypeAccess, user>>
    BY <1>7 DEF handleRecordTypeNext
  <2>2. /\ DataShape' /\ contactData'.id = contactData.id
        /\ contactData'.typeId = recordTypePage.id
        /\ contactData'.typeName = recordTypePage.name
    BY <1>2, <2>1 DEF FormData, DataShape
  <2> QED
    BY <1>2, <2>1, <2>2 DEF FormData, UserTypes
<1>8. CASE closeRecordTypeModal \/ closeContactCreateModal
  <2>1. UNCHANGED <<contactData, recordTypePage, hasMultipleRecordTypeAccess, user>>
    BY <1>8 DEF closeRecordTypeModal, closeContactCreateModal
  <2>2. /\ showRecordTypeModal' = FALSE
        /\ showContactCreateModal' = FALSE \/ UNCHANGED showContactCreateModal
    BY <1>8 DEF closeRecordTypeModal, closeContactCreateModal
  <2> QED
    BY <1>2, <2>1, <2>2 DEF FormData, DataShape, UserTypes
<1>9. CASE checkForMultipleRecordTypeAccess
  <2>1. /\ UNCHANGED <<recordTypePage, showRecordTypeModal, showContactCreateModal, user>>
        /\ \/ UNCHANGED <<contactData, hasMultipleRecordTypeAccess>>
           \/ contactData' = [contactData EXCEPT !.typeId = DefaultType]
    BY <1>9 DEF checkForMultipleRecordTypeAccess, modals
  <2>2. CASE contactData' = [contactData EXCEPT !.typeId = DefaultType]
    <3>1. /\ DataShape' /\ contactData'.id = contactData.id
          /\ contactData'.typeId = DefaultType
          /\ contactData'.typeName = contactData.typeName
      BY <1>2, <2>2 DEF FormData, DataShape
    <3> QED
      BY <1>2, <2>1, <3>1 DEF FormData, UserTypes
  <2>3. CASE UNCHANGED <<contactData, hasMultipleRecordTypeAccess>>
    BY <1>1, <2>1, <2>3
  <2> QED
    BY <2>1, <2>2, <2>3
<1> QED
  BY <1>3, <1>4, <1>5, <1>6, <1>7, <1>8, <1>9 DEF Next

LEMMA FieldsInvHolds == Spec => []FieldsInv
<1>1. Init => FieldsInv
  <2> SUFFICES ASSUME Init PROVE FieldsInv
    OBVIOUS
  <2>1. SearchFlags /\ AccessFlags /\ WizardFlags
    BY DEF Init, SearchFlags, AccessFlags, WizardFlags
  <2>2. Counters
    BY PageSizeAssumption, BoundsAssumption DEF Init, Counters
  <2>3. FormData
    BY DEF Init, FormData, DataShape, NoData, UserTypes
  <2> QED
    BY <2>1, <2>2, <2>3 DEF FieldsInv
<1>2. FieldsInv /\ PageInv /\ DataInv /\ [Next]_vars => FieldsInv'
  BY SearchFlagsKept, AccessFlagsKept, WizardFlagsKept, CountersKept, FormDataKept
     DEF FieldsInv
<1> QED
  BY <1>1, <1>2, PageInvHolds, DataInvHolds, PTL DEF Spec

(* The fields of the page and of its wizard hold what their uses expect.     *)
THEOREM SearchTypeCorrect == Spec => []TypeOK
<1>1. FieldsInv /\ PageInv /\ DataInv => TypeOK
  <2> SUFFICES ASSUME FieldsInv, PageInv, DataInv PROVE TypeOK
    OBVIOUS
  <2>1. globalProfiles # Null => {globalProfiles[i].id : i \in DOMAIN globalProfiles} \subseteq Ids
    <3>1. CASE globalProfiles = <<>>
      BY <3>1
    <3>2. CASE \E source \in Sources : globalProfiles = AllData(source)
      BY <3>2 DEF Ids
    <3> QED
      BY <3>1, <3>2 DEF DataInv
  <2>2. user.types \subseteq Types /\ UserTypes \subseteq Types /\ user \in Users
    BY DEF FieldsInv, AccessFlags, Types, UserTypes
  <2>3. \A flag \in {isSearchButton, showSpinner, displayGlobalProfileTable,
                     isResult, isTimeOut, objectInfo, contactCreateAccess,
                     leadCreateAccess, isCreateButtonAvailableToUser,
                     showObjectSelectionModal, showRecordTypeModal,
                     showContactCreateModal, hasMultipleRecordTypeAccess,
                     isRendered, overlapped} : flag \in BOOLEAN
    BY DEF FieldsInv, SearchFlags, AccessFlags, WizardFlags
  <2>4. page \in Nat \ {0} /\ {totalPage, totalRecountCount} \subseteq Nat
    BY DEF PageInv
  <2>5. /\ searchKey \in {"undefined", "empty", "spaces", "text"}
        /\ inFlight \in 0..MaxInFlight
        /\ selectedObject \in {"none", "Contact", "Lead"}
        /\ globalprofileindex \in 0..pageSize
        /\ timers \in 0..MaxTimers
        /\ at \in {"search", "away"}
    BY DEF FieldsInv, Counters
  <2>6. /\ contactData.id \in Ids \cup {"none"}
        /\ {contactData.typeId, contactData.typeName} \subseteq Types
        /\ {recordTypePage.id, recordTypePage.name} \subseteq Types
        /\ showRecordTypeModal => {recordTypePage.id, recordTypePage.name} \subseteq user.types
        /\ showContactCreateModal => contactData.typeId \in user.types
    BY <2>2 DEF FieldsInv, FormData
  <2> QED
    BY <2>1, <2>2, <2>3, <2>4, <2>5, <2>6 DEF TypeOK
<1> QED
  BY <1>1, FieldsInvHolds, PageInvHolds, DataInvHolds, PTL
=============================================================================
