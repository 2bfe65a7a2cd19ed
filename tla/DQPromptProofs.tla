---------------------------- MODULE DQPromptProofs ----------------------------
(***************************************************************************)
(* What the validation component keeps when answers are prompt, that is    *)
(* when a round starts after the callouts of the one before have settled:  *)
(* a save takes longer than a callout.  For any number of rounds.          *)
(***************************************************************************)
EXTENDS DQValidationProofs, FiniteSetTheorems, SequencesExt

Primaries == {"Email", "Phone", "Address"}

(* The field whose message tells of an exception of f.                       *)
Primary(f) == CASE f \in Emails -> "Email" [] f \in Phones -> "Phone" [] OTHER -> f

(* The field f shares the "callback received" flag with.                     *)
Sibling(f) == CASE f = "Email" -> "SecondaryEmail"
                [] f = "SecondaryEmail" -> "Email"
                [] f = "Phone" -> "MobilePhone"
                [] f = "MobilePhone" -> "Phone"
                [] OTHER -> "none"

(* What the modal would show.                                                *)
Listed == ToSet(invalidDataLists) \union ToSet(phoneNumberTypeDataLists)

(* The promises out belong to this round.                                    *)
CurrentCalls == \A c \in inFlight : c.round = round /\ c.form = form

(* Before the switches are known nothing of the round has happened.          *)
MetadataFirst ==
    \A c \in inFlight : c.name = "DQMetadata" =>
        /\ inFlight = {c}
        /\ Listed = {} /\ failed = {}
        /\ \A f \in Fields : ~received[f]

(* A field with a callout out has shown no result yet; if its flag is set,   *)
(* the callout of its sibling was rejected, which the message of the pair    *)
(* says.                                                                     *)
UnsettledFields ==
    \A c \in inFlight : c.name # "DQMetadata" =>
        /\ c.name \in form.asked
        /\ c.name \notin Listed \union failed
        /\ received[c.name] =>
              /\ msg[Primary(c.name)] = "exception"
              /\ Sibling(c.name) \in failed
              /\ Sibling(c.name) \notin Listed

(* A failure of a primary field is not forgotten.                            *)
FailuresKept ==
    /\ failed \subseteq form.asked
    /\ \A f \in failed \intersect Primaries : msg[f] = "exception"

(* A listed field is called invalid, or the exception of its sibling has     *)
(* taken the place of its message.                                           *)
ListedFlagged ==
    /\ Listed \subseteq form.asked
    /\ \A f \in Listed : \/ msg[f] = "invalid"
                         \/ f \in Primaries /\ Sibling(f) \in failed

PromptInv ==
    /\ CurrentCalls
    /\ MetadataFirst
    /\ UnsettledFields
    /\ FailuresKept
    /\ ListedFlagged
    /\ NoItemListedTwice
    /\ IsFiniteSet(inFlight)

-----------------------------------------------------------------------------
(* A list with one more item.                                                *)
LEMMA MoreItems ==
  ASSUME NEW S, NEW s \in Seq(S), NEW e \in S
  PROVE  ToSet(Append(s, e)) = ToSet(s) \union {e}
<1> DEFINE t == Append(s, e)
<1>1. /\ Len(s) \in Nat
      /\ t[Len(s) + 1] = e
      /\ \A i \in 1..Len(s) : t[i] = s[i]
      /\ DOMAIN t = 1..Len(s) + 1 /\ DOMAIN s = 1..Len(s)
  OBVIOUS
<1>2. \A i \in 1..Len(s) + 1 : i \in 1..Len(s) \/ i = Len(s) + 1
  BY <1>1
<1> HIDE DEF t
<1>3. ASSUME NEW x \in ToSet(t) PROVE x \in ToSet(s) \union {e}
  BY <1>1, <1>2, <1>3 DEF ToSet
<1>4. ASSUME NEW x \in ToSet(s) PROVE x \in ToSet(t)
  <2>1. PICK i \in 1..Len(s) : s[i] = x
    BY <1>1, <1>4 DEF ToSet
  <2>2. i \in 1..Len(s) + 1 /\ t[i] = x
    BY <1>1, <2>1
  <2> QED
    BY <1>1, <2>2 DEF ToSet
<1>5. e \in ToSet(t)
  <2>1. Len(s) + 1 \in 1..Len(s) + 1
    BY <1>1
  <2> QED
    BY <1>1, <2>1 DEF ToSet
<1> QED
  BY <1>3, <1>4, <1>5 DEF t

Distinct(s) == \A i, j \in 1..Len(s) : s[i] = s[j] => i = j

LEMMA StillDistinct ==
  ASSUME NEW S, NEW s \in Seq(S), NEW e \in S, e \notin ToSet(s),
         Distinct(s)
  PROVE  Distinct(Append(s, e))
<1> DEFINE t == Append(s, e)
<1>1. /\ Len(t) = Len(s) + 1 /\ Len(s) \in Nat
      /\ t[Len(s) + 1] = e
      /\ \A i \in 1..Len(s) : t[i] = s[i]
      /\ DOMAIN s = 1..Len(s)
  OBVIOUS
<1>2. \A i \in 1..Len(t) : i \in 1..Len(s) \/ i = Len(s) + 1
  BY <1>1
<1>3. \A k \in 1..Len(s) : s[k] # e
  BY <1>1 DEF ToSet
<1> HIDE DEF t
<1>4. ASSUME NEW i \in 1..Len(t), NEW j \in 1..Len(t), t[i] = t[j]
      PROVE  i = j
  BY <1>1, <1>2, <1>3, <1>4 DEF Distinct
<1> QED
  BY <1>4 DEF t, Distinct

-----------------------------------------------------------------------------
(* What the answer of a callout, or its rejection, can do: it settles the    *)
(* call c, writes the message of its field or an exception into the message  *)
(* of the pair, lists its field as invalid, and sets a foreign flag only     *)
(* when it has failed.                                                       *)
Failing(c) == /\ failed' = failed \union {c.name}
              /\ msg'[Primary(c.name)] = "exception"
              /\ UNCHANGED lists

Listing(c) ==
    /\ invalidDataLists' \in {invalidDataLists, Append(invalidDataLists, c.name)}
    /\ phoneNumberTypeDataLists' \in
         {phoneNumberTypeDataLists, Append(phoneNumberTypeDataLists, c.name)}
    /\ UNCHANGED lists \/ msg'[c.name] = "invalid"
    /\ failed' = failed

Answered(c) ==
    /\ inFlight' = inFlight \ {c}
    /\ UNCHANGED <<form, round, polling, mounted, showModal_Invalid>>
    /\ Failing(c) \/ Listing(c)
    /\ \A f \in Fields : received'[f] =>
          \/ received[f] \/ f = c.name
          \/ Primary(f) = Primary(c.name) /\ Failing(c)
    /\ \A f \in Fields : msg'[f] # msg[f] =>
          f = c.name \/ (f = Primary(c.name) /\ Failing(c))

LEMMA EmailAnswered ==
  ASSUME TypeOK, NEW c \in inFlight, c.round = round,
         \/ EmailRejected(c)
         \/ \E a \in EmailAnswers : EmailAnswer(c, a)
  PROVE  Answered(c) /\ c.name \in Emails
<1> USE DEF Emails, Phones, Fields
<1>1. Primary(c.name) = "Email" /\ c.name \in Emails
  BY DEF EmailAnswer, EmailRejected, Primary
<1>2. CASE EmailRejected(c)
  <2>1. Failing(c)
    BY <1>1, <1>2 DEF EmailRejected, Failing, Fails, TypeOK
  <2>2. \A f \in Fields : f \in Emails => Primary(f) = "Email"
    BY DEF Primary
  <2> QED
    BY <1>1, <1>2, <2>1, <2>2 DEF EmailRejected, Answered, TypeOK, display
<1>3. ASSUME NEW a \in EmailAnswers, EmailAnswer(c, a) PROVE Answered(c)
  <2>1. CASE a \in Statuses /\ c.form.value[c.name] # "absent"
    <3>1. DQVerifyEmail(c.name, a) /\ failed' = failed
      BY <1>3, <2>1 DEF EmailAnswer, Statuses
    <3>2. UNCHANGED phoneNumberTypeDataLists
      BY <1>3 DEF EmailAnswer
    <3>3. Listing(c)
      BY <1>1, <3>1, <3>2, <2>1 DEF DQVerifyEmail, Listing, lists, TypeOK, Statuses
    <3>4. \A f \in Fields : msg'[f] # msg[f] => f = c.name
      BY <1>1, <3>1 DEF DQVerifyEmail, TypeOK
    <3> QED
      BY <1>1, <1>3, <3>3, <3>4 DEF EmailAnswer, Answered, TypeOK, display
  <2>2. CASE ~(a \in Statuses /\ c.form.value[c.name] # "absent") /\ a = "exception"
    <3>1. Failing(c)
      BY <1>1, <1>3, <2>2 DEF EmailAnswer, Failing, Fails, TypeOK, lists
    <3> QED
      BY <1>1, <1>3, <2>2, <3>1 DEF EmailAnswer, Answered, TypeOK, display
  <2>3. CASE ~(a \in Statuses /\ c.form.value[c.name] # "absent") /\ a # "exception"
    <3>1. Listing(c)
      BY <1>1, <1>3, <2>3 DEF EmailAnswer, Listing, lists
    <3> QED
      BY <1>1, <1>3, <2>3, <3>1 DEF EmailAnswer, Answered, TypeOK, display
  <2> QED
    BY <2>1, <2>2, <2>3
<1> QED
  BY <1>1, <1>2, <1>3

LEMMA PhoneAnswered ==
  ASSUME TypeOK, NEW c \in inFlight, c.round = round,
         \/ PhoneRejected(c)
         \/ \E a \in PhoneAnswers, t \in NumberTypes : PhoneAnswer(c, a, t)
  PROVE  Answered(c) /\ c.name \in Phones
<1> USE DEF Emails, Phones, Fields
<1>1. Primary(c.name) = "Phone" /\ c.name \in Phones
  BY DEF PhoneAnswer, PhoneRejected, Primary
<1>2. CASE PhoneRejected(c)
  <2>1. Failing(c)
    BY <1>1, <1>2 DEF PhoneRejected, Failing, Fails, TypeOK
  <2>2. \A f \in Fields : f \in Phones => Primary(f) = "Phone"
    BY DEF Primary
  <2> QED
    BY <1>1, <1>2, <2>1, <2>2 DEF PhoneRejected, Answered, TypeOK, display
<1>3. ASSUME NEW a \in PhoneAnswers, NEW t \in NumberTypes, PhoneAnswer(c, a, t)
      PROVE  Answered(c)
  <2>1. CASE a \in Statuses /\ c.form.value[c.name] # "absent"
    <3>1. DQVerifyPhone(c.name, a, WrongType(c.name, t)) /\ failed' = failed
      BY <1>3, <2>1 DEF PhoneAnswer, Statuses
    <3>2. Listing(c)
      BY <1>1, <3>1, <2>1 DEF DQVerifyPhone, Listing, lists, TypeOK
    <3>3. \A f \in Fields : msg'[f] # msg[f] => f = c.name
      BY <1>1, <3>1 DEF DQVerifyPhone, TypeOK
    <3> QED
      BY <1>1, <1>3, <3>2, <3>3 DEF PhoneAnswer, Answered, TypeOK
  <2>2. CASE ~(a \in Statuses /\ c.form.value[c.name] # "absent") /\ a = "exception"
    <3>1. Failing(c)
      BY <1>1, <1>3, <2>2 DEF PhoneAnswer, Failing, Fails, TypeOK
    <3> QED
      BY <1>1, <1>3, <2>2, <3>1 DEF PhoneAnswer, Answered, TypeOK
  <2>3. CASE ~(a \in Statuses /\ c.form.value[c.name] # "absent") /\ a # "exception"
    <3>1. Listing(c)
      BY <1>1, <1>3, <2>3 DEF PhoneAnswer, Listing, lists
    <3> QED
      BY <1>1, <1>3, <2>3, <3>1 DEF PhoneAnswer, Answered, TypeOK
  <2> QED
    BY <2>1, <2>2, <2>3
<1> QED
  BY <1>1, <1>2, <1>3

LEMMA AddressAnswered ==
  ASSUME TypeOK, NEW c \in inFlight, c.round = round,
         \/ AddressRejected(c)
         \/ \E a \in AddressAnswers : AddressAnswer(c, a)
  PROVE  Answered(c) /\ c.name = "Address"
<1> USE DEF Emails, Phones, Fields
<1>1. Primary(c.name) = "Address" /\ c.name = "Address"
  BY DEF AddressAnswer, AddressRejected, Primary
<1>2. CASE AddressRejected(c)
  <2>1. Failing(c)
    BY <1>1, <1>2 DEF AddressRejected, Failing, Fails, TypeOK
  <2> QED
    BY <1>1, <1>2, <2>1 DEF AddressRejected, Answered, TypeOK, display
<1>3. ASSUME NEW a \in AddressAnswers, AddressAnswer(c, a) PROVE Answered(c)
  <2>1. Failing(c) \/ Listing(c)
    BY <1>1, <1>3 DEF AddressAnswer, AddressAnswers, Statuses, Failing, Listing,
       Fails, TypeOK, lists
  <2>2. \A f \in Fields : msg'[f] # msg[f] => f = c.name
    BY <1>1, <1>3 DEF AddressAnswer, TypeOK
  <2>3. \A f \in Fields : received'[f] => received[f] \/ f = c.name
    BY <1>1, <1>3 DEF AddressAnswer, TypeOK
  <2> QED
    BY <1>1, <1>3, <2>1, <2>2, <2>3 DEF AddressAnswer, Answered, display
<1> QED
  BY <1>1, <1>2, <1>3

-----------------------------------------------------------------------------
(* Each kind of step keeps PromptInv.                                        *)

(* A call is known by its field.                                             *)
LEMMA CallOfField ==
  ASSUME TypeOK, CurrentCalls, NEW c \in inFlight, NEW d \in inFlight,
         c.name = d.name
  PROVE  c = d
BY DEF TypeOK, CurrentCalls, Calls

LEMMA ListsAfterAnswer ==
  ASSUME TypeOK, NEW c \in inFlight, c.name \in Fields, c.name \notin Listed,
         c.name \in Phones \/ UNCHANGED phoneNumberTypeDataLists,
         NoItemListedTwice, Listing(c)
  PROVE  /\ Listed' \subseteq Listed \union {c.name}
         /\ Listed \subseteq Listed'
         /\ Listed' = Listed \/ msg'[c.name] = "invalid"
         /\ NoItemListedTwice'
<1>1. /\ invalidDataLists \in Seq(Fields)
      /\ phoneNumberTypeDataLists \in Seq(Phones)
  BY DEF TypeOK
<1>2. /\ ToSet(invalidDataLists') \subseteq ToSet(invalidDataLists) \union {c.name}
      /\ ToSet(invalidDataLists) \subseteq ToSet(invalidDataLists')
      /\ Distinct(invalidDataLists')
  <2>1. CASE invalidDataLists' = invalidDataLists
    BY <2>1 DEF NoItemListedTwice, Distinct
  <2>2. CASE invalidDataLists' = Append(invalidDataLists, c.name)
    <3>1. c.name \notin ToSet(invalidDataLists)
      BY DEF Listed
    <3>2. ToSet(invalidDataLists') = ToSet(invalidDataLists) \union {c.name}
      BY <1>1, <2>2, MoreItems
    <3>3. Distinct(invalidDataLists)
      BY DEF NoItemListedTwice, Distinct
    <3>4. Distinct(invalidDataLists')
      BY <1>1, <2>2, <3>1, <3>3, StillDistinct
    <3> QED
      BY <3>2, <3>4
  <2> QED
    BY <2>1, <2>2 DEF Listing
<1>3. /\ ToSet(phoneNumberTypeDataLists') \subseteq ToSet(phoneNumberTypeDataLists) \union {c.name}
      /\ ToSet(phoneNumberTypeDataLists) \subseteq ToSet(phoneNumberTypeDataLists')
      /\ Distinct(phoneNumberTypeDataLists')
  <2>1. CASE phoneNumberTypeDataLists' = phoneNumberTypeDataLists
    BY <2>1 DEF NoItemListedTwice, Distinct
  <2>2. CASE phoneNumberTypeDataLists' = Append(phoneNumberTypeDataLists, c.name) /\ c.name \in Phones
    <3>1. c.name \notin ToSet(phoneNumberTypeDataLists)
      BY DEF Listed
    <3>2. ToSet(phoneNumberTypeDataLists') = ToSet(phoneNumberTypeDataLists) \union {c.name}
      BY <1>1, <2>2, MoreItems
    <3>3. Distinct(phoneNumberTypeDataLists)
      BY DEF NoItemListedTwice, Distinct
    <3>4. Distinct(phoneNumberTypeDataLists')
      BY <1>1, <2>2, <3>1, <3>3, StillDistinct
    <3> QED
      BY <3>2, <3>4
  <2> QED
    BY <2>1, <2>2 DEF Listing
<1>4. UNCHANGED lists => Listed' = Listed
  BY DEF lists, Listed
<1> QED
  BY <1>2, <1>3, <1>4 DEF Listed, Listing, NoItemListedTwice, Distinct

LEMMA AnsweredKeepsInv ==
  ASSUME TypeOK, PromptInv, NEW c \in inFlight, Answered(c), c.name \in Fields,
         c.name \in Phones \/ UNCHANGED phoneNumberTypeDataLists
  PROVE  PromptInv'
<1> USE DEF PromptInv
<1>1. /\ c.name # "DQMetadata" /\ c.name \in form.asked
      /\ c.name \notin Listed \union failed
  BY DEF UnsettledFields, Fields, Emails, Phones
<1>2. /\ Listed' \subseteq Listed \union {c.name}
      /\ Listed \subseteq Listed'
      /\ Listed' = Listed \/ (msg'[c.name] = "invalid" /\ failed' = failed)
      /\ NoItemListedTwice'
  <2>1. CASE Listing(c)
    BY <1>1, <2>1, ListsAfterAnswer DEF Listing
  <2>2. CASE Failing(c)
    <3>1. UNCHANGED lists
      BY <2>2 DEF Failing
    <3> QED
      BY <3>1 DEF lists, Listed, NoItemListedTwice
  <2> QED
    BY <2>1, <2>2 DEF Answered
<1>3. failed' \in {failed, failed \union {c.name}}
  BY DEF Answered, Failing, Listing
<1>4. UNCHANGED <<form, round>> /\ inFlight' = inFlight \ {c}
  BY DEF Answered
<1>5. CurrentCalls' /\ IsFiniteSet(inFlight')
  BY <1>4, FS_Subset DEF CurrentCalls
<1>6. MetadataFirst'
  BY <1>1, <1>4 DEF MetadataFirst
<1>7. \A f \in Fields : /\ msg'[f] # msg[f] => f = c.name \/ (f = Primary(c.name) /\ Failing(c))
                        /\ received'[f] => \/ received[f] \/ f = c.name
                                           \/ Primary(f) = Primary(c.name) /\ Failing(c)
  BY DEF Answered
<1>8. UnsettledFields'
  <2> SUFFICES ASSUME NEW d \in inFlight', d.name # "DQMetadata"
               PROVE  /\ d.name \in form'.asked
                      /\ d.name \notin Listed' \union failed'
                      /\ received'[d.name] =>
                            /\ msg'[Primary(d.name)] = "exception"
                            /\ Sibling(d.name) \in failed'
                            /\ Sibling(d.name) \notin Listed'
    BY DEF UnsettledFields
  <2>1. d \in inFlight /\ d.name # c.name
    BY <1>4, CallOfField
  <2>2. d.name \in form'.asked /\ d.name \notin Listed' \union failed'
    BY <1>2, <1>3, <1>4, <2>1 DEF UnsettledFields
  <2>3. d.name \in Fields /\ Primary(d.name) \in Fields
    BY <2>1 DEF TypeOK, Calls, Primary, Fields, Emails, Phones
  <2>4. CASE received[d.name]
    <3>1. /\ msg[Primary(d.name)] = "exception"
          /\ Sibling(d.name) \in failed
          /\ Sibling(d.name) \notin Listed
      BY <2>1, <2>4 DEF UnsettledFields
    <3>2. Sibling(d.name) # c.name
      BY <1>1, <3>1
    <3>3. Primary(d.name) # Primary(c.name) /\ Primary(d.name) # c.name
      BY <2>1, <2>3, <3>2 DEF Primary, Sibling, Fields, Emails, Phones
    <3> QED
      BY <1>2, <1>3, <1>7, <2>2, <2>3, <3>1, <3>2, <3>3
  <2>5. CASE received'[d.name] /\ ~received[d.name]
    <3>1. Primary(d.name) = Primary(c.name) /\ Failing(c)
      BY <1>7, <2>1, <2>3, <2>5
    <3>2. Sibling(d.name) = c.name
      BY <2>1, <2>3, <3>1 DEF Primary, Sibling, Fields, Emails, Phones
    <3>3. Listed' = Listed
      BY <3>1 DEF Failing, Listed, lists
    <3> QED
      BY <1>1, <2>2, <3>1, <3>2, <3>3 DEF Failing
  <2> QED
    BY <2>2, <2>4, <2>5
<1>9. FailuresKept'
  <2>1. failed' \subseteq form'.asked
    BY <1>1, <1>3, <1>4 DEF FailuresKept
  <2>2. ASSUME NEW f \in failed' \intersect Primaries PROVE msg'[f] = "exception"
    <3>1. f \in Fields /\ Primary(f) = f
      BY DEF Primaries, Primary, Fields, Emails, Phones
    <3>2. CASE f \in failed
      BY <1>1, <1>7, <3>1, <3>2 DEF FailuresKept, Failing
    <3>3. CASE f \notin failed
      <4>1. f = c.name /\ Failing(c)
        BY <1>3, <3>3, <2>2 DEF Answered, Listing
      <4> QED
        BY <3>1, <4>1 DEF Failing
    <3> QED
      BY <3>2, <3>3
  <2> QED
    BY <2>1, <2>2 DEF FailuresKept
<1>10. ListedFlagged'
  <2>1. Listed' \subseteq form'.asked
    BY <1>1, <1>2, <1>4 DEF ListedFlagged
  <2>2. ASSUME NEW f \in Listed'
        PROVE  msg'[f] = "invalid" \/ (f \in Primaries /\ Sibling(f) \in failed')
    <3>1. CASE f \notin Listed
      BY <1>2, <3>1, <2>2
    <3>2. CASE f \in Listed
      <4>1. f # c.name
        BY <1>1, <3>2
      <4>2. f \in Fields
        <5>1. f \in form.asked
          BY <3>2 DEF ListedFlagged
        <5> QED
          BY <5>1, FormsAssumption DEF TypeOK
      <4>3. CASE msg'[f] = msg[f]
        BY <1>3, <3>2, <4>3 DEF ListedFlagged
      <4>4. CASE msg'[f] # msg[f]
        <5>1. f = Primary(c.name) /\ Failing(c)
          BY <1>7, <4>1, <4>2, <4>4
        <5>2. f \in Primaries /\ Sibling(f) = c.name
          BY <4>1, <5>1 DEF Primary, Primaries, Sibling, Fields, Emails, Phones
        <5> QED
          BY <5>1, <5>2 DEF Failing
      <4> QED
        BY <4>3, <4>4
    <3> QED
      BY <3>1, <3>2
  <2> QED
    BY <2>1, <2>2 DEF ListedFlagged
<1> QED
  BY <1>2, <1>5, <1>6, <1>8, <1>9, <1>10

LEMMA FiveFinite ==
  ASSUME NEW a, NEW b, NEW c, NEW d, NEW e
  PROVE  IsFiniteSet({a, b, c, d, e})
<1>1. IsFiniteSet({a}) /\ IsFiniteSet({a} \cup {b})
  BY FS_Singleton, FS_AddElement
<1>2. IsFiniteSet(({a} \cup {b}) \cup {c})
  BY <1>1, FS_AddElement
<1>3. IsFiniteSet((({a} \cup {b}) \cup {c}) \cup {d})
  BY <1>2, FS_AddElement
<1>4. IsFiniteSet(((({a} \cup {b}) \cup {c}) \cup {d}) \cup {e})
  BY <1>3, FS_AddElement
<1>5. {a, b, c, d, e} = ((({a} \cup {b}) \cup {c}) \cup {d}) \cup {e}
  OBVIOUS
<1> QED
  BY <1>4, <1>5

LEMMA MetadataKeepsInv ==
  ASSUME TypeOK, PromptInv, NEW c \in inFlight,
         MetadataRejected(c) \/ \E sw \in Switches : MetadataAnswer(c, sw)
  PROVE  PromptInv'
<1> USE DEF PromptInv
<1>1. /\ inFlight = {c} /\ Listed = {} /\ failed = {}
      /\ \A f \in Fields : ~received[f]
      /\ c.round = round /\ c.form = form
  BY DEF MetadataFirst, CurrentCalls, MetadataRejected, MetadataAnswer
<1>2. UNCHANGED <<form, round, failed>> /\ Listed' = {} /\ NoItemListedTwice'
  <2>1. UNCHANGED <<form, round, failed, lists>>
    BY DEF MetadataRejected, MetadataAnswer
  <2> QED
    BY <1>1, <2>1 DEF lists, Listed, NoItemListedTwice
<1>3. CASE MetadataRejected(c)
  <2>1. inFlight' = {}
    BY <1>1, <1>3 DEF MetadataRejected
  <2> QED
    BY <1>1, <1>2, <2>1, FS_EmptySet DEF CurrentCalls, MetadataFirst, UnsettledFields,
       FailuresKept, ListedFlagged
<1>4. ASSUME NEW sw \in Switches, MetadataAnswer(c, sw) PROVE PromptInv'
  <2> DEFINE call(f) == [round |-> c.round, name |-> f, form |-> c.form]
             started == Started(sw, form.asked)
  <2>1. inFlight' = {call(f) : f \in started}
    BY <1>1, <1>4 DEF MetadataAnswer
  <2>2. form.asked \subseteq Fields
    BY FormsAssumption DEF TypeOK
  <2>3. started \subseteq Fields /\ started \subseteq form.asked
    BY <2>2 DEF Started
  <2>4. \A f \in started : ~received'[f]
    BY <1>1, <1>4, <2>3 DEF MetadataAnswer, Skipped
  <2>5. IsFiniteSet(inFlight')
    <3>1. inFlight' \subseteq {call("Email"), call("SecondaryEmail"), call("Phone"),
                                call("MobilePhone"), call("Address")}
      BY <2>1, <2>3 DEF Fields, Emails, Phones
    <3> HIDE DEF call
    <3> QED
      BY <3>1, FiveFinite, FS_Subset
  <2>6. ASSUME NEW d \in inFlight'
        PROVE  /\ d.round = round' /\ d.form = form'
               /\ d.name \in started
    BY <1>1, <1>2, <2>1, <2>6
  <2> HIDE DEF started
  <2>7. CurrentCalls'
    BY <2>6 DEF CurrentCalls
  <2>8. MetadataFirst'
    BY <2>3, <2>6 DEF MetadataFirst, Fields, Emails, Phones
  <2>9. UnsettledFields'
    BY <1>1, <1>2, <2>3, <2>4, <2>6 DEF UnsettledFields
  <2>10. FailuresKept' /\ ListedFlagged'
    BY <1>1, <1>2 DEF FailuresKept, ListedFlagged
  <2> QED
    BY <1>2, <2>5, <2>7, <2>8, <2>9, <2>10
<1> QED
  BY <1>3, <1>4

LEMMA SettleKeepsInv ==
  ASSUME TypeOK, PromptInv, NEW c \in inFlight, Settle(c)
  PROVE  PromptInv'
<1>1. c.round = round
  BY DEF PromptInv, CurrentCalls
<1>2. CASE MetadataRejected(c) \/ \E sw \in Switches : MetadataAnswer(c, sw)
  BY <1>2, MetadataKeepsInv
<1>3. CASE EmailRejected(c) \/ \E a \in EmailAnswers : EmailAnswer(c, a)
  <2>1. Answered(c) /\ c.name \in Fields
    BY <1>1, <1>3, EmailAnswered DEF Fields
  <2>2. UNCHANGED phoneNumberTypeDataLists
    BY <1>3 DEF EmailRejected, EmailAnswer, lists
  <2> QED
    BY <2>1, <2>2, AnsweredKeepsInv
<1>4. CASE PhoneRejected(c) \/ \E a \in PhoneAnswers, t \in NumberTypes : PhoneAnswer(c, a, t)
  <2>1. Answered(c) /\ c.name \in Phones
    BY <1>1, <1>4, PhoneAnswered
  <2> QED
    BY <2>1, AnsweredKeepsInv DEF Fields
<1>5. CASE AddressRejected(c) \/ \E a \in AddressAnswers : AddressAnswer(c, a)
  <2>1. Answered(c) /\ c.name \in Fields
    BY <1>1, <1>5, AddressAnswered DEF Fields
  <2>2. UNCHANGED phoneNumberTypeDataLists
    BY <1>5 DEF AddressRejected, AddressAnswer, lists
  <2> QED
    BY <2>1, <2>2, AnsweredKeepsInv
<1> QED
  BY <1>2, <1>3, <1>4, <1>5 DEF Settle

(* A round that starts with nothing in flight.                               *)
LEMMA StartKeepsInv ==
  ASSUME inFlight = {}, NEW f \in Forms, NEW statuses, validateDQServices(f, statuses)
  PROVE  PromptInv'
<1> DEFINE c == [round |-> round + 1, name |-> "DQMetadata", form |-> f]
<1>1. /\ inFlight' = {c} /\ round' = round + 1 /\ form' = f /\ failed' = {}
      /\ \A x \in Fields : ~received'[x]
      /\ invalidDataLists' = <<>> /\ phoneNumberTypeDataLists' = <<>>
  BY DEF validateDQServices, resetALL
<1>2. c.round = round + 1 /\ c.form = f /\ c.name = "DQMetadata"
  OBVIOUS
<1> HIDE DEF c
<1>3. Listed' = {} /\ NoItemListedTwice'
  BY <1>1 DEF Listed, NoItemListedTwice, ToSet
<1>4. IsFiniteSet(inFlight')
  BY <1>1, FS_Singleton
<1> QED
  BY <1>1, <1>2, <1>3, <1>4 DEF PromptInv, CurrentCalls, MetadataFirst,
     UnsettledFields, FailuresKept, ListedFlagged

(* The buttons of the modal.                                                 *)
LEMMA CloseKeepsInv ==
  ASSUME TypeOK, PromptInv, CloseModal
  PROVE  PromptInv'
<1>1. /\ UNCHANGED <<msg, form, inFlight, round, failed>>
      /\ \A x \in Fields : ~received'[x]
      /\ invalidDataLists' = <<>> /\ phoneNumberTypeDataLists' = <<>>
  BY DEF CloseModal, resetALL
<1>2. Listed' = {} /\ NoItemListedTwice'
  BY <1>1 DEF Listed, NoItemListedTwice, ToSet
<1>3. CurrentCalls' /\ FailuresKept' /\ IsFiniteSet(inFlight')
  BY <1>1 DEF PromptInv, CurrentCalls, FailuresKept
<1>4. MetadataFirst'
  BY <1>1, <1>2 DEF PromptInv, MetadataFirst
<1>5. UnsettledFields' 
  <2> SUFFICES ASSUME NEW c \in inFlight, c.name # "DQMetadata"
               PROVE  c.name \in form.asked /\ c.name \notin failed /\ ~received'[c.name]
    BY <1>1, <1>2 DEF UnsettledFields
  <2>1. c.name \in form.asked /\ c.name \notin failed
    BY DEF PromptInv, UnsettledFields
  <2>2. c.name \in Fields
    BY <2>1, FormsAssumption DEF TypeOK
  <2> QED
    BY <1>1, <2>1, <2>2
<1> QED
  BY <1>1, <1>2, <1>3, <1>4, <1>5 DEF PromptInv, ListedFlagged

(* The interval, and everything else that leaves the answers alone.          *)
LEMMA StutterKeepsInv ==
  ASSUME PromptInv, UNCHANGED <<received, msg, lists, failed, inFlight, form, round>>
  PROVE  PromptInv'
BY DEF PromptInv, CurrentCalls, MetadataFirst, UnsettledFields, FailuresKept,
   ListedFlagged, NoItemListedTwice, Listed, lists

-----------------------------------------------------------------------------
LEMMA PromptInvHolds ==
  ASSUME MaxLate = 0
  PROVE  Spec => []PromptInv
<1>1. Init => PromptInv
  <2> SUFFICES ASSUME Init PROVE PromptInv
    OBVIOUS
  <2>1. /\ inFlight = {} /\ failed = {}
        /\ invalidDataLists = <<>> /\ phoneNumberTypeDataLists = <<>>
    BY DEF Init
  <2>2. Listed = {} /\ NoItemListedTwice
    BY <2>1 DEF Listed, NoItemListedTwice, ToSet
  <2> QED
    BY <2>1, <2>2, FS_EmptySet DEF PromptInv, CurrentCalls, MetadataFirst,
       UnsettledFields, FailuresKept, ListedFlagged
<1>2. TypeOK /\ PromptInv /\ [Next]_vars => PromptInv'
  <2> SUFFICES ASSUME TypeOK, PromptInv, [Next]_vars PROVE PromptInv'
    OBVIOUS
  <2>1. ASSUME NEW f \in Forms, ParentMayCall, validateDQServices(f, Unchecked) PROVE PromptInv'
    <3>1. Cardinality(inFlight) <= 0 /\ IsFiniteSet(inFlight)
      BY <2>1 DEF ParentMayCall, PromptInv
    <3>2. inFlight = {}
      BY <3>1, FS_CardinalityType, FS_EmptySet
    <3> QED
      BY <2>1, <3>2, StartKeepsInv
  <2>2. ASSUME NEW c \in inFlight, Settle(c) PROVE PromptInv'
    BY <2>2, SettleKeepsInv
  <2>3. CASE Poll \/ UNCHANGED vars
    BY <2>3, StutterKeepsInv DEF Poll, PollValid, PollInvalid, PollException, vars
  <2>4. CASE handleYes \/ handleNo
    BY <2>4, CloseKeepsInv DEF handleYes, handleNo
  <2> QED
    BY <2>1, <2>2, <2>3, <2>4 DEF Next
<1> QED
  BY <1>1, <1>2, TypeCorrect, PTL DEF Spec

(* No field is displayed twice, whatever order the answers come in.          *)
THEOREM NoItemTwice ==
  ASSUME MaxLate = 0
  PROVE  Spec => []NoItemListedTwice
<1>1. PromptInv => NoItemListedTwice
  BY DEF PromptInv
<1> QED
  BY <1>1, PromptInvHolds, PTL

(* A flag that was set for a sibling that is still out came with an          *)
(* exception.                                                                *)
LEMMA ValidIsComplete ==
  ASSUME TypeOK, PromptInv, PollValid
  PROVE  inFlight = {}
<1> SUFFICES ASSUME NEW c \in inFlight PROVE FALSE
  OBVIOUS
<1>1. c.name \in Fields
  BY DEF PollValid, AllReceived, PromptInv, MetadataFirst, TypeOK, Calls, Fields
<1>2. received[c.name] /\ Primary(c.name) \in Fields
  BY <1>1 DEF PollValid, AllReceived, Primary, Fields, Emails, Phones
<1>3. msg[Primary(c.name)] = "exception"
  BY <1>1, <1>2 DEF PromptInv, UnsettledFields, Fields, Emails, Phones
<1> QED
  BY <1>2, <1>3 DEF PollValid, AllOk

(* A round is called valid only when all its callouts have settled.          *)
THEOREM ValidMeansComplete ==
  ASSUME MaxLate = 0
  PROVE  Spec => ValidOnlyWhenComplete
<1>1. TypeOK /\ PromptInv /\ [Next]_vars
        => [Reports("DQ_CALLOUT") => \A c \in inFlight : c.round # round]_vars
  BY ValidReportIsPollValid, ValidIsComplete
<1> QED
  BY <1>1, TypeCorrect, PromptInvHolds, PTL DEF Spec, ValidOnlyWhenComplete

(* A failure of a primary callout is not forgotten before the report.        *)
THEOREM PrimaryFailureKept ==
  ASSUME MaxLate = 0
  PROVE  Spec => PrimaryFailureReported
<1>1. TypeOK /\ PromptInv /\ [Next]_vars
        => [Reports("DQ_CALLOUT") =>
               failed \intersect {"Email", "Phone", "Address"} = {}]_vars
  <2> SUFFICES ASSUME TypeOK, PromptInv, [Next]_vars, Reports("DQ_CALLOUT"),
                      NEW f \in failed \intersect Primaries
               PROVE  FALSE
    BY DEF Primaries
  <2>1. PollValid
    BY ValidReportIsPollValid
  <2>2. msg[f] = "exception" /\ f \in Fields
    BY DEF PromptInv, FailuresKept, Primaries, Fields, Emails, Phones
  <2> QED
    BY <2>1, <2>2 DEF PollValid, AllOk
<1> QED
  BY <1>1, TypeCorrect, PromptInvHolds, PTL DEF Spec, PrimaryFailureReported

-----------------------------------------------------------------------------
(* The message of y is "invalid", and no answer can change it any more.      *)
Firm(y) == /\ msg[y] = "invalid"
           /\ \A c \in inFlight : Primary(c.name) # Primary(y)

(* While the user is asked, the interval runs and cannot report.             *)
ModalFirm ==
    mounted /\ showModal_Invalid =>
        /\ polling > 0
        /\ \A c \in inFlight : c.name # "DQMetadata"
        /\ \E y \in Fields : Firm(y)

(* The modal is opened over a message that stays: a listed field has none    *)
(* but settled callouts in its pair.  If its message was replaced, its pair  *)
(* was asked for, so that no other pair can have a callout out.              *)
LEMMA AskedFirmly ==
  ASSUME TypeOK, PromptInv, OnePair(form), AllReceived, SomeInvalid, Listed # {}
  PROVE  /\ \A c \in inFlight : c.name # "DQMetadata"
         /\ \E y \in Fields : Firm(y)
<1> USE DEF Fields, Emails, Phones
<1>1. form.asked \subseteq Fields
  BY FormsAssumption DEF TypeOK
<1>2. \A c \in inFlight : c.name # "DQMetadata"
  BY DEF PromptInv, MetadataFirst
<1>3. ASSUME NEW c \in inFlight
      PROVE  /\ c.name \in form.asked /\ c.name \in Fields
             /\ c.name \notin Listed \union failed
             /\ msg[Primary(c.name)] = "exception"
             /\ Sibling(c.name) \in failed
             /\ Sibling(c.name) \notin Listed
  <2>1. c.name \in form.asked /\ c.name \notin Listed \union failed
    BY <1>2 DEF PromptInv, UnsettledFields
  <2>2. received[c.name]
    BY <1>1, <2>1 DEF AllReceived
  <2> QED
    BY <1>1, <1>2, <2>1, <2>2 DEF PromptInv, UnsettledFields
<1>4. PICK y \in Listed : TRUE
  OBVIOUS
<1>5. y \in Fields /\ y \in form.asked
  BY <1>1 DEF PromptInv, ListedFlagged
<1>6. \A c \in inFlight : Primary(c.name) # Primary(y)
  BY <1>3, <1>4, <1>5 DEF Primary, Sibling
<1>7. CASE msg[y] = "invalid"
  BY <1>2, <1>5, <1>6, <1>7 DEF Firm
<1>8. CASE msg[y] # "invalid"
  <2>1. y \in Primaries /\ Sibling(y) \in failed
    BY <1>4, <1>8 DEF PromptInv, ListedFlagged
  <2>2. Sibling(y) \in form.asked
    BY <2>1 DEF PromptInv, FailuresKept
  <2>3. PICK x \in Fields : msg[x] = "invalid"
    BY DEF SomeInvalid
  <2>4. ASSUME NEW c \in inFlight, Primary(c.name) = Primary(x) PROVE FALSE
    <3>1. Sibling(c.name) \in form.asked
      BY <1>3 DEF PromptInv, FailuresKept
    <3>2. c.name \in Emails \union Phones /\ y \in {"Email", "Phone"}
      BY <1>1, <1>3, <1>5, <2>1, <2>2, <3>1 DEF Sibling, Primaries
    <3>3. Emails \union Phones \subseteq form.asked
      BY <1>3, <1>5, <1>6, <2>2, <3>1, <3>2 DEF Primary, Sibling
    <3> QED
      BY <3>3 DEF OnePair
  <2> QED
    BY <1>2, <2>3, <2>4 DEF Firm
<1> QED
  BY <1>7, <1>8

LEMMA AnsweredKeepsFirm ==
  ASSUME TypeOK, NEW c \in inFlight, Answered(c), c.name \in Fields, ModalFirm
  PROVE  ModalFirm'
<1> SUFFICES ASSUME mounted, showModal_Invalid
             PROVE  /\ polling > 0
                    /\ \A d \in inFlight' : d.name # "DQMetadata"
                    /\ \E y \in Fields : Firm(y)'
  BY DEF ModalFirm, Answered
<1>1. PICK y \in Fields : Firm(y)
  BY DEF ModalFirm
<1>2. Primary(c.name) # Primary(y)
  BY <1>1 DEF Firm
<1>3. y # c.name /\ y # Primary(c.name)
  BY <1>2 DEF Primary, Fields, Emails, Phones
<1>4. msg'[y] = msg[y] /\ inFlight' \subseteq inFlight
  BY <1>3 DEF Answered
<1> QED
  BY <1>1, <1>4 DEF Firm, ModalFirm

LEMMA SettleKeepsFirm ==
  ASSUME TypeOK, PromptInv, ModalFirm, NEW c \in inFlight, Settle(c)
  PROVE  ModalFirm'
<1>1. c.round = round
  BY DEF PromptInv, CurrentCalls
<1>2. CASE c.name = "DQMetadata"
  <2>1. ~(mounted /\ showModal_Invalid)
    BY <1>2 DEF ModalFirm
  <2>2. UNCHANGED <<mounted, showModal_Invalid>>
    BY <1>2 DEF Settle, MetadataAnswer, MetadataRejected, EmailAnswer, EmailRejected,
       PhoneAnswer, PhoneRejected, AddressAnswer, AddressRejected, display
  <2> QED
    BY <2>1, <2>2 DEF ModalFirm
<1>3. CASE c.name # "DQMetadata"
  <2>1. Answered(c) /\ c.name \in Fields
    BY <1>1, <1>3, EmailAnswered, PhoneAnswered, AddressAnswered
    DEF Settle, MetadataAnswer, MetadataRejected, Fields
  <2> QED
    BY <2>1, AnsweredKeepsFirm
<1> QED
  BY <1>2, <1>3

(* While the user is asked the interval keeps silent.                        *)
LEMMA NoReportWhileAsking ==
  ASSUME ModalFirm, mounted, showModal_Invalid
  PROVE  ~PollValid /\ ~PollException
BY DEF ModalFirm, Firm, PollValid, PollException, AllOk, SomeInvalid

LEMMA PollKeepsFirm ==
  ASSUME TypeOK, PromptInv, ModalFirm, OnePair(form), Poll
  PROVE  ModalFirm'
<1>1. CASE mounted /\ showModal_Invalid
  <2>1. PollInvalid
    BY <1>1, NoReportWhileAsking DEF Poll
  <2>2. UNCHANGED <<msg, inFlight, polling>>
    BY <2>1 DEF PollInvalid
  <2> QED
    BY <1>1, <2>2 DEF ModalFirm, Firm
<1>2. CASE ~(mounted /\ showModal_Invalid)
  <2>1. CASE PollValid \/ PollException
    BY <1>2, <2>1 DEF PollValid, PollException, ModalFirm, display
  <2>2. CASE PollInvalid
    <3>1. UNCHANGED <<msg, inFlight, polling, mounted>> /\ polling > 0
      BY <2>2 DEF PollInvalid
    <3>2. SUFFICES ASSUME mounted, showModal_Invalid' PROVE ModalFirm'
      BY <3>1 DEF ModalFirm
    <3>3. invalidDataLists # <<>> \/ phoneNumberTypeDataLists # <<>>
      BY <1>2, <2>2, <3>1, <3>2 DEF PollInvalid
    <3>4. Listed # {}
      <4>1. invalidDataLists \in Seq(Fields) /\ phoneNumberTypeDataLists \in Seq(Phones)
        BY DEF TypeOK
      <4>2. \/ 1 \in DOMAIN invalidDataLists
            \/ 1 \in DOMAIN phoneNumberTypeDataLists
        BY <3>3, <4>1
      <4> QED
        BY <4>2 DEF Listed, ToSet
    <3>5. /\ \A c \in inFlight : c.name # "DQMetadata"
          /\ \E y \in Fields : Firm(y)
      BY <2>2, <3>4, AskedFirmly DEF PollInvalid
    <3> QED
      BY <3>1, <3>5 DEF ModalFirm, Firm
  <2> QED
    BY <2>1, <2>2 DEF Poll
<1> QED
  BY <1>1, <1>2

LEMMA ModalFirmHolds ==
  ASSUME MaxLate = 0, \A g \in Forms : OnePair(g)
  PROVE  Spec => []ModalFirm
<1>1. Init => ModalFirm
  BY DEF Init, ModalFirm
<1>2. TypeOK /\ PromptInv /\ ModalFirm /\ [Next]_vars => ModalFirm'
  <2> SUFFICES ASSUME TypeOK, PromptInv, ModalFirm, [Next]_vars PROVE ModalFirm'
    OBVIOUS
  <2>1. ASSUME NEW f \in Forms, ParentMayCall, validateDQServices(f, Unchecked) PROVE ModalFirm'
    BY <2>1 DEF ParentMayCall, validateDQServices, display, ModalFirm, TypeOK
  <2>2. ASSUME NEW c \in inFlight, Settle(c) PROVE ModalFirm'
    BY <2>2, SettleKeepsFirm
  <2>3. CASE Poll
    BY <2>3, PollKeepsFirm DEF TypeOK
  <2>4. CASE handleYes \/ handleNo
    BY <2>4 DEF handleYes, handleNo, CloseModal, ModalFirm
  <2>5. CASE UNCHANGED vars
    BY <2>5 DEF vars, display, ModalFirm, Firm
  <2> QED
    BY <2>1, <2>2, <2>3, <2>4, <2>5 DEF Next
<1> QED
  BY <1>1, <1>2, TypeCorrect, PromptInvHolds, PTL DEF Spec

(* The reports DQOutcome sees.                                               *)
ReportsOf(p) == [i \in 1..Len(p) |-> p[i].outcome]

LEMMA ReportAppended ==
  ASSUME NEW R, \A x \in R : x.outcome \in Outcomes,
         NEW p \in Seq(R), NEW r \in R
  PROVE  ReportsOf(Append(p, r)) = Append(ReportsOf(p), r.outcome)
<1> DEFINE q == Append(p, r)
<1>1. Len(p) \in Nat /\ \A i \in 1..Len(p) : p[i] \in R
  BY ElementOfSeq
<1>2. /\ q \in Seq(R) /\ Len(q) = Len(p) + 1
      /\ q[Len(p) + 1] = r
      /\ \A i \in 1..Len(p) : q[i] = p[i]
  OBVIOUS
<1>3. \A i \in 1..Len(q) : q[i] \in R
  BY <1>2, ElementOfSeq
<1> HIDE DEF q
<1>4. ReportsOf(p) \in Seq(Outcomes) /\ Len(ReportsOf(p)) = Len(p)
  BY <1>1, IsASeq DEF ReportsOf
<1>5. ReportsOf(q) \in Seq(Outcomes) /\ Len(ReportsOf(q)) = Len(q)
  BY <1>1, <1>2, <1>3, IsASeq DEF ReportsOf
<1> DEFINE t == Append(ReportsOf(p), r.outcome)
<1>6. /\ t \in Seq(Outcomes) /\ Len(t) = Len(p) + 1
      /\ t[Len(p) + 1] = r.outcome
      /\ \A i \in 1..Len(p) : t[i] = p[i].outcome
  <2>1. \A i \in 1..Len(p) : ReportsOf(p)[i] = p[i].outcome
    BY DEF ReportsOf
  <2>2. r.outcome \in Outcomes
    OBVIOUS
  <2> QED
    BY <1>4, <2>1, <2>2, AppendProperties
<1>7. \A i \in 1..Len(q) : ReportsOf(q)[i] = q[i].outcome
  BY DEF ReportsOf
<1> HIDE DEF t
<1>8. \A i \in 1..Len(q) : ReportsOf(q)[i] = t[i]
  <2> SUFFICES ASSUME NEW i \in 1..Len(q) PROVE q[i].outcome = t[i]
    BY <1>7
  <2>1. CASE i \in 1..Len(p)
    BY <1>2, <1>6, <2>1
  <2>2. CASE i = Len(p) + 1
    BY <1>2, <1>6, <2>2
  <2> QED
    BY <1>1, <1>2, <2>1, <2>2
<1>9. ReportsOf(q) = t
  BY <1>1, <1>2, <1>5, <1>6, <1>8, SeqEqual
<1> QED
  BY <1>9 DEF q, t

LEMMA ReportIsStep ==
  ASSUME TypeOK, mounted, NEW o \in Outcomes, passDataToParent(o)
  PROVE  ReportsOf(passed') = Append(ReportsOf(passed), o)
<1> DEFINE R == [round : Nat, outcome : Outcomes]
           r == [round |-> round, outcome |-> o]
<1>1. passed \in Seq(R) /\ r \in R /\ passed' = Append(passed, r) /\ r.outcome = o
  BY DEF TypeOK, passDataToParent
<1>2. \A x \in R : x.outcome \in Outcomes
  OBVIOUS
<1> HIDE DEF R, r
<1> QED
  BY <1>1, <1>2, ReportAppended

(* The component implements DQOutcome: it reports once on its own or asks    *)
(* once, and never reports behind the question.                              *)
THEOREM ImplementsProtocol ==
  ASSUME MaxLate = 0, \A g \in Forms : OnePair(g)
  PROVE  Spec => ImplementsOutcome
<1> DEFINE phase == IF ~mounted THEN "closed"
                    ELSE IF showModal_Invalid THEN "asking"
                    ELSE IF polling > 0 THEN "validating" ELSE "idle"
           reports == ReportsOf(passed)
<1>1. Init => Outcome!Init
  <2> SUFFICES ASSUME Init PROVE phase = "idle" /\ reports = <<>>
    BY DEF Outcome!Init, ReportsOf
  <2>1. phase = "idle"
    BY DEF Init
  <2>2. passed = <<>> /\ 1..Len(passed) = {}
    BY DEF Init
  <2>3. ReportsOf(passed) \in Seq(Outcomes) /\ Len(ReportsOf(passed)) = 0
    BY <2>2, IsASeq DEF ReportsOf
  <2> QED
    BY <2>1, <2>3, EmptySeq
<1>2. TypeOK /\ ReportInv /\ ModalFirm /\ [Next]_vars => [Outcome!Next]_<<phase, reports>>
  <2> SUFFICES ASSUME TypeOK, ReportInv, ModalFirm, [Next]_vars
               PROVE  [Outcome!Next]_<<phase, reports>>
    OBVIOUS
  <2>1. ASSUME UNCHANGED <<mounted, showModal_Invalid, polling, passed>>
        PROVE  UNCHANGED <<phase, reports>>
    BY <2>1
  <2>2. ASSUME ~mounted, ~mounted', UNCHANGED passed
        PROVE  UNCHANGED <<phase, reports>>
    BY <2>2
  <2>3. ASSUME NEW f \in Forms, ParentMayCall, validateDQServices(f, Unchecked)
        PROVE  Outcome!Start
    <3>1. phase = "idle" /\ phase' = "validating" /\ UNCHANGED reports
      BY <2>3 DEF ParentMayCall, validateDQServices, display, TypeOK
    <3> QED
      BY <3>1 DEF Outcome!Start, ReportsOf
  <2>4. ASSUME NEW c \in inFlight, Settle(c) PROVE UNCHANGED <<phase, reports>>
    <3>1. UNCHANGED <<mounted, showModal_Invalid, polling, passed>>
      BY <2>4 DEF Settle, MetadataAnswer, MetadataRejected, EmailAnswer, EmailRejected,
         PhoneAnswer, PhoneRejected, AddressAnswer, AddressRejected, display
    <3> QED
      BY <2>1, <3>1
  <2>5. CASE PollInvalid
    <3>1. polling > 0 /\ UNCHANGED <<mounted, polling, passed>>
          /\ (showModal_Invalid => showModal_Invalid')
      BY <2>5 DEF PollInvalid
    <3>2. CASE mounted /\ ~showModal_Invalid /\ showModal_Invalid'
      <4>1. phase = "validating" /\ phase' = "asking" /\ UNCHANGED reports
        BY <3>1, <3>2
      <4> QED
        BY <4>1 DEF Outcome!Next, Outcome!Ask, ReportsOf
    <3>3. CASE ~(mounted /\ ~showModal_Invalid /\ showModal_Invalid')
      BY <3>1, <3>3
    <3> QED
      BY <3>2, <3>3
  <2>6. CASE PollValid \/ PollException
    <3>1. PICK o \in {"DQ_CALLOUT", "APIException"} : passDataToParent(o)
      BY <2>6 DEF PollValid, PollException
    <3>2. polling > 0 /\ ~(polling' > 0) /\ UNCHANGED <<mounted, showModal_Invalid>>
      BY <2>6 DEF PollValid, PollException, display, ReportInv, TypeOK
    <3>3. CASE ~mounted
      BY <2>2, <3>1, <3>2, <3>3 DEF passDataToParent
    <3>4. CASE mounted
      <4>1. ~showModal_Invalid
        BY <2>6, <3>4, NoReportWhileAsking
      <4>2. phase = "validating" /\ phase' = "idle"
        BY <3>2, <3>4, <4>1
      <4>3. reports' = Append(reports, o)
        BY <3>1, <3>4, ReportIsStep DEF Outcomes
      <4> QED
        BY <4>2, <4>3 DEF Outcome!Next, Outcome!Report, ReportsOf
    <3> QED
      BY <3>3, <3>4
  <2>7. CASE handleYes
    <3>1. phase = "asking" /\ phase' = "closed" /\ UNCHANGED reports
      BY <2>7 DEF handleYes, CloseModal
    <3> QED
      BY <3>1 DEF Outcome!Next, Outcome!Correct, ReportsOf
  <2>8. CASE handleNo
    <3>1. phase = "asking" /\ phase' = "closed" /\ mounted
      BY <2>8 DEF handleNo, CloseModal
    <3>2. passed' = passed \/ reports' = Append(reports, "invalidData")
      BY <2>8, <3>1, ReportIsStep DEF handleNo, Outcomes
    <3> QED
      BY <3>1, <3>2 DEF Outcome!Next, Outcome!Keep, Outcome!Correct, ReportsOf
  <2> QED
    BY <2>1, <2>3, <2>4, <2>5, <2>6, <2>7, <2>8 DEF Next, Poll, vars, display, Outcome!Next
<1> QED
  BY <1>1, <1>2, TypeCorrect, ReportInvHolds, ModalFirmHolds, PTL DEF Spec, ImplementsOutcome, Outcome!Spec,
     ReportsOf
=============================================================================
