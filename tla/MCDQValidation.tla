--------------------------- MODULE MCDQValidation ---------------------------
(* Instances of DQValidation for model checking.                             *)
EXTENDS DQValidation

(* A form in which the fields of `filled` have a value, those of `blank` are *)
(* empty strings, and `asked` are to be validated.                           *)
FormWith(filled, blank, asked) ==
    [value |-> [f \in Fields |-> IF f \in filled THEN "filled"
                                 ELSE IF f \in blank THEN "blank" ELSE "absent"],
     asked |-> asked]

EmailForm == FormWith(Emails, {}, Emails)
PhoneForm == FormWith(Phones, {}, Phones)
MixedForm == FormWith({"Email", "Phone", "Address"}, {"SecondaryEmail"},
                      {"Email", "Phone", "Address"})
(* The second e-mail was cleared after an earlier attempt had put it on the  *)
(* accumulated dqFieldsToValidate of the create form.                        *)
ClearedForm == FormWith({"Email"}, {}, Emails)

PromptForms == {EmailForm, PhoneForm, MixedForm, ClearedForm}
EmailForms == {EmailForm, ClearedForm}
LateForms == {EmailForm, PhoneForm, ClearedForm, MixedForm}

Filled == {"filled"}

AllOn == [s \in Services |-> "on"]
PhoneOff == [AllOn EXCEPT !["Phone_Validation"] = "off"]
EmailMissing == [AllOn EXCEPT !["Email_Validation"] = "missing"]

JustOn == {AllOn}
OnOrOff == {AllOn, PhoneOff}
AnySwitch == {AllOn, PhoneOff, EmailMissing}

AllTypes == {"Mobile", "LandLine", "undefined"}

ASSUME OnePairForms == \A g \in Forms : OnePair(g)
=============================================================================
