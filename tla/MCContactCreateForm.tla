------------------------- MODULE MCContactCreateForm -------------------------
(* Instances of ContactCreateForm for model checking.                        *)
EXTENDS ContactCreateForm

TwoTexts == {"a", "b"}

InputOf(email, second, phone, from) ==
    [text |-> [f \in Fields |-> CASE f = "Email" -> email
                                  [] f = "SecondaryEmail" -> second
                                  [] f = "Phone" -> phone
                                  [] OTHER -> "absent"],
     addressFrom |-> from]

(* An e-mail that can be changed or cleared.                                 *)
EmailInputs == {InputOf(e, "absent", "absent", "Manual") : e \in {"a", "b", "blank"}}
(* Two e-mails, whose callouts share a flag and a message, or none.          *)
PromptInputs == {InputOf("a", "absent", "absent", "Manual"),
                 InputOf("blank", "absent", "absent", "Manual"),
                 InputOf("a", "a", "absent", "Manual")}
LateInputs == {InputOf(e, "a", "absent", "Manual") : e \in {"a", "b"}}
                 \union {InputOf("a", "absent", "absent", "Account")}
SyncInputs == {InputOf("a", "absent", "absent", "Account")}

AllOn == [s \in {"Email_Validation", "Phone_Validation", "Address_Validation"}
            |-> "on"]
JustOn == {AllOn}
OneType == {"LandLine"}

ASSUME OnePairInputs == OnePairAskable
=============================================================================
