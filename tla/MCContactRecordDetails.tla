----------------------- MODULE MCContactRecordDetails -----------------------
(* Instances of ContactRecordDetails for model checking.                     *)
EXTENDS ContactRecordDetails

TwoTexts == {"a", "b"}

TextOf(email, phone, addr) ==
    [f \in Fields |-> CASE f = "Email" -> email
                        [] f = "Phone" -> phone
                        [] f = "Address" -> addr
                        [] OTHER -> "absent"]

StoredTexts == {TextOf("a", "a", "a")}
(* The e-mail is changed, alone or with the address, or cleared.             *)
EditTexts == {TextOf("a", "a", "a"), TextOf("b", "a", "a"), TextOf("b", "a", "b"),
              TextOf("blank", "a", "a")}
BothWindows == BOOLEAN
Modal == {TRUE}

AllOn == [s \in {"Email_Validation", "Phone_Validation", "Address_Validation"}
            |-> "on"]
JustOn == {AllOn}
OneType == {"LandLine"}

ASSUME OnePairTexts == OnePairChanges
=============================================================================
