--------------------------- MODULE MCFingerprint ---------------------------
(* Spellings that come close to each other: 65 is "A", 160 a space that is no  *)
(* ASCII one; a value that tries to be a component of its own.               *)
EXTENDS Fingerprint

Labels == {<<65>>, <<65, Equals>>, <<66>>}
Values == {<<>>, <<65>>, <<Space, 65, LF>>, <<Equals, 65>>, <<US, 65>>, <<160, 65>>,
           <<65, US, 66, Equals, 65>>, <<8364, 128512>>, <<55296>>}
Odd == {<<<<>>, <<65>>>>, <<<<Space, 65>>, <<65>>>>, <<<<65>>>>,
        <<NotText, <<65>>>>, <<<<65>>, NotText>>}
Spellings == (Labels \X Values) \cup Odd \cup {NoSequence}
=============================================================================
