------------------------- MODULE MCCharacterEngine -------------------------
(* Values that make the instances of CharacterEngine small enough for TLC. *)
EXTENDS CharacterEngine

None == {}
Happy == {"happy"}
Keep == {"keep"}
Other == {"other"}
Bare == {{}}
Partial == {{}, {"idle", "thinking", "talking", "happy", "surprised"}}
=============================================================================
