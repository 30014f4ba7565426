--------------------------- MODULE MCTurnService ---------------------------
(* Values that make the instances of TurnService small enough for TLC.     *)
EXTENDS TurnService

Text == {FALSE}
Voice == {TRUE}
Silent == {FALSE}
Spoken == {TRUE}
Either == BOOLEAN
Never == {FALSE}
=============================================================================
