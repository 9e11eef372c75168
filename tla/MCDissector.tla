---------------------------- MODULE MCDissector ----------------------------
(* Instances of Dissector for TLC.                                         *)
EXTENDS Dissector

(* A plain greeting, one with the letter U, and one of another protocol.   *)
MCGreetings == {OK \o EOL, OK \o <<32, 85, 88>> \o EOL, <<50, 50, 48>> \o EOL}

(* A name that is a letter of USER.                                        *)
MCNames == {<<85>>}
MCPasswords == {<<120>>}
=============================================================================
