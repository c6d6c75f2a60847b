----------------------------- MODULE MCLedBlock -----------------------------
(* LedBlock with sets of commands for the configuration.                     *)
EXTENDS LedBlock

Commands == {<<"blink", 0>>, <<"blink", 1>>, <<"off">>}
TooLong == {<<"too long">>}
=============================================================================
