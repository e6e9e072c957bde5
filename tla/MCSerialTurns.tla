---------------------------- MODULE MCSerialTurns ---------------------------
(***************************************************************************)
(* The instance of SerialTurns for TLC: every slash command.               *)
(***************************************************************************)
EXTENDS SerialTurns

SlashCommands == DevIntakes

=============================================================================
