----------------------- MODULE MCInterventionService -----------------------
(* Small instances of InterventionService for TLC.                          *)
EXTENDS InterventionService

\* The request names Telegram; the terminal is appended as the last resort.
TelegramFirst == <<"telegram">>

AllChannels == {"telegram", "terminal"}
=============================================================================
