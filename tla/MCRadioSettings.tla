--------------------------- MODULE MCRadioSettings ---------------------------
(* Instances of RadioSettings for TLC: two goroutines, two settings.        *)
EXTENDS RadioSettings

MCKeys == <<"restrictionMode", "autojoinChannelID">>
MCAutojoin == "autojoinChannelID"
=============================================================================
