----------------------------- MODULE MCEspWifi -----------------------------
(* Values for EspWifi: two shells can give commands at the same time.      *)
EXTENDS EspWifi
=============================================================================
