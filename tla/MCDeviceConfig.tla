---------------------------- MODULE MCDeviceConfig ----------------------------
(* One field of the three that are typed, the certificate and the key; two  *)
(* identities, of which the new one has a duid longer than the field.       *)
EXTENDS DeviceConfig

CONSTANTS old, new, short

MCOrder == <<"duid", "cert", "key">>
MCTexts == {"duid"}
MCCut == [v \in {old, new} |-> IF v = new THEN short ELSE v]
MCObjects == <<"cert", "key">>

(* Nothing is claimed once two tasks have been in LittleFS at once. *)
Unclashed == ~ clash
=============================================================================
