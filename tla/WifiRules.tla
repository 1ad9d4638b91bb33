------------------------------ MODULE WifiRules ------------------------------
(* The settings of the radio, their payload on the wire, and the rules they*)
(* obey: on the PC (wifi.py) and on the device (wifi_config.c).  A text    *)
(* stands for its length: texts of one length are not told apart.          *)
EXTENDS Integers

CONSTANTS
    Countries,                   \* the country codes of the pinned HAL
    NoCountry

ASSUME CountryAssumption == NoCountry \notin Countries

Channels5GHz == {36, 40, 44, 48}

(* What a user can ask for: the arguments of provisioning().  The country  *)
(* is in capitals already; nul: a text has a zero byte.                    *)
Arguments(C) ==
    [mode : {"ap", "station"}, ssid : 0..255, password : 0..255,
     band : {"2.4", "5"}, channel : 0..255, country : C, nul : BOOLEAN]

Byte(condition) == IF condition THEN 1 ELSE 0

(* The checks of provisioning() ... *)
Permitted(a) ==
    /\ a.country \in Countries \cup {NoCountry}
    /\ a.band = "5" => a.country /= NoCountry
    /\ a.channel \in IF a.band = "5" THEN {0} \cup Channels5GHz ELSE 0..11
    /\ a.mode = "station" => a.channel = 0
    /\ ~a.nul /\ a.ssid <= 32 /\ a.password <= 63
    /\ a.mode = "station" => a.ssid > 0 /\ a.password >= 8
    /\ a.mode = "ap" => a.ssid = 0 /\ a.password = 0

(* ... and its payload; n is its length. *)
provisioning(a) ==
    [extended |-> TRUE, station |-> Byte(a.mode = "station"), ssid |-> a.ssid,
     password |-> a.password, band |-> Byte(a.band = "5"), channel |-> a.channel,
     country |-> a.country, nul |-> a.nul, n |-> 7 + a.ssid + a.password]

(* What the user means by it. *)
Meaning(a) ==
    [station |-> Byte(a.mode = "station"), ssid |-> a.ssid, password |-> a.password,
     band |-> Byte(a.band = "5"), channel |-> a.channel, country |-> a.country]
-----------------------------------------------------------------------------
(* Zeros, as before the first provisioning and after a recovery. *)
Default == [station |-> 0, ssid |-> 0, password |-> 0, band |-> 0, channel |-> 0,
            country |-> NoCountry]

Mode(c) == c.station <= 1

wifi_saved_validate(c) ==
    /\ Mode(c) /\ c.band <= 1 /\ c.ssid <= 32 /\ c.password <= 63
    /\ c.country \in Countries \/ (c.country = NoCountry /\ c.band = 0)
    /\ c.station /= 0 => c.ssid /= 0 /\ c.password >= 8 /\ c.channel = 0
    /\ c.station = 0 => c.ssid = 0 /\ c.password = 0
    /\ c.channel /= 0 => IF c.band /= 0 THEN c.channel \in Channels5GHz
                         ELSE c.channel <= 11

Offset(p) == IF p.extended THEN 7 ELSE 3

(* Only an extended payload has a band, a channel and a country; what an   *)
(* earlier one put there is not looked at.                                 *)
Candidate(p) ==
    [station |-> p.station, ssid |-> p.ssid, password |-> p.password,
     band |-> IF p.extended THEN p.band ELSE 0,
     channel |-> IF p.extended THEN p.channel ELSE 0,
     country |-> IF p.extended THEN p.country ELSE NoCountry]

wifi_payload_parse(p) ==
    /\ p.n >= Offset(p)
    /\ p.ssid <= 32 /\ p.password <= 63
    /\ p.n = Offset(p) + p.ssid + p.password /\ ~p.nul
    /\ wifi_saved_validate(Candidate(p))
=============================================================================
