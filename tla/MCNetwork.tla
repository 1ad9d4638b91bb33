----------------------------- MODULE MCNetwork -----------------------------
(* Network on a small instance: an AP and a station on each band, payloads *)
(* in both formats, some that must be refused.                             *)
EXTENDS Network

Ap == [mode |-> "ap", ssid |-> 0, password |-> 0, band |-> "2.4", channel |-> 11,
       country |-> NoCountry, nul |-> FALSE]
Station == [mode |-> "station", ssid |-> 32, password |-> 8, band |-> "5",
            channel |-> 0, country |-> "US", nul |-> FALSE]
Good == {r \in {Ap, Station, [Ap EXCEPT !.band = "5", !.channel = 36],
                [Station EXCEPT !.country = NoCountry]} : Permitted(r)}
FromPc == {[payload |-> provisioning(a), means |-> Meaning(a)] : a \in Good}

OldStation == [Default EXCEPT !.station = 1, !.ssid = 1, !.password = 63]
OldFormat ==
    [extended |-> FALSE, station |-> 1, ssid |-> 1, password |-> 63, band |-> 1,
     channel |-> 48, country |-> "ID", nul |-> FALSE, n |-> 67]
Refused ==
    {[OldFormat EXCEPT !.station = 2], [OldFormat EXCEPT !.n = 66],
     [provisioning(Ap) EXCEPT !.channel = 12], [provisioning(Station) EXCEPT !.country = "ID"],
     [provisioning(Station) EXCEPT !.channel = 36]}

MCClients ==
    FromPc \cup {[payload |-> OldFormat, means |-> OldStation]}
    \cup {[payload |-> p, means |-> Default] : p \in Refused}
MCLegacy == {OldStation}
=============================================================================
