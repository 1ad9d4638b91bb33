------------------------------- MODULE Network -------------------------------
(* The settings and the radio: network_init() and the server of the main   *)
(* thread, the recovery thread and the event callback of network.c, over   *)
(* reboots and losses of power.  The flash, the button and the radio are   *)
(* outside.  What capture_stop() does is in Session.                       *)
EXTENDS WifiRules

CONSTANTS
    Clients,         \* what clients send: a payload, and what it means
    Legacy,          \* settings that an earlier firmware may have stored
    Hold, Retry,     \* units of time: the button is held, the radio is tried again
    MaxFailures      \* bound on the saves that fail

ASSUME NetworkAssumption ==
    /\ Hold \in Nat \ {0} /\ Retry \in Nat \ {0} /\ MaxFailures \in Nat

VARIABLES
    flash,                       \* the record "wcan/wifi"
    failures,
    asked,                       \* history: the settings that were asked for last
    main,                        \* where the main thread is
    saved, err, request,         \* its settings, the error of network_init(), the
                                 \* request of the client
    last_error, connected, ready, radio_ready,
    hal,                         \* the band and country the radio is set to
    pending,                     \* the radio has a request
    recovery,                    \* where the recovery thread is
    released, pressed, retry,    \* its locals; pressed: time + 1, retry: time since
    button

store == <<flash, failures, asked>>
server == <<main, saved, err, request>>
radio == <<last_error, connected, ready, radio_ready, hal, pending>>
thread == <<recovery, released, pressed, retry>>
networkVars == <<store, server, radio, thread, button>>

Settings == [station : {0, 1}, ssid : 0..32, password : 0..63, band : {0, 1},
             channel : 0..11 \cup Channels5GHz, country : Countries \cup {NoCountry}]
NoHal == [band |-> 2, country |-> NoCountry]

NetworkTypeOK ==
    /\ flash.legacy \in BOOLEAN /\ flash.settings \in Settings
    /\ failures \in 0..MaxFailures /\ asked \in Settings
    /\ main \in {"boot", "loaded", "radio", "report", "ready", "serve", "save",
                 "reply", "reboot", "dead"}
    /\ saved \in Settings /\ err \in {0, 1} /\ request \in Clients
    /\ last_error \in {0, 1} /\ connected \in BOOLEAN /\ ready \in BOOLEAN
    /\ radio_ready \in BOOLEAN /\ pending \in BOOLEAN
    /\ hal \in [band : {0, 1, 2}, country : Countries \cup {NoCountry}]
    /\ recovery \in {"wait", "loop", "clear", "reboot", "link", "retry", "error"}
    /\ released \in BOOLEAN /\ pressed \in 0..(Hold + 1) /\ retry \in 0..Retry
    /\ button \in {"up", "down"}

(* What is left after a reboot or a loss of power: the flash. *)
SomeRequest == CHOOSE r \in Clients : TRUE

NetworkInit ==
    /\ \E s \in Legacy \cup {Default} :
         flash = [legacy |-> s /= Default, settings |-> s] /\ asked = s
    /\ failures = 0
    /\ main = "boot" /\ saved = Default /\ err = 0 /\ request = SomeRequest
    /\ last_error = 0 /\ connected = FALSE /\ ready = FALSE /\ radio_ready = FALSE
    /\ hal = NoHal /\ pending = FALSE
    /\ recovery = "wait" /\ released = FALSE /\ pressed = 0 /\ retry = 0
    /\ button \in {"up", "down"}

Reset ==
    /\ main' = "boot" /\ saved' = Default /\ err' = 0 /\ request' = SomeRequest
    /\ last_error' = 0 /\ connected' = FALSE /\ ready' = FALSE /\ radio_ready' = FALSE
    /\ hal' = NoHal /\ pending' = FALSE
    /\ recovery' = "wait" /\ released' = FALSE /\ pressed' = 0 /\ retry' = 0
    /\ UNCHANGED <<store, button>>

Goto(from, to) == main = from /\ main' = to
-----------------------------------------------------------------------------
(* network_init().  Whatever fails before the radio ends the program.      *)
InitFails ==
    /\ Goto("boot", "dead") \/ Goto("loaded", "dead")
    /\ UNCHANGED <<store, saved, err, request, radio, thread, button>>

(* A record of an earlier firmware has no band, channel and country; a     *)
(* firmware that does not know it ignores it.                              *)
LoadedNewOnly ==
    IF flash.legacy \/ ~wifi_saved_validate(flash.settings) THEN Default
    ELSE flash.settings
Loaded ==
    IF wifi_saved_validate(flash.settings) THEN flash.settings ELSE Default

load ==
    /\ Goto("boot", "loaded") /\ saved' = Loaded
    /\ UNCHANGED <<store, err, request, radio, thread, button>>

RadioFails ==
    /\ Goto("loaded", "serve") /\ last_error' = 1 /\ ready' = TRUE
    /\ UNCHANGED <<store, saved, err, request, connected, radio_ready, hal, pending,
                   thread, button>>

RadioSet ==
    /\ Goto("loaded", "radio") /\ radio_ready' = TRUE
    /\ hal' = [band |-> saved.band, country |-> saved.country]
    /\ UNCHANGED <<store, saved, err, request, last_error, connected, ready, pending,
                   thread, button>>

(* The request to the radio fails or is accepted; an AP needs its DHCP     *)
(* server, too, and an address, without which the program ends.            *)
Start ==
    /\ Goto("radio", "report")
    /\ err' \in {0, 1}
    /\ pending' \in IF err' = 0 THEN {TRUE}
                    ELSE IF saved.station = 1 THEN {FALSE} ELSE BOOLEAN
    /\ UNCHANGED <<store, saved, request, last_error, connected, ready, radio_ready,
                   hal, thread, button>>
NoAddress ==
    /\ Goto("radio", "dead") /\ saved.station = 0
    /\ UNCHANGED <<store, saved, err, request, radio, thread, button>>

Report ==
    /\ Goto("report", "ready") /\ last_error' = err
    /\ UNCHANGED <<store, saved, err, request, connected, ready, radio_ready, hal,
                   pending, thread, button>>
Ready ==
    /\ Goto("ready", "serve") /\ ready' = TRUE
    /\ UNCHANGED <<store, saved, err, request, last_error, connected, radio_ready, hal,
                   pending, thread, button>>

network_init == InitFails \/ load \/ RadioFails \/ RadioSet \/ Start \/ NoAddress
                \/ Report \/ Ready
-----------------------------------------------------------------------------
(* wifi_event(): the result of a request, or the link is lost. *)
Result(good) ==
    /\ pending /\ pending' = FALSE
    /\ last_error' = (IF good THEN 0 ELSE 1) /\ connected' = good
    /\ UNCHANGED <<store, server, ready, radio_ready, hal, thread, button>>
LinkLost ==
    /\ connected /\ saved.station = 1
    /\ last_error' = 1 /\ connected' = FALSE
    /\ UNCHANGED <<store, server, ready, radio_ready, hal, pending, thread, button>>
wifi_event == Result(TRUE) \/ Result(FALSE) \/ LinkLost
-----------------------------------------------------------------------------
(* A WIFI command: network_provision() validates and saves; the server     *)
(* answers and, when the answer is sent, reboots.                          *)
Provision ==
    /\ Goto("serve", "save")
    /\ request' \in {r \in Clients : wifi_payload_parse(r.payload)}
    /\ UNCHANGED <<store, saved, err, radio, thread, button>>

SaveFails == failures < MaxFailures /\ failures' = failures + 1
             /\ UNCHANGED <<flash, asked>>

Save ==
    /\ \/ /\ Goto("save", "reply")
          /\ flash' = [legacy |-> FALSE, settings |-> Candidate(request.payload)]
          /\ asked' = request.means /\ UNCHANGED failures
       \/ Goto("save", "serve") /\ SaveFails
    /\ UNCHANGED <<saved, err, request, radio, thread, button>>

Reply ==
    /\ Goto("reply", "reboot") \/ Goto("reply", "serve")
    /\ UNCHANGED <<store, saved, err, request, radio, thread, button>>

Restart == main = "reboot" /\ Reset

Serve == Provision \/ Save \/ Reply \/ Restart
-----------------------------------------------------------------------------
Step(from, to) == recovery = from /\ recovery' = to

(* The recovery thread waits for network_init() and five seconds more. *)
Wake ==
    /\ Step("wait", "loop") /\ ready
    /\ UNCHANGED <<store, server, radio, released, pressed, retry, button>>

(* The time of the press is that of every sample, or of the first.  The    *)
(* pin is one of the chip: reading it does not fail.                       *)
SinceEach == 1
Since == IF pressed = 0 THEN 1 ELSE pressed

Sample ==
    /\ \/ /\ button = "up" /\ Step("loop", "link")
          /\ released' = TRUE /\ pressed' = 0
       \/ /\ button = "down" /\ released
          /\ pressed' = Since
          /\ Step("loop", IF Since > Hold THEN "clear" ELSE "link")
          /\ UNCHANGED released
       \/ /\ button = "down" /\ ~released /\ Step("loop", "link")
          /\ UNCHANGED <<released, pressed>>
    /\ UNCHANGED <<store, server, radio, retry, button>>

Clear ==
    /\ \/ /\ Step("clear", "reboot")
          /\ flash' = [legacy |-> FALSE, settings |-> Default] /\ asked' = Default
          /\ UNCHANGED failures
       \/ Step("clear", "link") /\ SaveFails
    /\ UNCHANGED <<server, radio, released, pressed, retry, button>>

Reboot == recovery = "reboot" /\ Reset

(* A thread that tries a radio that could not be set. *)
RadioUsableAlways == TRUE
RadioUsable == radio_ready

Disconnected ==
    RadioUsable /\ saved.station = 1 /\ ~connected /\ retry = Retry

Linked ==
    /\ Step("link", "loop") /\ ~Disconnected
    /\ UNCHANGED <<store, server, radio, released, pressed, retry, button>>
(* Capture is stopped before the radio is asked, and the link may be back. *)
Unlinked ==
    /\ Step("link", "retry") /\ Disconnected
    /\ UNCHANGED <<store, server, radio, released, pressed, retry, button>>
Reconnect ==
    /\ \/ Step("retry", "loop") /\ pending' = TRUE /\ retry' = 0
       \/ Step("retry", "error") /\ UNCHANGED <<pending, retry>>
    /\ UNCHANGED <<store, server, last_error, connected, ready, radio_ready, hal,
                   released, pressed, button>>
ReconnectFailed ==
    /\ Step("error", "loop") /\ last_error' = 1 /\ retry' = 0
    /\ UNCHANGED <<store, server, connected, ready, radio_ready, hal, pending, released,
                   pressed, button>>

recovery_thread == Wake \/ Sample \/ Clear \/ Reboot \/ Linked \/ Unlinked
                   \/ Reconnect \/ ReconnectFailed
-----------------------------------------------------------------------------
Advance ==
    /\ pressed' = IF pressed \in 1..Hold THEN pressed + 1 ELSE pressed
    /\ retry' = IF retry < Retry THEN retry + 1 ELSE retry
    /\ UNCHANGED <<store, server, radio, recovery, released, button>>
Push ==
    /\ button' \in {"up", "down"} \ {button}
    /\ UNCHANGED <<store, server, radio, thread>>
PowerLoss == Reset

NetworkNext == network_init \/ wifi_event \/ Serve \/ recovery_thread \/ Advance \/ Push
        \/ PowerLoss

NetworkSpec == NetworkInit /\ [][NetworkNext]_networkVars

(* Both threads are scheduled, and time passes.  The button, the radio and *)
(* the client do as they like.                                             *)
FairSpec ==
    /\ NetworkSpec
    /\ WF_networkVars(network_init) /\ WF_networkVars(recovery_thread)
    /\ WF_networkVars(Advance)
-----------------------------------------------------------------------------
(* What a user asked for with an accepted command, on a PC, in the extended*)
(* or the earlier format, is what the device runs with after a reboot or a *)
(* loss of power at any moment; nothing else is, but what was stored before*)
(* and what a recovery restores.                                           *)
SettingsKept == main = "loaded" => saved = asked

(* The radio is never used on another band or under the rules of another   *)
(* country than the settings say, also when setting them failed and the    *)
(* thread goes on to reconnect.                                            *)
OnlyOnSavedBand ==
    pending \/ connected => hal = [band |-> saved.band, country |-> saved.country]

(* Whatever has failed, a device that serves watches its button; when that *)
(* was up and is held, the device forgets its settings, unless something   *)
(* else makes it boot.                                                     *)
RecoveryAvailable ==
    /\ main = "serve" ~> (recovery /= "wait" \/ main = "boot")
    /\ (released /\ button = "down") ~>
         (button = "up" \/ main = "boot" \/ flash.settings = Default)

(* "Failure remains observable" (network.c:158): a radio that is down, and *)
(* is not at work, shows an error.                                         *)
FailureObservable ==
    main = "serve" /\ ~connected /\ ~pending => last_error /= 0
=============================================================================
