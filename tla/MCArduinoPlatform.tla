------------------------- MODULE MCArduinoPlatform -------------------------
(* Model-checking instance of ArduinoPlatform: three devices competing for *)
(* two slots, so that the table fills, a device is rejected and a freed    *)
(* slot is reused by another device; a queue of one request, so that a    *)
(* second enqueue meets a full queue; three publications, so that a frame *)
(* is overwritten unread and a later one is read.  The liveness run uses   *)
(* one slot and two publications (see MCArduinoPlatformLive.cfg).         *)
EXTENDS ArduinoPlatform, TLC

CONSTANTS d1, d2, d3

MCDevices == {d1, d2, d3}

(* Every device has every report-parser callback: the callbacks only      *)
(* decide whether a drained command reaches the device, which the model   *)
(* does not observe, so the devices stay interchangeable.                 *)
MCCapabilities == [d \in MCDevices |-> CapabilityFlags]

(* One controller model for every device: type and subtype are distinct  *)
(* enumerators, as CONTROLLER_TYPE_* and CONTROLLER_SUBTYPE_* are.        *)
MCControllerType == [d \in MCDevices |-> 1]
MCControllerSubtype == [d \in MCDevices |-> 2]

(* LIGHTBAR_COLOR and RUMBLE go through the queue and the drain exactly as *)
(* PLAYER_LEDS does; one capability command and DISCONNECT are enough.     *)
MCCmds == {"PLAYER_LEDS", "DISCONNECT"}

MCSymmetry == Permutations(MCDevices)

=============================================================================
