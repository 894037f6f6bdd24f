------------------------------ MODULE MCDevices ------------------------------
(* Devices on a small instance; the detectors are alike. *)
EXTENDS Devices

CONSTANTS pir, mag, smoke

Alike == Permutations(Source)
=============================================================================
