---------------------------- MODULE MCDeviceLife ----------------------------
(* DeviceLife for model checking: every step may fail (MCDeviceLife_failing). *)
EXTENDS DeviceLife
=============================================================================
