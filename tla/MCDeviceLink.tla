---------------------------- MODULE MCDeviceLink ----------------------------
(* TLC instances of DeviceLink. *)
EXTENDS DeviceLink
=============================================================================
