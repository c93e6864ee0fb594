-------------------------- MODULE MCDeviceRecovery --------------------------
(* Small instances of DeviceRecovery for TLC. *)
EXTENDS DeviceRecovery
=============================================================================
