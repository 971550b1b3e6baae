---------------------------- MODULE MCDeviceLink ----------------------------
(* DeviceLink as TLC checks it: two pictures and one brightness request.    *)
EXTENDS DeviceLink
=============================================================================
