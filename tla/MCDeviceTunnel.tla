--------------------------- MODULE MCDeviceTunnel ---------------------------
(* Small instances of DeviceTunnel.                                        *)
EXTENDS DeviceTunnel
=============================================================================
