----------------------------- MODULE MCNewDevices -----------------------------
(* This machine and a stranger, the job and a terminal, two owners, two    *)
(* channels.                                                               *)
EXTENDS NewDevicesProps

CONSTANTS ntfy, toast
BothChannels == <<ntfy, toast>>
=============================================================================
