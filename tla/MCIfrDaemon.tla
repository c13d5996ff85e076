----------------------------- MODULE MCIfrDaemon -----------------------------
(* Small instances of IfrDaemon for TLC.                                   *)
EXTENDS IfrDaemon
=============================================================================
