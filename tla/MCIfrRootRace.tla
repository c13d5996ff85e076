---------------------------- MODULE MCIfrRootRace ----------------------------
(* Small instances of IfrRootRace for TLC.                                 *)
EXTENDS IfrRootRace
=============================================================================
