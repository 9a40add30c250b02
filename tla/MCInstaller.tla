---------------------------- MODULE MCInstaller ----------------------------
(* Set-up and removal on one game.  The WorldLedger mod is supplied by a    *)
(* file of another name, which leaves one jar to download.                 *)
EXTENDS Installer

MCSupplied == {"worldledger"}
=============================================================================
