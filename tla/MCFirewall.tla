---------------------------- MODULE MCFirewall ----------------------------
(***************************************************************************)
(* Small instances of Firewall: one rendering of the model, one RAW text,  *)
(* two changes.  The failures differ per run.                              *)
(***************************************************************************)
EXTENDS Firewall

Reboots == {"reboot"}
=============================================================================
