-------------------------- MODULE ConfirmOrRevert --------------------------
(***************************************************************************)
(* What the firewall promises about a change on trial, with no files, no   *)
(* scripts and no threads: while a trial is open the ruleset may switch,   *)
(* and the trial ends either because it was accepted or with exactly the   *)
(* ruleset it started from.                                                *)
(***************************************************************************)
CONSTANT Rulesets

VARIABLES ruleset, trial, fallback, accepted, rebooted
vars == <<ruleset, trial, fallback, accepted, rebooted>>

TypeOK ==
  /\ ruleset \in Rulesets
  /\ trial \in BOOLEAN
  /\ fallback \in Rulesets
  /\ accepted \in BOOLEAN
  /\ rebooted \in BOOLEAN

Init ==
  /\ ruleset \in Rulesets
  /\ fallback = ruleset
  /\ trial = FALSE
  /\ accepted = FALSE
  /\ rebooted = FALSE

Try ==
  /\ ~trial
  /\ trial' = TRUE
  /\ UNCHANGED <<ruleset, fallback, accepted, rebooted>>

Switch ==
  /\ trial
  /\ ruleset' \in Rulesets
  /\ UNCHANGED <<trial, fallback, accepted, rebooted>>

Accept ==
  /\ trial
  /\ accepted' = TRUE
  /\ UNCHANGED <<ruleset, trial, fallback, rebooted>>

End ==
  /\ trial
  /\ accepted \/ ruleset = fallback
  /\ trial' = FALSE
  /\ accepted' = FALSE
  /\ fallback' = ruleset
  /\ UNCHANGED <<ruleset, rebooted>>

(* Outside a trial: a change without a window, disabling, loading the      *)
(* confirmed ruleset again.                                                *)
Decide ==
  /\ ~trial
  /\ ruleset' \in Rulesets
  /\ fallback' = ruleset'
  /\ UNCHANGED <<trial, accepted, rebooted>>

(* A reboot empties the kernel: from then on nothing is promised.          *)
Reboot == rebooted'

Next == Try \/ Switch \/ Accept \/ End \/ Decide \/ Reboot

Spec == Init /\ [][Next]_vars
=============================================================================
