-------------------------- MODULE MCAppOperations --------------------------
(* Two threads on one app; the values of AppOperations' constants.         *)
EXTENDS AppOperations, TLC

Threads == Permutations(Ops)
OnlyLocked == {"upgrade", "rebuild"}
OnlyUpgrade == {"upgrade"}
OnlyCrash == {"crash"}
NoFault == {}
AskedFromTwo == {2}
=============================================================================
