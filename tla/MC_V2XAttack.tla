----------------------------- MODULE MC_V2XAttack -----------------------------
(* Constants of V2XAttack for TLC, scaled as in MC_V2XSystem. *)
EXTENDS V2XAttack

MCMaxFragment == 4
MCMaxTotal == 12
MCEcdsaSize == 2
MCEcdsaSigLengths == {1, 2}
MCFalconSigLengths == {5, 6}
\* V2X_TEST_PORT unset: both sides use 6666.
MCTestPortEnv == <<>>
\* The documented invocations in test mode, the receiver with and without
\* a GUI; program_arguments' members start out false.
MCTxArgv == <<"dsrc", "transmitter", "nogui", "--test">>
MCRxArgvGui == <<"dsrc", "receiver", "tkgui", "--test">>
MCRxArgvNoGui == <<"dsrc", "receiver", "nogui", "--test">>
MCArgDefaults == [tkgui |-> FALSE, webgui |-> FALSE, test |-> FALSE]
\* The receiver holds the key files of every vehicle of the run.
MCKeyIds == 0..(NumVehicles - 1)
\* Vehicle id 7 has no key files at the receiver.
MCStrangerIds == MCKeyIds \cup {7}
\* Header lengths the attacker writes: 0 up to ECDSA_size.
MCAttackLengths == 0..MCEcdsaSize

=============================================================================
