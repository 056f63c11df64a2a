---------------------------- MODULE MC_V2XSystem ----------------------------
(***************************************************************************)
(* Model-checking instance of V2XSystem.  Byte counts are scaled by 1/128: *)
(* a fragment holds 4 units (512 bytes), a signature at most 12 (1536), a  *)
(* Falcon-512 signature 5 or 6 (about 650 to 690 bytes), the default       *)
(* fragment size is 2 (256 bytes), and a P-256 DER signature 1 or 2 units  *)
(* (70 to 72 bytes against a 128-byte unit rounds to the two cases "fits   *)
(* exactly" and "shorter than ECDSA_size").                                *)
(***************************************************************************)
EXTENDS V2XSystem

MCMaxFragment      == 4
MCMaxTotal         == 12
MCEcdsaSize        == 2
MCEcdsaSigLengths  == {1, 2}
MCFalconSigLengths == {5, 6}
\* V2X_TEST_PORT unset: both sides use 6666.
MCTestPortEnv == <<>>
\* The documented invocations in test mode, the receiver with and without
\* a GUI; program_arguments' members start out false.
MCTxArgv == <<"dsrc", "transmitter", "nogui", "--test">>
MCRxArgvGui == <<"dsrc", "receiver", "tkgui", "--test">>
MCRxArgvNoGui == <<"dsrc", "receiver", "nogui", "--test">>
MCArgDefaults == [tkgui |-> FALSE, webgui |-> FALSE, test |-> FALSE]
\* The receiver holds the key files of every vehicle of the run.
MCKeyIds == 0..(NumVehicles - 1)

=============================================================================
