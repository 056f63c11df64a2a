\* One ECDSA vehicle and an attacker that may re-address one datagram it
\* hears to vehicle id 7, whose key files the receiver does not hold.
CONSTANTS
    NumVehicles = 1
    NumMessages = 2
    Scheme = "ECDSA"
    FalconFragmentSize = 2
    MaxFragment <- MCMaxFragment
    MaxTotal <- MCMaxTotal
    EcdsaSize <- MCEcdsaSize
    EcdsaSigLengths <- MCEcdsaSigLengths
    FalconSigLengths <- MCFalconSigLengths
    DropRate = "none"
    SignerFailures = FALSE
    TraceLength = 2
    SendFailures = FALSE
    NetworkLoss = FALSE
    NetworkDuplicates = FALSE
    RecvFailures = FALSE
    TxArgv <- MCTxArgv
    RxArgv <- MCRxArgvNoGui
    ArgDefaults <- MCArgDefaults
    TestPortEnv <- MCTestPortEnv
    KeyIds <- MCKeyIds
    RecencyWindow = 2
    MaxTime = 0
    AttackerIds <- MCStrangerIds
    AttackLengths <- MCAttackLengths
    AttackBudget = 1

SPECIFICATION Spec
INVARIANT ReceiverNeverAborts
\* The transmitter threads finish and the receiver may exit.
CHECK_DEADLOCK FALSE
