\* One ECDSA vehicle and an attacker that may inject two datagrams, with
\* rewritten signature_buffer_length and fragment_length among others.
CONSTANTS
    NumVehicles = 1
    NumMessages = 2
    Scheme = "ECDSA"
    FalconFragmentSize = 2
    MaxFragment <- MCMaxFragment
    MaxTotal <- MCMaxTotal
    EcdsaSize <- MCEcdsaSize
    EcdsaSigLengths <- MCEcdsaSigLengths
    FalconSigLengths <- MCFalconSigLengths
    DropRate = "none"
    SignerFailures = FALSE
    TraceLength = 2
    SendFailures = FALSE
    NetworkLoss = FALSE
    NetworkDuplicates = FALSE
    RecvFailures = FALSE
    TxArgv <- MCTxArgv
    RxArgv <- MCRxArgvNoGui
    ArgDefaults <- MCArgDefaults
    TestPortEnv <- MCTestPortEnv
    KeyIds <- MCKeyIds
    RecencyWindow = 2
    MaxTime = 0
    AttackerIds <- MCKeyIds
    AttackLengths <- MCAttackLengths
    AttackBudget = 2

SPECIFICATION Spec
INVARIANT VerifierReadsWithinBuffer
\* The transmitter threads finish and the receiver may exit.
CHECK_DEADLOCK FALSE
