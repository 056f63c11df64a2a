\* ECDSA over a path that duplicates datagrams: is every completion a
\* distinct SPDU?
CONSTANTS
    NumVehicles = 1
    NumMessages = 2
    Scheme = "ECDSA"
    FalconFragmentSize = 2
    MaxFragment <- MCMaxFragment
    MaxTotal <- MCMaxTotal
    EcdsaSize <- MCEcdsaSize
    EcdsaSigLengths <- MCEcdsaSigLengths
    FalconSigLengths <- MCFalconSigLengths
    DropRate = "none"
    SignerFailures = FALSE
    TraceLength = 2
    SendFailures = FALSE
    NetworkLoss = FALSE
    NetworkDuplicates = TRUE
    RecvFailures = FALSE
    TxArgv <- MCTxArgv
    RxArgv <- MCRxArgvNoGui
    ArgDefaults <- MCArgDefaults
    TestPortEnv <- MCTestPortEnv
    KeyIds <- MCKeyIds
    RecencyWindow = 2
    MaxTime = 0

SPECIFICATION Spec
INVARIANT CompletedCountsDistinctSpdus
\* The receiver exits and the transmitter threads finish: a run may end.
CHECK_DEADLOCK FALSE
