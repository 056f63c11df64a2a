\* ECDSA (one fragment per SPDU), injected loss with its resend burst,
\* reliable path: two vehicles, two messages each.
CONSTANTS
    NumVehicles = 2
    NumMessages = 2
    Scheme = "ECDSA"
    FalconFragmentSize = 2
    MaxFragment <- MCMaxFragment
    MaxTotal <- MCMaxTotal
    EcdsaSize <- MCEcdsaSize
    EcdsaSigLengths <- MCEcdsaSigLengths
    FalconSigLengths <- MCFalconSigLengths
    DropRate = "some"
    SignerFailures = FALSE
    TraceLength = 2
    SendFailures = FALSE
    NetworkLoss = FALSE
    NetworkDuplicates = FALSE
    RecvFailures = FALSE
    TxArgv <- MCTxArgv
    RxArgv <- MCRxArgvNoGui
    ArgDefaults <- MCArgDefaults
    TestPortEnv <- MCTestPortEnv
    KeyIds <- MCKeyIds
    RecencyWindow = 1
    MaxTime = 1

SPECIFICATION Spec
INVARIANT TypeOK
INVARIANT ReassembledSignaturesVerify
INVARIANT CompletedCountsDistinctSpdus
PROPERTY EverySpduVerified
\* The receiver exits and the transmitter threads finish: a run may end.
CHECK_DEADLOCK FALSE
