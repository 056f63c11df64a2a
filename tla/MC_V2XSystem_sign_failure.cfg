\* One Falcon vehicle whose falcon_sign may fail, over a reliable path.
CONSTANTS
    NumVehicles = 1
    NumMessages = 1
    Scheme = "FALCON"
    FalconFragmentSize = 2
    MaxFragment <- MCMaxFragment
    MaxTotal <- MCMaxTotal
    EcdsaSize <- MCEcdsaSize
    EcdsaSigLengths <- MCEcdsaSigLengths
    FalconSigLengths <- MCFalconSigLengths
    DropRate = "some"
    SignerFailures = TRUE
    TraceLength = 2
    SendFailures = FALSE
    NetworkLoss = FALSE
    NetworkDuplicates = FALSE
    RecvFailures = FALSE
    TxArgv <- MCTxArgv
    RxArgv <- MCRxArgvNoGui
    ArgDefaults <- MCArgDefaults
    TestPortEnv <- MCTestPortEnv
    KeyIds <- MCKeyIds
    RecencyWindow = 2
    MaxTime = 0

SPECIFICATION Spec
INVARIANT ReassembledSignaturesVerify
\* The receiver exits and the transmitter threads finish: a run may end.
CHECK_DEADLOCK FALSE
