\* Falcon at the default fragment size (3 fragments per SPDU), injected loss
\* with its resend burst, reliable path: two vehicles, one message each.
CONSTANTS
    NumVehicles = 2
    NumMessages = 1
    Scheme = "FALCON"
    FalconFragmentSize = 2
    MaxFragment <- MCMaxFragment
    MaxTotal <- MCMaxTotal
    EcdsaSize <- MCEcdsaSize
    EcdsaSigLengths <- MCEcdsaSigLengths
    FalconSigLengths <- MCFalconSigLengths
    DropRate = "some"
    SignerFailures = FALSE
    TraceLength = 2
    SendFailures = FALSE
    NetworkLoss = FALSE
    NetworkDuplicates = FALSE
    RecvFailures = FALSE
    TxArgv <- MCTxArgv
    RxArgv <- MCRxArgvGui
    ArgDefaults <- MCArgDefaults
    TestPortEnv <- MCTestPortEnv
    KeyIds <- MCKeyIds
    RecencyWindow = 2
    MaxTime = 0

SPECIFICATION Spec
INVARIANT TypeOK
INVARIANT ReassembledSignaturesVerify
INVARIANT PendingOnlyInFlight
PROPERTY ReceivedFragmentsStick
PROPERTY EverySpduVerified
PROPERTY DeliveryRefined
\* The receiver exits and the transmitter threads finish: a run may end.
CHECK_DEADLOCK FALSE
