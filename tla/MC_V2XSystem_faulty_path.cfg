\* Falcon with fragment size 0 (clamped to the maximum) and loss rate 1 (every
\* fragment goes through the resend burst) over a path that loses and
\* duplicates datagrams, and a recvfrom that may fail: one vehicle, two
\* messages.  Only safety is checked: a lost fragment is never retried.
CONSTANTS
    NumVehicles = 1
    NumMessages = 2
    Scheme = "FALCON"
    FalconFragmentSize = 0
    MaxFragment <- MCMaxFragment
    MaxTotal <- MCMaxTotal
    EcdsaSize <- MCEcdsaSize
    EcdsaSigLengths <- MCEcdsaSigLengths
    FalconSigLengths <- MCFalconSigLengths
    DropRate = "all"
    SignerFailures = FALSE
    TraceLength = 2
    SendFailures = FALSE
    NetworkLoss = TRUE
    NetworkDuplicates = TRUE
    RecvFailures = TRUE
    TxArgv <- MCTxArgv
    RxArgv <- MCRxArgvNoGui
    ArgDefaults <- MCArgDefaults
    TestPortEnv <- MCTestPortEnv
    KeyIds <- MCKeyIds
    RecencyWindow = 2
    MaxTime = 0

SPECIFICATION Spec
INVARIANT TypeOK
INVARIANT ReassembledSignaturesVerify
PROPERTY ReceivedFragmentsStick
\* The receiver exits and the transmitter threads finish: a run may end.
CHECK_DEADLOCK FALSE
