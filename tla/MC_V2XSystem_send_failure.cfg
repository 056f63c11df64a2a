\* A sendto that fails, and an empty trace file, end the transmitter process
\* mid-run: two Falcon vehicles with injected loss over a reliable path.  With
\* no trace line every BSM read is past the trace: it faults or reads garbage.
\* SPDUs sent before the process ends must still be verified.
CONSTANTS
    NumVehicles = 2
    NumMessages = 1
    Scheme = "FALCON"
    FalconFragmentSize = 2
    MaxFragment <- MCMaxFragment
    MaxTotal <- MCMaxTotal
    EcdsaSize <- MCEcdsaSize
    EcdsaSigLengths <- MCEcdsaSigLengths
    FalconSigLengths <- MCFalconSigLengths
    DropRate = "some"
    SignerFailures = FALSE
    TraceLength = 0
    SendFailures = TRUE
    NetworkLoss = FALSE
    NetworkDuplicates = FALSE
    RecvFailures = FALSE
    TxArgv <- MCTxArgv
    RxArgv <- MCRxArgvNoGui
    ArgDefaults <- MCArgDefaults
    TestPortEnv <- MCTestPortEnv
    KeyIds <- MCKeyIds
    RecencyWindow = 2
    MaxTime = 0

SPECIFICATION Spec
PROPERTY SentSpdusVerified
\* After a failed sendto nothing more is sent; the receiver waits for ever.
CHECK_DEADLOCK FALSE
