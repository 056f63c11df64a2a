\* Two ECDSA vehicles and an attacker injecting two datagrams re-addressed
\* (to any vehicle id, id 7 without key files included) or spliced.
CONSTANTS
    NumVehicles = 2
    NumMessages = 1
    Scheme = "ECDSA"
    FalconFragmentSize = 2
    MaxFragment <- MCMaxFragment
    MaxTotal <- MCMaxTotal
    EcdsaSize <- MCEcdsaSize
    EcdsaSigLengths <- MCEcdsaSigLengths
    FalconSigLengths <- MCFalconSigLengths
    DropRate = "some"
    SignerFailures = FALSE
    TraceLength = 2
    SendFailures = FALSE
    NetworkLoss = FALSE
    NetworkDuplicates = FALSE
    RecvFailures = FALSE
    TxArgv <- MCTxArgv
    RxArgv <- MCRxArgvNoGui
    ArgDefaults <- MCArgDefaults
    TestPortEnv <- MCTestPortEnv
    KeyIds <- MCKeyIds
    RecencyWindow = 2
    MaxTime = 0
    AttackerIds <- MCStrangerIds
    AttackLengths <- MCAttackLengths
    AttackBudget = 2

SPECIFICATION Spec
INVARIANT TypeOK
INVARIANT AuthenticVerdicts
PROPERTY ReceivedFragmentsStick
\* The transmitter threads finish and the receiver may exit.
CHECK_DEADLOCK FALSE
