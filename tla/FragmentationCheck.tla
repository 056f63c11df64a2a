--------------------------- MODULE FragmentationCheck ---------------------------
(***************************************************************************)
(* sign_message_falcon's slicing and the receiver's per-fragment store     *)
(* step, checked over every signature length up to MaxTotal and every      *)
(* requested fragment size from 0 to one past MaxFragment, with the        *)
(* fragments of one SPDU delivered in any order and any of them delivered  *)
(* more than once.  The operators are those of Spdu and Receiver.          *)
(***************************************************************************)
EXTENDS Integers, Sequences, SequencesExt

CONSTANTS MaxFragment, MaxTotal

VARIABLES
    siglen,    \* the length falcon_sign returned
    size,      \* pqc.falcon_fragment_size
    inflight,  \* fragments not yet delivered for the last time
    entry      \* the receiver's PendingMessage for this SPDU

vars == <<siglen, size, inflight, entry>>

LOCAL Params ==
    INSTANCE Spdu WITH NumVehicles <- 1, NumMessages <- 1, Scheme <- "FALCON",
                       FalconFragmentSize <- size, EcdsaSize <- 1,
                       EcdsaSigLengths <- {1}, FalconSigLengths <- 1..MaxTotal,
                       SignerFailures <- FALSE, TraceLength <- 1

\* The receiver's store step does not read the fragment size.
Rcv == INSTANCE Receiver
         WITH NumVehicles <- 1, NumMessages <- 1, Scheme <- "FALCON",
              FalconFragmentSize <- 0, EcdsaSize <- 1,
              EcdsaSigLengths <- {1}, FalconSigLengths <- 1..MaxTotal,
              SignerFailures <- FALSE, TraceLength <- 1, Test <- TRUE, TestPortEnv <- <<>>, KeyIds <- {0},
              net <- {}, pending <- <<>>, completed <- 0, shown <- {},
              rstate <- "receiving", now <- 0, RecencyWindow <- 1,
              firstSeen <- FALSE, firstTime <- 0, lastTime <- 0, metricsRow <- <<>>,
              falconCache <- <<>>, guiOut <- {}, Gui <- FALSE, Launched <- TRUE

\* The fragments of SPDU (0, 0) and the signature they carry.
Signature == Params!SignatureOf(0, Params!SignedData(0, 0, 0).tbs, siglen)
Fragments == Params!PrepareSignedFragments(0, 0, 0, Signature)

NoEntry == [tmpl |-> Rcv!TemplateOf(Fragments[1]), buf |-> <<>>, got |-> <<>>]

Init ==
    /\ siglen \in 1..MaxTotal
    /\ size \in 0..(MaxFragment + 1)
    /\ inflight = ToSet(Fragments)
    /\ entry = NoEntry

\* recvfrom returns fragment f: the look-up, store and late binding of one
\* iteration of receive; the path may hand out a copy of f again later.
Deliver(f) ==
    /\ f \in inflight
    /\ entry' = Rcv!LateBind(Rcv!StoreFragment(Rcv!InitEntry(entry, f), f), f)
    /\ \E again \in BOOLEAN : inflight' = IF again THEN inflight ELSE inflight \ {f}
    /\ UNCHANGED <<siglen, size>>

Next == \E f \in inflight : Deliver(f)

Spec == Init /\ [][Next]_vars

-----------------------------------------------------------------------------
\* The bytes fragment i carries.
Slice(f) == SubSeq(f.payload, 1, f.len)

(***************************************************************************)
(* Fragmentation totality (spec.md 8), against a reference: the fragments  *)
(* are indexed 0..count-1 in order, each fits MAX_SIGNATURE_FRAGMENT_SIZE,  *)
(* each sits at the offset where the previous ones end, and their slices   *)
(* concatenated are the signature falcon_sign produced.                    *)
(***************************************************************************)
FragmentsPartitionSignature ==
    LET n == Len(Fragments)
        slices == [i \in 1..n |-> Slice(Fragments[i])]
    IN  /\ FlattenSeq(slices) = Signature
        /\ \A i \in 1..n :
              /\ Fragments[i].index = i - 1
              /\ Fragments[i].count = n
              /\ Fragments[i].buflen = siglen
              /\ 1 <= Fragments[i].len /\ Fragments[i].len <= MaxFragment
              /\ Fragments[i].offset = Len(FlattenSeq(SubSeq(slices, 1, i - 1)))

(***************************************************************************)
(* Out-of-order tolerance and idempotent reassembly (spec.md 8): whatever  *)
(* the arrival order and however many copies arrive, once every index is  *)
(* marked the entry holds exactly the signature.                           *)
(***************************************************************************)
ReassemblyExact ==
    entry.got # <<>> /\ Rcv!Complete(entry) => entry.buf = Signature

=============================================================================
