-------------------------------- MODULE Spdu --------------------------------
(***************************************************************************)
(* The SPDU data model and the signing pipeline of Vehicle.cpp: how one    *)
(* (vehicle, sequence number) becomes an ordered sequence of self-         *)
(* describing fragments (generate_spdu, sign_message_ecdsa,                *)
(* sign_message_falcon, prepare_signed_fragments), and the two signature   *)
(* checks of verify_message.                                               *)
(*                                                                         *)
(* Data is abstracted to what the properties tell apart.  A signature is a *)
(* sequence of byte symbols; byte j of the signature a key produces over   *)
(* some tbsData is <<key, tbs, j>>, so a byte placed at the wrong offset,  *)
(* taken from another SPDU or left zero is told apart from the right one.  *)
(* The zero byte is ZeroByte.  Byte counts are scaled down (see the README).      *)
(***************************************************************************)
EXTENDS Integers, Sequences, FiniteSets

CONSTANTS
    NumVehicles,        \* scenario.numVehicles: vehicle ids 0..NumVehicles-1
    NumMessages,        \* scenario.numMessages per vehicle
    Scheme,             \* pqc.scheme, "ECDSA" or "FALCON"
    FalconFragmentSize, \* pqc.falcon_fragment_size as parsed by main()
    MaxFragment,        \* MAX_SIGNATURE_FRAGMENT_SIZE
    MaxTotal,           \* MAX_SIGNATURE_TOTAL_SIZE
    EcdsaSize,          \* ECDSA_size(private_ec_key), the DER upper bound
    EcdsaSigLengths,    \* lengths ecdsa_sign may write back
    FalconSigLengths,   \* lengths falcon_sign may write back
    SignerFailures,     \* may ecdsa_sign or falcon_sign fail?
    TraceLength         \* lines of trace_files/<n>.csv (the same for every n)

ASSUME /\ NumVehicles \in 1..256
       /\ NumMessages \in Nat
       /\ Scheme \in {"ECDSA", "FALCON"}
       /\ FalconFragmentSize \in Nat
       /\ MaxFragment \in Nat \ {0}
       /\ EcdsaSigLengths \subseteq 1..EcdsaSize
       /\ FalconSigLengths \subseteq 1..MaxTotal
       /\ SignerFailures \in BOOLEAN
       /\ TraceLength \in Nat
       \* sign_message_ecdsa exits when ECDSA_size exceeds a fragment; a P-256
       \* key never does, so that exit is not part of any run.
       /\ EcdsaSize <= MaxFragment

Vehicles == 0..(NumVehicles - 1)
SeqNos   == 0..(NumMessages - 1)

Min2(a, b) == IF a < b THEN a ELSE b

\* A zero byte, told apart from every signature byte.
ZeroByte == <<>>

\* The zero-filled signature_fragment array.
ZeroPayload == [j \in 1..MaxFragment |-> ZeroByte]

\* Copy bytes into the start of a zero-filled array of MaxFragment bytes.
Padded(bytes) == [j \in 1..MaxFragment |-> IF j <= Len(bytes) THEN bytes[j] ELSE ZeroByte]

(***************************************************************************)
(* Cryptographic primitives as trusted opaque operations.  The signature a *)
(* key makes over a message is determined by the key, the message and the  *)
(* length the primitive chose; verification accepts exactly the signatures *)
(* the key owner can have made.                                            *)
(***************************************************************************)
SignatureOf(key, msg, len) == [j \in 1..len |-> <<key, msg, j>>]

Genuine(key, msg, sig) == Len(sig) >= 1 /\ sig = SignatureOf(key, msg, Len(sig))

\* get_test_port: V2X_TEST_PORT when set to a number in (0, 65536), else
\* 6666.  env is <<>> when the variable is unset or not a number, <<n>> when
\* strtol reads n.
GetTestPort(env) ==
    IF env # <<>> /\ 0 < env[1] /\ env[1] < 65536 THEN env[1] ELSE 6666

\* Mutant: the key built from the sequence number alone.
MessageKeyWithoutVehicle(vehicle_id, sequence_number) == <<0, sequence_number>>

\* make_message_key: (vehicle_id << 32) | sequence_number, an injective
\* encoding of the pair.
MessageKey(vehicle_id, sequence_number) == <<vehicle_id, sequence_number>>

\* Mutant: 0 read as "the whole signature in one fragment".
ClampFragmentSizeZeroIsWhole(requested, maximum) ==
    IF requested = 0 THEN MaxTotal ELSE Min2(requested, maximum)

\* clamp_fragment_size: 0 means "use the maximum".
ClampFragmentSize(requested, maximum) ==
    IF requested = 0 THEN maximum ELSE Min2(requested, maximum)

(***************************************************************************)
(* generate_bsm(timestep): the position of line t of the vehicle's trace,  *)
(* with speed and heading computed from line t - 1; the floating-point     *)
(* fields are abstracted to the pair (vehicle, t) they are a function of.  *)
(* Nothing checks t against the trace: this->timestep[t] past the last     *)
(* line reads outside the vector, and the BSM is then not a sample of the  *)
(* trace (when the read does not crash the thread, see Transmitter).       *)
(***************************************************************************)
TraceSample(v, t) == <<v, t>>

OutOfTrace == <<"out of trace">>

GenerateBsm(v, t) == IF t < TraceLength THEN TraceSample(v, t) ELSE OutOfTrace

(***************************************************************************)
(* generate_spdu: zero the fragment, set the ids, build tbsData from the   *)
(* BSM and the header timestamp ts (system_clock::now() when the SPDU is   *)
(* built), install the vehicle certificate and sign its digest with the    *)
(* certificate key.                                                        *)
(***************************************************************************)
Tbs(bsm, ts) == [message |-> bsm, timestamp |-> ts]

SignedData(v, s, ts) ==
    [tbs |-> Tbs(GenerateBsm(v, s), ts), cert |-> v, certSig |-> SignatureOf(v, v, 1)]

GenerateSpdu(v, s, ts) ==
    [vehicle_id |-> v, sequence_number |-> s, scheme |-> "ECDSA",
     index |-> 0, count |-> 1, buflen |-> 0, len |-> 0, offset |-> 0,
     payload |-> ZeroPayload, data |-> SignedData(v, s, ts)]

(***************************************************************************)
(* sign_message_ecdsa: one fragment carrying the whole DER signature.      *)
(***************************************************************************)
\* Mutant: signature_buffer_length left at ECDSA_size, not the DER length.
SignMessageEcdsaPresignLength(spdu, sig) ==
    [spdu EXCEPT !.buflen = EcdsaSize, !.count = 1, !.index = 0,
                 !.len = EcdsaSize, !.offset = 0, !.payload = Padded(sig)]

SignMessageEcdsa(spdu, sig) ==
    [spdu EXCEPT !.buflen = Len(sig), !.count = 1, !.index = 0,
                 !.len = Len(sig), !.offset = 0, !.payload = Padded(sig)]

(***************************************************************************)
(* sign_message_falcon: the signature split into ceil(len / size) slices,  *)
(* slice idx at offset idx * size holding min(size, len - offset) bytes.   *)
(***************************************************************************)
\* Mutant: every slice takes the full fragment size, the last one included.
FalconFragmentFullLast(spdu, sig, size, count, idx) ==
    LET offset == idx * size
    IN  [spdu EXCEPT !.scheme = "FALCON", !.count = count, !.index = idx,
                     !.buflen = Len(sig), !.offset = offset, !.len = size,
                     !.payload = Padded(SubSeq(sig, offset + 1, Min2(offset + size, Len(sig))))]

FalconFragment(spdu, sig, size, count, idx) ==
    LET offset == idx * size
        n      == Min2(size, Len(sig) - offset)
    IN  [spdu EXCEPT !.scheme = "FALCON", !.count = count, !.index = idx,
                     !.buflen = Len(sig), !.offset = offset, !.len = n,
                     !.payload = Padded(SubSeq(sig, offset + 1, offset + n))]

\* Mutant: the count rounded down.
FragmentCountFloor(siglen, size) == siglen \div size

FragmentCount(siglen, size) == (siglen + size - 1) \div size

SignMessageFalcon(spdu, sig) ==
    LET size  == ClampFragmentSize(FalconFragmentSize, MaxFragment)
        count == FragmentCount(Len(sig), size)
    IN  [i \in 1..count |-> FalconFragment(spdu, sig, size, count, i - 1)]

\* The lengths the selected signing primitive can return.
SigLengths == IF Scheme = "ECDSA" THEN EcdsaSigLengths ELSE FalconSigLengths

(***************************************************************************)
(* The return values of ecdsa_sign and falcon_sign are not checked.  A     *)
(* primitive that fails writes neither the signature nor its length, so    *)
(* the zero-filled buffer goes out at its initial length: ECDSA_size, or   *)
(* MAX_SIGNATURE_TOTAL_SIZE for Falcon.                                    *)
(***************************************************************************)
UnsignedBuffer ==
    [j \in 1..(IF Scheme = "ECDSA" THEN EcdsaSize ELSE MaxTotal) |-> ZeroByte]

\* The signature bytes the signer can leave for tbs.
SignerOutputs(v, tbs) ==
    {SignatureOf(v, tbs, n) : n \in SigLengths}
        \cup (IF SignerFailures THEN {UnsignedBuffer} ELSE {})

(***************************************************************************)
(* prepare_signed_fragments(sequence_number, timestep = sequence_number),  *)
(* built at clock reading ts, for the signature bytes sig the primitive    *)
(* left.                                                                   *)
(***************************************************************************)
PrepareSignedFragments(v, s, ts, sig) ==
    LET base == [GenerateSpdu(v, s, ts) EXCEPT !.scheme = Scheme]
    IN  IF Scheme = "ECDSA" THEN <<SignMessageEcdsa(base, sig)>>
                            ELSE SignMessageFalcon(base, sig)

(***************************************************************************)
(* verify_message, the two signature checks.  cert_ok checks the stored    *)
(* certificate signature with vehicle_id's certificate key.  sig_ok        *)
(* dispatches on the template's scheme tag: ECDSA reads                    *)
(* signature_buffer_length bytes of the assembled buffer with vehicle_id's *)
(* EC key, Falcon the whole buffer with the public key pubKey that         *)
(* load_falcon_public_key returned.  A read past the buffer (a length      *)
(* larger than the buffer, which no honest sender produces) is taken to    *)
(* fail verification.                                                      *)
(***************************************************************************)
\* falcon_keys/<id>/falcon.pub: the public key of vehicle id.
FalconPublicKeyFile(id) == id

CertOk(tmpl, vehicle_id) ==
    Genuine(vehicle_id, tmpl.data.cert, tmpl.data.certSig)

\* Mutant: the signing key taken from the certificate the SPDU carries.
SigOkFromCertificate(tmpl, assembled, vehicle_id, pubKey) ==
    IF tmpl.scheme = "ECDSA"
    THEN /\ tmpl.buflen <= Len(assembled)
         /\ Genuine(tmpl.data.cert, tmpl.data.tbs, SubSeq(assembled, 1, tmpl.buflen))
    ELSE Genuine(tmpl.data.cert, tmpl.data.tbs, assembled)

SigOk(tmpl, assembled, vehicle_id, pubKey) ==
    IF tmpl.scheme = "ECDSA"
    THEN /\ tmpl.buflen <= Len(assembled)
         /\ Genuine(vehicle_id, tmpl.data.tbs, SubSeq(assembled, 1, tmpl.buflen))
    ELSE Genuine(pubKey, tmpl.data.tbs, assembled)

=============================================================================
