------------------------------ MODULE V2XSystem ------------------------------
(***************************************************************************)
(* The transmitter process (one thread per vehicle), the UDP path and the  *)
(* receiver process, composed.  The two processes share only the datagrams *)
(* in flight.  The path may reorder datagrams always, and lose or          *)
(* duplicate them when NetworkLoss or NetworkDuplicates is set.            *)
(***************************************************************************)
EXTENDS Spdu, TLC

CONSTANTS
    DropRate,           \* see Transmitter
    SendFailures,       \* see Transmitter
    NetworkLoss,        \* may the path lose a datagram?
    NetworkDuplicates,  \* may the path duplicate a datagram?
    RecvFailures,       \* may recvfrom fail?
    TxArgv, RxArgv,     \* the command lines of the two processes
    ArgDefaults,        \* see Main
    TestPortEnv,        \* see Transmitter and Receiver
    KeyIds,             \* see Receiver
    RecencyWindow,      \* see Receiver
    MaxTime             \* the last clock reading of a run

ASSUME NetworkLoss \in BOOLEAN /\ NetworkDuplicates \in BOOLEAN /\ RecvFailures \in BOOLEAN /\ MaxTime \in Nat

VARIABLES tpc, seqNo, todo, queue, alive, net, pending, completed, shown, rstate,
          now, firstSeen, firstTime, lastTime, metricsRow, falconCache, guiOut,
          stamps   \* auxiliary: the clock reading at which each SPDU was built

M == INSTANCE Main

\* What main made of each command line.
TxArgs == M!ParseArgs(TxArgv)
RxArgs == M!ParseArgs(RxArgv)

\* The Vehicle constructor loads vehicle n's EC key and certificate key, its
\* trace and, for Falcon, its private key; a missing file exits the process.
VehicleConstructs(n) == n \in KeyIds

\* The transmitter constructs every vehicle before it starts a thread; the
\* receiver constructs vehicle 0.
T == INSTANCE Transmitter
         WITH Test <- TxArgs.test,
              Launched <- M!Starts(TxArgs, "transmitter") /\ \A v \in Vehicles : VehicleConstructs(v)
R == INSTANCE Receiver
         WITH Test <- RxArgs.test, Gui <- RxArgs.tkgui \/ RxArgs.webgui,
              Launched <- M!Starts(RxArgs, "receiver") /\ VehicleConstructs(0)

tvars == <<tpc, seqNo, todo, queue, alive, stamps>>
rvars == <<pending, completed, shown, rstate, firstSeen, firstTime, lastTime, metricsRow,
           falconCache, guiOut>>
vars  == <<tvars, net, rvars, now>>

Init ==
    /\ T!TInit
    /\ R!RInit
    /\ net = {}
    /\ now = 0
    /\ stamps = <<>>

\* The wall clock advances (one tick is RecencyWindow-th of 30 s).
Tick ==
    /\ now < MaxTime
    /\ now' = now + 1
    /\ UNCHANGED <<tvars, net, rvars>>

\* The path loses a datagram.
LoseDatagram(f) ==
    /\ NetworkLoss
    /\ f \in net
    /\ net' = net \ {f}
    /\ UNCHANGED <<tvars, rvars, now>>

\* Record the build time of the SPDU thread v is about to build.
Stamp(v) ==
    stamps' = IF tpc[v] = "prepare" THEN (MessageKey(v, seqNo[v]) :> now) @@ stamps
                                    ELSE stamps

TransmitterStep(v) == T!TStep(v) /\ Stamp(v) /\ UNCHANGED <<rvars, now>>

TransmitterFails(v) == T!SendFails(v) /\ UNCHANGED <<rvars, now, stamps>>

TraceFault(v) == T!TraceReadFails(v) /\ UNCHANGED <<rvars, now, stamps>>

\* The receive socket gets a datagram only if it was sent to the bound port;
\* any other datagram stays unread on the path.
Delivered == T!DestPort = R!ListenPort

ReceiverStep(f) == Delivered /\ R!Receive(f) /\ UNCHANGED <<tvars, now>>

DuplicateStep(f) ==
    NetworkDuplicates /\ Delivered /\ R!ReceiveDuplicate(f) /\ UNCHANGED <<tvars, now>>

ReceiverFails == RecvFailures /\ R!RecvFails /\ UNCHANGED <<tvars, now>>

Next ==
    \/ \E v \in Vehicles : TransmitterStep(v)
    \/ \E f \in net : ReceiverStep(f)
    \/ \E f \in net : DuplicateStep(f)
    \/ \E f \in net : LoseDatagram(f)
    \/ \E v \in Vehicles : TransmitterFails(v)
    \/ \E v \in Vehicles : TraceFault(v)
    \/ ReceiverFails
    \/ Tick

(***************************************************************************)
(* Fairness.  Every transmitter thread is an OS thread that keeps running  *)
(* while it has work (its sleeps end); the receiver blocks in recvfrom and *)
(* the kernel hands it every datagram that reaches the socket.  Loss,      *)
(* duplication, a failing sendto and the clock are never forced.            *)
(***************************************************************************)
Fairness ==
    /\ \A v \in Vehicles : WF_vars(TransmitterStep(v))
    /\ WF_vars(\E f \in net : ReceiverStep(f))

Spec == Init /\ [][Next]_vars /\ Fairness

-----------------------------------------------------------------------------
AllKeys == {MessageKey(v, s) : v \in Vehicles, s \in SeqNos}

ShownKeys == {MessageKey(r.vehicle_id, r.sequence_number) : r \in shown}

\* A byte of a signature buffer: zero, or byte j of a key's signature.
TbsData == [message : {TraceSample(v, t) : v \in Vehicles, t \in 0..(TraceLength - 1)}
                        \cup {OutOfTrace},
            timestamp : 0..MaxTime]

Byte == {ZeroByte} \cup (Vehicles \X TbsData \X (1..MaxTotal))

Fragment ==
    [vehicle_id : 0..255, sequence_number : SeqNos, scheme : {"ECDSA", "FALCON"},
     index : 0..MaxTotal, count : 0..MaxTotal, buflen : 0..MaxTotal,
     len : 0..MaxFragment, offset : 0..MaxTotal,
     payload : [1..MaxFragment -> Byte],
     data : [tbs : TbsData, cert : Vehicles,
             certSig : [1..1 -> Vehicles \X Vehicles \X {1}]]]

TypeOK ==
    /\ tpc \in [Vehicles -> {"prepare", "pass", "resend", "done"}]
    /\ seqNo \in [Vehicles -> 0..NumMessages]
    /\ alive \in BOOLEAN
    /\ net \subseteq Fragment
    /\ completed \in Nat
    /\ rstate \in {"receiving", "exited", "failed"}
    /\ DOMAIN pending \subseteq (0..255) \X SeqNos
    /\ now \in 0..MaxTime
    /\ firstSeen \in BOOLEAN
    /\ {firstTime, lastTime} \subseteq 0..MaxTime
    /\ metricsRow \in {<<>>} \cup [total : -MaxTime..MaxTime, first : 0..MaxTime, last : 0..MaxTime]
    /\ DOMAIN falconCache \subseteq 0..255
    /\ guiOut \subseteq [vehicle_id : 0..255, bsm : {TraceSample(v, t) : v \in Vehicles, t \in SeqNos}
                                                  \cup {OutOfTrace},
                         valid : BOOLEAN]

(***************************************************************************)
(* Every SPDU the receiver completes verifies: the certificate signature   *)
(* and the payload signature reassembled from the fragments are the ones   *)
(* the sender made (receive: reassembly and verify_message, against        *)
(* sign_message_* on the sender).  Stale verdicts are allowed; broken      *)
(* signatures are not.                                                     *)
(***************************************************************************)
ReassembledSignaturesVerify == \A r \in shown : r.certOk /\ r.sigOk

(***************************************************************************)
(* The static key cache of load_falcon_public_key, filled on a miss and    *)
(* read by every later Falcon verification, holds for each vehicle id the  *)
(* public key of that vehicle's key file, and only for vehicles whose      *)
(* SPDU the receiver has verified.  A cache that answered for the wrong id *)
(* would verify one vehicle's signature with another vehicle's key.        *)
(***************************************************************************)
(* completed_messages counts distinct SPDUs: no (vehicle, sequence) is     *)
(* verified and counted twice, so reaching num_msgs * num_vehicles means   *)
(* every SPDU was seen.                                                    *)
(***************************************************************************)
CompletedCountsDistinctSpdus == completed = Cardinality(ShownKeys)

(***************************************************************************)
(* Once a fragment index is marked received in a pending entry, the mark   *)
(* and the signature bytes stay until the entry is erased: a later         *)
(* fragment, a duplicate or one with other bytes at the same index         *)
(* included, never undoes or overwrites reassembly progress (lines         *)
(* 289-299).  An entry whose buffer is empty is re-initialised by the next *)
(* datagram by design (line 279); honest entries never have one.          *)
(***************************************************************************)
ReceivedFragmentsStick ==
    [][\A k \in {x \in DOMAIN pending \cap DOMAIN pending' : pending[x].buf # <<>>} :
          /\ Len(pending'[k].buf) = Len(pending[k].buf)
          /\ \A i \in DOMAIN pending[k].got :
                pending[k].got[i] =>
                    /\ i \in DOMAIN pending'[k].got
                    /\ pending'[k].got[i]
          /\ \A j \in DOMAIN pending[k].buf :
                pending[k].buf[j] # ZeroByte => pending'[k].buf[j] = pending[k].buf[j]
      ]_pending

(***************************************************************************)
(* What spec.md (4.4, 8) says of the injected loss: a dropped fragment is  *)
(* retried once and the retry is lost with the same probability, so an     *)
(* SPDU of N fragments arrives with probability (1 - p^2)^N.  At           *)
(* V2X_PACKET_LOSS_RATE = 1 that is 0: no SPDU completes.  transmit's      *)
(* resend burst sends every queued fragment without a new draw.            *)
(***************************************************************************)
FullLossDeliversNothing == DropRate = "all" => completed = 0

(***************************************************************************)
(* Refinement.  An SPDU counts as emitted once its thread has built it     *)
(* (prepare_signed_fragments of iteration i); it counts as verified once   *)
(* print_spdu showed its verdict; the receiver has stopped once it left    *)
(* the loop.                                                               *)
(***************************************************************************)
\* Thread v has built SPDU x once it is past iteration x or inside it.
Built(v, x) == x < seqNo[v] \/ (x = seqNo[v] /\ tpc[v] \in {"pass", "resend"})

SentKeys == {k \in Vehicles \X SeqNos : Built(k[1], k[2])}

Delivery == INSTANCE SpduDelivery
              WITH Senders <- Vehicles, Count <- NumMessages,
                   sent <- SentKeys, verified <- ShownKeys,
                   exited <- (rstate = "exited")

(***************************************************************************)
(* The system implements SpduDelivery: every thread emits in sequence      *)
(* order, the receiver verifies only what was emitted, never the same SPDU *)
(* twice, exits exactly when all are verified, and (by fairness) verifies  *)
(* them all.                                                               *)
(***************************************************************************)
DeliveryRefined == Delivery!ASpec

(***************************************************************************)
(* The reassembly table holds only SPDUs that were sent and are not yet    *)
(* verified: receive erases an entry when it completes, and without        *)
(* duplicates nothing re-creates it.  pending_messages has no eviction, so *)
(* this is what keeps it from growing over a run.                          *)
(***************************************************************************)
PendingOnlyInFlight == DOMAIN pending \subseteq SentKeys \ ShownKeys

(***************************************************************************)
(* verify_message reads no signature byte past the reassembled buffer.     *)
(* The ECDSA path passes signature_buffer_length from the template, which  *)
(* the last fragment wrote, while the buffer was sized by the fragment     *)
(* that created the entry.                                                 *)
(***************************************************************************)
VerifierReadsWithinBuffer == \A r \in shown : r.sigRead <= r.bufSize

(***************************************************************************)
(* A datagram never ends the receiver: verification failures are          *)
(* non-fatal and the loop continues (spec.md 4.6, 7).  verify_message      *)
(* loads the keys of the incoming vehicle_id, and a missing key file exits *)
(* the process.                                                            *)
(***************************************************************************)
ReceiverNeverAborts == rstate # "failed"

\* The tbsData thread v has built so far, each with the clock reading of its
\* build: the only ones its key has signed.
BuiltBsms(v) ==
    {Tbs(GenerateBsm(v, x), stamps[MessageKey(v, x)]) : x \in {y \in SeqNos : Built(v, y)}}

(***************************************************************************)
(* Authenticity (spec.md 4.6, 8), against whoever can put datagrams on the *)
(* path: a verdict whose payload signature passed displays a BSM that the  *)
(* displayed vehicle really built and signed.  verify_message picks the    *)
(* keys by the incoming vehicle_id while print_spdu shows the template's,  *)
(* and the template's signed data is whatever fragment came last.          *)
(***************************************************************************)
AuthenticVerdicts ==
    \A r \in shown : r.sigOk => r.tbs \in BuiltBsms(r.vehicle_id)

(***************************************************************************)
(* Every BSM the receiver displays is a sample of the displayed vehicle's  *)
(* trace (spec.md 4.1: generate_bsm is given 0 <= t < trace length).       *)
(* transmit runs i up to num_msgs from the configuration and               *)
(* generate_bsm indexes the trace with i; nothing compares the two.        *)
(***************************************************************************)
ShownBsmsFromTrace ==
    \A r \in shown : \E t \in 0..(TraceLength - 1) : r.tbs.message = TraceSample(r.vehicle_id, t)

(***************************************************************************)
(* Freshness (spec.md 4.6, 8): a verdict is valid exactly when both        *)
(* signatures pass and the SPDU was built less than 30 s before the        *)
(* datagram that completed it was received.  verify_message measures the  *)
(* age from the template's header timestamp, which the last fragment       *)
(* wrote, to the receive_time of the completing datagram.                  *)
(***************************************************************************)
(* The metrics record spans the run (spec.md 2, 4.5): first_us is the      *)
(* receive time of the first datagram and last_us that of the last         *)
(* completion, so every verdict was taken inside [first_us, last_us].      *)
(***************************************************************************)
(* With a reliable path, whatever the injected loss, every SPDU of every   *)
(* vehicle is eventually verified and the receiver leaves its loop.        *)
(***************************************************************************)
EverySpduVerified == <>(rstate = "exited" /\ ShownKeys = AllKeys)

(***************************************************************************)
(* Per SPDU, over a reliable path, even when a failing sendto ends the     *)
(* transmitter process: once thread v has finished iteration s of transmit *)
(* (its pass and its resend burst), SPDU (v, s) is eventually verified.    *)
(* The receiver itself then never exits, as it waits for SPDUs that were   *)
(* never sent, so this is the guarantee that is left.                      *)
(***************************************************************************)
SentSpdusVerified ==
    \A v \in Vehicles, s \in SeqNos :
        (s < seqNo[v]) ~> (MessageKey(v, s) \in ShownKeys)

=============================================================================
