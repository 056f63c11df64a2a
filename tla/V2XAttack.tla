------------------------------ MODULE V2XAttack ------------------------------
(***************************************************************************)
(* The system of V2XSystem with an attacker on the radio channel (spec.md  *)
(* 9: adversarial or corrupted senders).  The attacker hears every         *)
(* datagram in flight and injects new ones put together from what it       *)
(* heard: a datagram re-addressed to another (vehicle_id, sequence_number), *)
(* one whose signed data or signature bytes are taken from another         *)
(* datagram, or one whose signature_buffer_length and fragment_length are  *)
(* rewritten, or one whose fragment_count is rewritten (0 included: the   *)
(* entry it creates has an empty bitmap and completes at once).  It holds  *)
(* no key, so it makes no signature of its own.  The number of injections  *)
(* is bounded by AttackBudget.                                             *)
(***************************************************************************)
EXTENDS Spdu

CONSTANTS DropRate, SendFailures, NetworkLoss, NetworkDuplicates, RecvFailures, TxArgv, RxArgv, ArgDefaults, TestPortEnv,
          KeyIds, RecencyWindow, MaxTime,  \* see V2XSystem
          AttackerIds,   \* the vehicle ids the attacker may write in a header
          AttackLengths, \* lengths the attacker may write in a header
          AttackBudget   \* how many datagrams the attacker may inject

ASSUME AttackBudget \in Nat /\ AttackerIds \subseteq 0..255

VARIABLES tpc, seqNo, todo, queue, alive, net, pending, completed, shown, rstate,
          now, firstSeen, firstTime, lastTime, metricsRow, falconCache, guiOut, stamps,
          forged   \* datagrams injected so far

Sys == INSTANCE V2XSystem

sysvars == <<tpc, seqNo, todo, queue, alive, net, pending, completed, shown, rstate,
            now, firstSeen, firstTime, lastTime, metricsRow, falconCache, guiOut, stamps>>

\* What the attacker can make from the datagrams it hears.
Forgeries ==
    {[g EXCEPT !.vehicle_id = k[1], !.sequence_number = k[2]] :
        g \in net, k \in AttackerIds \X SeqNos}
    \cup {[g EXCEPT !.data = h.data] : g \in net, h \in net}
    \cup {[g EXCEPT !.payload = h.payload] : g \in net, h \in net}
    \cup {[g EXCEPT !.buflen = b, !.len = l] : g \in net, b \in AttackLengths, l \in AttackLengths}
    \cup {[g EXCEPT !.count = c] : g \in net, c \in AttackLengths}

Inject ==
    /\ forged < AttackBudget
    /\ \E g \in Forgeries \ net : net' = net \cup {g}
    /\ forged' = forged + 1
    /\ UNCHANGED <<tpc, seqNo, todo, queue, alive, pending, completed, shown, rstate,
                   now, firstSeen, firstTime, lastTime, metricsRow, falconCache, guiOut, stamps>>

Init == Sys!Init /\ forged = 0

Next == (Sys!Next /\ UNCHANGED forged) \/ Inject

\* Safety only: under attack an honest SPDU need not complete.
Spec == Init /\ [][Next]_<<sysvars, forged>>

TypeOK == Sys!TypeOK /\ forged \in 0..AttackBudget

\* See V2XSystem!AuthenticVerdicts.
AuthenticVerdicts == Sys!AuthenticVerdicts

(***************************************************************************)
(* V2XSystem!ReceivedFragmentsStick under attack: a spliced datagram that  *)
(* names an index already stored, with other signature bytes, leaves the   *)
(* stored slice alone.  Honest duplicates carry the same bytes, so only    *)
(* here can an overwrite be told from a keep.                              *)
(***************************************************************************)
ReceivedFragmentsStick == Sys!ReceivedFragmentsStick

\* See V2XSystem!VerifierReadsWithinBuffer.
VerifierReadsWithinBuffer == Sys!VerifierReadsWithinBuffer

\* See V2XSystem!ReceiverNeverAborts.
ReceiverNeverAborts == Sys!ReceiverNeverAborts

=============================================================================
