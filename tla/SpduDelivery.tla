----------------------------- MODULE SpduDelivery -----------------------------
(***************************************************************************)
(* What the simulator promises, without fragments, sockets or threads:    *)
(* each sender emits its SPDUs in sequence-number order; the receiver      *)
(* verifies an SPDU only after it was emitted and at most once; it stops   *)
(* exactly when every SPDU has been verified.  With fairness, every SPDU   *)
(* is eventually verified.                                                 *)
(***************************************************************************)
EXTENDS Integers

CONSTANTS Senders, Count   \* vehicles, and SPDUs per vehicle

VARIABLES sent, verified, exited

avars == <<sent, verified, exited>>

Keys == Senders \X (0..(Count - 1))

AInit ==
    /\ sent = {}
    /\ verified = {}
    /\ exited = (Keys = {})

\* Sender v emits SPDU s once SPDU s - 1 has gone.
Emit(v, s) ==
    /\ <<v, s>> \notin sent
    /\ s = 0 \/ <<v, s - 1>> \in sent
    /\ sent' = sent \cup {<<v, s>>}
    /\ UNCHANGED <<verified, exited>>

\* The receiver verifies an emitted SPDU it has not verified yet.
Verify(k) ==
    /\ ~exited
    /\ k \in sent \ verified
    /\ verified' = verified \cup {k}
    /\ exited' = (verified' = Keys)
    /\ UNCHANGED sent

ANext ==
    \/ \E k \in Keys : Emit(k[1], k[2])
    \/ \E k \in Keys : Verify(k)

ASpec ==
    /\ AInit /\ [][ANext]_avars
    /\ \A k \in Keys : WF_avars(Emit(k[1], k[2])) /\ WF_avars(Verify(k))

=============================================================================
