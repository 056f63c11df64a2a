----------------------------- MODULE Transmitter -----------------------------
(***************************************************************************)
(* Vehicle::transmit, one OS thread per vehicle (main.cpp starts them all  *)
(* and joins them).  For each sequence number i the thread builds and      *)
(* signs the fragments, walks them once drawing the injected loss for each *)
(* (a dropped fragment goes to the resend queue, a kept one is sent), then *)
(* sends every queued fragment once and sleeps before the next message.   *)
(* The sleeps order nothing across threads and are not steps of their own. *)
(*                                                                         *)
(* net is the UDP path to the receiver: the set of datagrams sent and not  *)
(* yet received.  sendto is one datagram per step.                          *)
(*                                                                         *)
(* A sendto that fails calls exit(EXIT_FAILURE): the whole transmitter     *)
(* process ends, every thread with it, whatever iteration each is in.      *)
(***************************************************************************)
EXTENDS Spdu

CONSTANT DropRate   \* V2X_PACKET_LOSS_RATE after clamping: "none" (0),
                    \* "some" (strictly between 0 and 1) or "all" (1)

CONSTANT SendFailures   \* may a sendto return < 0?

CONSTANTS Test,         \* the --test argument
          TestPortEnv,  \* V2X_TEST_PORT, as GetTestPort reads it
          Launched      \* main parsed its arguments and started the threads

ASSUME DropRate \in {"none", "some", "all"} /\ SendFailures \in BOOLEAN

VARIABLES
    tpc,     \* per vehicle: "prepare", "pass", "resend" or "done"
    seqNo,   \* per vehicle: the loop counter i (sequence number and timestep)
    todo,    \* per vehicle: fragments of message i not yet walked in the pass
    queue,   \* per vehicle: resend_queue
    alive,   \* the transmitter process has not exited
    net,     \* datagrams in flight to the receiver
    now      \* system_clock::now(), read by every thread

tvars == <<tpc, seqNo, todo, queue, alive>>

\* servaddr.sin_port: where every datagram of every thread is sent.
DestPort == IF Test THEN GetTestPort(TestPortEnv) ELSE 52001

TInit ==
    /\ tpc   = [v \in Vehicles |-> IF NumMessages > 0 THEN "prepare" ELSE "done"]
    /\ seqNo = [v \in Vehicles |-> 0]
    /\ todo  = [v \in Vehicles |-> <<>>]
    /\ queue = [v \in Vehicles |-> <<>>]
    /\ alive = Launched

\* Mutant: the loop runs while i <= num_msgs.
NextMessageLoopOffByOne(v) ==
    /\ seqNo' = [seqNo EXCEPT ![v] = @ + 1]
    /\ tpc' = [tpc EXCEPT ![v] = IF seqNo[v] + 1 <= NumMessages THEN "prepare" ELSE "done"]

\* The end of iteration i: after the 100 ms sleep, the next i, or leave the loop.
NextMessage(v) ==
    /\ seqNo' = [seqNo EXCEPT ![v] = @ + 1]
    /\ tpc' = [tpc EXCEPT ![v] = IF seqNo[v] + 1 < NumMessages THEN "prepare" ELSE "done"]

\* auto fragments = prepare_signed_fragments(i, i); an empty resend_queue.
Prepare(v) ==
    /\ tpc[v] = "prepare"
    /\ \E sig \in SignerOutputs(v, Tbs(GenerateBsm(v, seqNo[v]), now)) :
          todo' = [todo EXCEPT ![v] = PrepareSignedFragments(v, seqNo[v], now, sig)]
    /\ queue' = [queue EXCEPT ![v] = <<>>]
    /\ tpc' = [tpc EXCEPT ![v] = "pass"]
    /\ UNCHANGED <<seqNo, net>>

\* Mutant: the resend burst forgotten.
EndOfPassSkippingResend(v) == NextMessage(v)

\* After the last fragment of the pass: the resend burst if anything was
\* dropped, otherwise straight on to the next message.
EndOfPass(v) ==
    IF queue'[v] # <<>>
    THEN tpc' = [tpc EXCEPT ![v] = "resend"] /\ UNCHANGED seqNo
    ELSE NextMessage(v)

AfterFragment(v) ==
    /\ todo' = [todo EXCEPT ![v] = Tail(@)]
    /\ IF Tail(todo[v]) = <<>> THEN EndOfPass(v) ELSE UNCHANGED <<tpc, seqNo>>

\* Mutant: the continue after push_back forgotten, so a dropped fragment is
\* sent as well as queued.
DropFragmentAndSend(v) ==
    /\ tpc[v] = "pass"
    /\ DropRate # "none"
    /\ queue' = [queue EXCEPT ![v] = Append(@, Head(todo[v]))]
    /\ AfterFragment(v)
    /\ net' = net \cup {Head(todo[v])}

\* drop_rate > 0.0 && dist(rng) < drop_rate: queue the fragment.
DropFragment(v) ==
    /\ tpc[v] = "pass"
    /\ DropRate # "none"
    /\ queue' = [queue EXCEPT ![v] = Append(@, Head(todo[v]))]
    /\ AfterFragment(v)
    /\ UNCHANGED net

\* Otherwise sendto the fragment.
SendFragment(v) ==
    /\ tpc[v] = "pass"
    /\ DropRate # "all"
    /\ net' = net \cup {Head(todo[v])}
    /\ UNCHANGED queue
    /\ AfterFragment(v)

\* The resend burst: every queued fragment is sent once, with no new draw.
Resend(v) ==
    /\ tpc[v] = "resend"
    /\ net' = net \cup {Head(queue[v])}
    /\ queue' = [queue EXCEPT ![v] = Tail(@)]
    /\ IF Tail(queue[v]) = <<>> THEN NextMessage(v) ELSE UNCHANGED <<tpc, seqNo>>
    /\ UNCHANGED todo

\* sendto returns < 0 in the pass (for a fragment the draw kept) or in the
\* resend burst: perror, close, exit.  No thread of the process runs again.
SendFails(v) ==
    /\ SendFailures
    /\ alive
    /\ \/ tpc[v] = "pass" /\ DropRate # "all"
       \/ tpc[v] = "resend"
    /\ alive' = FALSE
    /\ UNCHANGED <<tpc, seqNo, todo, queue, net>>

\* generate_bsm reads this->timestep[i] past the last line of the trace and
\* the read faults: the signal ends the whole process.
TraceReadFails(v) ==
    /\ alive
    /\ tpc[v] = "prepare"
    /\ seqNo[v] >= TraceLength
    /\ alive' = FALSE
    /\ UNCHANGED <<tpc, seqNo, todo, queue, net>>

\* A step of thread v while the process lives.
TStep(v) ==
    /\ alive
    /\ \/ Prepare(v)
       \/ DropFragment(v)
       \/ SendFragment(v)
       \/ Resend(v)
    /\ UNCHANGED alive

TNext == \E v \in Vehicles : TStep(v)

TransmittersDone == \A v \in Vehicles : tpc[v] = "done"

=============================================================================
