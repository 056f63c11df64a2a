------------------------------ MODULE Receiver ------------------------------
(***************************************************************************)
(* Vehicle::receive, the single-threaded receive loop: one recvfrom per    *)
(* iteration, then, in this order, look up or create the reassembly entry  *)
(* for (vehicle_id, sequence_number), store the fragment's bytes when its  *)
(* index is new and its slice fits, overwrite the template's shared        *)
(* fields from the fragment (last writer wins), and when every index has   *)
(* arrived verify the SPDU, display the verdict, count it and erase the    *)
(* entry.  The loop ends, and the process exits, when the count reaches    *)
(* num_msgs * num_vehicles.                                                *)
(***************************************************************************)
EXTENDS Spdu, TLC, Functions

VARIABLES
    net,        \* datagrams in flight (shared with the transmitters)
    pending,    \* pending_messages: message key -> PendingMessage
    completed,  \* completed_messages
    shown,      \* the verdicts and BSMs displayed so far (print_spdu,
                \* print_bsm), a history
    rstate,     \* "receiving" while the while-loop runs, then "exited";
                \* "failed" after an exit(EXIT_FAILURE) inside the loop
    now,        \* system_clock::now() (shared with the transmitters)
    firstSeen,  \* first_fragment_seen
    firstTime,  \* first_fragment_time
    lastTime,   \* last_completion_time
    metricsRow, \* the METRIC record written after the loop, <<>> before
    falconCache,\* the static cache of load_falcon_public_key: id -> key
    guiOut      \* the packed_bsm_for_gui datagrams sent to the GUI port

CONSTANTS Test,         \* the --test argument
          TestPortEnv,  \* V2X_TEST_PORT, as GetTestPort reads it
          KeyIds,       \* vehicle ids whose key files the receiver can load
          RecencyWindow,\* 30 000 ms, in clock ticks
          Gui,          \* tkgui || webgui
          Launched      \* main parsed its arguments and called receive

rvars == <<pending, completed, shown, rstate, firstSeen, firstTime, lastTime, metricsRow,
           falconCache, guiOut>>

\* The port the receive socket is bound to.
ListenPort == IF Test THEN GetTestPort(TestPortEnv) ELSE 4444

\* Mutant: one more than the SPDUs sent.
ExpectedOffByOne == NumMessages * NumVehicles + 1

\* The count main() passes: num_msgs * num_vehicles.
Expected == NumMessages * NumVehicles

RInit ==
    /\ pending = <<>>
    /\ completed = 0
    /\ shown = {}
    /\ rstate = IF ~Launched THEN "failed"
                ELSE IF completed < Expected THEN "receiving" ELSE "exited"
    /\ firstSeen = FALSE
    /\ firstTime = 0
    /\ lastTime = 0
    /\ metricsRow = <<>>
    /\ falconCache = <<>>
    /\ guiOut = {}

(***************************************************************************)
(* A PendingMessage.  tmpl keeps the template fields verify_message and    *)
(* print_spdu read; buf is signature_buffer, got is fragments_received.    *)
(* pending_messages[key] default-constructs an entry with empty vectors.   *)
(***************************************************************************)
TemplateOf(f) ==
    [vehicle_id |-> f.vehicle_id, sequence_number |-> f.sequence_number,
     scheme |-> f.scheme, count |-> f.count, buflen |-> f.buflen, data |-> f.data]

NewEntry(f) ==
    [tmpl |-> TemplateOf(f),
     buf  |-> [j \in 1..f.buflen |-> ZeroByte],
     got  |-> [i \in 1..f.count |-> FALSE]]

EntryFor(key, f) ==
    IF key \in DOMAIN pending THEN pending[key]
    ELSE [tmpl |-> TemplateOf(f), buf |-> <<>>, got |-> <<>>]

\* Mutant: fragment 0 taken to start a new message, as if arrival were in order.
InitEntryOnFirstIndex(e, f) == IF e.buf = <<>> \/ f.index = 0 THEN NewEntry(f) ELSE e

\* if (entry.signature_buffer.empty()): (re)initialise from this fragment.
InitEntry(e, f) == IF e.buf = <<>> THEN NewEntry(f) ELSE e

\* std::copy_n of fragment_length payload bytes to signature_offset.
CopyInto(buf, f) ==
    [j \in 1..Len(buf) |->
        IF f.offset < j /\ j <= f.offset + f.len THEN f.payload[j - f.offset] ELSE buf[j]]

\* Mutant: the fragments_received check dropped, so a repeated index is copied again.
StoreFragmentOverwriting(e, f) ==
    IF f.index < Len(e.got) /\ f.offset + f.len <= Len(e.buf)
    THEN [e EXCEPT !.buf = CopyInto(@, f), !.got[f.index + 1] = TRUE]
    ELSE e

\* A new index whose slice fits is stored and marked; anything else is ignored.
StoreFragment(e, f) ==
    IF /\ f.index < Len(e.got)
       /\ ~e.got[f.index + 1]
       /\ f.offset + f.len <= Len(e.buf)
    THEN [e EXCEPT !.buf = CopyInto(@, f), !.got[f.index + 1] = TRUE]
    ELSE e

\* The template's shared fields are overwritten by every fragment.
LateBind(e, f) ==
    [e EXCEPT !.tmpl.data = f.data, !.tmpl.buflen = f.buflen,
              !.tmpl.scheme = f.scheme, !.tmpl.count = f.count]

\* Mutant: the completeness scan stops one index short.
CompleteMissingLast(e) == \A i \in 1..(Len(e.got) - 1) : e.got[i]

Complete(e) == \A i \in DOMAIN e.got : e.got[i]

\* Mutant: the entry of a verified SPDU left in the table.
EraseNothing(key) == pending

\* pending_messages.erase(key).
Erase(key) == Restrict(pending, DOMAIN pending \ {key})

\* The signature bytes verify_message hands to the primitive: ECDSA is given
\* &spdu.signature_buffer_length, Falcon assembled_signature.size().
SigReadLength(tmpl, assembled) ==
    IF tmpl.scheme = "ECDSA" THEN tmpl.buflen ELSE Len(assembled)

\* recent: receive_time minus the header timestamp, in ms, under 30 000.
Recent(tmpl) == now - tmpl.data.tbs.timestamp < RecencyWindow

\* The METRIC record: total_us, first_us, last_us (run id, scheme and note
\* are tags from the environment).
MetricsRecord(first, last) == [total |-> last - first, first |-> first, last |-> last]

\* load_falcon_public_key: the cached key of id, or the key file's on a miss.
LoadFalconPublicKey(id) ==
    IF id \in DOMAIN falconCache THEN falconCache[id] ELSE FalconPublicKeyFile(id)

(***************************************************************************)
(* verify_message, print_spdu, the count, last_completion_time and the     *)
(* erase, for the complete entry e of key; after the last expected SPDU    *)
(* the loop ends and the metrics record is written.                        *)
(* valid = cert_ok && sig_ok && recent.  A Falcon-tagged SPDU takes its    *)
(* public key through the cache, which keeps a key it loaded.  With a GUI, *)
(* the BSM, the verdict and the incoming vehicle_id are also sent to it.   *)
(***************************************************************************)
VerifyAndCount(key, e, f) ==
    LET falcon == e.tmpl.scheme = "FALCON"
        pubKey == LoadFalconPublicKey(f.vehicle_id)
        certOk == CertOk(e.tmpl, f.vehicle_id)
        sigOk  == SigOk(e.tmpl, e.buf, f.vehicle_id, pubKey)
        valid  == certOk /\ sigOk /\ Recent(e.tmpl)
        done   == completed + 1 >= Expected
    IN  /\ falconCache' = IF falcon THEN (f.vehicle_id :> pubKey) @@ falconCache
                                    ELSE falconCache
        /\ guiOut' = IF Gui THEN guiOut \cup {[vehicle_id |-> f.vehicle_id,
                                               bsm |-> e.tmpl.data.tbs.message,
                                               valid |-> valid]}
                            ELSE guiOut
        /\ shown' = shown \cup
               {[vehicle_id |-> e.tmpl.vehicle_id,
                 sequence_number |-> e.tmpl.sequence_number,
                 tbs |-> e.tmpl.data.tbs,
                 sigRead |-> SigReadLength(e.tmpl, e.buf),
                 bufSize |-> Len(e.buf),
                 at |-> now,
                 certOk |-> certOk, sigOk |-> sigOk,
                 valid |-> valid]}
        /\ completed' = completed + 1
        /\ lastTime' = now
        /\ pending' = Erase(key)
        /\ rstate' = IF done THEN "exited" ELSE "receiving"
        /\ metricsRow' = IF done THEN MetricsRecord(firstTime', now) ELSE metricsRow

\* load_key (and, for a Falcon SPDU whose key is not cached,
\* load_falcon_public_key) find the files of vehicle_id; otherwise they print
\* and exit(EXIT_FAILURE).  A vehicle has all three key files or none.
KeysLoadable(vehicle_id) == vehicle_id \in KeyIds

\* One iteration of the loop for the datagram f.
HandleFragment(f) ==
    LET key == MessageKey(f.vehicle_id, f.sequence_number)
        e   == LateBind(StoreFragment(InitEntry(EntryFor(key, f), f), f), f)
    IN  IF ~Complete(e)
        THEN /\ pending' = (key :> e) @@ pending
             /\ UNCHANGED <<completed, shown, rstate, lastTime, metricsRow, falconCache, guiOut>>
        ELSE IF KeysLoadable(f.vehicle_id)
        THEN VerifyAndCount(key, e, f)
        ELSE /\ rstate' = "failed"
             /\ UNCHANGED <<pending, completed, shown, lastTime, metricsRow, falconCache, guiOut>>

\* receive_time; first_fragment_time at the first datagram of the run.
RecordFirst ==
    IF firstSeen THEN UNCHANGED <<firstSeen, firstTime>>
    ELSE firstSeen' = TRUE /\ firstTime' = now

\* recvfrom returns a datagram of the path.
Receive(f) ==
    /\ rstate = "receiving"
    /\ f \in net
    /\ net' = net \ {f}
    /\ RecordFirst
    /\ HandleFragment(f)

\* recvfrom fails: the loop closes both sockets and exits with
\* EXIT_FAILURE, before the METRIC record is written.
RecvFails ==
    /\ rstate = "receiving"
    /\ rstate' = "failed"
    /\ UNCHANGED <<net, pending, completed, shown, firstSeen, firstTime, lastTime, metricsRow,
                   falconCache, guiOut>>

\* recvfrom returns a second copy of a datagram it already returned: UDP
\* may duplicate a datagram on its way.
ReceiveDuplicate(f) ==
    /\ rstate = "receiving"
    /\ f \in net
    /\ UNCHANGED net
    /\ RecordFirst
    /\ HandleFragment(f)

=============================================================================
