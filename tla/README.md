# TLA+ models of the falcon-sim V2X simulator

These modules model `src/falcon-sim` (the `Vehicle` class and `main`). The
simulator broadcasts Basic Safety Messages wrapped in signed SPDUs. Signatures
are ECDSA P-256 or Falcon-512. A Falcon signature is split over several UDP
datagrams, and the receiver puts it back together before it verifies it.

## Inventory

### Components, their state and operations

| Component | Source | State | Operations |
|---|---|---|---|
| SPDU builder and signer | `Vehicle.cpp` 86-97, 388-409, 457-523 | none (pure) | `generate_spdu`, `sign_message_ecdsa`, `sign_message_falcon`, `prepare_signed_fragments`, `clamp_fragment_size` |
| BSM generator | `Vehicle.cpp` 411-432 | the trace (read only) | `generate_bsm` |
| Transmitter loop | `Vehicle.cpp` 99-185, `main.cpp` 111-129 | per thread: `i`, the fragment list, `resend_queue`, the socket and RNG | the fragment pass (drop or `sendto`), the resend burst, the 100 ms sleep |
| UDP path | (environment) | the datagrams in flight | deliver in any order; lose or duplicate |
| Receiver and reassembly table | `Vehicle.cpp` 187-386 | `pending_messages` (template, signature buffer, bitmap), `completed_messages`, the first and last instants | one loop iteration per datagram |
| Verifier | `Vehicle.cpp` 525-581 | none (it loads keys every call) | `verify_message`: `cert_ok && sig_ok && recent` |
| Falcon public key cache | `Vehicle.cpp` 633-662 | a static map from vehicle id to key | `load_falcon_public_key`: a hit returns the cached key, a miss reads the file and stores it |
| Metrics sink | `Vehicle.cpp` 267-273, 356-383 | `first_fragment_time`, `last_completion_time` | the first instant, the last completion, and a `METRIC` record at exit |
| CLI | `main.cpp` 16-72, 111-133 | `program_arguments` | the argument checks in order, then the transmitter or receiver branch |
| Key and trace loading, JSON and env config | `Vehicle.cpp` 583-682, `main.cpp` 74-109 | the trace vector, the keys | fatal on any error; the trace before the loops start, the verification keys inside the receiver loop |
| GUI forwarding | `Vehicle.cpp` 321-339 | none | a best-effort `sendto` of vehicle id, BSM and verdict when `tkgui` or `webgui` |

### How they interact

`main` either starts one transmitter thread per vehicle and joins them, or runs
one receiver. These are two separate processes. The transmitter threads share
nothing and each has its own socket. The two processes share only the
datagrams in flight. Each datagram is a whole `spdu_fragment`: ids, scheme,
fragment metadata, the signed data and one slice of the signature. The
receiver keys its table by `(vehicle_id, sequence_number)`.

### What is hard

- The receiver sees fragments of all vehicles interleaved and reordered. The
  resend burst alone reorders the fragments of one SPDU.
- UDP may lose or duplicate a datagram. The receiver has no timeout. It ends
  only when its completion count reaches `num_msgs * num_vehicles`.
- The injected loss moves a fragment to a resend burst that is sent once.
- The clock: the freshness window is measured from the build time to the
  receive time of the completing datagram.
- Byte arithmetic: the clamp (0 means the maximum), the ceiling division, the
  short last slice, and the ECDSA DER length against `ECDSA_size`.
- Last writer wins: every fragment overwrites the entry's template fields.

### What makes each component correct

- Signer: the slices partition the signature, and each fits a fragment.
- Receiver: for every arrival order and any duplicates, a completed entry holds
  exactly the sender's signature. The counter counts distinct SPDUs.
  Reassembly progress is never undone.
- Whole system: over a reliable path every SPDU is eventually verified and the
  receiver exits.

`PROJECT.json` lists the hazards, each at the source line where it bites.

## Modules

| Module | Models | State and actions |
|---|---|---|
| `Spdu` | the data model, the signing pipeline and the two signature checks | operators only: `TraceSample` and `GenerateBsm` (line `t` of a trace of `TraceLength` lines, or `OutOfTrace` past it), `Tbs` (BSM and header timestamp), `GenerateSpdu`, `SignerOutputs` (what `ecdsa_sign`/`falcon_sign` leave, including the zero `UnsignedBuffer` when `SignerFailures`), `SignMessageEcdsa`, `FalconFragment`, `SignMessageFalcon`, `PrepareSignedFragments`, `ClampFragmentSize`, `MessageKey`, `CertOk`, `SigOk` |
| `Transmitter` | `Vehicle::transmit`, one process per vehicle | `tpc` (program counter), `seqNo` (`i`), `todo` (fragments not yet walked), `queue` (`resend_queue`), `alive` (the process has not exited), `net`, and the clock `now`. Actions: `Prepare` (builds the SPDU at time `now`), `DropFragment`, `SendFragment`, `Resend`, `SendFails` (a failed `sendto` exits the whole process), and `TraceReadFails` (the read of `timestep[i]` past the trace faults). `DestPort` is the port every datagram goes to. `Launched` is FALSE when the process never starts its threads |
| `Receiver` | `Vehicle::receive` | `pending` (`pending_messages`), `completed`, `shown` (history of displayed verdicts and BSMs, each with its instant), `rstate` (`"failed"` after an `exit(EXIT_FAILURE)` in the loop), and the metrics state `firstSeen`/`firstTime` (`first_fragment_time`), `lastTime` (`last_completion_time`) and `metricsRow` (the `METRIC` record). `HandleFragment` is the whole loop body. When the entry is complete, it either loads the keys and calls `VerifyAndCount` (with `Recent`: `now - timestamp < 30 s`), or exits if the keys are missing (`KeysLoadable`). `VerifyAndCount` takes the Falcon key through `LoadFalconPublicKey`, which fills `falconCache` (the static map), and, when `Gui`, adds the verdict to `guiOut` (the datagrams sent to the GUI). Actions: `Receive`, `ReceiveDuplicate`, `RecvFails` (`recvfrom` < 0: `perror` and `exit`). `ListenPort` is the bound port. `Launched` is FALSE when `main` or the `Vehicle` constructor never reach `receive` |
| `Main` | `main` | operators only: `ParseArgs` (the argument checks in the order of `main`, each with its early `exit`; `argc` = 3 builds a string from the null `argv[3]` and is a "crash"; `nogui` assigns `webgui` only, because `args.tkgui, args.webgui = false` is a comma expression), `Starts` |
| `V2XSystem` | the composition, with the UDP path and the clock | `INSTANCE`s both modules over shared variables. Each process is launched from its command line (`TxArgv`, `RxArgv`) through `Main`; `--test` selects the ports and `tkgui`/`webgui` the GUI forwarding. A `Vehicle` is constructed only for an id with key files (`VehicleConstructs`). `ReceiverFails` (allowed when `RecvFailures`) is `RecvFails`. Adds `LoseDatagram`, `Tick` (the clock advances, up to `MaxTime`), `TraceFault`, and delivers only when `DestPort = ListenPort` (`Delivered`). The auxiliary `stamps` records the build time of each SPDU. Holds the properties |
| `V2XAttack` | `V2XSystem` plus an attacker on the channel (spec.md 9) | `forged`. `Inject` puts on the path one datagram built from those in flight: re-addressed to any `(vehicle_id, sequence_number)` of `AttackerIds`, or with the signed data or signature bytes of another datagram, or with `signature_buffer_length` and `fragment_length` rewritten, or with `fragment_count` rewritten (0 included). The attacker holds no key |
| `SpduDelivery` | what the simulator promises, with no fragments, sockets or threads | `sent`, `verified`, `exited`. Actions: `Emit` (in sequence order), `Verify` (once per SPDU, only after it was emitted) |
| `FragmentationCheck` | `sign_message_falcon` slicing and the receiver's store step, for one SPDU | `siglen`, `size`, `inflight`, `entry`. `Deliver` is the look-up, store and late binding of one receive iteration; a copy may stay in flight |
| `MC_V2XSystem`, `MC_V2XAttack` | constants for TLC | the scaled byte sizes, `V2X_TEST_PORT` unset, and the key files at the receiver (every vehicle of the run; `MC_V2XAttack` adds id 7, which has none) |

### Abstractions

- **Bytes.** Byte counts are scaled by 1/128. A fragment holds 4 units
  (512 bytes) and a signature at most 12 units (1536 bytes). A Falcon
  signature is 5 or 6 units (about 650-690 bytes). The default fragment size
  is 2 units (256 bytes), which gives 3 fragments, as in the real system. With
  fragment size 0 the clamp gives 4 units and 2 fragments. An ECDSA signature
  is 1 or 2 units against `ECDSA_size` = 2. This keeps the case where the DER
  length is shorter than the buffer.
- **Signatures.** Byte `j` of the signature that key `k` makes over message
  `m` is `<<k, m, j>>`, and the zero byte is `ZeroByte`. A misplaced, foreign
  or missing byte is therefore told apart from the right one. Verification
  (`Genuine`) accepts exactly the signatures the key's owner can have made:
  the crypto primitives are trusted and opaque, as spec.md says. A failed
  signing call leaves the zero-filled buffer at its initial length, because
  its return value is not checked.
- **Data.** A BSM is the pair `(vehicle, timestep)` its fields are computed
  from (`TraceSample`), or `OutOfTrace` for a read past the trace. The
  certificate is the vehicle id. Wire layout and logging are left out; a
  GUI datagram is the record of vehicle id, BSM and verdict.
- **Time.** `now` is one clock shared by both processes, in units of the
  30 s window (`RecencyWindow`), advanced by `Tick` up to `MaxTime`. The
  header timestamp is `now` when the SPDU is built. `recent` compares it
  with `now` when the last fragment is received. With `MaxTime` 1 and a
  window of 1 tick, an SPDU is either fresh or exactly one window old, which
  is the boundary the strict `<` decides. The other runs keep `MaxTime` 0
  and a window of 2, so every SPDU is fresh and the state space stays small.
  The clock is monotonic in the model. The sleeps order nothing across
  threads, so they are not steps.
- **Loss rate.** The clamped `V2X_PACKET_LOSS_RATE` matters to the code only
  as 0 (never drop), 1 (`dist(rng) < 1.0` always holds) or strictly between
  (either outcome). `DropRate` is "none", "all" or "some".
- **The path.** The path is a set of datagrams, so it can reorder. A lost
  datagram is `LoseDatagram`. A duplicate is `ReceiveDuplicate`, which
  receives a datagram and keeps it in flight.

### Fairness

- Each transmitter thread is weakly fair: it is an OS thread whose sleeps end.
- Receiving is weakly fair: the receiver blocks in `recvfrom`, and the kernel
  hands it every datagram that reaches the socket.
- Loss, duplication, a failing `sendto` or `recvfrom`, a faulting trace read,
  the clock and the attacker are never forced. An unforced clock is enough for liveness:
  nothing in the code waits for time to pass. `V2XAttack` checks only
  safety, since under attack an honest SPDU need not complete.
- Runs set `CHECK_DEADLOCK FALSE` because the program really ends: the
  threads finish and the receiver calls `exit(0)`.

## Runs

| Run | Bounds | Checks | Result |
|---|---|---|---|
| `falcon` | 2 vehicles, 1 message each, 3 fragments, loss "some" | `TypeOK`, `ReassembledSignaturesVerify`, `PendingOnlyInFlight`, `ReceivedFragmentsStick`, `EverySpduVerified`, `DeliveryRefined` | pass, 6 561 states |
| `ecdsa` | 2 vehicles, 2 messages each, loss "some", clock up to one window | `TypeOK`, `ReassembledSignaturesVerify`, `CompletedCountsDistinctSpdus`, `EverySpduVerified` | pass, 26 962 states |
| `faulty_path` | 1 vehicle, 2 Falcon messages, fragment size 0, loss rate 1, path loses and duplicates, `recvfrom` may fail | `TypeOK`, `ReassembledSignaturesVerify`, `ReceivedFragmentsStick` | pass, 5 514 states |
| `fragmentation` | signature lengths 1-8 units, requested fragment size 0-5, any arrival order, any duplicates | `FragmentsPartitionSignature`, `ReassemblyExact` | pass, 10 314 states |
| `send_failure` | as `falcon`, any `sendto` may fail, and the trace is empty, so building may fault | `SentSpdusVerified` | pass, 12 866 states |
| `attack_ecdsa` | 2 ECDSA vehicles, loss "some", 2 injected datagrams, ids 0, 1 and 7 | `TypeOK`, `AuthenticVerdicts`, `ReceivedFragmentsStick` | pass, 47 105 states |
| `overread` | 1 ECDSA vehicle, 2 messages, 2 injected datagrams with rewritten lengths | `VerifierReadsWithinBuffer` | violation (finding) |
| `unknown_vehicle` | 1 ECDSA vehicle, 2 messages, the attacker may write id 7 | `ReceiverNeverAborts` | violation (finding) |
| `dup_count` | ECDSA, 1 vehicle, 2 messages, path duplicates | `CompletedCountsDistinctSpdus` | violation (finding) |
| `full_loss_spec` | ECDSA, loss rate 1 | `FullLossDeliversNothing` (the spec's retry model) | violation (finding) |
| `sign_failure` | 1 Falcon vehicle, 1 message, `falcon_sign` may fail | `ReassembledSignaturesVerify` | violation (finding) |
| `trace_bound` | 1 ECDSA vehicle, 2 messages, a trace of 1 line | `ShownBsmsFromTrace` | violation (finding) |

Why the bounds are enough:

- Two vehicles with the same sequence number exercise the key.
- Three fragments with a short last slice exercise every offset case.
- Two messages per vehicle exercise sequence succession and re-creation of a
  completed entry.
- `DeliveryRefined` maps the system to `SpduDelivery`: an SPDU is sent once
  its thread has built its fragments, verified once `print_spdu` showed it,
  and the receiver has exited once it left the loop. It is checked only over
  a reliable path without duplicates; `dup_count` shows why duplicates break it.
- `ecdsa` runs with a clock that may pass the 30 s window, so verdicts are
  both valid and stale. Counting and exit do not depend on the verdict,
  and `EverySpduVerified` holds with either.
- `send_failure`: a failed `sendto` can hit any thread in its pass or in
  its resend burst. With an empty trace a build may also fault.
  `SentSpdusVerified` says that every SPDU a thread finished before the
  failure is still verified. The receiver itself never exits then, so this
  is the guarantee that remains.
- `attack_ecdsa`: `AuthenticVerdicts` says that a verdict whose payload
  signature passed shows a tbsData (BSM and timestamp) that the displayed
  vehicle built. It holds because `verify_message` takes the keys from the
  same `vehicle_id` that keys the entry. A mutant that takes the key from the
  certificate carried in the SPDU breaks it. Two injections let the attacker
  both re-address and splice, or rewrite the lengths of two datagrams.
- `ReceivedFragmentsStick` in `attack_ecdsa`: the attacker can rewrite
  `fragment_count` to 2, which keeps an ECDSA entry pending with index 0
  stored. It can then splice other signature bytes into a datagram for
  the same index. Honest duplicates carry the same bytes, so only here
  can the `fragments_received` check at line 290 be told apart from a
  copy that overwrites. A store without that check breaks it. The
  property leaves out entries with an empty buffer, which line 279
  re-initialises by design.
- The receiver of `falcon` is launched with `tkgui`, so it forwards every
  verdict to the GUI and fills the Falcon key cache for both vehicles. A
  cache answering with the wrong id's key would fail
  `ReassembledSignaturesVerify`.
- `DeliveryRefined` is checked in `falcon` only: each temporal property costs
  `ecdsa` about as much as its whole state space again.
- The command lines: both processes are launched with `nogui`/`tkgui` and
  `--test`. A `ParseArgs` that accepts `--test` but leaves `test` at its
  default puts the processes on different ports, and `EverySpduVerified`
  fails.
- `PendingOnlyInFlight` (in `falcon`): the table holds only SPDUs that were
  sent and not yet verified. With loss or duplicates it does not hold, and
  the table grows, as spec.md 9 says.
- `fragmentation` covers every length and size combination, including size 0
  (the clamp), sizes above the maximum, one-fragment signatures and a short
  last slice. It compares the slices against a `FlattenSeq` reference.
- Each property of a passing run has a mutant of the code that breaks it
  (see `PROJECT.json`).

### Findings

- `overread`: `verify_message` hands `ecdsa_verify` the entry's
  late-bound `signature_buffer_length`, not the size of the reassembled
  buffer. A forged datagram creates a 1-unit entry. A second one, with
  `fragment_length` 0 and a buffer length of 2, completes it. The verifier
  then reads 2 units from a 1-unit vector: a heap over-read. spec.md 9
  says only that the last writer wins for metadata.
- `unknown_vehicle`: `verify_message` loads the keys of the incoming
  `vehicle_id` inside the loop. For an id without key files, `load_key`
  calls `exit(EXIT_FAILURE)`, so one datagram ends the receiver. spec.md 7
  calls verification failures non-fatal.
- `dup_count`: a duplicated ECDSA datagram that arrives after its SPDU has
  completed is verified and counted a second time. The receiver then reaches
  its expected count and exits, and SPDU `(0, 1)` is never verified. spec.md
  4.5 says such a fragment "re-creates an entry and waits for the rest".
- `full_loss_spec`: spec.md 4.4 and 8 describe a retry that can itself be
  lost, giving delivery probability `(1 − p²)^N`. The code's resend burst
  never draws again. At loss rate 1 every SPDU still goes out in the resend
  burst (`faulty_path` runs at that rate).
- `sign_failure`: `sign_message_falcon` ignores the return value of
  `falcon_sign`. When it fails, the zero-filled 1536-byte buffer is split
  and sent, and the receiver reassembles and rejects it. spec.md 7 says a
  signing failure is fatal at the sender. The same holds for `ecdsa_sign`.
- `trace_bound`: `transmit` runs `i` up to `num_msgs` and `generate_bsm`
  reads `timestep[i]` with no bound check. With more messages than trace
  lines this is undefined behaviour. The model takes two outcomes: the
  thread faults (`TraceReadFails`), or a BSM outside the trace is signed,
  sent and shown as valid. spec.md 4.1 requires `0 <= t < ` trace length.

## Not modelled, and why

- **Production mode.** Without `--test`, datagrams go to 52001 and the
  receiver listens on 4444 (`Delivered` is false), so nothing is ever
  verified. `ParseArgs` and the ports model it, and the `ParseArgs` mutant
  reaches it, but spec.md 9 already names this mismatch, and no run of its
  own re-checks it.
- **Replay.** The header ids are not signed, so a re-addressed datagram is
  shown under another `(vehicle_id, sequence_number)`. spec.md lists replay
  defence beyond freshness as a non-goal, so no run checks it.
- **Clock steps.** `system_clock` is not monotonic: a step backwards makes
  `total_us` negative and a stale SPDU fresh. The model's clock only moves
  forward. The code defines freshness and the run's duration by the wall
  clock (spec.md 4.6 and 2), so a step breaks no property it states. Showing
  it would need a real-time clock beside the wall clock, and a run of its
  own.
- **Bad command lines.** `ParseArgs` models every early exit, the `argc` = 3
  crash and the comma expression of `nogui`, but the runs launch both
  processes with well-formed command lines only.
- **Socket setup.** A failing `socket`, `setsockopt` or `bind`
  (`Vehicle.cpp` 103-112, 191-213) exits the process before its loop, as a
  failed `sendto` before the first send does. Neither is an action.
- **`PendingMessage::first_fragment_time`** is stored and never read.
- **JSON and environment configuration** (`main.cpp` 74-109: the scheme
  lowercased, `fragment_size` through `strtoul`), **the trace and key file
  readers, the GUI socket setup and hex decoding** are file I/O and parsing,
  out of spec.md 1's scope. What they leave behind is the model's constants
  (`TraceLength`, `KeyIds`, the scheme, sizes and counts). A failure there is
  a fatal exit before the loops start (`Launched` FALSE), except for
  `load_key` in the verifier, which is modelled.
- **Forged fragment offsets.** The offset is `index * fragment_size` of the
  template, so the attacker reaches it through `fragment_count`, the index
  and the lengths; it forges no separate offset.
- **Allocation failure.** A forged `signature_buffer_length` of up to 4 GiB
  sizes the buffer. `std::bad_alloc` is outside the scaled byte model.
- **Floating-point speed and heading** are data, abstracted to the
  `(vehicle, timestep)` pair.
