# TLA+ models of sds200-python

Models, model-checking runs and machine-checked proofs for the parts of the `sds200` package
(`src/src/sds200/`) whose correctness depends on the order of steps: threads that meet under locks,
bounded queues that drop, transports that die and are replaced, and a write to removable media that
may be cut short anywhere. `PROJECT.json` is the machine-readable index (components, runs, the source
lines behind every definition, hazards, findings, theorems).

Run a model with `tlc -config MCDaemonEvents.cfg MCDaemonEvents`, check a proof with
`tlapm DaemonEvents_proof.tla`; the other modules with proofs are `PcmuService_proof`,
`MqttWorker_proof`, `DestinationRouting_proof`, `FallbackTransport_proof`, `MCWrites_proof`,
`MCServices_proof` and `MCWorkers_proof`.

## 1. The system

`sdsctl` controls a Uniden scanner. A *control transport* (serial port or UDP) carries commands and
answers; `SDSScanner` matches answers to commands and keeps the state the scanner pushes (PSI); a
*daemon* owns one scanner and one audio receiver for a long time and serves many local clients:
events, PCMU packets, recordings, MQTT. Separately, *favorites* tools edit the scanner's files and
write them to its USB card.

| component | state it keeps | operations | meets |
|---|---|---|---|
| serial / UDP transport | open port, reader thread, `_stop` | start, stop, write, read loop, reconnect | reader thread calls line and connection callbacks |
| `FallbackTransport` | candidates, active transport, attempts, recovery due time | start, stop, write, failover, probe, promote | manager thread, reader threads, command callers |
| `SDSScanner` | pending responses, PSI lease and active flag, state | request, start/stop PSI, renewal, connection changed | transport callbacks, renewal thread, callers |
| daemon runtime, process | lifecycle state, components started so far | start, poll, reconnect, recover PSI, ordered stop | everything below |
| `DaemonEventPublisher`, `DaemonEventStream` | sequence, subscriptions, their queues | publish, subscribe (with snapshot), get, close | callbacks of runtime, scanner, audio, recording |
| `PcmuPublisher` | sequence, subscriptions, queues, counters | publish, subscribe, get, close | audio receiver thread, client threads |
| analysis / waterfall publishers | as PCMU without bytes | as PCMU | as PCMU |
| PCM router, destinations | sink records, in-flight submissions, desired configuration | submit, attach, detach, replace with rollback | audio thread, configuration reload |
| recording | current file, inventory, retention plan | start, write, rotate, finalise, expire | router |
| MQTT worker | event subscription, command cache | connect, publish, command, resynchronise | event publisher, broker |
| daemon servers and clients | one thread per connection | admit, serve, shut down | publishers |
| network and remote audio | RTSP session, RTP sequence, encoder process | receive, reconnect, encode | router |
| USB favorites write | card, host lock, backup, rollback manifest, report | preflight, execute, recover | file systems |
| copied-tree favorites write | same on a local directory | same | file systems |
| external favorites sources | provenance file, lifecycle snapshot | refresh, plan, execute, publish provenance | card writers, the provider |
| favorites model, editing | immutable values | pure transformations | – |
| RadioReference, Home Assistant app, CLI, TUI | little | requests, rendering | daemon API |

### What is hard, and what makes each part correct

* **Event stream.** Sources change first and their callbacks run later; a subscriber's snapshot is read
  source by source while they change; a slow consumer's queue overflows. Correct: every loss is
  counted, the snapshot is never dropped before it is taken, the newest event survives, and a consumer
  that caught up without a visible loss believes what is true.
* **PCMU fan-out.** Drop-oldest updates counters, byte gauges and two high-water marks per
  subscription. Correct: they add up, a delivery's drop count is the exact gap before it, "healthy"
  means gapless.
* **Fallback transport.** The manager, each reader thread, command callers and `stop` interleave at
  four locks. Correct: nothing leaks, no loss stays unnoticed, a promotion never strands a command,
  probing does not disturb what works, nobody waits for ever.
* **Favorites writes.** Any call may fail and the process may die anywhere; the copied tree may be edited
  by others meanwhile. Correct: nothing changes before a verified backup exists and a durable record
  announces it, a readable catalog names only files that exist, the tree that was found is never lost,
  a finished operation is what its phase says and stays so, and the caller is not misled.
* **Scanner session, runtime.** Late answers, stale PSI frames, joins under locks, a reader that
  outlives its join timeout. Correct: an answer satisfies the request that caused it, a lost push is
  restarted, start and stop orders cannot deadlock.
* **Router and destinations.** A submission captures its records and runs without the lock while sinks
  are replaced. Correct: no sink is stopped under a submission, and a failed replacement restores what
  ran before.
* **Recordings.** A WAV that is closed, a sidecar that is linked and a status that is set are three
  steps, any of which may fail; a retention plan is confirmed, and executed, on files that other hands
  may have changed. Correct: what is called completed is whole, and nothing is deleted that was not
  shown and confirmed as it is.
* **Which card, which tree.** A card is identified, and its content read, by many looks one after the
  other while cards are exchanged and files edited. Correct: looks at different cards or trees never add
  up to one that was not there.
* **Servers and clients.** Four servers admit, serve and stop clients, each connection with a thread of
  its own, while daemons die and are replaced. Correct: a stop gives everything back, a caller gets the
  answer to its own request, events and files are whole or known not to be, one daemon is at the path.
* **External synchronisation.** Card and provenance are two resources written one after the other, from plans
  that age. Correct: no update is lost, what the user owns stays so, and if card and provenance part
  somebody has been told.
* **Network audio.** Packets wrap, come twice and out of order; two threads and the owner share one RTSP
  socket; a start fails half way. What a write of the recorder raises is swallowed on the way. Correct: it is
  known what became of every packet, none is delivered backwards, and a stream that is over holds nothing.
* **Remote audio.** A queue that drops, a connection whose pump and encoder die on their own, stops that
  time out. Correct: bytes add up, a reported state is true, the newest title is shown in the end, and
  every stop ends the worker.
* **MQTT.** Redelivered commands and lost events. Correct: a command runs once while it is cached, and
  retained state is current after a resynchronisation.

`PROJECT.json` lists the hazards at the lines where they bite, with the properties that cover them.

## 2. Modules

| module | models | checked by |
|---|---|---|
| `LossyFeed` | abstract: what every bounded publisher promises | refined by the next two |
| `DaemonEvents` | `daemon_events.py`, `daemon_event_stream.py` | `events` |
| `PcmuSubscriptions` | `pcmu_subscriptions.py` | `pcmu`, through the next |
| `PcmuService` | the above behind `daemon_pcmu_server.py`, `daemon_pcmu_client.py`, `daemon_pcmu_audio.py` | `pcmu` |
| `FallbackTransport` | `fallback.py`, with `radio.py` and `transport.py` as it meets them | `fallback`, `fallback_loss` |
| `ScannerSession` | PSI push of `radio.py`, `daemon_runtime.py`, readers of `transport.py`, `network.py` | `session`, `session_psi` |
| `DestinationRouting` | `PcmSinkRouter` of `audio_sinks.py`, `daemon_destination_activation.py`, `daemon_recording.py` | `routing` |
| `RemoteSink`, `MetadataPublisher`, `RemoteDestination` | `remote_audio.py`, `broadcastify.py`, `remote_audio_encoder.py`, `remote_audio_metadata_publisher.py` | `remote` |
| `NetworkAudio` | `audio_session.py`, `network_audio.py`, `rtsp.py`, `rtp.py` | `remote` |
| `MqttWorker` | `daemon_mqtt_worker.py`, `daemon_mqtt_paho.py` | `mqtt`, `mqtt_offline` |
| `FavoritesWriteContract` | abstract: what a favorites write promises | refined by the next |
| `UsbWrite`, `CopiedTreeWrite`, `FavoritesWrite` | `favorites_write_usb.py`, `favorites_write_execution.py` | `writes` |
| `UsbManagedFile` | one document of `UsbWrite`, call by call | `writes` |
| `HostRecords` | the records of `UsbWrite` on the host, call by call, with power failures | `writes` |
| `UsbTarget` | which card: `favorites_storage_usb.py` and the checks of `favorites_write_usb.py` | `writes` |
| `TreeReading` | which tree: `favorites_storage_local.py`, `favorites_storage_evidence.py` | `writes` |
| `HostStaging` | backup and staged tree of both writers, look by look | `writes` |
| `ExternalRecords`, `FavoritesSync` | `favorites_external*.py`: preview and plans; lifecycles, execution and publication | `writes` |
| `SocketServer` | what `daemon_server.py`, `daemon_event_server.py` and `daemon_recording_file_server.py` share | `services`, through the next |
| `ApiService` | `daemon_server.py`, `daemon_api.py`, `daemon_client.py` | `services` |
| `EventService` | `daemon_event_server.py`, `daemon_event_client.py` | `services` |
| `RecordingFiles` | `daemon_recording_file_*.py`, `open_recording` of `daemon_recording.py` | `services` |
| `SocketPath` | the socket file of `daemon_ipc.py` | `services` |
| `RecordingManager`, `RecordingRetention` | `daemon_recording.py`, the WAV sink, `recording_retention.py`, `recording_retention_execution.py`, `recording_inventory.py` | `writes` |
| eight modules `..._proof` | theorems about the module they are named after | TLAPS |

An `MC...` module extends the module it runs; its `.cfg` gives the constants (`PcmuService` needs none and
is run as it is). `MCWrites`, `MCWorkers` and `MCServices` hold several subjects that share nothing: the variable `subject` (or `service`) says which one a behaviour is about, and
the others do not move, so that the state space is the sum and not the product. Each module has
one action per step that another thread, a failure or a crash can separate from the next. A section of
code under a lock that touches nothing slow is one step. Definitions whose comment starts with "Mutant:"
are variants of a definition that follows: a plausible bug each. Nothing uses them; they document that
the properties would notice.

### LossyFeed

Publications carry one sequence; a subscriber joins at the current position, then receives later
publications, each at most once and in order, and may skip some. Leaving is final. `DaemonEvents` and
`PcmuSubscriptions` instantiate it as `Feed` and show `FeedSpec`. Their own counters say how much was
skipped; the feed says nothing else can happen.

### DaemonEvents

State: a version number per source (what the scanner, audio, ... would report now), whether its
callback has been run, the publisher's sequence, subscriptions and lock holder, and for each
subscription its queue, drop counter, and what its consumer has taken and believes.

| code | model |
|---|---|
| a callback owner changes, then calls its callback | `SourceChange`, then `PublishBegin` |
| `_require_event_size` raises before the sequence moves | `PublishOversized`, `SubscribeOversized` |
| `publish` visits the subscriptions | `Enqueue(s)`, one step each, lock held |
| `_enqueue` drops the oldest event, but not a snapshot at the head | `MakeRoom`, `DropCount` |
| `subscribe`: sequence, then `_snapshot` reads the sources | `SubscribeBegin`, `SubscribeRead`, `SubscribeEnd` |
| `get`, `close`, publisher `close` | `Get`, `CloseSubscription`, `CloseBegin`, `CloseOne` |

JSON freezing and sizes are abstracted: any event may be oversized.

### PcmuSubscriptions and PcmuService

State of the publisher: sequence and published bytes, subscriptions, lock holder and packet being
offered; per subscription the queue, the counters, byte gauges and marks, the point it joined at and its
last delivery. `Publish` and `CloseBegin` take the lock; `EnqueueWithRoom`, `EnqueueDropping` and
`CloseOne` visit a subscription; `Subscribe`, `Get` and `CloseSubscription` are the callers' calls.
`Health` is the word `_snapshot_locked` computes. A packet is its sequence number and its size.

`PcmuService` puts the server and its client around it. The server has its accept thread, the connection
it is admitting, `_clients` with its limit and one worker thread per connection; a worker subscribes,
gets, sends and leaves, and `stop` shuts the sockets, joins the accept thread and then the workers. The
client end is `DaemonPcmuAudioTransport`: its receive thread connects, reads, checks each frame against
the ones before (`Contradicts`, `Recorded`: the code's arithmetic of sequence and drop counters), closes
after an error and connects again until it is stopped. A frame arrives whole or torn; either end and the
wire may break. A connection carries the number of the subscription its worker takes.

Two things the model shows that no property names: a worker that waits for a packet keeps its slot until
it sends to the connection that went away, so an idle stream can leave the server full; and the
receive thread may connect again between the stop flag being set and being read, a connection that its
own way out closes.

### FallbackTransport

State: for every transport object (*instance*) its candidate and whether it is connected; `_active`,
`_switch_requested`, `_stop`, `_reported_connected`, the two long locks, the reconnect counter, whether a
recovery probe is due; a program counter for the manager, a writer in `_wait_for_response`, the caller
of `stop`, and the callback each reader thread is in. The candidates' own transports are reduced to
starting (or failing to), being connected, dying in their reader thread, raising on a write to a
closed port, and stopping. Time is abstracted: a backoff or a probe's answer may come at any moment or
not at all. One writer stands for the commands, because `_command_lock` serialises them.

`Next` falls into `ManagerStep` (failover, activation, probe, promotion), `Callback(t)` (the reader's
connection callback and the switch request of reader or writer), `WriterStep` and `StopStep`.

Observations from the model that no property names: after a superfluous switch and an exhausted
reconnect policy `_reported_connected` may stay true with no active transport; a stale callback can
leave it false while a transport works; `stop()` in the middle of an activation's `transport.start` can
leave that transport open, which is why `TransportsOwned` speaks of a manager that went back to waiting
and of no stop under way.

### ScannerSession

State: the push (`_psi_active`, the interval, who captures first frames), `_command_lock`, the pending
response and its queue of one; the transport's port, `_stop` event, current reader and every reader
thread that still runs; the renewal thread; the runtime's two locks, its main thread, one thread that
runs controls; what is on its way from the scanner (`air`) and whether it streams.

| code | model |
|---|---|
| `DaemonRuntime.start`, `poll`, `stop` | `Start`, `PollInactive`, `PollStale`, `RetryDue`, `Recheck`, `Stop`, `Stopped` |
| `_execute_control` under both locks | `ControlBegin`, `ControlEnter`, `Permitted`, `Returns` |
| `start_scanner_info_push`: command, answer, first frame, renewal | `PushBegin`, `PushAnswer`, `PushFirst`, `PushRenew`, `PushFail` |
| `_psi_renewal_loop`, `_renew_psi_if_idle` | `RenewBegin`, `RenewAnswer`, `RenewFirst`, `RenewEnds` |
| `reconnect`, `close`, `stop_scanner_info_push` | `ReconnectBegin`, `ReconnectOpen`, `StopBegin`, `StopEnd`, `ClosePush`, `Close` |
| `_receive_line`, `_publish`, `_connection_changed` | `Mark`, `Publish`, `Told`, `Resend` |
| the transports' `start`, `stop`, `write_command`, reader loops | `StartReader`, `Halt`, `Joins`, `Sent`, `SendBreaks`, `Read`, `Notice`, `Reopen`, `ReadBreaks` |

Threads with the same shape (the push is started by main thread, control thread and reader) share the
actions; a record says where the thread is and which call it is in. A deadline passes when nothing that
would beat it is on its way (`NothingComes`), or early, as a fault. The scanner may lose or reject a
command, forget its push, and fall silent; the link may break. `Readers` bounds the number of reader
threads ever started, so that the join that times out, after which an old reader meets a new `_stop`
event, happens.

### DestinationRouting

State: the router (running, a record per sink, the submission under way with its captured records),
what each sink does, the attach or detach call under the runtime's lifecycle lock (`op`), the
coordinator's resources and publishers, the main thread's step in a replacement or the shutdown, and
the recording manager.

| code | model |
|---|---|
| `submit_pcm`: capture under the lock, then call each sink | `SubmitBegin`, `SubmitTo(s)`, `SubmitDone` |
| `attach`, `_start_subscriber` | `Attach`, `StartSucceeds`, `StartFails`, `StartCleanup` |
| `detach`: out of the map, the submit lock as a barrier, `stop` | `Detach`, `PassBarrier`, `StopSubscriber` |
| `replace`: preview, stage, commit, publish, cleanup, rollback | `Replace`, `StageNext`, `Commit`, `Publish`, `RollbackBefore`, `StopReplaced` |
| the runtime's calls | `CallRuntime`, `RuntimeReturns` |
| recording start, stop and close | `StartRecording`, `StopRecording`, `RecorderCalls`, `RecorderReturns`, `StopWavSink`, `CloseManager` |
| shutdown in the order of `DaemonProcess` | `CloseManager`, `CloseCoordinator`, `RuntimeStop` |

What a remote sink's `stop` may come to (`StopOutcomes`) is what `RemoteSink` shows it can: it stops, it
raises with the worker still running, and a second call after a first that timed out returns silently.
An observation no property names: a removed destination whose sink does not stop is not in
`cleanup_failures`, because `PcmSinkRouter.detach` keeps the failure to itself
(`docs/daemon-deployment.md:340` says cleanup problems are reported).

### RemoteSink, MetadataPublisher, RemoteDestination

`RemoteSink` has the sink's queue and counters, the lifecycle state it reports, its flags, its worker,
the connection it opened (a record with pump and encoder), the caller of `stop` and the connection it
captured. `Submit` accepts, drops the oldest chunks or refuses; the worker resolves, opens, adopts,
takes a chunk, writes, settles, backs off and leaves; `StopBegin`, `StopInterrupt`, `StopReturns` are
`stop`, which interrupts the connection it captured under the lock; `ListenerStops` is a stop from the
worker's own state callback. The pump blocks or fails with the network (`NetworkStalls`, `PumpEnds`), the
encoder exits when it likes and is certain to exit once terminated.

`MetadataPublisher` keeps the newest title only, with the generation that tells a retry it has been
superseded. A request that failed may have been carried out: `shown` is what the server shows.

`RemoteDestination` runs one or the other: they share nothing but their configuration, so the
interleavings of both add nothing.

Observations no property names: a second `stop()` of a sink whose first one timed out returns at once, and
"stopped" is never reported; the worker may overwrite the reported "stopping" with "connecting" or
"backoff"; a title that was given up after its response was lost stays on the server, while the title
published before it is suppressed as a duplicate when it is submitted again (`gaveUp` excludes exactly
this from `NewestShown`); a write to the encoder may block for ever when the pump died without closing it.

### MqttWorker

State: a version per kind of daemon state and what has been announced of it, the worker's event
subscription, its step, the publications under way, `expected_sequence`, the Home Assistant control
context, availability, backoff, the response cache, the command in hand, the Paho connection, the inbox,
what the broker retains, half-open sessions whose will is still to come, and the thread in `stop`.

| code | model |
|---|---|
| `_run`: connect, availability, consume, finally, backoff | `Begin`, `Connect`, `PublishOnline`, `Finally`, `Withdraw`, `Close`, `Raise`, `Backoff` |
| `_consume_connected`: get, gap, resubscription | `Check`, `Get`, `InSequence`, `Resynchronize`, `Subscribe`, `PublishState`, `OpenInputs` |
| `_handle_command`, `_remember_command_response` | `Handle`, `CachedReply`, `Answer`, `Acknowledge`, `Cached`, `Kept` |
| `stop` | `Stop`, `Interrupt`, `Joined` |
| `PahoMqttBrokerConnection` | `Connect`, `Call`, `TimesOut`, `Usable`, `ClosedConnection`, `LoseLink`, `Send` |
| the broker | `retained`, `availability`, `WillFires` |

A publication that times out may have reached the broker. `since` and `executions` are history: they say
how often a request was dispatched and how many others were used since.

### FavoritesWriteContract, UsbWrite, CopiedTreeWrite, FavoritesWrite

The contract has four steps: back up, announce, change the active data, complete. `docs/project-vision.md`
("Mandatory backup-before-write rule") is where the project states it; the two executors are what must
keep it.

State of `UsbWrite`: the plan (baseline and intended content per managed file), the card (content per
file and the operation's temporary file), the host (lock, operation directory, backup), `rollback.json`
and a leftover of its writer, the report, and the workflow: its step, its copy of the manifest, the
files left in the stage, the failed attempts at the current manifest.

| code | model |
|---|---|
| `preflight`, `_usb_host_operation_lock` | `Begin`, `Release` |
| `_create_verified_usb_host_backup`, `..._staging` | `MakeWorkspace`, `CopyBackup`, `CreateStaging` |
| `_write_usb_rollback_manifest` and its reconciliation | `Published`, `NotPublished`, used by each publisher |
| PREPARED, readiness, start of activation | `Prepare`, `Preactivation`, `BeginActivation` |
| `_begin_activation_mutation` with its hook | `BeginMutation` |
| `_restore_usb_active_managed_file` (activation and recovery) | `WriteSkip`, `WriteOpen`, `WriteFinish`, `WriteBreaks` |
| `_delete_usb_active_managed_hpd`, `_remove_usb_recovery_intended_only_hpd` | `RemoveSkip`, `Displace`, `Unlink`, `UnlinkBreaks` |
| the verifications around each primitive | `StepRefused` |
| order of the stages, postactivation and final readback | `StageDone`, `Readback`, `BeginRecovery`, `Cleanup`, `Verify` |
| `_publish_usb_rollback_transition` | `PublishTransition`, `PublishRetry`, `PublishRaises` |
| terminal report | `PublishReport` |
| an exception nobody handles; death of the process | `Unwind`, `Crash` |

A file is rewritten in place through its descriptor: between `ftruncate` and the last `write` its content
is *torn*. Recovery overwrites only an operation-known content, so a torn file makes it stop at
RECOVERY_INCOMPLETE with the backup retained; the properties say exactly that much and no more. A
crash leaves lock and operation directory behind, and both refuse a second attempt. Hashing and
reading whole trees are verifications that may fail. Loss of power and other writers on the card are
left to `HostRecords` and `UsbManagedFile`. Not modelled: a second operation after a remount (operation
id and lock name include mount id and mount point, so that one card mounted twice has two locks).

State of `CopiedTreeWrite`: the three directories (target, staging, displaced), the backup, the manifest,
the two reports, the lock, the step, the verdict and what the caller was told. Somebody may edit the target
at any moment (`Edit`); the code's checks compare it with the tree of the plan. `Displace` and `Activate`
are the two renames, `MoveAside`, `RestoreDisplaced` and `Recheck` the way back. Not modelled: an
interrupt between the first rename and the assignment of `mutation_started` in the next line
(`favorites_write_execution.py:1185`). An observation: when the directory sync of the completed report
raises, the tree is taken back while `report.json` goes on saying completed (the failure report says
what happened).

`FavoritesWrite` extends the one and instantiates the other; a behaviour writes with one of them, and
`Contract` maps the state of that one.

### UsbManagedFile, HostRecords, UsbTarget, TreeReading

These take apart what `UsbWrite` treats as one step or as a verification that may fail.

`UsbManagedFile` is one document from activation to recovery. A primitive of the code (rewrite, create,
delete, put back, bind and clean up the recovery artifact) is a *program*, a sequence of calls, and
`Code` tells which runs; each call carries what an error raised in its place says of the card. An
action is a call: `Stat`, `Open`, `Read`, `Truncate`, `Rewrite`, `Displace`, `Unlink` and so on, or
`CallFails`. Hands outside the program edit, place, remove and exchange cards (`Hand`); `fresh` remembers
the names they changed since the primitive last looked. Which program follows which is in `Following`.

`HostRecords` writes each record into a temporary file that is synchronised, read back and renamed, after
which the directory is synchronised; a writer that raises is reconciled by looking at what is there.
`disk` is what each name may show after a power failure: the files it led to since the last
synchronisation of the directory, a file whose content was not synchronised possibly torn.

`UsbTarget` has mount table, sysfs and two cards that people pull, exchange, mount and unmount, and the
sequences of looks by which discovery, preflight and the checks before activation and recovery take a
card for the right one. `held` is history: all that was found was so at one instant. `TreeReading` walks a
tree twice over while others edit it, with file times too coarse to tell two edits apart; `past` holds
every content the tree ever had. Two edits never make it accept a mixture (`OneTree`), three may: a file is
taken away, put back and taken away again, each time between two walks, and the evidence is that of
another tree than the snapshot.

`HostStaging` has the calls that make the backup and the staged tree and look at them again before the
activation, as a list that is worked off (`calls`): copies and writes file by file, every digest or snapshot
one step, and others changing any file of the three trees in between. The two writers have different
lists: a card's staged tree is copied from the backup, a copied tree's from the target.

### ExternalRecords and FavoritesSync

`ExternalRecords` is what the external modules compute: bindings, the change an observation would make to
each field, and the plans a user can select (accept a field or a name, detach a field or a record, import,
delete). `FavoritesSync` has the card, the provenance file, and for each lifecycle what it retains, its plan
and where it is.

| code | model |
|---|---|
| `start`, `close` and a new lifecycle | `StartRead`, `StartLoad`, `Reopen` |
| refresh and a `plan_...` function | `Select` |
| `_execute_..._durably_from_snapshot`, preflight of `execute_..._durably` | `Admit`, `Load` |
| the caller's executor, the card read again | `Execute`, `Reread` |
| `save_favorites_external_provenance_if_current` | `Compare`, `Recheck`, `Replace`, `Confirm` |
| `advance_after_...` | `Advance`, part of `Confirm` |

The executor is a favorites write, of which it is only said that it writes what was planned over what the plan
started from, or raises, having written or not. Any call may fail, the process may die in any step,
somebody may edit the card or remove the file. A record has two fields with two values. Three history
variables keep the books: `since`, what changed behind a lifecycle since it looked; `known`, whether somebody
was told that card and file may not fit; `crossed`, whether a publication met a card that others had written
and a file that they had brought back (section 6).

### SocketServer, ApiService, EventService, RecordingFiles, SocketPath

`SocketServer` is the accept thread, the admission up to `max_clients`, a worker per connection and a stop that
shuts the sockets and joins; the three servers extend it with what their workers do. `ApiService`: several threads
share one client connection under a lock, ask once which operations are offered, and meet a daemon that was
replaced. `EventService`: a subscription that drops, lines on the wire, the client's order check, and a client
that another thread closes and connects again while `receive` runs. `RecordingFiles`: one recording that is made,
completed and deleted while workers look it up, open it and send it. `SocketPath`: two daemons that look, probe,
unlink, bind, listen, stop and die at one path.

The event and the recording-file server take a client out of `_clients` just before they close its socket
(`daemon_event_server.py:376-378`, `daemon_recording_file_server.py:419-421`), `daemon_server.py` closes first.
`SocketServer` does both in one step. What the model leaves out is the moment between the two, in which the socket
is its worker's alone: one socket more than `max_clients` may be open, `Owned` holds up to that moment, and a stop
that reads `_clients` in it neither closes nor joins that worker, which closes the socket itself as its last step.

### RecordingManager, RecordingRetention

`RecordingManager`: the lifecycle lock with the start or stop under it, the sink's worker with its queue, the
two files of every recording, and which calls failed. `StartBegin` to `Publish` is `start_recording`,
`StopBegin` to `Settle` is `stop_recording` and `close`. `RecordingRetention`: preview, confirmation and execution
are three processes, each with an inventory of its own; an execution validates a unit, looks again at each
file and unlinks it, and other hands may change a file between any two of these steps.

Observations no property names: `RecordingIdentity` is built outside the `try` of `start_recording`, so that
a failure there leaves the status at `starting` and no start is accepted until somebody stops what never
started; a stop whose sidecar was
linked and whose temporary file could not be unlinked can never succeed, because the link exists; a retry
after a stop that failed in `close` of the WAV can report a file with an unpatched header as completed
(`CompletedTrue` excludes recordings a stop of which failed, `doubted`).

### NetworkAudio

The owner's `start` and `stop` with their undo, the RTP reader with sequence and timestamp tracker, the
keepalive thread, `_rtsp_lock`, answers nobody read, and the scanner's session. Sequence numbers and
timestamps wrap; packets come late, twice, from elsewhere or not at all.

| code | model |
|---|---|
| the session's `start` and `stop` | `StartBegin`, `Undo`; `StopBegin`, `Unsubscribe`, `Finish` |
| `NetworkAudioTransport.start` and `stop` | `OpenSocket` to `Publish`; `StopStream` to `Reset` |
| `_receiver_loop`: the datagram, then the handler | `Receive`, `ReceiveForeign`; `ReaderCalls` |
| `AudioStream._receive_chunk`, `EventBus.emit` | `ReaderEmits` |
| `PcmuWavRecorder.write_pcm` | `ReaderWrites` |

Between the reader and the recorder is the stream's bus, and each of the three looks is a step of its own: a
reader that outlived its join may find no handler, nobody subscribed, or a recorder that is closed. A
write of an open recorder may fail (`failed`), one of a closed recorder always does (`refused`). The bus
swallows both errors, so that neither is in `callback_errors`, and the recorder counts only what it wrote:
`failed`, `refused` and `unheard` of `tally` stand for no counter of the code but say what became of the
packets that its counters do not explain. `PacketsAccounted` says that there are no others, and that packets
are refused or unheard only after a join was given up; a failed write needs nothing but the disk.

The modulus is 8, seven packets are on their way within one turn of it, and `Reach` goes to both sides of
the half range: the farthest packet ahead has three missing before it (`Half` - 1, taken as the next), the
oldest one is at distance `Half` (late). A comparison off by one in either direction breaks `DeliveredForward`.

An observation: a start that fails after SETUP or PLAY closes the socket without a TEARDOWN, so that the
scanner's session outlives it.

## 3. Runs

| run | question | instance | distinct states |
|---|---|---|---|
| `events` | are losses counted, is a caught-up consumer current, does a slow consumer get past every publication, is the feed implemented? | 2 sources, 3 changes, 2 subscriptions, queue of 2 | ~524 000 |
| `pcmu` | do counters and health tell the truth, does the client explain every packet, does a stop give everything back? | 2 connections of 1 client, queue of 2, 4 packets of 1 or 3 bytes (limit 2), a wire of 1 frame, 1 fault | ~1 170 000 |
| `fallback` | leaks, stranded commands, calls that return, dead transports replaced | 2 candidates, 2 instances, 1 reconnect sweep, recovery and PSI on | ~159 000 |
| `session` | every call returns, the push comes back, threads end | serial and UDP, 3 readers, 1 control call, 2 faults | ~316 000 |
| `routing` | what is committed is served, nothing leaks, records are true, no stop under a submission | 2 names, 3 builds, 1 recording, 2 faults | ~8 900 000 |
| `remote` | bytes and packets add up, states are true, the newest title is shown, workers end | destination: queue of 3 bytes, 4 chunks of 1, 2 or 5 bytes, 2 attempts, 3 titles, 5 submissions; network: 3 packets of 7, modulus 8, 1 fault | ~338 000 |
| `mqtt` | mirror in order, commands once while cached, convergence | 2 requests with 2 bodies, cache, inbox of 1, queue of 2, 2 changes, 3 sends, 1 fault | ~2 540 000 |
| `writes` | contract, catalog, trees, final phases; documents, records, staging, recordings, target and tree call by call; synchronisation with a provider | every plan over a catalog and 2 documents, or a tree; 2 acts of other hands, 2 changes of cards, 2 edits, 2 strangers; 2 recordings; 2 lifecycles, 2 plans, 2 records, 2 identities, 1 upset | ~1 050 000 |
| `services` | are servers and clients sound, does all end that was begun? | 2 connections, limit 1, 1 fault; 2 callers with 2 calls; 2 events, queue of 2; 2 chunks; 2 daemons with 3 sockets | ~488 000 |
| `fallback_loss`, `mqtt_offline`, `session_psi` | violations, see section 6 | as above; 3 instances for the first | – |

Each takes between 10 seconds and two and a half minutes on two cores.

Bounds. A queue of two is the smallest with a protected head and something to drop behind it; four
publications overflow it twice. Two sources are needed for a snapshot that mixes old and new. Two
instances are an active transport and the one that replaces or probes; the violation needs a third, whose
predecessor's thread still runs. Three readers let an old reader, its successor and a recovery's meet. Two
destination names with three builds let one be replaced while the other fails and is rolled back; two
faults let the rollback itself fail. A cache of one is overtaken by a second request. A chunk may fill
the remote queue, fit beside another, or be larger than the queue. Three packets of a scanner are a first one, one that is three ahead or behind, and
one more; the half range of 8 lies between the two. Two documents let a plan rewrite,
add or remove any two; `writes` quantifies over all plans (and the theorems over any number of documents).
Two hands exchange a document and put it back; two changes pull a card and plug another. Two edits are
also the limit of what `OneTree` can say: a third lets a file be changed and changed back between the
looks, which nothing could notice. `AcceptedTogether` claims one instant for at most one change for the
same reason. Two strangers change a file and change it back; two lifecycles with a plan each contend for one
provenance file, and one upset (a death, an edit, a failing call) falls into any of their steps. A limit of
one client lets a second be turned away, and one more connection than that be admitted too many; three
sockets let a daemon die and another take its place while a third step is on its way. `MaxChanges`,
`MaxSequence`, `MaxChunks`, `MaxPackets`, `MaxTitles`, `MaxSends`, `MaxCalls`, `MaxBuilds`, `MaxHands`, `MaxEdits`,
`MaxStrangers`, `MaxRecords`, `MaxSelected`, `MaxUpsets`, `MaxEvents`, `MaxBinds`
and `MaxFaults` cap what the
environment may do, `MaxAttempts` and the capacities are the code's own parameters. Deadlock checking is
off: each system really may stop (all closed, stopped, or locked out by a leftover of a crash). No run
uses symmetry.

Fairness, stated in each module's specification and nowhere else:

* `DaemonEvents`: the thread that holds the publisher lock goes on, the callback of a changed source
  runs, and consumers loop over `get` (weak; each is a thread with nothing to wait for).
* `PcmuService`: the server's stop, accept and worker threads, the visits of a publish and the receive
  thread go on (weak). Nothing is assumed of the publisher, the network or the caller of stop.
* `FallbackTransport`: strong for manager, writer and `stop`, which wait for a `threading.Lock` that
  others take and release repeatedly; Python's lock gives no guarantee on paper, but the holders wait for
  events between two acquisitions, so a waiter is not starved. Weak for callbacks. Transports may refuse
  every start.
* `ScannerSession`: main thread, control, renewal thread and readers go on; a scanner that streams sends
  frames; `Silence`, the clock behind the stale check, advances (all weak).
* `RemoteSink`: the worker goes on, except that a write into a blocked encoder is certain to return only
  while the pump sends; the caller of stop goes on; an encoder that was terminated exits (after the
  kill that follows). `MetadataPublisher`: its worker goes on; a request ends by its socket timeout.
* `NetworkAudio`: owner, reader and keepalive thread go on (weak); each wait of theirs has a timeout.
* `MqttWorker`: the worker goes on (every wait of it has a timeout) and changed state is announced.
* `ApiService`, `EventService`, `RecordingFiles`: some thread of the daemon, and some thread of the client, goes on
  if one can (weak; all their waits have timeouts but the event client's `recv`). `SocketPath` assumes none.
* The subjects of `writes` and `DestinationRouting` assume none.

No fairness is given to sources, callers, brokers, networks, scanners that answer, or failures. Where a
property needs the faults to end, `MaxFaults` ends them.

## 4. What the runs show

* `LossesAccounted`, `FeedSpec`, `ConsumersCatchUp`: the event queue loses only what it counts, and a
  consumer that is silently stale has a loss to show for it (its own drop counter or a refused oversize
  event).
* `PacketsAccounted`, `DeliveryReportsGap`, `HealthyMeansGapless`, `FeedSpec`: the PCMU counters are exact at
  every moment, also while a publish is half-way. `ClientKnowsLoss`: at the other end of the socket the
  client accounts for every packet since it connected and never refuses a frame for a contradiction.
  `ServiceStops`: a server that is stopped gives back threads, sockets, slots and subscriptions.
* `TransportsOwned`, `PromotionSparesCommands`, `CallsReturn`, `FailedWriteReplaces`: the lock order and the
  re-check of the guard under the command lock do their job.
* `CallsReturn`, `PushRestored`, `NothingRunsOn` of the session: no call waits for ever although threads are
  joined under locks, a serial push that was lost comes back, and stop leaves no thread behind.
* `CommittedServed`, `SinksOwned`, `RecordsTruthful`, `NoStopUnderSubmission`: a replacement that fails half
  way restores what ran, and no sink that was started is stopped while a submission is inside it.
* `WorkersSound` (counters and reported states of the remote workers, packets of the network), `NewestShown`
  (titles; packets only forward), `WorkersEnd`.
* `MirrorSound`, `NoRepeatWhileCached`, `Converges`: retained topics never go back in the stream's order, a
  response belongs to the body it answers, a cached command is not run again, and once faults end the
  broker holds the daemon's state.
* `CatalogResolves`, `TerminalTrue`, `TerminalIsFinal`, `TreeTrue`, `ContractKept`: for every plan, every point of
  failure and every point of death.
* `DocumentSafe`, `ErrorsTellTheTruth`, `StepsOfUsbWrite`: call by call a document is never written over
  or removed unseen, an error that denies a change is right, and what the calls do are the steps that
  `UsbWrite` has for them. `RecordsTrue`: no power failure tears a record or hides that the card was
  touched, and workflow and caller know the records that are there.
* `StorageSound` is `RecordsTrue` and, for the other subjects: `AcceptedIsOne`, what a preflight or a check accepts
  is one card and one tree; `PreparedTrue`, an activation starts from a backup that is one and a staged tree that
  holds what was planned; `RecordingsTrue`, what is called completed is whole, and a retention plan is minimal
  and its execution reports what it did; `SyncTrue`, card and provenance fit or somebody knows why not, what
  is reported done was done, and no plan touches what the user owns.
* `ChoicesKept`: one writer of a recording at a time; only what was confirmed is deleted; provenance is replaced
  only by a plan made from it, and what the user detached or owns stays so.
* `ServicesSound`: connections are owned and limited, answers belong to their requests, events come in order and
  are refused only for a loss, a verified download is the whole recording, the path leads to the one
  daemon that is up. `ServicesEnd`: a stop, and every call of a client, comes to its end.

One type invariant per run completes them (`BothTyped` covers both executors; the others are part of the
invariant of their subject, `WorkersSound` for instance).

## 5. Proofs

Eight modules hold theorems that TLAPS proves for every value of the constants. The assumptions are
`PcmuAssumption`, `ServiceAssumption`, `FallbackAssumption`, `ServicesAssumption` and their like (the
constants are natural numbers of the right kind, which the code's constructors check; a reconnect limit may
be zero, the event queue holds at least the snapshot and an event; a sink's queue has room for a byte) and `UsbAssumption` (the catalog is not a
document, and no document is called "none"), `SyncAssumption` (there is a place on the card and an
identity, and no lifecycle is called "nobody") and `HandsAssumption` (the bound on what other hands do is a
number). The runs evaluate them.

`PcmuService_proof` begins with the publisher of `PcmuSubscriptions`: `TypeCorrect`, `Accounting`, `GapReports`, `HealthIsTrue`, `OldestFirst` (deliveries
and drops go up in order and a drop never overtakes a delivery; no run checks it) and `ImplementsFeed`.
Accounting alone is not inductive, because in the middle of a publish some subscriptions have been
offered the packet and others not. `Offered(s)` is the number of the last packet offered to `s`,
`Passed(s)` that number less the queue length. `IInv` says

* `LockInv`: who holds the lock determines what may still be visited; a visited subscription is open;
* `NewInv`: a subscription not opened yet has no history;
* `QueueInv`: the queue holds consecutive packets from `Passed(s) + 1`, and `Passed(s)` is the join point
  plus delivered plus dropped;
* `MarkInv`: nothing beyond `Passed(s)` has been delivered or dropped;
* `TypeOK` and `DeliveryReportsGap`.

There is a lemma per action, `NextIInv` combines them, and each theorem follows from `IInv`. The
refinement `ImplementsFeed` needs `IInv` to know that the packet taken is newer than the last one and
not newer than the sequence.

It then carries them through the socket. `PublisherInside` shows that every step of the service
is a step of the publisher or leaves it alone, so all that was proved of it holds in the service
(`ServiceFeed`), and `LossIsKnown` that the client knows what it lost. The deliveries of the connected
subscription are numbered: the client has consumed the first, the next are in the wire, and the
worker may hold one. `Flow` says so, `LineOK` that each lies as far behind the point of subscription as its
number and the drops it reports, and that the loss counters never go back along the line; `TallyInv` that
the client's counters are those of the last one it consumed, `CountInv` that worker and queue agree with
the publisher's. `TurnInv` and `SocketInv` say which connection and worker that is, for only of the current
one anything is known; a torn frame or an error makes the client forget it.

`DaemonEvents_proof`: `LossCounted` and `Refinement`. A queue is numbered upwards from what its consumer has
seen, the snapshot only at its head, and one publication is pending for those still to be visited. That
gives the counts. For staleness the invariant says, source by source, that as long as nothing was
dropped or refused the last thing queued about it (or with nothing queued, the consumer's picture) lies
between the version last announced and the version the source has.

`MqttWorker_proof`: `MirrorFollows` and `NoRepeat`. An event carries its own state, and the state before it
differs in its own kind alone: whoever holds the one and applies the event holds the other, and
everything else starts over from a snapshot. The broker's topics, the publications under way and the
worker's place in the stream are compared along that line. For the cache, the requests used since a
request was dispatched number at least its distance from the cache's end.

`DestinationRouting_proof`: `NothingRunsAlone`, `CommittedStays`, `RecordsTellTheTruth` and `StopsWait`. A name
has at most three resources, the configured one, its candidate and, once committed, the previous one,
and no sink is two of them. What each must be doing depends on where the replacement stands, before, at or
past the name, and on whether it goes forward, goes back or cleans up; the invariant says it for every
place, and every record is active only if its sink runs and somebody holds it. A failed rollback may
leave a name unserved, and the invariant says which and why.

`FallbackTransport_proof`: `NothingLeaksOut` and `CommandsSpared`. Until `stop` takes the active transport
away, an open instance is the active one or the one the manager has in hand, and the manager's step says
which of the two there are. The command lock and the step tell who may await an answer.

`MCWrites_proof`, first of `UsbWrite`: `UsbTyped`, `CatalogAlwaysResolves`, `TerminalPhasesAreTrue` and `FinishedStaysFinished`, for
any set of documents and any plan. What makes the catalog resolve is the order of the stages, so the
invariant has to say how far each stage has come, and what makes a terminal phase true is what was
verified before it was published, so it has to tie step, manifest and card together:

* `ManifestInv`: the workflow's copy of the manifest is the durable one while it works, the phase tells
  the revision, and the step tells the phase;
* `BackupInv`, `CardInv`: what a phase says about the backup and the card (untouched until
  MUTATION_STARTED);
* `ReportInv`: a report has the durable phase, and names a failure exactly when that is not COMPLETED;
* `StageInv`, `MediaInv`: which files a stage still has to treat, and what the others hold;
* `Resolves`: `CatalogResolves`, taken apart by the content of the catalog.

One lemma per conjunct has a step per action; lemmas such as `AllowedKnown` and `PublishTransitionFacts` say
once what a published manifest changes.

Then of both writers: `WriteTyped`, `TreeIsNeverLost` and `ContractHolds`, the refinement of
`FavoritesWriteContract` by both executors. The copied tree's invariant says where the trees are in each
step, what a verdict stands for, and that backup and manifest precede the first rename. For the
contract, `UsbStepFacts` and `TreeStepFacts` sort every step into the few kinds the contract tells
apart (nothing, the backup, the announcement, the data, the completion), and each kind is one step of it.

Then of `MCWrites`, whose subjects do not disturb each other: `ChoicesAreKept`, and `SynchronisationIsTrue` (the
part `SyncTrue` of `StorageSound`), for any number of records, identities, lifecycles, plans and upsets. The
recordings and the units of a library are of the number that their modules name. `ChoicesInv` has a part for
each of three subjects:

* `RecordingInv`: the only recording that is open is the manager's and there is a thread for it, and how far a
  start or a stop has come says whether there may be one.
* `RetentionInv`: what is confirmed was shown, and the step of an execution says which file was looked at and
  has not been disturbed since.
* `SyncInv`: a plan is `Sound` (`HasPlan`), that is, the bindings it publishes fit the card it leaves, and each
  binding of its baseline keeps what the user detached or owns, or goes with its record; what a lifecycle
  retains fits (`Retains`); the card is what it planned and the file what it compared, unless `since` says that
  somebody was there (`KnowsCard`, `KnowsFile`). `Sound` is where the proof works: `AcceptSound`, `DetachSound`,
  `ImportSound` and `DeleteSound` say it of each kind of plan, because importing and deleting shift the records
  behind, and the bindings must follow the shift and stay distinct.

Last of a document call by call: `DocumentIsSafe`, `ErrorsAreTrue` and `CallsArePrimitive`, however often other
hands act between the calls. The six inodes are no bound: a new file needs one that nobody remembers, and
five are the most that can be remembered. What a call may rely on is what the calls before it have shown, so
half of the proof is about the programs alone. `CodeFacts` says of the program of every job what stands before
each call (`CallFacts`: a displacement comes after looks that found no temporary file and read the target, a
file that is unlinked was read or carries the artifact, whatever follows a change says so in its error) and
what may follow what (`Link`). `DocInv` then carries along, for the names that no other hand has touched
since the primitive looked:

* `LookInv`: as long as the primitive only looked, what was seen gone is gone and what was read is there;
* `OpenInv`, `TornInv`: the open file is the one the name leads to and no other; what is truncated may be
  overwritten, and what is rewritten was truncated;
* `MovedInv`: what was displaced, judged or kept as the artifact is at the temporary name;
* `JobInv`, `MountInv`: an error does not deny what was done, and the last look follows one at the mount.

`DocumentKeeps` has a lemma per action for the invariant, `DocumentSteps` one per action for what its step does.

`MCServices_proof`: `ServicesAreSound`, which is `ServicesSound` for any number of connections, clients,
callers, daemons, events and chunks. `ServerInv` is what the servers share (a connection is not made, queued,
being admitted or served, once, and what it was admitted for is counted); the lemmas `ApiServer`,
`EventsServer` and `FilesServer` say that the three instances of `SocketServer` are that one. On top:

* `ApiInv`: on a connection that is open at the client nothing is under way, unless the caller that has the
  request lock reads from it; then it is that caller's request that is asked, handled or answered, or its
  worker is gone. A control asks for hello twice at most, which bounds the identifiers.
* `EventsInv`: only the first event that a connection holds can be a snapshot (`StreamInv`); what `receive()`
  has is of one connection, and follows what it returned or begins with a snapshot still to be read
  (`SourceInv`), whoever closed the client meanwhile. As long as nobody did and nothing was dropped, all
  that is in line from the decoded frame through buffer, wire and worker to the queue is numbered without a
  gap up to the newest event (`Follows`), so that nothing can be refused.
* `FilesInv`: a header is promised only for a recording that was nobody's when the manager was asked, such a
  recording does not grow any more, and what the client has and still expects is what was promised.
* `PathInv`: who looks at the socket's path, and what is bound and listening there, while daemons start one
  at a time.

`MCWorkers_proof`: `WorkersAreSound`, which is `WorkersSound` for any capacity, chunk sizes, attempts, titles,
packets and faults, and `PacketsDeliveredForward`, the half of `NewestShown` that speaks of steps. The
bytes of a queue are a sum by a recursive function; what the proofs need of it (a chunk appended, the oldest
ones cut off, a part is not more than the whole) follows from lemmas by the least counterexample
(`LeastNumber`, `SumsExist`, `BytesSums`), and `OverflowFits` says that what `Submit` drops makes room for what
it takes. `WorkersInv` has

* `BytesInv`: what was submitted is written, dropped, queued or in the worker's hand, and the queue keeps to
  its capacity; `LifeInv`: what a worker on its way out has behind it, and what the reported state says;
* `PublisherInv`: the types of the title worker, and that a title that still waits has tries left;
* `OwnerInv`, `ThreadInv`: what the owner has at each step from start to stop and has let go of, and that a
  thread that runs has its handler, its subscription and an open recorder unless it was given up; `ServerInv`: an undisturbed
  scanner was told to stop, once;
* `CountInv`: what was delivered is written, failed, refused, unheard or in the reader's hands, and refused or
  unheard only after a join was given up, which `ThreadInv` gives; `PacketInv`: the lost are the places between the first and the last delivered, less those
  delivered; clock and remembered numbers are those of places not after the last. `ModFacts` is the
  arithmetic of the wraparound, `ReceiveCases` what the tracker makes of a packet within the network's reach
  (`NearFacts`), where the half range tells ahead from behind.

Only model-checked: liveness (out of the prover's reach); everything about `ScannerSession`, whose run
checks little else; and `StorageSound` but for its part `SyncTrue`. As a whole it is no theorem for every value of
the constants: with a third edit (`MaxEdits` = 3) a preflight can accept a tree that never was, so that
`AcceptedIsOne` holds within the bound only. And that a retention plan is minimal and reports what it
did are sums by folds, induction over data.

## 6. Where the code departs from its documentation

* **A loss may go unnoticed** (`fallback_loss`, property `LossNoticed`, `fallback.py:782`). The connection
  callback of a transport that dies while the activation lock is held returns without requesting a
  switch. Between the `connected` check of `_activate_from` and the release of the lock (the state is
  forwarded and PSI resent there) nothing else looks. `docs/fallback-profiles.md:39` says that
  `FallbackTransport` switches when the active transport disconnects later.
* **A lost UDP push is recovered once** (`session_psi`, property `NetworkPushRestored`,
  `daemon_runtime.py:422`). When a recovery fails the push is inactive, and `poll` returns at once whenever
  the push is inactive and degraded startup is not allowed, as it is for UDP. `README.md:309-312` and
  `README.md:1021` say that recovery goes on.
* **Retained "online" may survive a stop** (`mqtt_offline`, property `OfflineAfterStop`,
  `daemon_mqtt_worker.py:434`). A stop that interrupts a publication disconnects cleanly: the worker's
  "offline" meets a closed connection and the broker discards the will. `docs/daemon-mqtt.md:366-368` says
  that "offline" is attempted before every graceful close.

Disagreements too small for a run, or that need a reader's judgement:

* An alternate that works may be abandoned: `_switch_requested` is a bare event, set after the comparison with
  `_active` (`fallback.py:369`); when the manager gets to it, a new transport may be active and well, and
  the sweep starts over. `docs/fallback-profiles.md:47-48` says that return to the preferred endpoint is opt-in.
* `favorites_write_usb.py:12256` says of putting back a displaced document "never overwrite a concurrent
  replacement supplied by another writer"; the code asks `lexists` and then calls `os.replace` (12263), and
  what another program puts there in between is lost. `DocumentSafe` speaks of what came before the last
  look.
* `list_recordings` and `open_recording` read the path of the active recording before they scan the library
  (`daemon_recording.py:389`, 449): one that is started in between is listed, and opened, while it is written,
  against `docs/daemon-deployment.md:300` and `docs/daemon-api.md:221` ("finalized"). A client may then take a
  part of it for the whole, and after a daemon died a recording that was cut short is served
  (`FilesWhole` excludes downloads whose worker asked before the recording was the manager's).
* `docs/daemon-api.md:72` says that a daemon never replaces an active endpoint. One that probes between `bind` and
  `listen` of another finds a dead one and unlinks it (`daemon_ipc.py:404`), and `lstat` followed by `unlink` at a
  stop may remove the name of a successor: `OneEndpoint` excludes daemons that start or stop at the same time.
* `docs/favorites-external-data-research.md:428-431` calls adoption idempotent only while the lifecycle retains the
  result's snapshot; for a name acceptance a result adopted before is accepted whatever is retained
  (`favorites_external_provenance_lifecycle.py:410`), the other three check.
* A persistence error may be raised although the new provenance is in place (the directory sync or the readback
  after `os.replace` failed); the lifecycle then stays where it was, and its plans are refused from then on.
  Between the preflight of one lifecycle and its write to the card another may detach the field that is
  written: the provider's value is on the card and the writer gets a persistence error.
* "The composition raises a distinct post-write persistence error" when provenance changed meanwhile
  (`docs/favorites-external-data-research.md:299-302`). `_publish_content`
  (`favorites_external_provenance_storage.py:503`) compares the file's content, and content can come back. A
  lifecycle imports and publishes; a second one, whose plan was made with the new card and the old file, writes the
  card; the first deletes its record again, which publishes the old content; the second finds its baseline and
  publishes. Both are told "done", and card and provenance do not fit. It takes three records and
  three plans, more than the run has, and was found when `UnfitIsKnown` turned out not to be inductive; the
  invariant has `crossed` for it.
* The unmanaged files of a tree staged for a copied target are compared with nothing but themselves, those of
  a card with the digest of the preflight (`PreparedTrue` says what may differ).
* `docs/reliability.md:47-48` and `docs/audio.md:483` list callback errors among the statistics of network audio.
  In a recording session they stay zero: the transport's handler is `AudioStream._receive_chunk`, and what the
  recorder raises (`audio_recording.py:112`, a full disk) ends in `EventBus.emit` (`events.py:33-37`), which logs
  it. The session stops without an error unless closing the file fails too, and only fewer packets in the
  recorder than `packets_delivered` tell of the loss (`failed` and `refused` of `NetworkAudio`).
* A stop whose retry finds the WAV closed with an unpatched header reports it as completed (see
  `RecordingManager`).

## 7. Not modelled, and the plan

Next, in this order:

1. The ordered start and stop of `DaemonProcess`, and its signals.
2. The playback buffer as a pure module.

Left out for good: the analysis and waterfall publishers (the PCMU algorithm again, without bytes),
favorites model and editing (pure transformations of immutable values; a record is created and deleted in
`ExternalRecords`), RadioReference and other
request code, presentation, command line, and the framing of the socket protocols (input and output
with no ordering problem of their own). They are the bulk of the repository's lines, which is why the
share of it that these models stand for is small. `_replace_usb_active_managed_file` is an older helper the
workflow no longer calls.
