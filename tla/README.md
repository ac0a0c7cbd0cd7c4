# Verification of the LilyGo telematics firmware

TLA+ models, TLC runs and TLAPS proofs for the firmware in `src/main/`: an ESP32
on a vehicle's CAN bus that logs frames to an SD card, lets a phone fetch trips
over BLE, and in a second boot mode serves a web interface that configures an
openinverter device over CAN and is found by mDNS. The mDNS component, which is
built from source with the firmware, is modelled as far as the firmware uses it.

## The system

| Part | State it keeps | Operations | Interacts with |
|---|---|---|---|
| SD logger (`sd_logger.c`) | open files, session number, trip, flush counters, `rotate_sem` | mount, number, open, write frame and snapshot, TRIP_START, TRIP_END with rotation | takes `log_queue`; NVS; the card; gives `rotate_sem` |
| BLE command processor (`ble_nus.c`) | last_synced and boot mode in NVS; locals of a command | LIST, GET, DONE, TIME, TRIP_START, TRIP_END, STATUS, SUMMARY, WIFI_MODE | posts markers; waits for `rotate_sem`; reads NVS and the card while the logger writes |
| BLE link (`ble_nus.c`) | connection, MTU, `cmd_queue`, live queue, `g_app_mode` | connect, disconnect, MTU, write to RX, heartbeat, speedo stream | NimBLE host task and command task |
| CAN receiver (`can_handler.c`) | interrupt queue, frame count | interrupt, decode, live stream, log | writes vehicle state; posts to `log_queue` and the live queue |
| Vehicle state (`vehicle_state.c`) | one packed record | plain reads and writes | written by the CAN task and by TIME, read by the logger and BLE |
| Boot (`main.c`) | boot mode in NVS | erase of a bad NVS, read and clear the mode, start one of two pipelines | all |
| SDO client (`oi_can.c`) | node, queues, locks, schema state, firmware transfer | init, scan, read, write, save, mapping, schema download, firmware update | HTTP handlers, poll task, interrupt |
| Web interface (`web_interface.c`) | upload, WiFi, server | HTTP handlers | SDO client, SPIFFS |
| JSON reader (`oi_json.c`) | none | find and read in a document | SDO client |
| mDNS (`managed_components/espressif__mdns`) | per interface a probe and announce machine; transmit queue; action queue; host name and service | start, set host name, add service, timer, receive, interface events | web interface, lwIP, other hosts |

What is hard here: power is cut at any moment (the device is wired to the
ignition), NVS and the card are updated in several steps, two tasks post to one
queue, the BLE task reads NVS and the card while the logger task changes them,
a semaphore wait has a time limit and its token may come late, and the phone
drops its connection in the middle of a transfer. The NimBLE host preempts the
task that answers commands; two tasks call the loop of the SDO client; the
bootloader of the inverter asks by the same queue; and mDNS has three tasks, two
queues and a network that loses packets.

What makes each part correct:

* Logger: a session number is used once; a completed session never changes; a
  summary is that of its own trip; a power cut costs little; the file the phone
  reads is complete whenever the other one is; a trip has a file.
* Command processor: OK to TRIP_END means the session can be fetched; no
  completed session is lost to the phone; only completed sessions are offered;
  what the phone stores is what the card has; every command is answered.
* Link: no command is crowded out; what the phone receives between header and END
  is the session; modes follow the connection; a full queue holds nothing up.
* CAN and vehicle state: decoders keep the range and the sign.
* SDO client: a reply is matched to its request; a lost reply leaves the client
  usable; locks are free afterwards; an update sends each page once and whole, and
  says what it did.
* mDNS: a name is probed before it is claimed; two devices that know each other
  have different names; every interface ends up announced; a packet is sent once.

## Modules

| Module | Models | Role |
|---|---|---|
| `SessionArchive` | what the card promises | abstract specification: begin, record, complete, abandon |
| `SdLogger` | `sd_logger.c` with the posting tasks and power cuts | one action per step of the task |
| `SdLoggerArchive` | | the refinement: `Raw` and `Snap` are two instances of `SessionArchive` |
| `SdLoggerInv` | | the inductive invariant |
| `SdLoggerProofs` | | theorems about the logger: numbers, files, refinement |
| `SdLoggerSummaryProofs` | | theorems about what a session tells: peak, snapshots |
| `BleCommands` | the command handlers of `ble_nus.c` beside the logger; the boot mode of `main.c` | extends and composes with `SdLogger` |
| `BleCommandsInv`, `BleCommandsProofs` | | inductive invariants and theorems about the command processor beside the logger |
| `VehicleState` | the decoders of `can_handler.c` | operators, and what the fields mean |
| `CanReceiver` | the interrupt and the task of `can_handler.c` | the CAN side of `BleLink` |
| `BleLink` | connection, modes, `cmd_queue`, transfers and the speedo stream of `ble_nus.c` | extends and composes with `CanReceiver` |
| `BleLinkInv`, `BleLinkProofs` | | inductive invariants and theorems about the link and the decoders |
| `SdoClient` | `oi_can.c` with the poll task, the HTTP task, the interrupt and the inverter | one action per step between two waits |
| `SdoClientInv`, `SdoClientProofs` | | inductive invariants and theorems about the lock, the replies and the schema |
| `CanUpdate` | the firmware update of `oi_can.c` and `/fwupdate` with the bootloader | one action per step between two waits |
| `CanUpdateInv`, `CanUpdateProofs` | | inductive invariant and theorems about the image and the steps |
| `MdnsSend` | packets and the transmit queue | operators on a device |
| `MdnsPcb` | the machine of an interface | operators on a device |
| `MdnsReceive` | what a received packet changes | operators on a device |
| `MdnsService` | the devices, their tasks and the network | extends and composes the three above |
| `MdnsWire` | names, compression and meaning of a datagram | operators, and what the messages of `MdnsService` come back as |
| `MdnsInv` | | the inductive invariants |
| `MdnsHandlerProofs`, `MdnsProofs` | | lemmas about the transmit queue and the handlers; theorems about the service |
| `MCSdLogger`, `MCBleCommands`, `MCBleLink`, `MCSdoClient`, `MCCanUpdate`, `MCMdns` | | instances for TLC |

### SdLogger

`pc` is the place in `sd_logger_task`; each value is a point where another task
or a power cut may come in between. The calls between two such points that touch
only the task's own state are one action. `TRIP_START` is four steps (decide,
open raw, open snapshot, arm and write), `TRIP_END` five (clear `trip_active`,
close the snapshot, close the raw file, rotate the number, give the semaphore),
in the order of the code. A frame is the current it carries; a file is its rows
after the header, and `kept` of them are covered by the size in its FAT directory
entry. Whether `fflush` moves `kept` is the constant `ImmediateFsync`, FALSE in
`sdkconfig` (line 2446), so only `fclose` does. `Restart` keeps NVS and what
survives of the open files and resets RAM; it starts the logger, or not, in
web-interface mode (`pc = "off"`).

`Faults` names what may fail: `fopen`, `nvs_open` (id 0), `nvs_write` (the
counter is not stored, which the code does not look at), `nvs_erase` (app_main
erases NVS on boot). Frames dropped on a full queue are not an action: dropping
changes nothing.

Left out: the summary figures other than the peak of the current (they are read
from the vehicle state), failing `fprintf`, and the layout of the rows.

### BleCommands

Commands are taken one at a time; `ble` says which is under way, and the logger
runs between its steps. LIST reads the two counters, opens the directory and
looks at one entry per step, in the order of creation. GET fixes the size when it
opens the file and sends a row per step; it may be cut off at any step. TRIP_END
posts and waits; the wait ends with the token, or without one when there is no
semaphore (web-interface mode) or after two seconds, which `timedOut` remembers. WIFI_MODE
stores the mode and restarts later; the boot reads the mode and clears it. The
phone is external: it knows the last LIST answer, downloads and then
acknowledges, in any order; `jumped` remembers that it did not take the oldest. STATUS and TIME read or write nothing
in the model. A command is processed as if taken from `cmd_queue`; the queue and
the connection are those of `BleLink`.

The two history variables are conditions of two properties. The order of the
acknowledgements is one: LIST compares with the largest number acknowledged
(`ble_nus.c:184`, `:299`), so a session whose GET was aborted while a later one was synced
is never offered again, although `ble_nus.c:270` says "Phone discards incomplete session
and re-requests on reconnect". `NothingStranded` is the property without the two
conditions; TLC finds that counterexample when `ble.cfg` names it instead of
`InOrderNothingStranded`. The other condition came as a surprise:
after a wait that timed out two trips may end during one LIST, which has read the
counter before the first and reads the directory after the second; it offers the
second and not the first, and acknowledging it hides the first for good.

### VehicleState, CanReceiver and BleLink

A frame is an identifier, a length and the raw number its decoder looks at. Each
decoder is modelled by one field with the arithmetic of the code (division
towards zero, conversion to 16 bits), and `Means` says what the comments say of
the field, exactly, for every number that its bytes can hold. Where the code goes its
own way, `Means` says which:

* a speed below zero comes out one above the 15-bit number, since the code subtracts
  0x7FFF where two's complement of 15 bits takes 0x8000 (`can_handler.c:152` calls it
  "15-bit signed", `:157` "15-bit sign extension"): a divergence of one revolution, which
  makes 0x7FFE, the number for -2, a -1;
* a temperature of the cells above 3549 K leaves the 16 bits of its field, and what is
  left is the number modulo 65536;
* the frames of the shunt are decoded whatever their length (`can_handler.c:101`, `:228`):
  one of less than six bytes overwrites the field with the bytes it has, the rest 0. All
  other decoders leave the field alone when the frame is too short.

`BleLink` has three threads: the host task (`Connect`, `Disconnect`, `MtuAgreed`,
`Write`), the command task and the CAN task. The host task runs between any two
reads and writes of the command task, so an action is what lies between two such
points. A command is taken from the queue (`Receive`) before its mode is set
(`Dispatch`); the size of a chunk, the size of a piece and the connection are read
separately. Lines 725 to 729 of `ble_nus.c` are five actions: the connection (`Quiet`), the
mode and the tick (`ReadNow`; only this task ends the mode detecting, and a tick read
later would only pass the test earlier), `s_connect_time_ms` for the first time (`TestStarted`)
and for the second (`TestConnectTime`), and the switch (`EnterSpeedo`); if the mode is
another, it is read again (`OtherMode`, then `StartStream` or `Heartbeat`). If the connection has
ended or a new one has begun since the tick was read, the difference of line 728 is of a
time that is 0 or later than the tick, and either outcome is possible (`Elapsed`).
`payload` is the MTU in units of the default one. The phone sends its next
command when it has an answer, streams its speed all the time, and takes what
comes between a header and END for a session. `claimed`, `leftover`, `torn`, `lost`
and `late` are history variables. `ThreeSeconds` takes that the CAN task has
handled the frames that came before the connection: it needs milliseconds for one.

Known facts that the properties state as they are: a command left over from the
last connection puts the new one in telematics mode; a transfer goes on to a new
connection, whose phone ignores it, since it has no header; and a connection that ends
or begins between the reading of the tick and the switch (`torn`) may put the device in
speedo without three seconds, or without a phone. Without one the mode stays speedo
until the next CONNECT, and the CAN task goes on filling the live queue; as CONNECT does
not drain it, the next phone to reach speedo may be sent a whole queue of old frames
(`g_ble_live_queue` has 128 places).

### SdoClient

Two tasks use the client: the poll task, which takes one reply in each iteration
and runs the handshake, and the HTTP task, which serves one request at a time.
`lock` is `s_sdo_lock`; `poll` and `http` are their places, and each action is
what happens between two waits for a frame, the lock or the clock. `bus` holds
the requests sent and not yet served, `s_rx_queue` the replies received and not
yet taken. A wait for a reply may end whenever the queue is empty, so every
request may be answered late; `Lose` leaves one unanswered for good. `lost` counts
the requests that will not be answered any more, those that found a queue full
among them (`GivenUp`), whatever `MaxLoss` allows the bus. A handler
looks at `s_state` before it waits for the lock, as the code does, and empties the
queue after. An iteration of the poll task that finds nothing to do is left out,
and one that takes a reply in `ST_IDLE` or `ST_OBTAIN_JSON` gives the lock back in
the same step, since nobody sees it in between.

Handlers are grouped by how they take answers: `Single` ones (get, set, save,
remove) take the next frame; `json` takes the frame that matches and asks twice;
`add`, `canmap` and `stream` are walks that take the next frame. `NodeId` is
`oi_can_init`; `Reset` a restart of the device, which keeps the files. Values,
names and JSON text are left out: a parameter is its number, and the schema file
is the sequence of the segments written to it.

The inverter is external. It serves requests in order and repeats the index and
sub-index in its answer; it has one transfer, which any request other than the
next segment in turn ends (CiA 301). Not modelled: the 5 s limit on the wait for
the lock (nobody holds it that long: the scan takes 1.3 s), bus-off and its
recovery, the pacing of the loop by an update, `fopen` failing, and
the step between `unlink` and `rename`, where a reset leaves no schema.

### CanUpdate

The poll task and the handler of `/fwupdate` call `oi_can_loop`; the lock decides
which of them takes the next frame. `s_upd_state`, the page, the byte and the
checksum are those of the code; sizes are counted in chunks of eight bytes, a
checksum is the sequence of chunks it was computed over, and `Init` of the update
is the whole of `oi_can_start_update` in the three steps of the code (open, reset,
await the magic). The bootloader is external: it asks, is answered, writes a page
whose checksum is right and asks again after one that is wrong; `Serve` has an
alternative for each kind of frame that the bootloader or the firmware heeds
(`HeedReset` to `HeedCrc`), and `Ignored` for the others. `amiss` records
what the properties must exclude: frames thrown away or ignored, and an update
begun during an update. What the model shows of the code, and the properties
therefore state with these conditions:

* any other request to the inverter empties the queue (`oi_can.c:793`, `:1105`). If
  that takes the report of a wrong checksum, the client takes the next question
  for the acceptance of the page and goes on; the image that is started lacks a
  page although every checksum was right.
* a frame of the bootloader that is lost stops the update, and the handler, which
  counts pages (`web_interface.c:371`), never returns: the HTTP server has one task.
* if the image cannot be opened, the page count is 0 but the reset is sent; when the
  bootloader asks for the size, `fstat` of no file panics (`oi_can.c:479`).
* an update begun during an update swaps the file in the middle of a page.
* `SEND_MAGIC` is set after the reset is sent (`oi_can.c:1226`), so a poll task that is
  quick enough throws the bootloader's first frame away.
* the last step of the browser ends when the last page has begun, not when it is
  accepted.

### mDNS

`MdnsSend` has the transmit queue of an interface's packets, sorted
by time, with the mark `queued` and the address by which an action refers to a
packet; addresses are given out lowest first, so they are used again, as an
allocator does. `MdnsPcb` is the machine of an interface (probe three times,
announce three times, run), `MdnsReceive` what a query, an answer or a conflict
does. They are operators on the record of one device; `MdnsService` has the
variables, the tasks and the network: the application that starts mDNS, names the
host and adds the service (`web_interface.c`), the timer that looks for a packet
that is due and posts an action, the task that takes an action and executes it
under the lock, interface events, and what other hosts say. A message is a record there;
`MdnsWire` writes each of them as a datagram, label by label with pointers to earlier
names, and `ReadsBack` says that what a receiver decodes is that record.

Time is counted in steps of the timer (`Shared`, `Quarter` and `Second` are 1, 2 and
3 of them): only the order of what is due matters. The action queue holds 4
instead of 16, so that it can fill. In scenarios with `step` the packets of the
instant are delivered before time goes on.

Abstracted: a record is its type, name and data; host names are numbers that grow
with each conflict; the unicast bit, the flush bit and where an answer goes are
dropped; failed probes only delay. Left out, since the firmware makes no use of
them: IPv6, Ethernet and two interfaces on one subnet, removal and change of
services, subtypes, delegated hosts, searches, browsing, distributed queries (TC),
and memory that runs out.

## Runs

| Run | Question | Result |
|---|---|---|
| `logger` | with the project's configuration, failing opens and a power cut anywhere: are sessions numbered afresh, kept, summarised right; do both kinds of file implement `SessionArchive`? | holds |
| `ble` | logger early or late, phone in any order: does LIST offer only sessions that have a summary, is the phone's copy of an acknowledged session the one on the card, is a completed session never lost to LIST while the phone keeps the order, does an OK in time mean the session can be listed, does web mode last one boot? | holds |
| `ble_faults` | all faults, both boot modes, fair scheduling: is each command answered, TRIP_END signalled; does a trip have a file and snapshots? | holds |
| `sdo` | late, lost and refused answers, a change of node, a reset: does the lock follow the transactions, is the cached schema whole unless two handshakes were mixed, does a handler lose no reply to the poll task, does each HTTP request end, is the handshake retried until it is answered? | holds |
| `link` | connections and MTUs that change at any step, full queues: do commands survive, is a received session whole, are stale frames drained, is every mode earned and left, is a decoded value right, does logging go on? | holds |
| `update` | chunks that arrive wrong, a second update, other requests, an inverter switched off and on: is the image started one whole file, is a step told to the browser an accepted page, does the handler come to an end? | holds, when nothing went amiss that the properties name |
| `mdns` | two devices of one name with lost packets; interfaces that come and go; other hosts that ask, answer and claim: are names probed before they are claimed, different once established, does every interface settle, do datagrams read back, does no packet wait for ever? | holds |
| `power_loss` | is what a power cut costs bounded by the flush interval (`sd_logger.c:204`)? | violated: nothing of the open session survives, since fflush does not sync |
| `nvs_erase` | is the card the master archive (`ble_nus.c:293`) after NVS was erased? | violated: numbers restart and completed sessions are truncated |
| `token_stale` | does OK mean rotated (`sd_logger.c:37`) once a wait has timed out? | violated: the next TRIP_END takes the late token |
| `schema_mixed` | can a partial transfer be mistaken for a cached schema (`oi_can.c:425`) when a new node id interrupts the handshake? | violated: the file 1, 2, 1, 2, 3 gets the schema's name |
| `sdo_stale` | can a stale reply be mistaken for the answer to the next request (`oi_can.c:280`)? | violated: a refused set is reported as "Set Ok" |

The violated ones are the findings listed in `PROJECT.json`. One more divergence needs
no run: between TRIP_END and the next TRIP_START no raw file is open, and frames
are discarded (`sd_logger.c:180`), although `README.md:27` of the repository says that
every known frame is written.

Bounds. `LogQueueLen`, `FlushRows` and `SnapFlushRows` are 2, so that the queue
fills and both kinds of flush happen and are skipped. Three frames allow one
before, one in and one after a trip, or two in a trip and a flush; three markers
allow a repeated start, an end without a trip, and a start after a rotation; four
allow two whole trips, which ordering of DONE and the stale token need. One
reset may fall anywhere; two let a boot into web mode be followed by another
boot. Two currents of different sign and size tell the peaks apart. `ListMax` is
1 where a cut LIST matters. `MaxFrames`, `MaxMarkers` and `MaxResets` bound the
environment only; the program's own counters are not bounded.

In the `sdo` runs two segments and two parameters make every walk take a step
and end, two nodes let the scan and `/nodeid` pass a node that is silent, and
three requests on the bus and four replies fill both queues. `save` and `remove` are left
out of `Ops`: they take one frame, as `set` does. `MaxEarly` counts retries made while an
answer is still to come; a retry on a quiet bus is not counted, so the handshake may go
on for ever.

The run `schema_mixed` allows more of them and one `/nodeid`, with no losses and no resets.
Retries that overtake their answers set several chains of replies going, which all ask for
the words of the serial number; one reaches its download while words of another are
still asked for, and then `/nodeid` starts a new handshake. Requests of the old chains are
served in the middle of its download: a request for the schema among them starts the
inverter's transfer again, the client appends the first segments once more, and the file
1, 2, 1, 2, 3 gets the schema's name. A reply has no mark of the transfer it belongs to, so `oi_can.c:425` ("so a
partial transfer can never be mistaken for a cached schema") does not hold.
`SchemaWholeUnmixed` says what does: the history variable `mixed` is set when, before there
is a schema, a reset or a new node id finds on the bus a request for a word with one
of a download behind it (`Remains`), and as long as it is not set the file is whole,
whatever else is still to be served.

In `link` a session has three units and the wide MTU two, so that chunks and pieces
differ and the last one is short; two commands and two live frames fill the
queues. `MCMaxLinks`, `MCMaxFrames` and `MCSends` give two connections to the frames that
are only streamed, beside one frame and every command or beside two frames and commands
that are answered at once; one connection and three frames, which overfill the live
queue, to a shunt frame of full length; and none to the others, which are at the ends of
their ranges, beyond them, or short.
In `update` a page has two chunks and the images three and four, so that there is
a padded page and a full one; the four `MCBounds` combine a second update, other
requests, wrong chunks and power cycles two at a time. In `mdns` the scenarios of
`MCScenarios` are two devices that lose two messages, one device that starts without
an interface and gets two interface events, one with two interfaces that hears one
message, one with one interface that hears it at any moment, even while earlier
packets wait, one that hears two, and one that hears one while its station goes and
comes; together they fire every action and fill the action queue. Interfaces that
go showed what `ProbedBeforeClaimed` takes: a probe
that is due after the station lost its link, before the task has executed the end
of the interface, is not sent (`mdns_send.c:1340`), and the machine counts it
(`mdns_pcb.c:211`). With the link back at once the announcement follows fewer
probes than three, until the end of the interface, which is in the action queue,
starts the machine anew. So the property is about an interface whose end is not
still to be executed (`Trusted`).

Deadlock is not checked where the environment's bounds let every behaviour come to
rest with a task waiting for its queue, which is where it really blocks (in
`update` the firmware may also panic). In `mdns` it is checked: the timer always goes on.

Fairness. `WF(LoggerStep)`: the logger task is ready whenever it has a message;
the tasks above it on its core block on their own queue between two frames. A
mount that is retried for ever would break this; the model takes a card to be
present. `WF(Answer)`: the steps of a command under way, the same for the BLE
task. In `SdoFairSpec` both tasks run and the inverter serves what it is sent;
`SF(PollRetry)` says that an iteration more than a second after the last request
comes again and again, and `SF(HttpLock)` that the mutex goes to the task waiting
for it, while the poll task only tries it every 10 ms. `LinkFairSpec` runs the
command task and the CAN task and lets time pass. `UpdateFairSpec` runs the loop,
the handlers and the bootloader. In `mdns` the timer fires and the tasks take and
execute actions; for two of them weak fairness is written out with the states in
which they can step, which TLC evaluates faster than ENABLED. No fairness is assumed of the phone, the bus or of new commands.

## Proofs

The theorems hold for every value of the constants that satisfies the `ASSUME`s of
the modules (queues have a place, counts are naturals, model values are distinct).
The following conditions are stated where they are needed, each by name:

| Condition | Says | Where it comes from |
|---|---|---|
| `NvsReliable` | NVS keeps the session counter (no fault in `nvs_open`, `nvs_write`, `nvs_erase`) | the run `nvs_erase` shows that it cannot be dropped |
| `~ImmediateFsync` | only `fclose` moves the size in a directory entry | `sdkconfig`, line 2446 |
| `NoEdgeCurrent` | no current is the smallest int32 | it has no magnitude in the code, where its negation is itself |
| `FewLinks` | no more connections than places in `cmd_queue` | `CMD_QUEUE_DEPTH` is 16: a phone would have to reconnect that often during one GET |
| `PagesFit` | an image has less than 256 pages | the count is sent in one byte (`oi_can.c:486`) |
| `EnoughAddrs` | an address is left for every packet | an allocation that fails is not modelled; in the run four are enough |
| `IpsAreNumbers`, `ScenariosOK` | addresses are compared as numbers; a scenario brings up interfaces that exist | they type the constants |
| `ForeignReadable` | other hosts say anything at all that can be a message | what cannot be parsed is dropped before it has an effect (`mdns_receive.c:688`) |

The conditions of `CanUpdate` about `amiss`, of the link about `torn` and of the schema about
`mixed` are part of the properties, since the code does not exclude them; they are
described above with these modules.

### The logger

`SdLoggerProofs`:

* `TypeCorrect`: `Spec => []TypeOK`, all faults included. With it the files of
  both handles exist and the counters stay in range.
* `TripRecorded`: a trip in progress has a raw file, all faults included.
* `Safety`: `Spec => []SafeInv`, if `NvsReliable`.
* `NumbersFresh`: every file is numbered below the counter.
* `ArchiveKept`: the action property `MasterArchive`.
* `RawRefinement`, `SnapRefinement`: the refinement of `SessionArchive`.

`IdsBelowCounter` is not inductive: one must know that the number in RAM is one
behind NVS once it has been loaded (`NumberInv`), which handles are open at which
place (`HandleInv`), and that the number of a file about to be opened names no
file unless the number is about to be rotated (`FreshInv`). That a completed
session never changes needs in addition that the open files have no summary row
yet (`OpenInv`), because only the open files are ever written. From these, every
step changes a card in one of four ways (`CardStep`: begin, grow, complete,
abandon), which is also the refinement.

`SdLoggerSummaryProofs`:

* `SnapFirst`: whenever a raw file is complete so is its snapshot file
  (`NvsReliable`). Between the two `fclose` the snapshot ends with the summary of
  this trip (`SnapClosedInv`), and no step but the second `fclose` completes a raw
  file.
* `PeakCorrect`: the peak in a summary is the maximum of the trip's own frames
  (`NvsReliable`, `NoEdgeCurrent`). `PeakInv` says it of the running peak and the
  rows since the last TRIP_START, until the file is closed; the lemmas say what
  appending a row does to the magnitudes of a trip.
* `SnapshotForced`: a trip that has logged a frame has a snapshot, all faults
  included. `ForcedInv`: the forced snapshot is still to come and the trip has no
  frame, or it is written, if there is a file to write it to.

### The command processor

`BleCommandsProofs`. `LoggerBeside` (`BleSpec => Spec`) comes first: each step of
`BleSpec` is one of the logger or leaves its variables alone, so that all theorems
about the logger hold beside the command processor, and their invariants can be
used in the proofs here.

* `BleTypeCorrect`: `BleSpec => []BleTypeOK`, all faults included.
* `WebOptIn`: the web interface lasts one boot and was asked for (`NvsReliable`).
* `OfferedComplete` and `CopyIsSession`: LIST offers only sessions that have their
  summary, and what the phone acknowledged is what the card has (`NvsReliable`,
  `~ImmediateFsync`). The command task looks only at the size in the directory; that
  a size other than 0 is that of a completed file is `KeptInv`, and it is why
  `ImmediateFsync` must be off. `CopyInv` adds that a transfer under way is a
  prefix of the file, and the file does not change, since it is complete.
* `OkInTime`: as long as no wait ran out, OK to TRIP_END means rotated (`NvsReliable`).
  `RotateInv`: there is one TRIP_END at most, and it is queued with nothing but
  frames behind it, under way, or signalled (`EndWaits`). The run `token_stale`
  shows what a wait that ran out leaves behind.
* `NoneStranded`: no completed session is lost to LIST while the phone keeps the order
  and no wait ran out (`NvsReliable`, `~ImmediateFsync`). A LIST under way has every
  completed session it has passed, but for the one whose number is the counter's,
  which a power cut may have left complete and not rotated (`ScanInv`); what was
  offered was offered with all that is older (`OfferInv`). `RotateInv` is needed
  here too: as no TRIP_END is under way during a LIST, no session completes
  between its two readings.

### The link and the decoders

`BleLinkProofs`, for all depths of the queues, sizes, MTUs and numbers of connections:

* `LinkTypeCorrect`: `LinkSpec => []LinkTypeOK`.
* `CopyIsSession`: a received session is whole. The invariant `TransferInv` says that
  a phone with the header has exactly what was read of the file: the piece under
  way is no larger than the MTU, which only a new connection lowers, and that
  connection has not seen the header.
* `ModesEarned`: the action property `ModeEarned`, from `ModeInv`: what a test under way has
  found is still so for the connection it has read (`link`, `due`), or the test is torn;
  so a switch to speedo had its three seconds or is torn, and a waiting command is of
  this connection or of an earlier one.
* `CommandsKept`: no command is dropped (`FewLinks`). `QueueInv` counts: each
  connection leaves at most one command unanswered.
* `StreamFresh`: of what waits to be streamed one frame at most is older than the
  connection, unless the test was torn. The CAN task may still hold a frame of the old
  connection when the queue is drained; `StreamInv` says that it is the only one,
  and that three seconds later it has come through.
* `DecodersRight`: each decoder gives what `Means` says, for every raw number that its bytes
  can hold (`Holds`) and every length it accepts; and from it `FieldRight`, the action
  property `DecodedRight`: a frame leaves its meaning in its field, and no other step
  changes the field. The only assumption is that of `CanReceiver` on its frames, `Holds`.

### The SDO client

`SdoClientProofs`, for all depths of the queues, nodes, segments and losses:

* `SdoTypeCorrect`: `SdoSpec => []SdoTypeOK`, which has the lock: `LockInv` says that the
  two tasks are never both in a transaction, and that the lock is with the one that is.
* `RepliesKept`: the action property `NoReplySwallowed`. `WaitInv` follows the request: as
  long as nothing was given up, what a handler waits for is on the bus or in the
  reply queue (`OnItsWay`), and the steps of the poll task, which cannot have the
  lock (`LockInv`), leave it there.
* `SchemaIsWhole`: `SdoSpec => []SchemaWholeUnmixed`: any number of retries with answers
  still to come, the scan, aborts, losses, resets and changes of node, also in the
  middle of a download and with anything on the bus, but for a reset or a change of
  node after which `mixed` is set.

That the file holds `1..Segments` is far from inductive: the client takes replies by
their content alone. `SchemaInv` follows requests and replies as one line, from the
bus into the reply queue. In a download the words of the serial number come
first, then the one request for the schema, then its segments; before it, what is
left of an aborted one comes first, then the words (`InOrder`). So the last word
ends whatever the inverter still sent, and a download begins with nothing old
behind it. From there `DownloadOK` counts: the file holds the first segments in
order; the inverter is at most two ahead; the segment that comes next waits at
most once (`OneWaits`); and of the requests on the bus, which several chains of
replies may have put there, those for the segment taken last come before those for
the next (`Turns`), and once the next is served all that remain ask for it again
(`AllAsk`), which the inverter aborts: no request makes it skip a segment. TLC found
the invariant true within bounds before it was proved.

### The firmware update

`CanUpdateProofs`, for all images, sizes of a page, queues, wrong chunks and power
cycles, under `PagesFit`:

* `UpdateInvariant`: `[]UpdateInv`.
* `InstalledWhole`: the image that is started is one whole file.
* `StepAccepted`: the action property `StepMeansAccepted`: a step told to the browser
  means that the pages before it are in the flash.

Neither is near inductive. The client and the bootloader agree on the page only
through the frames between them, and each starts over without telling the other.
`UpdateInv` therefore says, for every state of either, which frames can be on the
bus and in the queue: no client that may still hear the bootloader's first frame
has an update on (`IdentInv`), and no early identification waits for the
bootloader (`EarlyInv`); a size it will take is that of the open file (`SizeInv`);
in a transfer the pages before its own are in the flash and one frame at most is
on its way (`TransferInv`); it asks one thing at a time, but for the report of a
wrong checksum (`AskedInv`); the client is as far as it is (`SendInv`, `CheckInv`);
and the client's pages are those of the image that the browser was told of
(`KeptInv`). All of that holds as long as no report of a wrong checksum was thrown
away and no update was begun during another (`Sound`); afterwards only the types
do. The invariant was found with TLC, on the bounds of the run `update`, before
it was proved: most of its conjuncts are there because TLC or the prover
found a state without them from which a step leaves the invariant.

### mDNS

`MdnsProofs`, for any number of devices, any length of the action queue, all that other
hosts may say at any moment, and interfaces that come and go:

* `MdnsInvariant`: `Spec => []MdnsInv`.
* `MdnsTypeCorrect`: `MdnsTypeOK`, with the transmit queue in the order of time and no
  address in it twice, though addresses are used again as soon as they are free.
* `MarkedPushed`: `MarkedIsPushed`: a packet marked as pushed has its action on the
  way to the task, unless a push found the action queue full.
* `MachinePacket`: `MachineHasPacket`: the machine of an interface always has the packet
  that moves it on, and a probe asks for the names the host has now.
* `ProbedInvariant`: `Spec => []ProbedInv`.
* `ProbedFirst`: `ProbedBeforeClaimed`: nothing is claimed on an interface before it was
  asked for there three times under the same name, as long as no interface event was
  dropped.

`MarkedIsPushed` is not inductive: an action may name a packet that was freed and
whose address another one has now, and taking the action takes the head of the
queue. `MdnsInv` says more (`MarkOK`): the marked packets are the first ones of the
queue, all of them due, and their actions are found in the action queue in the same
order, so that the action at hand is for the head of the transmit queue or for no
marked packet. While the timer walks the queue, exactly the packets before its place
are marked (`TimerOK`). `MachineHasPacket` needs that a machine which runs is one that
probes, and that a host without a name probes nothing (`NamelessIdle`): a restart
would leave such a machine without a packet. Within a handler the invariant is broken and
mended interface by interface, so the lemmas carry the set of interfaces whose
machines are still to be restarted (`HandledOK`, `MachinesBut`).

The handlers walk lists: questions, records, packets, services. The model folds
over them with recursive functions, and the lemmas `Induct`, `Recursion` and
`Throughout` of `MdnsHandlerProofs` give what is needed about these: a set that has the
start and is closed under the step has the end.

`ProbedBeforeClaimed` compares what is said with the history of what was asked, and
says nothing of the packets and machines in between. `ProbedInv` does, for each
interface that is ready and whose end is not still to be executed. A name is asked for
often enough (`Counted`) if it was asked for three times, or if it is among what the
machine is probing and as many probes were sent for it as the state of the machine
says; then the machine ends its probing with the third. For the host name that needs
in addition that each packet of the interface asks for it (`HostEarned`); for the
service `MachineOK` says so already. A machine whose names change starts anew, so the
count of the old name may be lost but never counts for the new one (`Asked`). And a
device without a name or without a service has neither in its machines and packets
(`OwnOK`). What was claimed in the step just made was asked for three times at that
moment (`ClaimsOK`), and is forgotten when the task takes the next action (`ServedOK`).
Every handler is shown to keep this on a given set of interfaces (`Fair`, if it
claims nothing, and `Spoken`), and the steps say which interfaces these are. Both
invariants were checked by TLC on the scenarios of the run `mdns` before they were
proved; they hold for interfaces that go at any moment, any number of devices and
conflicts, and any messages of other hosts.

### What is only model-checked

* Liveness (`CommandAnswered`, `EndSignalled`, `LoggingNeverStalls`, `LeavesDetecting`,
  `StepAnswered`, `HttpAnswered`, `HandshakeRetried`, `Settles`): the prover has no
  rules for fairness and ENABLED.
* `ReadsBack`: a name is written and read by recursion over the datagram and its
  pointers, and the prover has no induction over data. `MdnsWire`, the only module
  with recursive operators, is reached by none of the modules with theorems.
* `EstablishedNamesDiffer`: it is about two devices and the messages between them, and
  cannot hold for any number of lost messages, since the conflict must be heard once.

## Plan

Done: `SessionArchive`, `SdLogger` and its proofs, `BleCommands` and its proofs, `SdoClient`
and its proofs, the link and its proofs, `CanUpdate` and its
proofs, mDNS and the proofs about one device.

1. `CanUpdate` composed with the states of `SdoClient`; the file handles that an
   interrupted download keeps.
2. Further faults of the logger (failing writes, a full card) and the summary's
   other figures.

## Not modelled

* `oi_json.c`: a pure reader of a stored document; it keeps no state, and no property
  tells its results apart.
* Readers that see the vehicle record half written. `vehicle_state.h:7-9` says that they
  need no lock, since "values are individually atomic at this size"; the record is
  packed, so a field of 16 or 32 bits may be written in several stores, which is the
  compiler's choice and not in the source. A frame changes its field in one step here.
* `/reboot` (`web_interface.c:425`), which removes the schema and makes the loop ask for the
  serial number (`oi_can.c:1017`) in the 200 ms before it restarts the device. `Reset` keeps
  the files.
* Failing writes to the card, which no reader of a session can notice.
* Known and left as they are: peaks of temperature start at 0, so a trip below
  0 °C reports 0 (`sd_logger.c:229`); the figures of a summary are those of the moment
  the marker is processed (`sd_logger.c:254`).
* mDNS search, browsing, console, debug output and socket layer: not used by the
  firmware, or handing packets to lwIP.
* The web assets, WiFi, SPIFFS, HTTP file serving, NimBLE, FatFs and FreeRTOS, which
  are seen through what the code uses of them, and `build`, which is generated.
