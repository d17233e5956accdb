# flex-fsk-tx in TLA+

A verification development of the flex-fsk-tx firmware: TLA+ models of its concurrent core,
TLC runs on small instances, and TLAPS proofs. Paths below are relative to the repository's
root. `PROJECT.json` maps every definition to the lines it models.

## 1. The system

The firmware turns an ESP32 LoRa board into a FLEX pager transmitter. Two tasks run in
parallel, one on each core:

- **Core 0**: `transmission_task` (src/protocol/transmission.cpp) takes pages from a queue of 25
  and raw frames from a one-slot buffer, encodes them and feeds the SX1276 through its 64-byte
  FIFO, refilled on an interrupt while the frame is on the air (the *RF window*).
- **Core 1**: `setup` and `loop` (flex-fsk-tx.ino) do all the rest, one thing after another: boot
  phases, AT console, WiFi, NTP, MQTT, web server, IMAP, ChatGPT, Grafana, logging, display.

They share `device_state`, which is the device's status, the guard that keeps Core 1 quiet during
a transmission, the flag of several state machines, and is written by both cores without a lock.
They also share the queue (a critical section per operation), `raw_tx_buffer` with
`raw_tx_pending`, `current_tx_total_length`/`current_tx_remaining_length`, the task notification,
and `flash_guard` (src/core/tx_lock.cpp), since an ESP32 stops both cores during a flash write.

| Component | State | Operations | Works with | Hard about it | What makes it correct |
|---|---|---|---|---|---|
| Message queue | `message_queue`, `queue_head`, `queue_tail`, `queue_count` | `queue_add_message`, `queue_get_next_message`, `queue_remove_message` | task; console, web, MQTT, IMAP, ChatGPT | two cores, wrap, full and empty | it is a bounded FIFO; a page refused changes nothing |
| Transmission task | lengths, `fifo_empty`, `raw_tx_pending`, buffers | `transmission_task`, `transmit_current_buffer`, FIFO interrupt | radio, queue, `flash_guard` | seconds-long window in which Core 1 runs | whole frames go out; every window ends; nothing is left in `TRANSMITTING` |
| AT console | staging state, command buffer, session time-out | `at_process_serial`, `at_parse_command`, `at_reset_state`, payload handlers | device_state, raw slot, queue, radio | checks and writes around Core 0 | an announced payload is received; commands are refused on the air |
| Transmit locks | `flash_guard`, `log_guard` | take, try, give, `FlashGuard` | all flash users | order of two locks, time-outs | no flash access in the RF window, no deadlock |
| device_state | one variable | direct writes, `change_device_state` | everything | check-then-write, save and restore | it says what is going on |
| Boot phases | `boot_phase` | the switch in `loop` | NTP, MQTT, watchdog | network lost midway | it completes; services start with the time set |
| NTP | attempts, flags, saved state | `ntp_sync_start`, `ntp_sync_process` | device_state | overlaps with transmission and MQTT | device_state is given back |
| WiFi, network | `wifi_connected`, `active_network`, retries, mode | `network_reconnect`, `check_wifi_connection`, `network_mode_switch` | device_state, NTP, MQTT | waits of seconds; device_state as flag | a network that is back is found again |
| MQTT | failure and reboot counters, deferred payloads, saved state | `mqtt_connect`, `mqtt_loop`, callback | device_state, queue, NVS | restarts on purpose; acknowledgements put off | no endless restarts; each message acknowledged once |
| GSM | power, session and retry flags, `device_state` | `check_gsm_connection`, `gsm_connect`, `network_boot` | network, device_state | each step waits; anybody's IDLE ends an attempt | it connects or gives up; one transport at a time |
| Storage | NVS and SPIFFS files, RAM copies | save, load, restore of backups, factory reset | all settings | reset between truncation and write; saves that fail | what was reported as stored is there after a start |
| Logging | 4 KB line buffer | `logMessage`, flush | both cores, both locks | called from everywhere | lines are lost only with a count |
| Boot tracker, restart, watchdog | crash counter in NVS | `check_boot_failure_history`, `safe_restart` | boot phases, task | crashes at any step | IMAP is disabled after three crashes in it; no restart inside a frame |
| IMAP | accounts, schedule, a search's mails | scheduler, search, mark, handlers | queue, storage, mail server | queue full, mark lost, reset between page and mark | a page for every mail, once |
| ChatGPT | prompts, runs, retries | minute check, query, handlers | queue, storage, clock | checks late, clock set, prompts renumbered | one run and one page per prompt and minute |
| Grafana | one flag | webhook | queue, settings | none of its own | an alert is a page |
| Web server | sessions, settings | handlers | queue, storage, radio settings | handlers change radio settings | the radio is tuned to what the page asks |
| Host tool | serial session, retries, plan of the wizard | send, wizard, factory reset | AT console | answers carry no number and come late | what it reports is what happened |

Where the code departs from what its documentation says is in section 7; hazards, at their lines, are
in `PROJECT.json`.

## 2. Modules

| Module | Models | Built on |
|---|---|---|
| `PageFifo` | abstract: the bounded FIFO the queue promises | |
| `MessageQueue` | the ring of transmission.cpp; refines `PageFifo` (`RingIsFifo`) | `PageFifo` |
| `DeviceState` | values, guards and transitions of `device_state` | |
| `Transmission` | both cores around the queue, the radio, the raw slot and `flash_guard` | `MessageQueue`, `DeviceState` |
| `LoopServices` | Core 1's loop: boot phases, WiFi, NTP, MQTT, and `device_state` under them and Core 0 | `DeviceState` |
| `Cellular` | the build with a modem: boot, registration, the choice between WiFi, modem and access point | `DeviceState` |
| `MqttClient` | connection failures, restarts and suspension across resets; messages and acknowledgements | |
| `Settings` | RAM, `/settings.json`, NVS calibration and the other files under resets and failed saves | |
| `ImapClient` | mails, marks, accounts, their schedule and the handlers that edit them | |
| `ScheduledPrompts` | ChatGPT prompts against the clock, retries, the file and the handlers | |
| `HostTool` | the PC tool and, at the other end of the line, the console as it meets it | |
| `TransmissionProofs`, `LoopProofs`, `MqttProofs`, `CellularProofs` | the theorems | `MessageQueue` and `Transmission`, `LoopServices`, `MqttClient`, `Cellular` |
| `SettingsProofs`, `ImapProofs`, `PromptProofs`, `HostProofs` | the theorems | `Settings`, `ImapClient`, `ScheduledPrompts`, `HostTool` |
| `MC...` | values for TLC where a .cfg cannot write them | |

**Transmission.** `tx_pc` is Core 0's place in `transmission_task`, `loop_pc` Core 1's in one pass
of `loop`; each action is the code between two points at which the other core can be seen to have
acted. A frame is its length: `current_tx_total_length`, `current_tx_remaining_length`, `aired`
(bytes the radio took) and `frame` (bytes the page needs) say whether it went out whole. The
radio takes bytes and raises its interrupt whenever it has room, or never, in which case the
refill loop times out. `session` is what the host on the serial line believes (it was told to
send a payload). Background services may queue a page, or access flash under `FlashGuard`; their
own writes to `device_state` are left to `LoopServices`. `disturbed` is a history variable: during
this frame Core 1 has reset the lengths (`at_reset_state`), has taken the radio to standby
(`AT+FREQ`, `AT+FREQPPM`, `AT+POWER`, `AT+ABORT`), or has written NVS without `flash_guard`
(`mark_boot_success`). Each of them can lose bytes of the frame (`aired` is short of `frame`).

**LoopServices.** `loop_pc` is the place in a pass of `loop`, with a step of its own for every
read and every write of `device_state`, so that Core 0 (`TxStart`, `TxEnd`) can write in between.
`new_state` and `ret` are what `change_device_state` is about to write and where it returns.
Delays and intervals may be over or not at each look. WiFi is external: `in_range` (a scan finds
a stored network) and `station` (`WL_CONNECTED`) come and go. The model is the default build,
`network_mode` AUTO, a device with stored networks. `Activities` selects what goes on around
the services: transmissions, the console, a configured broker, outages of the network.

**Cellular.** The build with `ENABLE_GSM`. `pc` is where Core 1 stands in `network_boot` or in the
network section of `loop`, with a step wherever the code waits (`delay`, `async_delay`, an answer of
the modem), since Core 0, the console and the world move there. The modem's dialogue is its outcome,
taken from `cell`, what its network is like at that moment. `lock_broken` is a history variable: WiFi
came up although the mode is GSM, because `AT+NETWORK=GSM` arrived while it was connecting.

**MqttClient.** What outlives a reset (`nvs_reboots`, the broker's session) against what does not.
`pc` walks through `setup` and the parts of `loop` that matter; the device may crash at every step.
A message is handled in `mqtt_callback` (step `mqtt`) and confirmed to the broker afterwards (step
`puback`). `restarts` counts the restarts since the last success, `unanswered` the messages refused
without an answer yet.

**Settings.** Every write to flash is a step; a save is truncation, then contents, and a reset, an
answer that the guard is not to be had or a full file system may come between (`MaxMishaps` of
them). `settings` and `nets` are RAM, `file` the image, `nvs` the calibration, `others` the
certificates and prompts as files of their own. `answer` is what the user was told. A write can
fail, which the code sees, or be cut short, which it does not see: it takes any number of bytes but 0
for success (storage.cpp:282). `short` remembers the latter, `behind` that NVS refused a write,
`wiped` that there was a factory reset.

**ImapClient** and **ScheduledPrompts** each have their scheduler's pass, the file of their
accounts or prompts, every handler that edits it, and resets. A mail's `paged` and a prompt's `runs`
count pages; `unsure` are the mails whose mark may not have reached the server, `Unreadable` those
that no attempt can fetch. Time in `ScheduledPrompts` comes in ticks, `PARTS` of a minute; it passes
during a query and during the pause of a second that follows each prompt of a check, also one without
a key or a model (`Pause`, `PauseEnds`: chatgpt.cpp:843). `shifted` remembers that a minute ended
within a check, or that the clock was set or the prompts were edited.

**HostTool.** `step` is the place in `main`, `exec` in `at_execute_command`, `why` what the command
is for. `up` and `down` are the UART's two directions. The device is its console and what keeps it
from being served (`blocked`: a transmission or a service that holds `loop`). The tool's read gives
up after a second (twenty polls of 50 ms), so an answer that is not there when the device is blocked
may come after the next command was written: that is the hazard, and `late` records it. A write may
fail: of a command (`WriteFails`), after which nothing was sent, or of a payload, after any of its
parts (`PayloadFails`, also the 20 s limit; an interrupt leaves one cut off too), after which the
console still waits for the rest and takes the next `AT` for it. `late` records that as well.
`asked` are the settings the wizard will send, which a power of 0 dBm is not one of
(flex-fsk-tx.cpp:1907), and `confirmed` those the device answered with OK. An OK does not say that
anything was stored: what is stored is the subject of `Settings`.

In every module a definition marked *Mutant* is a plausible error in the code; it is not part of
the model.

## 3. Runs

| Run | Checks | Bounds, and why they are enough |
|---|---|---|
| `tx_console` | safety of both cores with commands and services; the ring is a FIFO | 2 slots; frames longer than the radio's FIFO by one and by more than a refill, raw and paged; FIFO and buffer scaled down with them |
| `tx_live` | pages leave, raw frames are served, and with them every window ends | 1 slot, frames of the FIFO's size; a longer frame repeats the same loop |
| `tx_doc_frame` | a statement of the changelog, violated | the smallest frame that needs a refill |
| `loop_states` | the ownership of `device_state` by services, with all activities | 2 attempts for NTP and WiFi instead of 10 and 3: one that is the last and one that is not |
| `loop_live` | WiFi found again, boot complete, synchronisations end | the same; broker and outages |
| `mqtt` | suspension, restarts, messages and answers | 2 failures and 2 restarts instead of 5 and 5; a queue of 1; one message that is a page and one that is not; one save that fails |
| `flash` | what is stored, loaded and reported | 1 network of 2, 3 calibrations (none and two), 2 mishaps: one in what the other left |
| `cellular` | the modem's flags, one transport | both families of modem, 2 modes of the longer table, 2 tests, 2 retries; 1 outage and 2 console requests |
| `cellular_live` | boot ends, searches end, a network that is good is used | both families, 1 test and 1 retry; networks that answer, refuse and are not there, and a modem that stays silent |
| `mail` | mails become pages | 2 accounts, 2 boxes, 3 mails, a search limit of 2 instead of 10, the latest mail unreadable: it takes one of the two places at every search; a queue of 1; 2 requests, 1 reset |
| `prompts` | runs, retries, minutes | a week of 5 minutes of 2 ticks; 3 prompts, two of them in the same minute and the first without a model, and room for a fourth; 3 attempts as in the code; 1 event |
| `host` | the tool's reports, copies, its end | 2 messages, 2 command and 2 message retries, every mode of invocation, the wizard with a value the device refuses; 1 fault: a read or write that fails, or a service that holds `loop` |

Frames are scaled: what matters is whether a frame fits the FIFO in one go and how often it is
refilled. `CHECK_DEADLOCK` is off in `flash`, where the device ends up waiting for a user who has used
up his mishaps and commands, and in `host`, where the tool ends; everywhere else nothing may stop.
Each component's type invariant is checked together with those state predicates that describe the
soundness of its control variables, as one invariant (`LoopInv`, `MqttInv`, `SettingsInv`,
`CellularInv`, `ImapInv`, `PromptInv`, `HostInv`): conjunctions of named parts. That of
`Transmission` is proved.

**Fairness.** In general: the tasks of both cores are scheduled (weak fairness of their steps), and
what a loop tries again and again while it stays possible happens in the end (strong fairness of that
step). In particular:

- `Transmission`: FreeRTOS hands `flash_guard` to the waiting task of the highest priority,
  `transmission_task` (strong fairness of `LockFlash`).
- `LoopServices`: `millis()` passes every delay, and loop looks at each again and again. A network
  that is back for good and a time server that answers are assumptions in the properties (`Settles`),
  not fairness of the environment. `loop_live` leaves transmissions out because with them the
  properties are false: the device can be stuck in `TRANSMITTING` (section 7).
- `MqttClient`: the broker delivers what it holds, and a publication that is tried again and again
  succeeds; crashes and edits are assumed to end in the properties.
- `Cellular`: the attempt's time-out and boot's budget pass, retries come due, and a WiFi network in
  range is joined in the end.
- `ImapClient`: polls of an account that come due again and again are made, a mark arrives in the
  end, and a mail that can be fetched is, when tried again and again. Nothing of the kind is assumed
  of the mails in `Unreadable`.
- `HostTool`: the tool and `loop` run, services and transmissions end, the console's time-outs pass.
  That includes that its input delivers the next line or its end and that the user answers the
  wizard, for either of which the tool waits without a limit. Reads and writes that fail are bounded.

## 4. What the runs show

- The ring is a FIFO of valid pages, seen by either core, also while a page is being sent.
- Guarded flash accesses never meet the RF window.
- A frame goes out whole unless, while it is on the air, a console command ends on Core 1, a radio
  command is carried out there, or the boot tracker writes NVS without the guard, and unless the radio
  asks for no more (a refill that times out). Without console commands and once the boot is marked
  successful every frame reported as sent is whole (theorem `ServicesKeepFramesWhole`).
- The console cannot leave the device in `TRANSMITTING`.
- The raw buffer has one owner at a time; a raw frame and the pages are always served.
- NTP and MQTT nest properly on `device_state`: neither restores a value of its own, a
  synchronisation in progress always has a state to restore, and each value stands only while
  its service can take it back, although WiFi and Core 0 write over both.
- WiFi recovers and the boot sequence completes after any finite number of outages.
- The MQTT client restarts the device a bounded number of times per outage whatever resets come
  between, is never suspended without a time to retry, and once the broker is back takes and answers
  everything.
- After any two mishaps the device comes up with what its settings file holds. A calibration in NVS
  outlives the file, and only the user changes it; whether it should outlive a factory reset is
  another matter (`FactoryResetClears`, section 7), and the property leaves it open. "Stored" is
  true when it is said, unless the write was cut short and the code did not notice. The OK of
  AT+FREQPPM and AT+FLEX says nothing of it (they do not look at the outcome, at_commands.cpp:220).
- The modem's flags never outlive its power or its session. WiFi and the modem carry data together
  only after a mode switch in the middle of a WiFi connection (`lock_broken`). Boot ends whatever
  the modem answers. A search that finds no network is given up. Not so an attempt that is refused,
  one whose modem falls silent (gsm.cpp:1092), nor, with a SIM800L that was registered before, one
  that has lost its network (gsm.cpp:1266-1282): there each pass restarts the time-out.
- No mail is marked as seen without a page; a mail is paged twice only when its mark was in doubt;
  a full queue, other accounts and fewer unreadable mails than a search returns do not hide a mail
  for good. Ten later mails that cannot be fetched do (imap.cpp:184).
- A prompt's run ends in at most one page and three attempts (an attempt may query twice, as it falls
  back to another model); a minute is served twice or not at all only if a check, with its queries and
  the pauses between its prompts, ran past a minute's end, a check came late, the clock was set or the
  prompts were edited.
- The host tool never reports a message as sent when the device took nothing since it asked. Once an
  answer came late or a payload was cut off, though, what the device took may be another message, or
  a command taken for a text: `AcceptedAsReported` holds while every answer is in time and each
  payload that was begun is written whole.
- While every answer is in time, the wizard restarts the device only after an OK to each setting it
  was to send. That is no promise that the settings are in force afterwards (section 7).

## 5. Proofs

The proof modules hold for every value of the constants that the assumptions allow: every queue
size, every set of frame lengths and of commands, every limit of the MQTT client.

- `QueueTypeCorrect`, `QueueConsistent`, `QueueImplementsFifo`: `RingConsistent` is inductive with
  the type invariant; the refinement is a step simulation on its reachable states. The facts
  about the wrapping index are lemmas.
- For `Transmission` the inductive invariant `TxInv` joins the type invariant, `RingConsistent`,
  the fact that a page being sent is the ring's head, `FlashKeptOutOfRf`, `TransmittingOnlyInRf`,
  what the raw slot's owner knows at each step, and what the lengths say at each step of a frame
  that nothing disturbed. None of the last three is inductive as stated: the steps before the
  window, and between the test of the raw slot and its filling, need the stronger form.
  From it follow `TxTypeCorrect`, `FlashExclusion`, `NeverStuckTransmitting`, `RawBufferSafe`,
  `UndisturbedFramesComplete`, `TxRingConsistent` and `TransmissionImplementsFifo`.
- `ServicesKeepFramesWhole` adds that without commands, and once the boot is marked successful, no
  frame that begins is disturbed.
- `LoopSound` (`LoopInv`) and `StateGivenBack` (`ServiceStateOwned`), for every number of attempts and
  every mix of activities. The inductive invariant has a part for calls and returns, one that says
  which service holds a saved state at each step and what the call of `change_device_state` under
  way will write (`OwnInv`), one for the synchronisation, and `WifiInv`: the attempts to connect
  stay below their maximum because no service can restore `WIFI_CONNECTING` to a connection that has
  used up its attempts. A value NTP saved before the connection came up is the case that needs it.
- `SuspensionSound` (`MqttInv`) and `RefusalsKept` (`RefusalsAnswered`), for every limit on failures
  and restarts that a `uint8_t` holds, every queue size and every set of messages. `MqttInv` is not
  inductive: that a restart is a counted one needs the agreement of RAM and NVS once `setup` has run,
  and that the count does not wrap needs a bound on what failed saves add (`CountInv`).

- `CellularSound` (`CellularInv`) and `TransportsApart` (`OneTransport`), for every modem, network,
  number of modes and tries. That a stage of the connection has the one below it rests on what the
  step Core 1 has reached has behind it, and on no attempt being under way with a session up
  (`StagesInv`). That WiFi and the modem stay apart needs two facts the code never tests: WiFi is away
  at every step that drives the modem, and while `device_state` says that an attempt is under way
  (`Apart`). Core 0 and `AT+ABORT` can end an attempt there but not begin one. In the GSM mode WiFi
  may come up once, from a switch between the sample of the mode and `check_wifi_connection`; the
  history variable `lock_broken` excepts it, as in the property.
- `SettingsKept` (`SettingsInv`), `BootsAsStored` (`BootedAsStored`), `StoredMeansStored`
  (`AnswerStored`) and `CalibrationIsTheUsers` (`CalibrationOnlyByUser`), for every table of networks
  and every set of images. The inductive invariant says at which write an operation is in which phase
  of `setup` (`PlaceInv`), what the file holds between the writes (`FileInv`), and that NVS,
  `core_config`, the file and RAM agree on the calibration unless NVS has refused a write (`PpmInv`).
  `short` enters where the file is written: a write that was cut short leaves a file that is broken, or
  one with the same settings and fewer networks, and what was said of it is excepted.
- `MailSound` (`ImapInv`), `SeenMailsPaged` (`SeenMailPaged`) and `MailsPagedOnce`
  (`OnePagePerMail`), for every set of boxes and every limit. The invariant follows the mails through a
  check: those still listed are unread and each is listed once (`NumsInv`), and a mail once paged is
  marked on the server, or its mark was lost, or it is the one about to be marked (`MarkInv`).
- `PromptsSound` (`PromptInv`), `PromptsRunOnce` (`OneRunPerMinute`) and `MinutesAreServed`
  (`MinutesServed`), for every length of the week, of a minute and of the list of prompts. The last
  one is the longest argument here. While checks are in time and no minute ends within one, the
  check of a minute comes at a part of it no later than the check before did, so that a minute ends
  with its check behind it (`TickHistory`, `NextTick`); a minute that does end within a check is
  what `shifted` excepts, since time passes both in a query and in the pause after a prompt. A
  prompt whose run has failed attempts is then as many minutes past its own as it has failed
  (`RetriesInv`): a new run is due only when no retry is pending. That uses `MAX_ATTEMPTS <=
  MINUTES`, three attempts against a week of 10080 minutes.
- `HostSound` (`HostInv`), `SuccessHasCause` (`SentMeansAccepted`), `ReportsAreTrue`
  (`AcceptedAsReported`) and `WizardRestartsComplete` (`RestartsComplete`), for every set of command
  lines, settings and messages, every number of retries and faults and every size of the queue. An
  answer carries no number, so the argument is about what the line can still hold:
  - *However late the answers.* READY is heard only while the console waits for the text, or has its
    answer to something else behind it; an OK after the text is on its way only if the device took
    something (`ReadyInv`, `FinalInv`). A payload is *live* when the device will take it as it stands.
    `HeldInv` counts a live payload with the copies the device has and bounds the sum by one more than
    the faults: an attempt is repeated only after an answer that says no, for which nothing is live,
    or after a fault that is counted. A transmission that holds the console up for seconds delays an
    answer but makes no copy.
  - *While every answer is in time* and no payload was cut off, tool and console are in step
    (`TimeInv`): nothing is on the line when the tool is about to write, what comes back answers the
    command in progress, and an attempt that is over has left neither a payload nor a waiting
    console behind. A command that could not be written has left the line as it was; a payload that
    could not makes `late` true, and with it the strengthening says nothing more. It holds only
    under `~late`, and an interrupted tool keeps the part about the device (`InTime`) alone.
  - The wizard's plan ends with RESET, and what it was to send is confirmed or still planned
    (`RestartInv`). A setting leaves the plan only with an OK that is its own, by `TimeInv`, or with
    the rest of its kind and the restart.

Assumptions: the modules' own `ASSUME`s on the constants and nothing else (`QueueAssumption`,
`TransmissionAssumption`, `LoopAssumption`, `MqttAssumption`, `CellularAssumption`, `SettingsAssumption`
and `ImagesAssumption`, `ImapAssumption`, `PromptAssumption`, `HostAssumption`); TLC evaluates them on
the runs of the same modules. They ask that limits are positive numbers, that a set has the members the
code names, that a missing or broken file is not one of the images, and that the settings the wizard
asks for are finitely many, of one kind each, and none of the tool's other commands.

Every safety invariant and action property of the passing runs is stated by a theorem. Only
model-checked: liveness and `ENABLED` (`BrokerFound`, `UnreadMailPaged`, `PagesLeave`, `ToolEnds`
and the like), which are out of TLAPS's reach here.

## 6. Abstractions

- Time: only *over or not yet*, but for the minutes of `ScheduledPrompts`. Durations appear as facts:
  the longest RF window, about 15.4 s, is shorter than `FlashGuard`'s 30 s time-out, so that time-out
  is left out of `Transmission`.
- Bytes of a frame are counted, not represented; capcodes, texts, frequencies and certificates are
  not, beyond what tells them apart.
- `Transmission` has `device_state` written by the console and Core 0; `LoopServices` has all
  writers but a coarse transmission and console; `Cellular` has the modem's writers with the steps of
  `change_device_state` in one. Each property is stated where its writers are.
- Services that only queue a page (web, REST, Grafana, IMAP, ChatGPT) are one action of
  `Transmission`; `ImapClient`, `ScheduledPrompts` and `MqttClient` see the queue as room or none.
- `TakeRaw` does in one step what the task does in a few: it clears `raw_tx_pending` before it copies
  the buffer (transmission.cpp:302-306). A console that filled the slot within those lines would need
  a payload announced and received in the time of a memcpy.
- In `HostTool` a text is shorter than `MAX_FLEX_MESSAGE_LENGTH` and is not itself a command. A
  command is one `write`: it goes out whole, or `write` returns an error and nothing went out.
- A query, a mail's text, the modem's AT dialogue and a WiFi scan are their outcomes.

## 7. Findings

The run `tx_doc_frame` violates `FrameComplete`: `at_reset_state` clears the count the refill loop
works on (at_commands.cpp:101) of a frame on the air, where CHANGELOG.md:35 "closes the remaining ways
Core 1 activity ... could stall, truncate or extend a FLEX frame already on the air".

### Statements the code does not keep

The following are stated in the modules as properties, and no run checks them because they are
false of the code. Each is refuted by TLC when it is checked in place of a run's properties with
the constants given: those of `tx_doc_frame.cfg` for `Transmission`, those of `loop_states.cfg` with
the `Activities` named for `LoopServices`.

| Property | The code | The statement | Constants |
|---|---|---|---|
| `NoFlashDuringRf` | the boot tracker writes NVS without `flash_guard` (hardware.cpp:287) | CHANGELOG.md:38 "no flash access, radio SPI access or background service can stall the SX1276 FIFO refill" | `Commands = {}` |
| `NoRadioSpiDuringRf` | radio commands check the guard, then act (at_commands.cpp:196) | the same line | `Commands = {"RADIO"}` |
| `StagingKept` | the end of a transmission writes IDLE over a staged payload (transmission.cpp:273) | AT_COMMANDS.md:178: the device waits for the text after `AT+MSG` | `Commands = {"MSG"}` |
| `TransmittingMeansOnAir` | NTP saves `TRANSMITTING` and restores it (ntp_time.cpp:51) | AT_COMMANDS.md:179 "Device currently transmitting data" | `{"transmissions"}` |
| `NtpSyncMeansInProgress` | a change of transport abandons the saved state (network.cpp:77) | AT_COMMANDS.md:183 "NTP time sync in progress" | `{"outages"}` |
| `CommandsRefusedOnAir` | `TRANSMITTING` is overwritten from Core 1 (at_commands.cpp:98, wifi.cpp:250), after which commands are accepted | AT_COMMANDS.md:186 "everything else returns `ERROR` until the transmission guard clears" | `{"transmissions", "console", "broker"}` |
| `SettingsEndSuspension` | saving clears the suspension in RAM and restarts; the count in NVS suspends the client again (web_handlers_settings.cpp:1759) | its log line :1761 "Suspension flags reset due to configuration change" | `mqtt.cfg` |
| `FactoryResetClears` | a factory reset formats SPIFFS and leaves NVS alone (storage.cpp:1033-1053), and the calibration there comes back | USER_GUIDE.md:233 "Reset all settings to defaults (clears NVS and SPIFFS)", also :579, :583-584; AT_COMMANDS.md:141 "Reset all settings to factory defaults" | `flash.cfg` |
| `ReconnectsInBackground` | a refused registration, a modem that does not answer (both gsm.cpp:1094) or a failed data connection (gsm.cpp:1282; with a SIM800L also a network that is lost) restarts the time-out at every pass, so AUTO never looks for WiFi | README.md:18 "automatic WiFi -> GSM -> AP failover with reconnection attempts in the background" | `cellular_live.cfg` |

Met in passing, with no property: a device that fell back to AP mode stays in it until `AT+NETWORK`
(flex-fsk-tx.ino:424); docs/AT_COMMANDS.md:240 has `OK` after a transmission, the code answers when
the page is queued; the console is not read during a transmission, so `AT+STATUS?` and `AT+ABORT`
wait for its end (AT_COMMANDS.md:186); docs/REST_API.md:90 accepts any frequency,
`queue_add_message` validates it; the web handlers log an IMAP suspension as reset that is not
(web_handlers_settings.cpp:2147: the schedule is built at boot only); a retry of a prompt survives
its edit; the host tool's effective time-out is one second, not its `AT_TIMEOUT_MS`
(flex-fsk-tx.cpp:66, 328); its wizard accepts -9..20 dBm (:1817), the device 0..20; its terminal
settings are not restored after a normal end, as the port is closed first (:2099).

Further, with no property of their own; the properties they concern except them or claim no more
than the code does:

- A save of the settings is reported as done when any bytes at all were written
  (storage.cpp:282-292). On a file system that is full, or where the settings do not fit the document
  of 4096 bytes (:198, a limit with ArduinoJson 6), the file is incomplete (`short`).
- `AT+FLEX` answers OK whatever became of the save (at_commands.cpp:574-576, 586-588, 594-596), and so
  does `AT+FREQPPM` (:220).
- `AT+NETWORK` answers OK when the switch was refused (at_commands.cpp:404-405, network.cpp:369-372),
  and what it sets is kept in RAM (network.cpp:23, 387): the mode the wizard sends is lost in the
  restart with which the wizard ends, although it reports the device as configured.
- The wizard takes a power of 0 dBm (flex-fsk-tx.cpp:1816) and does not send it (:1907).
- After a payload that could not be written whole (flex-fsk-tx.cpp:877-896, 1032-1060) the tool tries
  again while the console still waits: the `AT` it begins with becomes part of the text or frame.
- Ten mails that cannot be fetched hide the older mails of their box for good (imap.cpp:184).
- The pause of a second after each prompt (chatgpt.cpp:843) is enough for a check that begins in the
  last second of a minute to miss that minute for a prompt further down, or to serve a minute twice.

## 8. Not modelled

- **Logging**: a ring of lines under `log_guard`, read by nothing in the program.
- **Display**, **Utilities**, **Board definitions**: output, conversions and constants.
- **FLEX encoder**: vendored (include/tinyflex); a frame is its length.
- **Boot tracker's crash counter**: `check_boot_failure_history` looks for a crash in
  `BOOT_SERVICES_PENDING`, but records the phase of `setup` (hardware.cpp:312), so that its condition
  cannot become true and IMAP is never disabled by it: there is no behaviour to state a property of.
- **safe_restart's wait**: 15 s against a window of up to 15.4 s is a matter of two constants.
- **Tuning**: an outcome in `Transmission`. `AT+FREQ` and a page's tuning are separate writes of the
  radio and of `current_tx_frequency` on two cores (at_commands.cpp:196, transmission.cpp:323).
- The server's HTML, JSON text, static addresses, mDNS, RTC drivers, battery, OLED and buttons.

## 9. Plan

Done: all the modules of section 2. Next, in this order:

1. `RadioTuning`: frequency wanted, current and set, with both cores as writers.
2. `Logging`: `log_guard` and `flash_guard` in both orders; deadlock freedom of the two locks.
3. `HostTool`'s device end shown to be an abstraction of `Transmission`'s console.
