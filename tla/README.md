# Verification of brymenble

TLA+ models of the `brymenble` SDK (Python, asyncio, bleak) for the Brymen
BM78xBT multimeter, the TLC runs that check them on small instances, and TLAPS
proofs of what holds for every instance. Paths below are relative to the
repository; `transport.py` and its neighbours are in `src/brymenble/`.

## 1. The system

The host holds one BLE connection to one meter. The meter accepts a single
connection, streams a notification about every half second once its password
has been verified, and answers commands through a characteristic of its own.

| Component | State | Operations | Talks to |
|---|---|---|---|
| Connection life cycle, `BrymenbleClient` | `_bleak`, `_queue`, `_loop`; per call: attempt count, await it is suspended at, inner task, exception in flight | `__aenter__`, `__aexit__`, `close`, `reconnect`, `ensure_connected`, `_connect`, `_close` | bleak (connect, write, read, start/stop_notify, disconnect), command channel |
| Command channel | none of its own; one characteristic shared by all commands | `send_command`, `sync_rtc` | bleak, `commands.py`, `parsers.py` |
| Frame delivery | `_queue` (one place), `_last_notify`, the loop's callback queue, suspended getters | `_on_notify` (worker thread), `_handle_notify` (loop), `wait_frame`, `latest_frame`, `frames` | bleak's threads, consumers, parsers |
| Streaming loop | `pause_since`, its await | `read_stream` with `on_pause`, `on_lost`, `on_reconnected`, `on_retry` | all of the above |
| Parsers, CRC | none | `parse_stream_frame`, `parse_info_packet`, `parse_reading_packet`, `parse_rtc`, `parse_command_response` | frame delivery, command channel |
| Command packets | none | `build_command_packet`, `encode_*` | command channel |
| Scanner | `found`, one dict for each scan | `find_meters`, `find_first_meter` | bleak's scanner |
| Formatter, console | none | text output | streaming loop's callbacks |
| Tools, examples | a run's local state | `probe`, `capture`, `connection_state`, `live`, `display`, `debug_stream` | the client |

Everything runs on one event loop except `_on_notify`, which bleak may call on
a worker thread. What is hard:

* *Interleaving at awaits.* Any number of tasks may use one client; nothing is
  locked. `_connect` reads `self._bleak` again after each await, `_close` reads
  it before its await and clears it after.
* *Failure.* Each bleak call may succeed, raise, hang until its timeout, or
  take effect after its timeout. Links drop at any time.
* *Cancellation.* Timeouts cancel an inner task and await it; a cancellation
  from outside may arrive at any await, that one included.
* *Ordering.* Callbacks posted by a worker run after the session they belong to
  may have been replaced; consumers may be suspended on a queue that has been.
* *Time.* A pause (silence, link up) and a power-off (silence, link down) are
  told apart by timeouts, a grace period and an optional cap.

What makes each component correct:

* Life cycle: no link is left up that nobody can close; a normal return means a
  live, verified, subscribed link; failures surface as the documented
  exceptions after cleaning up; retries are counted exactly; cancellation is
  obeyed; every call returns.
* Command channel: an answer is never older than its command, and a call that
  no other call overlaps gets the answer to its own; damage does not pass for
  data.
* Frame delivery: the newest frame is kept until taken, no frame is given twice
  or out of order, no waiting consumer is forgotten.
* Streaming loop: a pause costs no connection, a power-off and a stuck meter
  are noticed within a bound, callbacks come in order.
* Parsers, command packets, formatter: what the meter's display and clock show
  is what a consumer reads and prints, what a caller asks for is what the meter
  executes, and a damaged packet is refused or flagged without costing the rest
  of its frame.
* Scanner: the first meter heard in a scan, with its latest signal, and no
  other device.
* Tools and examples: `probe` restores what it changes, or says that it did
  not; every program ends with its connection closed, an example ends when the
  meter is gone, `connection_state` comes back whenever the meter does.

## 2. Modules

| Module | What it is |
|---|---|
| `Connection` | the life cycle: tasks interleaving at awaits over a radio that fails |
| `Session` | what the life cycle promises a caller: closed, busy, open, half |
| `SessionRefinement` | the mapping under which `Connection` implements it |
| `MCConnection` | instances of both for TLC (symmetry) |
| `Overlaps`, `MCOverlaps` | `Connection` with a memory of which calls were overlapped; its instance |
| `ConnectionProofs` | proofs for any interleaving, and for callers that do not overlap their calls |
| `OutcomeProofs` | proofs of how calls end (cancelled, out of retries, failed, connected, after overlaps), and that `Connection` implements `Session` |
| `FramePath` | worker thread, event loop, one-place queue, consumers, sessions |
| `Mailbox` | what the one-place queues promise |
| `MailboxRefinement` | the mapping under which `FramePath` implements it |
| `MCFramePath` | instances of both for TLC (symmetry) |
| `FrameProofs` | proofs for any number of consumers and sessions, that refinement included |
| `ReadStream` | the streaming loop in discrete time |
| `StreamProofs` | proofs of its bounds for any timeouts |
| `Crc`, `Packets` | CRC, parsers, command builders and formatter as operators |
| `CrcProofs` | the CRC notices every burst of sixteen bits, in packets of any length |
| `Wire`, `MCWire` | computer and meter exchanging those packets over a link that damages them; its instance |
| `WireProofs` | proofs for any address, passwords, times and displays, and any damage to sixteen neighbouring bits |
| `Commands` | `send_command` by any number of tasks on an open connection |
| `Probe`, `MCProbe` | its users: the script of `probe.py`, or an application; their instance |
| `ProbeProofs` | proofs for any number of tasks and late requests |
| `Scanner` | discovery: filter, scans, retry loop |
| `App` | `Scanner` and `Session` composed by the examples and `connection_state.py` |
| `AppProofs` | proofs for any meters, advertisements and presses of Ctrl-C |

`FramePath` takes from `Connection` that queue and loop are set and cleared
together (`LockStep`, proved); `ReadStream` takes `ensure_connected` as one
step that ends (`EveryCallReturns`, checked) with a link and a fresh queue
(`SuccessIsStreaming`, proved) or with an exception. `Commands` takes from
`Wire` that a damaged response either does not parse or has `crc_ok` False
(`DamageNoticed`, proved), and `App` takes `Session` for the client
(`ImplementsSession`, proved).

### Connection

A task's `pc` names the await it is suspended at:

| `pc` | await | lines of `transport.py` |
|---|---|---|
| `connect` | `asyncio.wait({connect_task})` | 208 |
| `issue`, `write`, `read` | the round trip of `send_command`: task created, in `write_gatt_char`, in `read_gatt_char` | 342, 329, 332 |
| `settle` | `asyncio.sleep(0.5)` | 246 |
| `startNotify`, `disconnect`, `stopNotify` | `_gatt_with_timeout` | 182 |
| `retry` | `asyncio.sleep(retry_interval)` | 304 |
| `idle` | outside a call | |

With `reap` set, the task is in the `finally` of one of these waits and awaits
the inner task it has cancelled (190-193, 218-221, 352-355). `exc` is the
exception in flight and, once idle, the outcome. What runs between two awaits
is one step; `Dial`, `CloseStart`, `Closed`, `Raise` and `Abort` name the
stretches of code that several awaits lead into. Exceptions that
`_connect_with_cleanup` normalises are normalised on their way into `_close`,
which no one can observe in between.

`bleak`, `queue` and `loop` are the fields; a queue is named after the client
object it was created with. The radio is `link`, `verified` (a success response
to the password), `subscribed`, and `stranded`, a history variable: clients
that `_close` gave up on while their link was up. The password's format is
checked on every connect and may change between connects (`self.password` is
public). `attempt` is not counted when `retries` is None, where the code only
passes it to a callback.

Two constants choose the callers: `Overlap` (life-cycle calls may be in
progress at the same time) and `Reenter` (`async with` on a client that is
already connected).

`Overlaps` adds `overlapped`, the tasks whose present call another task's call
has run into. Overlapping calls may forget a live client, act on each other's or
raise AttributeError; its properties are about the calls that nobody overlaps,
and that find what the others left.

### FramePath

`OnNotify` and `Post` are the two steps of a worker thread (reading
`self._loop`, posting), `ready` the loop's callbacks, `HandleNotify` one of
them. Queues are `asyncio.Queue(maxsize=1)` with their list of suspended
getters: `put_nowait` wakes the one that waited longest, which then competes
with `latest_frame` and with other consumers, and goes back to wait when it
finds nothing; a getter that leaves after being woken passes the wake-up on.
`open` is whether the event loop runs: once `LoopCloses`, a worker that still
holds a frame gets RuntimeError from `call_soon_threadsafe` and drops it, and
what was posted before never runs.
Frames carry the session and the number they were sent with. Whether a frame
parses is left open.

### ReadStream

Waits and grace periods count down in ticks; `Tick` is disabled when the loop
has something to do at once. `pauseFor` is the age of `pause_since`. `downFor`,
`quietFor` and `silence` are clocks of the model, not of the code: how long the
loop has watched a link that is down, a link that is up and silent, and no
frame at all. The environment drops links, takes drops back, sends frames, and
closes or reconnects the client from another task. A wait that was suspended
then is on a queue the client has dropped (`old`), with the frame that queue may
still hold; the loop learns of the new connection by `is_connected` alone, and
`pause_since` stays.

### Session and Mailbox

`Session` is the contract of the life cycle for callers in turn: a call that
returns normally leaves a streaming link (or, for `close`, nothing), one that
raises leaves nothing, only a cancelled one may leave something in between, and
nothing but a drop happens between calls. The mapping reads its `phase` off
`Connection`: busy while the task is inside a call, closed when `self._bleak` is
None, open when the link is up, verified and notifying, half otherwise.

`Mailbox` is a slot for each session that a new frame overwrites and a consumer
empties. `FramePath` maps `buf`, `newest` and `delivered` to it; wake-ups,
timeouts, the worker thread and the sessions are stutters.

### Packets and Wire

A byte is a number, a register of the CRC the set of the positions of its 1
bits. The parsers return records with the fields of the source's dataclasses;
where the source looks a name up in a table that is one to one (functions,
units, texts of the LCD) the field holds the code. `value`, a float, is
represented by mantissa and decimals, which `format_reading` prints: integers
of 24 bits survive the detour.

`Wire` puts a packet on the air (`bytes`), may flip bits of it or cut it short
(`damage`), and has the other side read it (`result`). `meant` remembers what
the sender put in. The meter's encoder follows `tests/frame_builder.py`, which
is written independently of the parsers; that it can set status flags and send a
negative mantissa, and how it executes commands, is external. Its clock is set
by `sync_rtc` and lost with its power.

### Commands and Probe

`att` is the queue of GATT requests, served in order. `Begin` makes the write,
`ServeWrite` is the meter executing or refusing it and the task going on to
read, `ServeRead` the read and what `send_command` makes of it. `Abandon` ends a
call by timeout, `BleakError` or cancellation; what it has in the queue is
withdrawn or served late, in the name of nobody. The response characteristic
(`resp`) holds the last response, whoever it was for. `ran`, `alone` and
`author` are history.

`Probe` follows the script of `probe.py` step by step (`step`), with `raising`
for the exception that its `finally` block runs for. Values of settings are the
original, the TEST_ value, and what is read from a damaged response; a garbled
name may not fit into a command when it is written back, which raises
ValueError. Names are not empty: one that is would skip the revert
(`if original_name`, line 219) and still exit with 0.

### Scanner and App

`found` is the dict of `find_meters` as a sequence of its values in insertion
order. Advertisements come from meters, in the two forms the filter knows, and
from other devices, in forms it must tell apart. UUIDs are compared without
regard to case in the code; names, logging and the once-only hint are left out.

`App` follows `examples/_common.py` (`app = "example"`) and
`tools/connection_state.py` (`"tool"`) from the scan to the exit status. A
meter in `on` is powered, in range and not connected elsewhere. A call of the
client ends as `Session` allows, with a success only while the meter is there
and without ConnectionError where `retries=None`. Ctrl-C cancels the main task:
outside a call this ends the program or its `try` block, inside one the call
ends with it or swallows it (see section 4). Exit statuses are those of Python
3.11 and later, where the first Ctrl-C does no more than cancel. A backend that
cannot scan raises BleakError (`ScanFails`) when there is no client to close
yet; both programs end with status 1, `connection_state` with a traceback
(`ScanBroken`).

## 3. Runs

| Run | Instance | What it shows |
|---|---|---|
| `conn_sequential` | 1 task, 3 client objects, `retries` 0, 2, None | everything below for callers that do not overlap |
| `conn_concurrent` | 2 tasks, 5 client objects, `retries` 2, re-entry allowed | what survives overlapping calls, and what a call finds and makes good after them |
| `conn_recovery` | 1 task, `retries` None, a meter that answers now and then | the retry loop gets through |
| `conn_cancel` (violation) | 1 task, `retries` None | a cancellation can be lost |
| `conn_overlap` (violation) | 2 tasks | `_close` forgets a live client |
| `frames_safety` | 2 consumers, 2 sessions, 2 frames each | queue and wake-ups |
| `frames_iterator` (violation) | 1 consumer, 2 sessions | an iterator stuck on an old queue |
| `stream_cap` | timeout 2, grace 3, cap 5 ticks | bounds on noticing, pauses waited out |
| `packets` | 3 times, some 180 displays, damage of one display's frames and of every command and response | the packets, both ways |
| `probe` | 2 tasks, at most 2 late requests | the command channel and its users |
| `app` | 2 meters, 1 other device, 3 advertisements a scan, Ctrl-C twice | scan, connect, stream, clean up |
| `stream_reconnected` (violation) | timeout 1, no grace, no cap | `on_reconnected` without a loss |

Properties, and the mutant of the code each is known to catch:

| Property | Says | Caught |
|---|---|---|
| `Connection!TypeOK` | types; a bleak call is awaited on a client | `_close` without its None check |
| `LockStep` | client, queue and loop set and cleared together | `_close` keeps the queue |
| `SurprisesNeedOverlap` | AttributeError, RuntimeError: only in calls that were overlapped | connect before `self._bleak` is set |
| `AloneIsStreaming` | normal return of a call nobody overlaps: live, verified, subscribed | a timed-out `start_notify` taken for success |
| `AloneLeavesNothing` | such a call lets go of no client with its link up, and leaves none when it fails or closes | the error of a disconnect escapes `_close` |
| `NoOrphanedLink` | a link that is up is `self._bleak`'s, or its disconnect failed | `_close` without disconnect |
| `DocumentedOutcomes` | only documented exceptions come out | `BleakError` not normalised |
| `SuccessIsStreaming` | normal return: live, verified, subscribed | connect skips the password |
| `FailureReleasesLink` | a failed call leaves no client and no untried link | failure without `_close` |
| `GivesUpAfterRetries` | ConnectionError exactly after the attempts allowed | `>` for `>=` in the count |
| `CancellationIsFinal` | a delivered cancellation stays one | cancellation taken for a failed connect |
| `EveryCallReturns` | a call with bounded retries returns | the attempt is not counted |
| `ForeverEndsWhenMeterAnswers` | `retries=None` gets through | `_close` without disconnect |
| `ImplementsSession` | `Connection` implements `Session` | a cancelled teardown forgets the client |
| `FramePath!TypeOK` | types; suspended getters are exactly the waiting consumers | a timed-out getter stays listed |
| `NewestKept` | the newest frame is pending or was given | overwrite keeps the old frame |
| `NoLostWakeup` | where a frame and a waiter are, someone is awake | wake-up not passed on |
| `DeliveredOnceInOrder` | each frame once, in order | take without removing |
| `ImplementsMailbox` | `FramePath` implements `Mailbox` | a woken consumer that times out takes the frame with it |
| `ReadStream!TypeOK` | types; a link belongs to a client, an old queue to a wait | `is_connected` ignoring a closed client |
| `DropNoticedInTime` | at most timeout + grace | drop treated as a pause |
| `StuckMeterNoticedInTime` | cap in whole waits, plus a wait, plus grace | `pause_since` restarted each wait |
| `PauseIsWaitedOut` | a live link is given up only after a cap without a frame or a connection of the loop's own | `pause_since` kept across a frame |
| `PendingFrameLeaves` | a pending frame is taken or goes with its session | a blip never ends the grace period |
| `DamageNoticed` | damage is refused, flagged or harmless | the CRC's inner loop tests the shifted bit |
| `IntactPacketsArrive` | intact packets are read as meant, whatever hits their neighbours | a bad info packet discards the frame |
| `ClockFollowsSync` | after `sync_rtc` readings carry that time | the two parts of the hour swapped |
| `ShownAsOnTheLcd` | what is printed is what the LCD shows | OL after ASCII; decimals without the test for no point |
| `ExecutedAsMeant` | the meter executes what was asked, or nothing | arguments padded on the left |
| `Probe!TypeOK` | types; a request with an owner is the one it waits for | the round-trip task is not cancelled |
| `AnsweredMeansServed` | an answer is not older than its command | the read is made without the write |
| `SoloCallGetsItsOwnAnswer` | without overlap, one's own answer | a failure frame returned as a success |
| `RecoveryKeys` | password and name are original or TEST_ values | a failed read of the name taken for the name |
| `RestoredWhenReported` | a reported revert stays; status 0 says both did | a ConnectionError is not a failed step |
| `RevertsAttempted` | reverts are tried once something may have changed | no `finally` |
| `ProbeEnds` | the script ends | no timeout while reading |
| `FirstSightLastSignal` | the first meter of the last scan, its latest signal | an entry seen again moves to the end |
| `ReleasedAtExit` | closed at exit, Ctrl-C at two places excepted | the tool connects outside its `try` |
| `GivesUpWhenGone` | an example ends when the meters are gone | a failed reconnect is tried again |
| `ToolComesBack` | the tool streams again after every loss | the tool scans once |

Bounds. Two tasks suffice for one to act between two awaits of another, which
every hazard of overlapping calls needs. A client object is free for reuse when
nothing refers to it and its link is down; at most one link is up at a time, so
one more object than tasks, plus two, is always enough and dialling is never
blocked by the bound. `retries` 0 and 2 are both sides of the first attempt
being free. Two sessions give every relation between a frame, a queue and a
consumer of an older session; two frames in a session give one overwrite of one
by the other, and order. The ticks of `ReadStream` make the cap no multiple of
the timeout; both bounds are attained (the run fails with either lowered by
one). `frames_*` stop when their sessions and frames are used up, so deadlock
is not checked there; it is everywhere else.

In `packets` every bit of a response, a command and one frame is hit once, and
so is every window of sixteen bits at both ends and as a whole: the longest
bursts that a CRC of sixteen bits catches for certain. Times and displays take
the smallest and largest value of each field and one where every split of a
field over bytes counts. In `probe` two tasks overlap, and the queue holds at most
two late requests: enough for a write of a call that has ended to be served
before, between and after the requests of the next one, and for two of them to
follow each other. Three advertisements in `app` are two of one meter with
another's in between; two meters and a toggle let the one that was found be the
one that went. Both programs end, so deadlock is not checked in `probe` and
`app`.

Fairness. Weak fairness of a call's own steps (`Progress`) says that the event
loop runs ready tasks, that timers fire, and that a cancelled bleak call ends.
The last is an assumption about the backend: the code awaits the cancelled task
without a bound. Nothing is assumed of callers, cancellations or the meter
except in `conn_recovery`, where a step the meter can answer does not fail every
time it is tried (strong fairness) and the property supposes that drops and
failed disconnects end; without the latter a stranded link keeps the meter's
only connection busy for ever. `ReadStream` also assumes that its consumer comes
back. In the two runs whose counterexamples are lassos or endless stuttering
(`conn_cancel`, `frames_iterator`) the same fairness holds. `probe` has weak
fairness of the script and of the timeouts of its calls, and none of the meter.
`app` has weak fairness of the program and of the ends of its calls, which
`EveryCallReturns` justifies; that the tool's call without a bound gets through
to a meter that is there again and again (strong fairness) is
`ForeverEndsWhenMeterAnswers`; that a meter that is there is heard in some scan
(strong fairness) and that the link to one that is gone times out are
assumptions about the radio.

## 4. Where code and documents disagree

* **A cancellation can be lost** (`conn_cancel`). `suppress(BaseException)`
  around the await of a cancelled inner task (transport.py:192, 220, 354) also
  catches the cancellation of the awaiting task. With `retries=None` the call
  goes on for ever, although its docstring (281-282) says that cancelling stops
  it. Timing: the cancel must arrive between a timeout and the end of the call
  that timed out.
* **A live client can be forgotten** (`conn_overlap`). `_close` clears the
  fields after its disconnect, whatever they hold by then (552-554).
* **An iterator does not survive a reconnect while it waits**
  (`frames_iterator`). `frames()` looks the queue up again for each frame, but
  one that is already suspended in `get()` stays with the old queue
  (transport.py:632-635 against the comment above it and CHANGELOG.md:300-301).
* **`on_reconnected` is also called for the first connection**
  (`stream_reconnected`), transport.py:486-493 against 476.

Seen and not made a run: `retries` counts all the attempts, as line 463, the
tests and `GivesUpAfterRetries` have it ("`retries` attempts with
`retry_interval` between them"), whereas line 269 ("the first attempt isn't
counted as a retry") can be read as one attempt more; when another task
reconnects during a pause, `read_stream` stays in its wait on the old queue with
the old `pause_since`, and may then give up the new, live connection as
`"pause_cap"` although a frame is pending in its queue (421-427, 505-524); a
scanner that raises BleakError (scanner.py:101) ends an example with a one-line
message (_common.py:118) and `connection_state` with a traceback. Entering
`async with` on a connected client leaks the old link (116); a cancellation
while entering leaves the link up and `__aexit__` is not called (149-169); a
notification of an old session can be put into the new session's queue
(565-611); the branch for `RuntimeError` in `read_stream` (496-499) cannot be
taken while `self._bleak` is set, by `LockStep`.

In the command channel and the programs: two commands in flight can take each
other's answers, so that one the meter refused returns normally (328-332);
`send_command` returns responses whose CRC is wrong (357-364), so that damage
can turn a failure frame into a success and a garbled name be taken for the
original and written back by `probe.py`; `try`/`finally` in `probe.py` does not
restore the name when the revert of the password raises BleakError, which
`probe()` does not catch (probe.py:92-100, 216), although the comment at
196 has it "guarantee" the revert; `find_meters` returns a pair (scanner.py:103)
where its annotation and the README's example have a list; the examples connect
before their `try` block (_common.py:85), so that a Ctrl-C while connecting
ends them without `close()`.

## 5. Proofs

Every theorem is for all values of its module's constants: any sets of clients,
tasks, consumers, callers and meters, any retry limits, timeouts, numbers of
sessions, frames, late requests and presses. They rest on the named assumptions
of the modules alone (None is not a client and None as a limit not a number;
no frame is `Empty`; timeouts are natural numbers, `no_data_timeout` and a cap
positive; a scan hears `None` from nobody; what those of `Wire` say is below),
and where it says so on how the client is called:

* `~Overlap`, `~Reenter`: life-cycle calls do not overlap, and `async with` is
  not entered on a connected client. Section 4 shows what happens otherwise.
* `OneTask`: one task makes the calls, the reader of `Session`.

### Life cycle

| Theorem | Property | Supposes |
|---|---|---|
| `TypeCorrect` | `TypeOK` | |
| `FieldsInLockStep` | `LockStep` | |
| `CancellationReachesCaller` | `CancellationIsFinal` | |
| `RetriesExhausted` | `GivesUpAfterRetries` | |
| `NoLeak` | `NoOrphanedLink` | `~Overlap`, `~Reenter` |
| `OnlyDocumentedOutcomes` | `DocumentedOutcomes` | `~Overlap`, `~Reenter` |
| `FailureLeavesNothing` | `FailureReleasesLink` | `~Overlap`, `~Reenter` |
| `SuccessStreams` | `SuccessIsStreaming` | `~Overlap`, `~Reenter` |
| `TeardownKept` | `TeardownReleasesTheLink` | `~Overlap`, `~Reenter` |
| `SurprisesOverlap` | `SurprisesNeedOverlap` | |
| `AloneStreams` | `AloneIsStreaming` | |
| `AloneCleansUp` | `AloneLeavesNothing` | |
| `SessionKept` | `ImplementsSession` | `OneTask`, `~Overlap`, `~Reenter` |

`TypeOK /\ LockStep` is inductive as it stands. The actions end in one of a few
operators (`Goto`, `Dial`, `Closed`, `CloseStart`, `Raise`, `Abort`,
`BeginCommand`, `CallBleak`); one lemma for each says what it preserves, and the
proof of an action cites it.

`NoOrphanedLink` and `DocumentedOutcomes` are not inductive: that a `_close`
clears the client whose link it has just dropped needs the client it awaits to
be the one in `self._bleak`, which needs nobody else to be inside a call.
`SequentialInv` adds `OneCall`, `OnOwnClient`, and `NoSurprise` for the
exceptions in flight. It is proved from what a step does to its own task: a task
that is alone and on the client in `self._bleak` (`Steady`) stays so
(`CallStepSteady`), and its steps bring up no link but that client's and let go
of it only with its link down or its disconnect tried (`Tidy`).

How calls end rests on `Orderly`, which holds under any interleaving: a
cancellation in flight is carried by the wait for a cancelled inner task and by
nothing else, the attempts counted stay within the limit, and a task sleeps
between attempts only if it may try again. `EndsWell` says once for every
stretch of code between two awaits how it can end a call; the theorems read
their case off it. For success, `VerifiedFirst` is needed too: past the password
exchange, a link that is up has been verified.

For calls after overlapping ones nothing can be supposed of the links that are
up. `Tracked` says that a call nobody has overlapped is alone, steady and
verifies its client (`Handshaken`): the three are lemmas about one task, which
the proofs for callers in turn use too, and a new call makes them true whatever
it finds. The one step of another task that can happen beside it is a call that
is over at once, `close()` without a client (`StartsAndEnds`).

The refinement proof takes the five invariants together. A step inside a call
is a stutter; the steps that end one are the cases of `EndsWell`, and map to
`Succeeds`, `Fails`, `Releases` or `Interrupted`.

### Frame delivery

`FramesTyped`, `NothingNewerLost` (`NewestKept`), `WakeupsKept`
(`NoLostWakeup`), `OnceInOrder` (`DeliveredOnceInOrder`), `MailboxKept`
(`ImplementsMailbox`), with no supposition.

`TypeOK` needs to know that a getter is listed once (`ListedOnce`; taking it out
once must take it out) and that nothing refers to a session not yet made
(`NotBefore`). `NewestKept` is inductive on top of that, and so is
`NoLostWakeup`: who leaves a queue after being woken hands the wake-up on,
unless the frame or the waiters are gone.

Order is the hard part, because a late callback puts a frame of the old session
into the queue of the new one. `Queued` follows a frame from the worker to the
buffer: of two frames of a session, the one a worker still holds is newer than
any callback posted, a callback posted later is newer than one posted before,
and all are newer than any frame that has reached a buffer or a consumer.
`Boxed` says of what is in the buffers that it was not given yet, that a later
session's buffer holds nothing older, and that whatever a consumer may still be
given is newer than what it has.

### Streaming loop

`StreamTyped`, `DropsNoticed` (`DropNoticedInTime`), `StuckMetersNoticed`
(`StuckMeterNoticedInTime`), `PausesWaitedOut` (`PauseIsWaitedOut`), for any
timeouts. A bound on a clock is not inductive; what is, is a bound on the clock
plus what is left of the wait (`DropInv`). For the stuck meter the sum depends
on how many waits have passed since the pause was noticed: `QuietInv` says that
this is a whole number of waits whose last began before the cap (`Round`), and
`RoundsFit` that as many as that make `CapRounds` at most, which is arithmetic
with a product and a quotient, and has a proof of its own.

### Command channel and probe.py

`ProbeTyped`, `NoStaleAnswer` (`AnsweredMeansServed`), `OwnAnswerAlone`
(`SoloCallGetsItsOwnAnswer`), `KeysRecover` (`RecoveryKeys`), `ReportsAreTrue`
(`RestoredWhenReported`), `RevertsTried` (`RevertsAttempted`) all follow from one
invariant, `ProbeInv`:

* `CommandsTypeOK`, `Asked`: a request with an owner is the one its owner waits
  for, for the command it sent; a task that reads has been served once, one that
  writes not yet. This gives that answers are not stale.
* `Solo`: the write of a call that no other overlaps is the last of the queue,
  and its read is the only request there. All the late ones are therefore served
  before its own, and the response it reads is its own.
* `Scripted`: the script's calls are alone, and are those of its step.
* `Recoverable`: nothing but original and TEST_ values is in the meter or on
  its way there. For what has been reverted it has to speak of the queue as
  well (`Settled`): the late write of a step that timed out could undo it, and
  does not because `Solo` puts it before the revert.
* `Progress`, `Restoring`: where the script is tells what it has done.

### CRC

`BurstsCaught`: of two packets that differ in up to sixteen neighbouring bits
and nowhere else, `verify_crc` refuses one, for packets of every length and
content, wherever the bits are, the stored checksum included. A register is
followed by induction over the bytes (`CrcComputes`) and over the turns for a
byte (`TurnFacts`); induction itself is derived from the well-foundedness of
`<` on Nat (`Induction`). A turn is linear (`TurnLinear`), takes nothing but the
empty register to the empty one (`TurnKernel`), and shifts while it meets no 1
bit (`TurnShifts`). So the difference of two registers moves by itself: with the
flipped bits in sight taken in (`Window`) it is that window until the burst
begins (`BurstStep`) and not empty ever after, which is what two packets that
both verify contradict.

### Packets and the link

`DamageNeverPasses` (`DamageNoticed`), `IntactPacketsRead`
(`IntactPacketsArrive`), `ClockKnown` (`ClockFollowsSync`), `PrintedAsShown`
(`ShownAsOnTheLcd`), `CommandsAsMeant` (`ExecutedAsMeant`). The assumptions say
what fits into a packet and what the meter has: an address of six bytes,
passwords of four digits, times whose year is stored as seven bits from 2000 on
(a date need not exist), displays of up to 23 bits whose decimal point leaves at
most six decimals, as the formatter has it, and whose mantissa is negative only
if it is not zero; bursts of bits that begin with a flipped one and stay within
sixteen; `None` is neither a response nor a frame.

The invariant `WireInv` says what is on the air: the packet some encoder made of
`meant`, with one burst of bits flipped (`Transit`), or a notification that was
cut short; that what a parser was given is what it returned (`result`); and that
a time the computer knows is the meter's. The theorems read it off, along four
lines:

* *What is sealed verifies* (`SealFacts`), and a packet is a function of the
  bytes its builder wrote (`Row`, `CommandPacket`, `InfoPacket`,
  `ReadingPacket`), which parsing takes apart again.
* *Damage.* A burst that hits a sealed part of a packet leaves it unverified, by
  `BurstsCaught`; one that misses it leaves it as it was (`Noticed`). A slice of
  a flipped frame is a flipped slice (`FlipSlice`), so each packet of a
  notification stands for itself. No CRC covers the two bytes of the head, which
  every parser compares, nor the two of the tail, which none reads (`Alike...`).
* *Round trips.* Each encoding gives back what was put in: the clock, whose
  bytes are packed in one order for the command and in another for a reading
  (`RtcArgs`, `RtcArrives`), the mantissa and its sign (`MantissaArrives`), the
  status bits (`FlagsArrive`), the scale's signed byte (`PrefixArrives`).
* *Display.* `FormatReading` of a reading that arrived is what the LCD shows
  (`FaithfulShown`).

The place of a reading the meter left empty is all zeroes, and one burst cannot
make a reading of it (`ZeroesRefused`).

### Scanner and programs

`FirstMeterReturned` (`FirstSightLastSignal`) and `ClientReleased`
(`ReleasedAtExit`). `Collected` relates the first entry of `found` to all the
advertisements heard so far, for any number of them: its address is the first
that a meter sent, its signal the last that this meter sent. `CloseInv` says
what the step the program is at and the outcome of its last call tell about the
client, with `Client!Phases` as the only knowledge of it.

### What stays with TLC

* Liveness: `EveryCallReturns`, `ForeverEndsWhenMeterAnswers`,
  `PendingFrameLeaves`, `ProbeEnds`, `GivesUpWhenGone`, `ToolComesBack`. The
  prover does not handle fairness.

Every other property of the passing runs has its theorem.

## 6. Not modelled, and the plan

Not modelled: the text of exceptions, logging and the once-only hints; the retry
callback; a client factory that raises; exceptions of a backend other than
`BleakError`, `TimeoutError` and `ConnectionError`; the clock value behind
`_last_notify` and the gap log; the dictionaries (`to_dict`) and other views of
a parsed packet; tables that only name a code; malformed addresses and
passwords, which raise before anything is sent; a GATT stack that serves
requests of one link out of order. `display.py` prints hex dumps and timing
statistics, `capture.py` prints a frame when Enter is pressed, and `__init__.py`
re-exports: they have no state a property could be about.

Left: `SessionKept` without `OneTask`, that is for several tasks that take
turns; `read_stream` with its own `ensure_connected` overlapping another task's,
which `Connection` has and `ReadStream` takes as one step.
