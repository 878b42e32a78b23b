# A verification of DuetScreen

DuetScreen is the program of a touch panel that controls a Duet 3D printer. It
mirrors the printer's *object model* over USB, a UART or the network, shows it
on LVGL screens, and sends G-code back. This directory holds TLA+ modules that
model its concurrent core, the TLC configurations that check them, and proofs
that TLAPS checks.

Paths below are relative to `src/src/` of the repository.

## The system

| component | state it keeps | operations | module |
|---|---|---|---|
| Object model polling (`Comm/Communication.cpp`) | one `Seq` per section: state, last number, time of the last request; `s_freqSeq`; `s_lastResponseTime` | `sendNext` (request thread), `UpdateSeq`, end of a message (receiving thread), `ResetSeqs`, `Reconnect` (any thread) | `SeqPolling`, `SeqCache` |
| JSON decoder (`Comm/JsonDecoder.cpp`) | automaton state, field id, array indices and depth, `m_seq`, `m_key`; one per channel | `CheckInput`, `ProcessReceivedValue`, `EndArray`, `EndReceivedMessage`, `ParserErrorEncountered` | `JsonDecoder` |
| Duet connection (`Hardware/Duet.cpp`) | `m_connectionState`, session, settings, `m_sendLock` | `Connect`, `Disconnect`, `Reconnect`, `SendGcode`, `RequestModel` | `SeqPolling`, `UsbTransport` |
| USB transport (`Comm/Usb.cpp`) | device handle, transfers and their count, receive queue, event and decode threads, `s_usbMutex` | connect, send, reset, start and stop receiving, transfer callbacks | `UsbTransport` |
| Locks (`DeadlockDetector.h/.cpp`) | owners, waiters, a condition variable | `lock`, `try_lock`, `unlock`, detection | `DetectingMutex`, `RecursiveLocks` |
| File information cache (`Comm/FileInfo.cpp`, `Subscribers/ThumbnailSubscribers.cpp`) | two queues of requests, thumbnail contexts | queue, `Spin` (own thread), answers, clear | `ThumbnailTransfer` (thumbnails) |
| File list (`ObjectModel/Files.cpp`, `FileSubscribers.cpp`, `FilePresenter.cpp`) | a request per folder with its items and next page, the folder and items shown | list, next page, callbacks, sort, clear | `FileListing` |
| Status and alerts (`StateSubscribers.cpp`, `HomePresenter.cpp`, `MessageBox.cpp`) | the Duet's message box, `g_lastAlertSeq`, the boxes on the screen and their timers | fields of `state.messageBox`, replies, close, answer, timeouts | `Notifications` |
| Presenters, views, navigation (`UI/Core`, `Containers/TabView.cpp`) | what is visible, bound, open; the current tabs | open, close, home, change tab, enable and disable tabs, bind, unbind | `Screens` |
| Model event loop (`UI/Core/Model.cpp`) | FIFO of events, bound presenters | `post`, `runEventLoop`, `bind`, `unbind` | in `Screens`, `Notifications`, `FileListing` |
| Threads (`main.cpp`) | request thread, event loop, file cache thread, USB event and decode threads, UART reader, HTTP loop, LVGL loop | start-up | each in the module of what it runs |

Not modelled, with reasons at the end: UART loop, USB host, object model lists,
upgrade helper, storage, HTTP client, host services, the other screens and
widgets, image codecs and text.

What is hard: the request thread, the receiving thread and whoever changes the
settings work on the same table of sequences without a lock; responses are
lost, cut, late or answers to something else; reconnections happen in the
middle of everything, and take threads down that may be about to send; the
caches retry and time out; callbacks, timers and animations arrive after the
thing they belonged to is gone; a view that is hidden misses events; locks are
taken in several orders. `PROJECT.json` lists each at its line under `hazards`.

How the modules fit together. `UsbTransport` promises that a closed link leaves
nothing behind and that chunks reach the parser of their own connection in order;
that is what `JsonDecoder` assumes of the characters it is given, and `JsonDecoder`
promises that a whole line is reported as it was meant and ended once, whatever
came before. `SeqPolling`, `FileListing`, `ThumbnailTransfer` and `Notifications`
start from there: their receiving threads take an answer value by value, or field
by field, and may find it cut. `Screens` provides what `FileListing` and
`Notifications` assume: a presenter that can be seen is bound. All of them run
under the locks of `DetectingMutex`, so that "holds the UI lock from the first to
the last call" makes one step. The modules are checked one by one; no run
composes two of them but the refinements, of `SeqCache` by `SeqPolling` and of
`RecursiveLocks` by `DetectingMutex`.

## Plan and where it stands

1. Object model polling, its abstract specification and the refinement: *done,
   safety proved.*
2. The mutex wrapper and the detector, with the refinement of recursive locks: *done,
   safety proved.*
3. USB transport with connect, disconnect and the send lock: *done, safety proved.*
4. File information cache: the thumbnail half is *done, safety proved*; the queue
   of M36 requests is left out (one is under way at a time, any answer completes it).
5. File list, the sort included: *done, safety proved.*
6. Alerts and notifications, screens and tabs: *done, safety proved.* The decoder's
   automaton, and that it reports what was meant: *done, safety proved.*
7. Left: the HTTP session, M36 requests, the controls inside a message box; abstract
   specifications of the transfers, which their invariants describe so far.

The runs in one table; a section for each module follows.

| run | instance | asks |
|---|---|---|
| `seq_safe` | 2 sections, 2 on the line, G-code replies, a broken link, answers left over from the old connection, no fairness | no announced change is lost, nothing is asked twice, `SeqCache` is implemented |
| `seq_live` | 2 sections through 2 versions, 3 on the line, 2 faults of any kind, a prompt Duet | every change is shown; the watchdog is quiet; what counts as up to date was loaded on this connection |
| `mutex` | 3 threads, 2 locks in every order, recursion to 2, one thread with `try_lock`, debug build | `RecursiveLocks` is implemented, exact records, every deadlocked pair and nothing else reported, a free lock is taken |
| `usb` | 2 channels quietly; 1 channel with subscribers that send and a board that comes and goes | closed is quiet, the pending count is exact, chunks in order, an idle link is reconnected |
| `usb_hang` | 1 channel, subscribers that send | violated: an idle link is always reconnected |
| `decoder` | 2 levels of arrays, 4 of nesting, 3 kinds of key, lines without end, 4 damaged tokens a line | whole lines are reported as meant and ended once; only too deep a line is rejected |
| `decoder_empty` | the same | violated: the end of an array names it |
| `thumb` | 2 files, one with two thumbnails, 2 chunks, in an orderly world and in a rough one | one request for a file, complete images are exact, requests end |
| `files` | 3 folders of 1 or 2 pages, a browser or two choosers, in 7 worlds: lines that keep the order, cut, lose, or are connected anew | callbacks get whole lists, what is shown is sorted, the folder opened is shown |
| `notify` | 2 replies and 2 alerts, 1 reply and 3 alerts; with timeouts and a reconnection or without | the front reply is shown, no known timer is left, questions are asked, answered and withdrawn boxes stay closed |
| `notify_timer` | timeouts, no reconnection | violated: no timer outlives its box |
| `screens` | 2 threads that set the status; 2 news on the way (events that wait and threads about to post) | one screen and one tab seen, what is seen is bound and current, the jobs tab follows the status |

Every property has a mutant of the code, listed in `PROJECT.json`, that violates it.

## Polling of the object model: `SeqPolling`, `SeqCache`, `SeqPollingProofs`

The Duet numbers the versions of each section of its object model and publishes
the numbers under `seqs`, which the panel reads with the *frequent* request. A
section whose number is news is requested. `SeqCache` says what that promises:
each section has a version on the Duet (`current`), a version the panel was told
of (`known`), one it shows (`shown`), and it may be `settled` only when it shows
what was announced.

| TLA+ | code |
|---|---|
| `state`, `lastSeq`, `age` | `Seq::state`, `lastSeq`, time since `lastRequestTime` in poll intervals |
| `Check`, `Checked`, `GetNextSeq`, `Scanned` | `CheckSeq` (answer and effect), `GetNextSeq` (result and which entries it looked at) |
| `Sleep`, `ReconnectBegin/End`, `Select`, `Request`, `Send` | one round of the request thread: `sendNext`, `Reconnect`, `GetNextSeq`, `RequestSeq`, `Duet::RequestModel` |
| `DecodeBody`, `DecodeEnd`, `Abandon`, `ParserError` | the decoder: key and fields, last brace, newline, newline after an error |
| `ResetSeqs`, `RemoveAll`, `CloseTransport`, `DuetReconnect` | `ResetSeqs`, `OM::RemoveAll`, `Disconnect`, `Duet::Reconnect` |
| `UserReconnect` | a change of the settings or an emergency stop in another thread |
| `ConnectDone`, `ConnectFails` | the first data on a UART or the answer to `rr_connect`; its failure, which sets DISCONNECTED without a `Reset` |
| `Bump`, `Answer`, `AnswerOther` | external: the printer changes, answers M409, answers other commands |

What is abstracted. A section is its version number. Time is counted in rounds
of the request thread, saturating just above the thresholds. The message is
decoded in two steps, its key and fields and then its last brace, with the
other threads in between; a cut message has either all or none of its fields.
The line answers in order. Over the network `RequestModel` is synchronous: one
request at a time, decoded in the request thread by a decoder of its own. Those
interleavings are among the modelled ones but for one: `Disconnect` in another
thread stops a serial transport, and with it the decoding, but not a decoding in
the request thread, which runs to its end through `Reset` and `ResetSeqs`.
`Outlives` lets `UserReconnect` leave the line and the decoder alone and the
decoding go on in any state of the connection. `seq_safe` has it, so its
properties hold on every transport. The code reads and writes
`Seq::state` from several threads without a lock; the model makes each function
call one step and `RequestSeq` and `GetNextSeq` separate ones.

Bounds. Two sections are the smallest table in which the scan order matters;
one fault can happen at every step, two can combine; two or three messages on
the line are enough for a retried request to have an older and a newer answer.
`RetryTicks` and `WatchdogTicks` are thresholds in rounds: `seq_safe` takes the
smallest, at which a retry can overtake an answer and the watchdog breaks the
connection at any silence; in `seq_live` the watchdog waits one poll longer than
two faults in a row can cost (`PatientWatchdog`).

Fairness (`seq_live`): the request thread loops for ever with a sleep; the
receiving thread decodes or damages what is on the line; the Duet answers; a
connection attempt ends. `Prompt` says the Duet answers within one poll
interval, without which the watchdog may break the connection each time. No
fairness is assumed of the printer changing or of other commands.

What the model showed:

- `m_seq` survives an abandoned parse, a parse error and a reconnection. On a
  line with keyless replies (G-code over the same channel) the next reply marks
  that sequence Ok. `CleanLine` is the exact condition under which it is
  harmless, and the hypothesis of `NoLostUpdate` and `ImplementsCache`.
- An answer left over from the old connection can arrive between
  `DUET.Reconnect()` and the second `RemoveAll` of `Comm::Reconnect`; the
  section then counts as up to date but is not shown, until its number becomes
  nonzero. `OkIsLoaded` is therefore checked without a backlog (`seq_live`).
- Over the network a change of the settings while the request thread decodes an
  answer clears the model and the table in the middle of that decoding; its last
  brace then marks the section as Ok (`EndReceivedMessage`, JsonDecoder.cpp:234),
  and until the Duet publishes a nonzero number for it the panel shows the rest of
  it or nothing. `NoLostUpdate` is what remains true there: the reset has set the
  number to 0, so the first nonzero one makes the section be asked for again.
  `OkIsLoaded`, and the display of version 0, are claims about serial lines.
- `s_freqSeq` is not reset by `ResetSeqs`; the retry covers it.
- `g_currentReqSeq` does not influence which sequence is next, and `sendNext`
  returns true for the frequent sequence too, against its comment.

**Proved**, for every number of sections, every bound and every interleaving,
from `PollingAssumption` alone: `TypeCorrect`; `PollingCorrect`, that on a clean
line `PollingInv` holds; from it `NoUpdateIsLost` and `NeverAskedTwice`;
`PollingIsCache`, the refinement, step by step. `NoLostUpdate` is not inductive:
it needs that the answer being decoded is not older than what was announced. That
follows from `LineInOrder` (answers on the line are ordered by version and not
older than what the panel knows or shows), `BodyNamesSeq` and `BodyIsShown` (in
the middle of a message `m_seq` is the section that was just shown) and
`LeftoverIsHarmless` (an `m_seq` left behind by a message that never ended names a
section not announced since the reset).

Two more theorems, each with an invariant of its own, do not need a clean line.
`UpToDateIsLoaded` (`OkIsLoaded`) is about a line without a backlog and without
keyless replies whose decoding ends with the connection (`FreshLine`; TLC refutes it
without any of the three). `LoadedInv` adds that
the section under way was shown, and that no answer to one can arrive while the link
is not up or between the two times `Comm::Reconnect` clears the model.

`WatchdogWaits` (`WatchdogIsPatient`) is about a Duet that answers within a poll and a
watchdog that waits one poll longer than `MaxFaults * (RetryTicks + 1)`
(`PatientWatchdog`). `MaxFaults` bounds the faults of the whole behaviour, so what the
theorem says is what a fault costs: the polls until the request it took is overdue, and
one more, whether a response is lost, cut, malformed, or the link breaks. `PatientInv`
counts: `InTime` compares the silence with what the faults so far have cost and with
the age of the request that is waited for. It holds because of `FreqWasLast` (when it
is not the turn of the frequent request, that was the last one made, so the panel
cannot wait for a section only after another one), `NothingLost` (without a fault
whatever counts as requested is about to be sent or on the line) and `QuietPoll` (a
poll starts after everything asked for was answered or lost). The bound is tight where
TLC was asked: for two faults and a retry after one poll it accepts a watchdog of 5
polls and refutes one of 4.

Only model-checked: `EveryChangeShown`.

## The locks: `DetectingMutex`, `RecursiveLocks`, `DetectingMutexProofs`

`mutexUi` and `mutexModel` are `DeadlockDetectingMutex<std::recursive_mutex>`.
The wrapper counts the recursion itself and only ever calls `try_lock` on the
mutex under it; a thread that fails sleeps on a condition variable and tries
again when it is woken or after 5 s. Around that, in a debug build, it tells a
detector what it is about to take, took and released.

| TLA+ | code |
|---|---|
| `holder`, `count`, `waitMutex` | `m_mutex`, `m_ownershipCount`, `m_waitMutex` |
| `threadLocks`, `waiting` | `m_threadLocks`, `m_threadWaiting` of the detector |
| `reported`, `aborted` | the error of a deadlock, `LOG_FATAL_THROW` |
| `ImplementsLocks` | what callers rely on: `RecursiveLocks` with `depth` for the counts |
| `BeforeAcquire`, `FastPath`, `EnterWait`, `Retry`, `FallAsleep`, `TimeOut`, `AfterAcquire` | the sections of `lock`, in order |
| `TryLock` | `try_lock` |
| `UnlockOnce`, `Unlock`, `Notify`, `AfterRelease` | `unlock` |

The steps are the sections the code itself protects with a mutex. A thread's
count is touched by that thread only. `MultiLockers` is what
`allowThreadToTakeMultipleLocks` permits: the LVGL thread and the event loop.

Bounds. Three threads are the least number in which a third one takes the lock
between an unlock and the waiter it wakes; a deadlock needs two threads and two
locks; depth 2 of the recursion has every case of the counter. Fairness is that
of a thread inside a call: the scheduler runs it and `wait_for` returns. Nothing
is assumed of callers: they need not unlock, so `FreeIsTaken` speaks of free
locks. The wake-up of an unlock may come before the sleep it is for
(`unlock` calls `notify_one` without `m_waitMutex`); then only the 5 s timeout gets the
waiter on, which is why `FreeIsTaken` still holds.

The thread of the event loop may hold both locks as well (`Model.cpp:329`),
although `main.cpp:102` calls LVGL's the only one; the detector reports the
deadlock two such threads can reach, and does nothing about it.

**Proved**, for any number of threads and locks, any depth of recursion and any
set of permitted threads, from `MutexAssumption`: all but the liveness.
`Exclusive` is not inductive: that one thread's count is positive must exclude
another's, which only the mutex under the wrapper knows. `MutexInv` says how the
mutex, the counts and the detector's two maps lag behind one another at each step
of a call. From it follow `LocksAreRecursive`, the refinement of `RecursiveLocks`
(a call that returns has let its thread in while every other was outside, or out
once), `NeverTwoInside` and `RecordsAreExact`;
`OnlyPermittedHoldTwo` (no run checks it) needs one more invariant, that a thread
on its way into a lock holds none, and that callers do not use `try_lock`, which
the detector does not check; `DeadlocksAreReported` is by who came last:
`OldCycle` shows that only a thread that starts to wait can close a cycle, and
`ReportsItsPairs` that it then reports exactly the pairs it closes;
`ReportsAreTrue` is the converse, as an action property. Only model-checked:
`FreeIsTaken`.

## The USB link: `UsbTransport`, `UsbTransportProofs`

Four threads meet: the request thread and LVGL's send G-code and reconnect, the
event thread runs the callbacks of libusb, the decode thread parses what arrived,
and its subscribers send G-code themselves. Taking the link down joins the last
two while holding `s_usbMutex`.

| TLA+ | code |
|---|---|
| `pc`, `after`, `inSend` | where a thread is in its call, what follows a reset, whether `UsbDevice::send` called the reconnection |
| `usbMutex`, `sendLock` | `s_usbMutex` (recursive), `m_sendLock` (not) |
| `handle`, `alive`, `plugged` | `m_handle`; whether its board, and whether a board, is on the bus (external) |
| `flying`, `toSubmit`, `pending` | submitted transfers of a channel, `startReceiving` under way, `m_pendingReceiveCount` |
| `queue`, `chunk`, `received`, `fed` | `m_receiveQueue`, what the decode thread took, chunks of the connection modulo 2 |
| `SendGcode`, `TakeSendLock`, `SendUsbData`, `SubmitSend`, `SubmitSendNoDevice` | `Duet::SendGcode`, `sendUsbData`, `UsbDevice::send` |
| `WatchdogReconnects`, `Disconnect`, `Connect`, `Reset`, `StopReceiving`, `JoinEvents`, ..., `Close`, `Open`, `SubmitReceive`, `CountReceive`, `Opened` | `sendNext`, `Duet::Reconnect`, `UsbDevice::reset`, `stopReceiving`, `connectUsbDevice`, `startReceiving`, step by step |
| `TransferCompleted`, `TransferFailed`, `EventLoopEnds` | the callback of a transfer and the event thread |
| `TakeChunk`, `Decode`, `DecodeLoopEnds` | `decodeLoop` |

What is abstracted. The transfers of a channel are alike and are counted. A
G-code is one transfer (the code cuts it in three, each of which takes
`s_usbMutex` again). A chunk is its number modulo 2: an exchange or a loss of
neighbours shows. A transfer whose cancellation does not come within 2 s is given up
and leaked by the code (`Usb.cpp:468`); `StopDecoding` forgets it too, and no callback
of it comes later, which libusb does not promise. A subscriber that sends from inside a reconnection it has
started itself joins its own thread; the program aborts (`aborted`), and the
properties do not ask anything of it afterwards.

Bounds. One transfer for each channel is the fewest with which a link can be idle
and not idle; two channels are all the board has; two chunks wait, so that the
order of the queue matters. `usb_hang` needs one of each.

Fairness. A thread inside a call goes on (weak); a thread that waits for a mutex
that is free again and again gets it (strong, for `TakeSendLock`, `SendUsbData`
and `Reset`); the event and decode threads run; silence for long enough is
noticed. Nothing is assumed of boards leaving and coming back, or of anyone
wanting to send.

Finding (`usb_hang`, `IdleIsReconnected`): the request thread takes the link down
and joins the decode thread under `s_usbMutex`, and a subscriber that the decode
thread runs waits for `s_usbMutex` to send. Both wait for ever, and every sender
behind them. `QuietIsReconnected` is what remains: it holds where no subscriber
sends and the board stays.

**Proved**, for any number of transfers and any length of the queue, from
`UsbAssumption`: `TypeCorrect`, `NothingIsLeftBehind` (`ClosedIsQuiet`),
`PendingIsCounted` and `ChunksInOrder`. `ClosedIsQuiet` is about a state that many
steps lead to, so the invariant (`UsbInvariant`) adds `Locks` (who is in a guarded
section has the mutex, and who reconnects inside a send has both), and `Stages`
(what the thread that takes the link down has done at each of its steps). That
only one thread is in such a section follows from `Locks`; that the callbacks
cannot count below zero from `PendingIsExact` itself. Only model-checked:
`QuietIsReconnected`.

## The decoder: `JsonDecoder`, `JsonDecoderProofs`

`CheckInput` is a push-down automaton with a flat memory: an id, the indices of
the open arrays, a depth. The model sends it well-formed lines token by token (a
name with its colon, a number, a string, a structural character), loses and
spoils tokens, or cuts the line, and goes on with the next. A monitor holds what
the sender meant: `owed` is what the decoder has still to report, `wrong` that a
report differed.

| TLA+ | code |
|---|---|
| `Begin`, `ExpectId`, `HadId`, `Val`, `StringVal`, `IntVal`, `EndVal`, `InError` | the states of `CheckInput` |
| `Named`, `RemoveLastId`, `RemoveLastIdChar`, `InArray` | what `ProcessReceivedValue` does to the id through its reference, and the helpers |
| `OpenArray`, `EndArray`, `CheckValueCompleted`, `CloseObject` | indices and depth, `ProcessArrayEnd`, `EndReceivedMessage` |
| `Open`, `Field`, `Scalar`, `Comma`, `CloseSent`, `EndLine`, `Damage` | external: the sender and the line |

The states of escapes, digits and literals collapse, because a string and a
number are one token each; lengths count names and separators. Two levels of
arrays and an id of 8 are the least values at which each limit is reached on
its own; two elements show a counter that is not reset. The lines follow each
other without end (the counters of a line are reset), so whatever a broken line
leaves behind meets every kind of line.

- Finding (`decoder_empty`): the key is put into the id by the first value, so an
  array that ends before any value is named `result^...` and the subscriber that
  removes the surplus elements is not found.
- `ProcessReceivedValue` edits `m_fieldId` itself: for a key of several parts
  (`move.axes`) the id has more parts than the closing of objects removes, and the
  fields after `result` are off. `ReportsAreMeant` excludes them
  (`PastDottedResult`): a field that follows (`next`, of an answer in parts) is
  then reported under a name no subscriber has.

**Proved**, for any limits, keys, names and lines, broken or not, from
`DecoderAssumption` (an empty key is a key; no other holds an array's mark, begins as
an answer's own fields do, or begins or ends with a separator; no name of a line is one
of those fields, a separator or a mark): all the properties of
the run. First `IndicesStayInside` (`TypeOK`). `m_arrayIndices` is written at the depth and nothing
in `EndArray` ties the depth to the id it shortens; what does is that the id never
names more arrays than are open. That is a count, which the lemmas follow through
every edit of the id: `Named` only moves or drops places (`NoMoreShifted`), the
helpers cut the end off. It holds of any sequence of tokens, not only of JSON
(`CheckInputOK`).

`LinesAreReported` (`ReportsAreMeant`), `MessagesEndOnce` (`EndsOnce`) and
`OnlyTheDeepAreRejected` (`RejectsOnlyTheDeep`) relate the sender's stack and the
decoder's flat memory, token by token. What is reported depends on the id, the indices
and the key, none of which the properties mention, so `DecoderInv` says what each of
them is while the sender is somewhere on its line: the id is the path of the stack,
with the key put in or not yet (`PlaceAt`), the indices are the counts of the open
arrays (`IndicesAt`), the decoder has the sender's key once it is past it (`KeyAt`),
and a number is still owed until its end is seen (`OwedAt`); after a damaged token
nothing is claimed to the end of the line. `PlacesFollow` is that invariant. The
lemmas below it say how the path and the counts grow with the stack (`PathAppend`,
`CountsAppend`), that the key is put in once (`KeyedTwice`), that what was added to an
id last is what comes off (`AppendParts`, `RemoveName`), and, one for each token, that
the decoder takes the step the sender meant (`StepOpen`, ..., `StepBracket`). A line
is given up only where the id or the indices are full, which `TooLong` and `PushPlace`
trace back to the depth of the line.

## The thumbnail transfer: `ThumbnailTransfer`, `ThumbnailTransferProofs`

A thumbnail is fetched in chunks with M36.1: `Spin` asks for the chunk at the
offset the last answer named, the subscribers decode it, and so on until the next
offset is 0. Only the first request that is not complete is worked on. Requests
time out after 10 s, and nothing but the file name and the offset of an answer
says which request it answers.

| TLA+ | code |
|---|---|
| `queue` | `m_thumbnailRequestQueue`, with `m_state` of each request |
| `ctx`, `image` | `Thumbnail::context` (`bad`: `parseErr`), the chunks decoded since `ThumbnailImage::New` |
| `answers`, `rx` | external: answers on their way; the answer being decoded and the subscriber that is next |
| `Queue`, `Clear` | `QueueThumbnailRequestInner`, `ClearCache` |
| `Sweep`, `Request` (`Start`, `Continue`, `Ask`) | the two thumbnail sections of `Spin`, `RequestDataInner`, `Duet::RequestThumbnail` |
| `RxFilename`, `RxOffset`, `RxData`, `RxNext`, `RxErr` | the subscribers, in the order of the values |

What is abstracted. A chunk is a number, an offset a thumbnail and a chunk. Time
is left out: any request in progress may be found timed out at any sweep, so that
answers may be as late as they like and overtake each other. The info of a file
is known and its thumbnails are valid. An answer whose values cannot be parsed is one
case (`bad`), whichever value it is that fails.

Bounds. Two chunks are the fewest with an answer that names a next offset and one
that ends the image; three calls are enough to queue a thumbnail, replace it by
the other of its file and queue it again, while the answers of the earlier
transfers are still on their way (timeouts are not bounded, so there are as many
late answers as transfers). One fault at every possible place; late answers are
not counted as faults. The run starts in one of two worlds: *rough*, with every
fault and with callers and timeouts between any two values of an answer; and
*orderly*, without those interruptions and with lost and refused answers and a
failing disk.

Fairness: the cache thread runs `Spin` for ever, the receiving thread decodes
what has arrived, and a request that is in progress again and again is at some
time found timed out (strong, `TimesOut`: time passes).

What `ImageIsExact` and `RequestsEnd` assume, each a hazard listed:

- Nothing drops or replaces a request while an answer about it is decoded
  (`world.interrupts`): only `thumbnailFilename` takes the lock, the subscribers
  after it do not. Otherwise an old chunk gets into the new image.
- A chunk can always be decoded. `Receiving()` makes a failed request receive
  again, and a late answer with the next offset would then go on without the chunk
  that failed.
- The send succeeds: when it fails, the context waits for data while the request
  is neither in progress nor free (`FileInfo.cpp:667`), and holds up those behind.
- Creating the image does not fail for ever: the request at the head is tried
  again at every `Spin`, without a limit.

Also seen: `m_lastRequestTime` of the cache is never written, so the slower
polling during a print (`FileInfo.cpp:401`) never applies.

**Proved**, for any files, thumbnails, chunks, calls and faults, from
`TransferAssumption`: `TypeCorrect`, `OneRequestPerFile`, `ImagesAreExact`. The
types need that a context which waits to be asked for (`DataRequest`) has an offset
to ask for, which holds because the subscriber that clears it finds the context in
another state (`TypeInv`). `OnePerFile` is inductive on the types: `Queue` takes the
request it finds off before it adds one (`WithoutIs`), and everything else keeps a
subsequence. `ImageIsExact` needs `Exact`: between two answers each image ends where
the next chunk starts (`Waiting`), data that are not decoded yet are the chunk of
the answer in hand (`InHand`), and how far that answer has changed the context
(`Decoder`). Only model-checked: `RequestsEnd`.

## The file list: `FileListing`, `FileListingProofs`

`RequestFiles` puts a new request for a folder in the place of the old one, calls
back with what the old one had, and asks for the items from 0. An answer names its
folder, the index of its first item and that of the next page, for which the last
subscriber asks. Nothing says which request an answer belongs to, nothing times
out, and only the line of a UART or USB keeps answers in order.

| TLA+ | code |
|---|---|
| `requests`, `table`, `calling` | every `FileListRequest`, `s_fileListRequests`, `RequestFiles` under way |
| `folder`, `shown`, `descending` | `m_currentFolder`, what the three requesters show, `m_sortOrder` |
| `RequestFiles`, `RunCached`, `AskDuet`, `SortFilesBy` | `Files.cpp` |
| `ItemClicked`, `Back`, `Refresh`, `SetSort`, `AskFilaments` | `FilePresenter`, `FilamentSelectMultiPresenter`, `RequestFilaments` |
| `SetCurrentDirectory`, `SetFirstIndex`, `SetType`, `SetName`, `SetKey`, `SetNextIndex`, `RunCallback` | the subscribers of an answer, in order; `SetKey` is `setSize` and `setDate` |
| `Disconnect`, `Reset`, `Disconnected` | `Duet::Disconnect`: the transport, `Reset()` with `OM::RemoveAll`, the state and its event |
| `Connect`, `RemoveAll`, `SetPrinterUniqueId` | `Duet::Connect`, the second clearing of `Comm::Reconnect`, the answer for `boards` |
| `OnDisconnect`, `OnConnect`, `NewUniqueId` | what `FilePresenter` does with the three events |
| `Lose`, `Cut`, `IgnoreNext` | external: answers lost, or cut in the middle |

Items. An item is added by `setType`, without a name; `setName`, `setSize` and `setDate`
take it from the end of the list, fill it in and release the locks in between. An
answer that ends between them leaves a part of an item (`Parts`), and the page that is
asked for again adds it a second time. The list shares its items with whom it is
handed to: the callback with the cached items can be given one whose values are still
to come (`Shares`), which is sorted without them and changed in place afterwards. The
entries of a viewer say which that is (`open`); `ShownIsSorted` asks nothing of its
place, but that there is one at most, that the others are in order around it, and that
all are with the next page or change of the order. What two threads do to the name of
one item at once is a data race in the code; the model makes each a step.

The connection. `Disconnect` closes the transport and `Reset()` clears the requests and
empties the unique id, with its event, before `Disconnected` is posted (`Duet.cpp:1241`).
So `onActivate` finds the id empty at `Connected` and asks nothing, until `boards` are
answered; the second clearing of `Comm::Reconnect` finds the id empty and posts nothing.

Bounds. Pages of two, folders of one and of two pages; one to three clicks, so
that a folder is left and entered again while its pages come; one fault. The seven
worlds are a browser and two choosers that ask for the same folder, each over a
line that keeps the order, one that cuts, and one that loses and overtakes, and a
browser over a line whose connection is made anew.

Fairness: on a good line (`GoodLine`) `RequestFiles` returns, the receiving thread
decodes, a connection is made, the event loop runs; nothing of the user. Where answers
are lost or cut, overtake each other, or folders are left early, nothing is assumed, and
`FolderIsShown` says nothing.

What the model showed:

- Without `patient` users `FolderIsShown` fails on a line that keeps the order and
  loses nothing: the callback does not compare folders (`FilePresenter.cpp:250`),
  so a page of the folder that was left overwrites the one that was opened. Over
  HTTP, or with several pages, it stays.
- After a page that was cut and a second question for it (both the page before and
  the repeated one are answered) items appear twice; `ListIsWhole` allows it where
  answers are cut.
- A requester that is replaced in the table before its answer came is called back
  only with what there was, which may be nothing or a part of the list, even if it
  asked for the whole (`runEveryTime` false).
- A page that is lost is never asked for again (`IsRequestExpired` has no caller).
- An answer of M409 that is abandoned leaves its `m_seq`, and `setNextIndex` then takes
  the next of a page for one of M409 (`FileSubscribers.cpp:174`): the page is not shown
  and the one after it not asked for (`IgnoreNext`, in the worlds that cut).

**Proved**, for any content, size of a page and number of requests, from
`FileListingAssumption`: `ListInvariant`, and from it `WholeLists` (`ListIsWhole`).
`Types` and `OwnFolder` say where requests are found; `Pages` that a request has
all items before its next page, and beside them at most parts of items up to one page
more, which is enough for the first half of the property (while an item is being filled
in, `Complete` is the list without it); for the order, `Exact` says that a page still asked
for continues the list just where it ends, unless answers are cut, and `Fresh` that
a request which replaced the one being answered has no page yet, which keeps the
page under way from counting for it.

`SortFilesBySorts` is about the sort itself, for lists of any length: it returns the
entries it was given, as many and all of them, in order. `SortFilesBy` is a fold of
passes, each a fold of swaps; `PassSwaps`, `PassBrings` and `SortPasses` show that a
pass brings the least of the rest to its place and leaves what is before it.
`JobsAreSorted` (`ShownIsSorted`) follows, since every step that changes what the jobs
page shows, or its order, sorts again, or changes the one open item (`Refilling`), of
which the sort adds none (`OneOpen`). `ListTypes` (`TypeOK`) needs `Bounded`: a list
is not longer than the folder and what the cut pages left in it. Only model-checked:
`FolderIsShown`.

## Notifications: `Notifications`, `NotificationsProofs`

Replies to G-code are message boxes in a list of which the first is shown; the
message box of the object model is the alert, a modal above everything else.

| TLA+ | code |
|---|---|
| `duetBox`, `kind` | external: the box the Duet reports: a note with a timeout, a question with a Cancel button, a question without |
| `parse`, `current`, `lastAlertSeq` | how far the answer is decoded, `g_currentAlert`, `g_lastAlertSeq` |
| `NullMessageBox`, `MessageBoxFields`, `MessageBoxTitle`, `Reply`, `RemoveAll` | `StateSubscribers`, `ResponseSubscribers`, a reconnection |
| `ui` with `Shown`, `Hidden`, `SetTimeout`, `ShowFront`, `Destroyed`, `CloseCallback`, `CloseAlert`, `CloseAllModals`, `CancelBox` | `MessageBox`, `HomePresenter`, `Modal`: what each call does to the widgets |
| `Dispatch`, `CloseBox`, `OkBox`, `AnswerAlert`, `SwitchScreen`, `KnownTimer`, `LostTimer` | the event loop, clicks, and timers of LVGL |

Whatever touches a widget holds the UI lock to its end, callbacks included, and is
one step on the record `ui`, composed as the calls are nested. Timers fire at any
moment. Two replies are the fewest with one behind the front; two alerts the fewest
with a new one while the old one is shown; three the fewest with a timer of the alert
that is lost and a question it can meet; one timer that is lost is enough. `Worlds`
bounds each of them for itself, as all together are too many states.

Fairness: the panel polls, decodes and dispatches. Nothing of the Duet or the user.

Finding (`notify_timer`): closing the alert runs its close callback twice, each
time setting the timeout of the reply below; `setTimeout` forgets the first of the
two timers, which later fires with a dangling pointer. The passing run goes on until
such a timer has fired (`crashed`).

The alert loses a timer in the same way: a note shown over another one overwrites the
timer of the first (MessageBox.cpp:339), and it still fires, whatever the alert shows
by then. A question with a Cancel button it cancels, with an M292 nobody asked for. A
question without one has no cancel callback (HomePresenter.cpp:468): the box closes,
nothing is sent, the number is remembered, and the machine waits for an answer that is
not asked for again. `QuestionIsAsked` therefore speaks of questions with a Cancel
button and, of those without, of the ones with at most one note before them
(`SureToBeAsked`); TLC refutes it without that condition. It is also about a panel
whose notifications do not close on their own: a reply that comes back above the alert
when the one before it times out leads to the console, which closes the question
unanswered.

**Proved**, for any number of replies, alerts, events, lost timers and reconnections,
from the assumption on the constants: `TypeCorrect`, `FrontStaysShown`,
`KnownTimersDie`, `AnsweredBoxesStayClosed`. The invariant has two halves. Of the
widgets: only the first box of the list has or had a timer or can be on the screen,
and each reply is in the list once. Of the numbers: while the connection lasts those
of the boxes that were answered do not pass the last one shown, that is below those of
the events that wait, and these do not pass `g_lastAlertSeq`, which does not pass the
box being decoded; an answered box is therefore never news again. Only
model-checked: `QuestionIsAsked`, `WithdrawnIsClosed`.

## Screens and tabs: `Screens`, `ScreensProofs`

Of the dashboard and the screens over it one is visible, of each tab view one tab;
what is shown is activated and bound, what is hidden unbound, and what is not bound
misses events.

| TLA+ | code |
|---|---|
| `ui.hidden`, `ui.bound`, `ui.open`, `ui.current`, `ui.disabled`, `ui.leaving` | `LV_OBJ_FLAG_HIDDEN`, `m_presenters`, `s_openScreens`, `m_currentTabIndex`, disabled buttons, tabs that slide out |
| `Shown`, `Hidden`, `Activated`, `Deactivated` | `View::show`, `hide`, and their presenters |
| `SetActiveTab`, `DisableTab`, `NextEnabled`, `SlidOut` | `TabView` and the end of its animation |
| `OpenScreen`, `CloseScreen`, `Home` | `Navigation` |
| `SetStatus`, `ReadStatus`, `PostStatus`; `FindUnchanged`, `SetUnchanged` | the lines of `OM::SetStatus` with `sendEvent` true, and false |
| `SetJobName`, `PostJobName`, `NewStatus`, `NewJobFileName`, `Dispatch` | the job name, the events, `HomePresenter`, `StatusPresenter` |

**The status is set without a lock.** The thread that decodes answers sets what they
say; `Comm::Reconnect` (request thread) and `Duet::Connect` (request thread and LVGL)
set "connecting" beside it. `SetStatus` compares, sets, reads `GetStatus()` as the
argument of `post`, and only then `enqueueEvent` takes its lock, so a thread that has
read an older status can enqueue it last: the status tab shows it and the jobs tab
follows it, with nothing more on the way, until the status changes again. A thread
that found the status unchanged may also set it back without an event. The history
variable `overtaken` says that the status last set was set in one of these two ways;
`SeenIsCurrent` and `JobsFollowStatus` promise the status when it is not, whatever
older news the queue still holds, and `AloneIsNeverOvertaken` that it takes a second
thread. The other halves, what is seen is bound, the job name, and that the files
screen never stands on a tab it does not offer, hold without the condition.

Two news on the way are two threads in `SetStatus`, or a thread and an event, or two
events: enough for an older one to be before or behind a newer one. The files screen
stands for the screens with tabs, `control` for the others. `UI::back` is compiled in
only with `SIDE_BAR_BACK_BUTTON`, which the build does not set. There is no liveness to
ask: the event loop is all that has to run, and `Underway` says what is still in it.

Seen: `DashboardPresenter::onActivate` is empty, so a print that starts while another
screen is open leaves the jobs tab of the dashboard enabled; `JobsFollowStatus` is
about the files screen.

**Proved**, for any bound on the news and any set of threads, from
`ScreensAssumption`: `TypeCorrect`, `OneFaceSeen`, `SeenAreCurrent`, `JobsTabFollows`,
which are all the properties of the run, and `AloneIsNeverOvertaken`. A handler is
composed of calls on the record `ui`, and so is the proof: first what showing and
hiding a view make of it (`HiddenEffect`, `ShownEffect`), then what changing and
disabling a tab and opening, closing and leaving a screen do, and that each keeps the
views fit (`ViewsFit`). Three facts are needed beyond the properties: a tab that is
open does not slide out; of the events of one kind that wait only the last has to be
the news (`NewsFit`), so that hearing an old one does no harm while a newer one is
behind it; and while the status is not overtaken, every thread that has read it holds
the newest (`HeldFit`).

## Not modelled

The share of the code that is modelled is small, because most of this program is
layout, drawing, subscribers that copy one field each, and codecs.

- UART loop and USB host (`Hardware/SerialIo.cpp`, `Hardware/Usb.cpp`): calls of the
  operating system; what the UART delivers is the input of `JsonDecoder`.
- Object model lists (`ObjectModel/ListHelpers.h` and users): sequential code behind
  one lock, filled value by value; a unit test reaches all of it.
- HTTP session and client: each request is one blocking call of a library, and the
  code does not say what the session key must be when two of them overlap. That its
  answers come in any order is an input of `FileListing`.
- M36 requests, of which one is under way at a time and any answer completes it; the
  contents of a file with M36.2 (`setFragOffset` never compares the offset), and the
  queueing of file infos at the end of a list.
- The controls inside a message box (axes to jog, choices, inputs).
- Upgrade helper, storage, host services: a sequence of calls of the operating
  system on one thread.
- Other screens, components and widgets, image codecs and text: no state shared
  between threads but what they read under the UI lock.

What is only model-checked is the liveness: `EveryChangeShown`, `FreeIsTaken`,
`QuietIsReconnected`, `RequestsEnd`, `FolderIsShown`, `QuestionIsAsked` and
`WithdrawnIsClosed`. Leads-to under fairness needs `ENABLED`, which the prover does not
treat. Every invariant and every action property of the passing runs, and both
refinements, are theorems. Where a proof needs an induction over data (the fold of the
sort, the concatenation behind an id), it takes the first place at which the claim
fails, which exists because `<` is well-founded on the naturals, and refutes it; the
induction theorems of the library take an operator and cannot be used.
