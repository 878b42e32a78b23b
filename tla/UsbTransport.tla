---------------------------- MODULE UsbTransport ----------------------------
(***************************************************************************)
(* The USB link: UsbDevice and the functions around it, with the calls of  *)
(* the Duet class that take it down and bring it up again.                 *)
(*                                                                         *)
(* Four threads meet here.  The request thread and LVGL's send G-code and  *)
(* reconnect; the event thread runs libusb's callbacks; the decode thread  *)
(* parses what arrived, and its subscribers may send G-code themselves.    *)
(* Bringing the link down joins the last two while holding s_usbMutex.     *)
(*                                                                         *)
(* The transfers of a channel are alike, so the model counts them.  A      *)
(* G-code is one transfer; the code cuts a line in three, each of which    *)
(* takes s_usbMutex again.                                                 *)
(***************************************************************************)
EXTENDS Integers, Sequences

CONSTANTS
    None,           \* no thread
    Worlds,         \* what may happen: records of WorldType
    Transfers,      \* s_receiveTransferCount
    MaxQueue        \* bound: chunks waiting for the decoder

MaxChannels == 2                \* s_maxChannelCount

(* channels: how many the board has (m_channelCount); sends: subscribers   *)
(* send G-code; unplugs: the board may leave the bus and come back.        *)
WorldType == [channels : 1..MaxChannels, sends : BOOLEAN, unplugs : BOOLEAN]

ASSUME UsbAssumption ==
    /\ Worlds \subseteq WorldType
    /\ Transfers \in Nat \ {0}
    /\ MaxQueue \in Nat \ {0}
    /\ None \notin {"request", "lvgl", "decode"}

Callers == {"request", "lvgl", "decode"}

VARIABLES
    world,
    pc,             \* where a thread is in its call; decode: also in decodeLoop
    after,          \* what follows the reset a thread is in
    inSend,         \* is its Reconnect called by UsbDevice::send?
    usbMutex, sendLock,                 \* their owners
    connectionState,                    \* Duet::m_connectionState
    late,           \* is the response watchdog due?
    plugged,        \* is a board on the bus?
    alive,          \* is the board of m_handle still there?
    handle,         \* m_handle: 0 for null, otherwise alternating 1 and 2
    last,           \* the last handle that was open
    eventThread, eventThreadRunning,
    decodeThreadRunning,
    flying,         \* flying[c]: transfers submitted on a channel
    toSubmit,       \* transfers startReceiving still has to submit
    pending,        \* m_pendingReceiveCount
    queue,          \* m_receiveQueue
    chunk,          \* what the decode thread took from it
    received, fed   \* chunks of this connection, modulo 2

callVars == <<pc, after, inSend>>
lockVars == <<usbMutex, sendLock>>
boardVars == <<world, plugged>>
handleVars == <<handle, last, alive>>
threadVars == <<eventThread, eventThreadRunning, decodeThreadRunning>>
transferVars == <<flying, toSubmit, pending>>
dataVars == <<queue, chunk, received, fed>>
vars == <<callVars, lockVars, boardVars, connectionState, late, handleVars, threadVars,
          transferVars, dataVars>>

Channels == 1..world.channels
NoChunk == [handle |-> 0, channel |-> 1, n |-> 0]
Following(n) == 1 - n

Init ==
    /\ world \in Worlds
    /\ pc = [t \in Callers |-> IF t = "decode" THEN "none" ELSE "idle"]
    /\ after = [t \in Callers |-> "down"]
    /\ inSend = [t \in Callers |-> FALSE]
    /\ usbMutex = None
    /\ sendLock = None
    /\ connectionState = "disconnected"
    /\ late = FALSE
    /\ plugged = TRUE
    /\ alive = FALSE
    /\ handle = 0
    /\ last = 2
    /\ eventThread = "none"
    /\ eventThreadRunning = FALSE
    /\ decodeThreadRunning = FALSE
    /\ flying = [c \in 1..MaxChannels |-> 0]
    /\ toSubmit = 0
    /\ pending = 0
    /\ queue = <<>>
    /\ chunk = NoChunk
    /\ received = [c \in 1..MaxChannels |-> 0]
    /\ fed = [c \in 1..MaxChannels |-> 0]

Goto(t, label) == pc' = [pc EXCEPT ![t] = label]

(* A call of SendGcode or Reconnect is over.                               *)
Return(t) == Goto(t, IF t = "decode" THEN "wait" ELSE "idle")

(* s_usbMutex is recursive.                                                *)
TakeUsb(t) == usbMutex \in {None, t} /\ usbMutex' = t

(* The guard of a function that was called by send does not release it.    *)
LeaveUsb(t) == usbMutex' = IF inSend[t] THEN t ELSE None

-----------------------------------------------------------------------------
(* What happens outside.                                                   *)

Unplug ==
    /\ world.unplugs /\ plugged
    /\ plugged' = FALSE
    /\ alive' = FALSE
    /\ UNCHANGED <<world, callVars, lockVars, connectionState, late, handle, last,
                   threadVars, transferVars, dataVars>>

(* The board that comes back is another device to libusb.                  *)
Plug ==
    /\ ~plugged
    /\ plugged' = TRUE
    /\ UNCHANGED <<world, callVars, lockVars, connectionState, late, handleVars,
                   threadVars, transferVars, dataVars>>

(* No response for the time sendNext allows.                               *)
TimePasses ==
    /\ ~late
    /\ late' = TRUE
    /\ UNCHANGED <<callVars, lockVars, boardVars, connectionState, handleVars,
                   threadVars, transferVars, dataVars>>

-----------------------------------------------------------------------------
(* SendGcode, and UsbDevice::send under it.                                *)

SendGcode(t) ==
    /\ pc[t] = "idle"
    /\ t = "request" => connectionState = "connected" /\ ~late
    /\ Goto(t, "sendLock")
    /\ UNCHANGED <<after, inSend, lockVars, boardVars, connectionState, late, handleVars,
                   threadVars, transferVars, dataVars>>

TakeSendLock(t) ==
    /\ pc[t] = "sendLock"
    /\ sendLock = None          \* not recursive: a thread that has it waits for itself
    /\ sendLock' = t
    /\ Goto(t, "sendUsb")
    /\ UNCHANGED <<after, inSend, usbMutex, boardVars, connectionState, late, handleVars,
                   threadVars, transferVars, dataVars>>

SendUsbData(t) ==
    /\ pc[t] = "sendUsb"
    /\ TakeUsb(t)
    /\ Goto(t, "submitSend")
    /\ UNCHANGED <<after, inSend, sendLock, boardVars, connectionState, late, handleVars,
                   threadVars, transferVars, dataVars>>

(* Not connected, sent, or failed: in every case the call returns.         *)
SubmitSend(t) ==
    /\ pc[t] = "submitSend"
    /\ handle = 0 \/ alive
    /\ usbMutex' = None
    /\ sendLock' = None
    /\ Return(t)
    /\ UNCHANGED <<after, inSend, boardVars, connectionState, late, handleVars,
                   threadVars, transferVars, dataVars>>

(* LIBUSB_ERROR_NO_DEVICE: send reconnects before it returns.              *)
SubmitSendNoDevice(t) ==
    /\ pc[t] = "submitSend"
    /\ handle # 0 /\ ~alive
    /\ late' = FALSE
    /\ inSend' = [inSend EXCEPT ![t] = TRUE]
    /\ Goto(t, "disconnect")
    /\ UNCHANGED <<after, lockVars, boardVars, connectionState, handleVars,
                   threadVars, transferVars, dataVars>>

-----------------------------------------------------------------------------
(* Reconnect: Disconnect, then Connect.                                    *)

(* Mutant: the response time is not looked at. *)
WatchdogReconnects_IfDown(t) ==
    /\ pc[t] = "idle"
    /\ connectionState = "disconnected"
    /\ late' = FALSE
    /\ Goto(t, "disconnect")
    /\ UNCHANGED <<after, inSend, lockVars, boardVars, connectionState, handleVars,
                   threadVars, transferVars, dataVars>>

(* sendNext, where it reconnects. *)
WatchdogReconnects(t) ==
    /\ pc[t] = "idle"
    /\ connectionState = "disconnected" \/ late
    /\ late' = FALSE
    /\ Goto(t, "disconnect")
    /\ UNCHANGED <<after, inSend, lockVars, boardVars, connectionState, handleVars,
                   threadVars, transferVars, dataVars>>

Disconnect(t) ==
    /\ pc[t] = "disconnect"
    /\ Goto(t, IF connectionState = "disconnected" THEN "connect" ELSE "reset")
    /\ after' = [after EXCEPT ![t] = "down"]
    /\ UNCHANGED <<inSend, lockVars, boardVars, connectionState, late, handleVars,
                   threadVars, transferVars, dataVars>>

(* Connect begins with a Disconnect of its own.                            *)
Connect(t) ==
    /\ pc[t] = "connect"
    /\ \/ /\ connectionState = "disconnected"
          /\ connectionState' = "connecting"
          /\ Goto(t, "reset")
          /\ after' = [after EXCEPT ![t] = "open"]
       \/ /\ connectionState # "disconnected"
          /\ Goto(t, "reset")
          /\ after' = [after EXCEPT ![t] = "downAgain"]
          /\ UNCHANGED connectionState
    /\ UNCHANGED <<inSend, lockVars, boardVars, late, handleVars,
                   threadVars, transferVars, dataVars>>

(* UsbDevice::reset, and the reset connectUsbDevice starts with.           *)
Reset(t) ==
    /\ pc[t] = "reset"
    /\ TakeUsb(t)
    /\ Goto(t, IF handle = 0 THEN "closed" ELSE "stop")
    /\ UNCHANGED <<after, inSend, sendLock, boardVars, connectionState, late, handleVars,
                   threadVars, transferVars, dataVars>>

(* stopReceiving. *)
StopReceiving(t) ==
    /\ pc[t] = "stop"
    /\ eventThreadRunning' = FALSE
    /\ Goto(t, "joinEvents")
    /\ UNCHANGED <<after, inSend, lockVars, boardVars, connectionState, late, handleVars,
                   eventThread, decodeThreadRunning, transferVars, dataVars>>

(* Mutant: the event thread is not waited for. *)
JoinEvents_Detached(t) ==
    /\ pc[t] = "joinEvents"
    /\ Goto(t, "reap")
    /\ UNCHANGED <<after, inSend, lockVars, boardVars, connectionState, late, handleVars,
                   threadVars, transferVars, dataVars>>

JoinEvents(t) ==
    /\ pc[t] = "joinEvents"
    /\ eventThread # "running"
    /\ eventThread' = "none"
    /\ Goto(t, "reap")
    /\ UNCHANGED <<after, inSend, lockVars, boardVars, connectionState, late, handleVars,
                   eventThreadRunning, decodeThreadRunning, transferVars, dataVars>>

(* A chunk of this connection enters the queue.                            *)
Receive(c) ==
    /\ queue' = Append(queue, [handle |-> handle, channel |-> c, n |-> Following(received[c])])
    /\ received' = [received EXCEPT ![c] = Following(@)]
    /\ UNCHANGED <<chunk, fed>>

(* The callback of a cancelled transfer, or of one that had just completed,*)
(* called from stopReceiving.                                              *)
Reap(t, c) ==
    /\ pc[t] = "reap"
    /\ flying[c] > 0
    /\ flying' = [flying EXCEPT ![c] = @ - 1]
    /\ pending' = pending - 1
    /\ \/ UNCHANGED dataVars
       \/ alive /\ Len(queue) < MaxQueue /\ Receive(c)
    /\ UNCHANGED <<callVars, lockVars, boardVars, connectionState, late, handleVars,
                   threadVars, toSubmit>>

(* Reaped, or after 20 attempts given up and leaked: idealised, in that no *)
(* callback of a transfer that was given up comes later.                   *)
StopDecoding(t) ==
    /\ pc[t] = "reap"
    /\ pending' = 0
    /\ flying' = [c \in 1..MaxChannels |-> 0]
    /\ decodeThreadRunning' = FALSE
    /\ Goto(t, "joinDecode")
    /\ UNCHANGED <<after, inSend, lockVars, boardVars, connectionState, late, handleVars,
                   eventThread, eventThreadRunning, toSubmit, dataVars>>

(* Mutant: what is queued stays. *)
JoinDecode_KeepsQueue(t) ==
    /\ pc[t] = "joinDecode"
    /\ t # "decode"
    /\ pc["decode"] \in {"none", "exited"}
    /\ pc' = [pc EXCEPT ![t] = "close", !["decode"] = "none"]
    /\ UNCHANGED <<after, inSend, lockVars, boardVars, connectionState, late, handleVars,
                   threadVars, transferVars, dataVars>>

JoinDecode(t) ==
    /\ pc[t] = "joinDecode"
    /\ t # "decode"
    /\ pc["decode"] \in {"none", "exited"}
    /\ pc' = [pc EXCEPT ![t] = "close", !["decode"] = "none"]
    /\ queue' = <<>>
    /\ UNCHANGED <<after, inSend, lockVars, boardVars, connectionState, late, handleVars,
                   threadVars, transferVars, chunk, received, fed>>

(* A thread that joins itself gets an exception nobody catches.            *)
JoinSelf(t) ==
    /\ pc[t] = "joinDecode"
    /\ t = "decode"
    /\ pc' = [u \in Callers |-> "aborted"]
    /\ UNCHANGED <<after, inSend, lockVars, boardVars, connectionState, late, handleVars,
                   threadVars, transferVars, dataVars>>

Close(t) ==
    /\ pc[t] = "close"
    /\ handle' = 0
    /\ alive' = FALSE
    /\ Goto(t, "closed")
    /\ UNCHANGED <<after, inSend, lockVars, boardVars, connectionState, late, last,
                   threadVars, transferVars, dataVars>>

(* reset returns to Disconnect, which resets the Duet and its state.       *)
Down(t) ==
    /\ pc[t] = "closed"
    /\ after[t] \in {"down", "downAgain"}
    /\ LeaveUsb(t)
    /\ Goto(t, "down")
    /\ UNCHANGED <<after, inSend, sendLock, boardVars, connectionState, late, handleVars,
                   threadVars, transferVars, dataVars>>

Disconnected(t) ==
    /\ pc[t] = "down"
    /\ \/ /\ after[t] = "down"
          /\ connectionState' = "disconnected"
          /\ Goto(t, "connect")
          /\ UNCHANGED after
       \/ /\ after[t] = "downAgain"
          /\ connectionState' = "connecting"
          /\ Goto(t, "reset")
          /\ after' = [after EXCEPT ![t] = "open"]
    /\ UNCHANGED <<inSend, lockVars, boardVars, late, handleVars,
                   threadVars, transferVars, dataVars>>

(* connectUsbDevice goes on: find the board, open it, claim its interfaces,*)
(* set baud rate and DTR, and start the two threads.                       *)
Open(t) ==
    /\ pc[t] = "closed"
    /\ after[t] = "open"
    /\ plugged
    /\ handle' = 3 - last
    /\ last' = 3 - last
    /\ alive' = TRUE
    /\ eventThread' = "running"
    /\ eventThreadRunning' = TRUE
    /\ decodeThreadRunning' = TRUE
    /\ pc' = [pc EXCEPT ![t] = "submit", !["decode"] = "wait"]
    /\ toSubmit' = world.channels * Transfers
    /\ received' = [c \in 1..MaxChannels |-> 0]
    /\ fed' = [c \in 1..MaxChannels |-> 0]
    /\ UNCHANGED <<after, inSend, lockVars, boardVars, connectionState, late, flying, pending,
                   queue, chunk>>

(* No board, or one that cannot be opened or configured; and a connect     *)
(* that had to stop again.                                                 *)
OpenFails(t) ==
    /\ pc[t] = "closed"
    /\ after[t] \in {"open", "failed"}
    /\ LeaveUsb(t)
    /\ Goto(t, "failed")
    /\ UNCHANGED <<after, inSend, sendLock, boardVars, connectionState, late, handleVars,
                   threadVars, transferVars, dataVars>>

(* Connect returns false, and a send it was called from as well.           *)
ConnectFails(t) ==
    /\ pc[t] = "failed"
    /\ connectionState' = "disconnected"
    /\ usbMutex' = IF inSend[t] THEN None ELSE usbMutex
    /\ sendLock' = IF inSend[t] THEN None ELSE sendLock
    /\ inSend' = [inSend EXCEPT ![t] = FALSE]
    /\ Return(t)
    /\ UNCHANGED <<after, boardVars, late, handleVars, threadVars, transferVars, dataVars>>

(* startReceiving: channel after channel, Transfers on each.               *)
NextChannel == world.channels - ((toSubmit - 1) \div Transfers)

SubmitReceive(t) ==
    /\ pc[t] = "submit"
    /\ toSubmit > 0
    /\ alive
    /\ flying' = [flying EXCEPT ![NextChannel] = @ + 1]
    /\ Goto(t, "count")
    /\ UNCHANGED <<after, inSend, lockVars, boardVars, connectionState, late, handleVars,
                   threadVars, toSubmit, pending, dataVars>>

(* Mutant: the transfer is counted only when it is submitted again. *)
CountReceive_Late(t) ==
    /\ pc[t] = "count"
    /\ toSubmit' = toSubmit - 1
    /\ Goto(t, "submit")
    /\ UNCHANGED <<after, inSend, lockVars, boardVars, connectionState, late, handleVars,
                   threadVars, flying, pending, dataVars>>

(* The event thread may have run the callback before.                      *)
CountReceive(t) ==
    /\ pc[t] = "count"
    /\ pending' = pending + 1
    /\ toSubmit' = toSubmit - 1
    /\ Goto(t, "submit")
    /\ UNCHANGED <<after, inSend, lockVars, boardVars, connectionState, late, handleVars,
                   threadVars, flying, dataVars>>

SubmitReceiveFails(t) ==
    /\ pc[t] = "submit"
    /\ toSubmit > 0
    /\ toSubmit' = 0
    /\ after' = [after EXCEPT ![t] = "failed"]
    /\ Goto(t, "stop")
    /\ UNCHANGED <<inSend, lockVars, boardVars, connectionState, late, handleVars,
                   threadVars, flying, pending, dataVars>>

(* connectUsbDevice returns true. *)
Opened(t) ==
    /\ pc[t] = "submit"
    /\ toSubmit = 0
    /\ LeaveUsb(t)
    /\ Goto(t, "opened")
    /\ UNCHANGED <<after, inSend, sendLock, boardVars, connectionState, late, handleVars,
                   threadVars, transferVars, dataVars>>

(* M575 sets up the board's port, and tests the link.                      *)
Connected(t) ==
    /\ pc[t] = "opened"
    /\ connectionState' = "connected"
    /\ Goto(t, "sendLock")
    /\ UNCHANGED <<after, inSend, lockVars, boardVars, late, handleVars,
                   threadVars, transferVars, dataVars>>

-----------------------------------------------------------------------------
(* The event thread: receiveTransferCallback.                              *)

TransferCompleted(c) ==
    /\ eventThread = "running"
    /\ flying[c] > 0
    /\ alive
    /\ Len(queue) < MaxQueue
    /\ Receive(c)
    /\ \/ eventThreadRunning /\ UNCHANGED <<flying, pending>>
       \/ /\ flying' = [flying EXCEPT ![c] = @ - 1]     \* not resubmitted, or refused
          /\ pending' = pending - 1
    /\ UNCHANGED <<callVars, lockVars, boardVars, connectionState, late, handleVars,
                   threadVars, toSubmit>>

(* Mutant: the transfer is counted down and not freed. *)
TransferFailed_Kept(c) ==
    /\ eventThread = "running"
    /\ flying[c] > 0
    /\ pending' = pending - 1
    /\ UNCHANGED <<callVars, lockVars, boardVars, connectionState, late, handleVars,
                   threadVars, flying, toSubmit, dataVars>>

(* The transfer is freed and the channel is one short.                     *)
TransferFailed(c) ==
    /\ eventThread = "running"
    /\ flying[c] > 0
    /\ flying' = [flying EXCEPT ![c] = @ - 1]
    /\ pending' = pending - 1
    /\ UNCHANGED <<callVars, lockVars, boardVars, connectionState, late, handleVars,
                   threadVars, toSubmit, dataVars>>

EventLoopEnds ==
    /\ eventThread = "running"
    /\ ~eventThreadRunning
    /\ eventThread' = "exited"
    /\ UNCHANGED <<callVars, lockVars, boardVars, connectionState, late, handleVars,
                   eventThreadRunning, decodeThreadRunning, transferVars, dataVars>>

-----------------------------------------------------------------------------
(* The decode thread.                                                      *)

(* Mutant: the latest chunk first. *)
TakeChunk_Back ==
    /\ pc["decode"] = "wait"
    /\ decodeThreadRunning
    /\ queue # <<>>
    /\ chunk' = queue[Len(queue)]
    /\ queue' = SubSeq(queue, 1, Len(queue) - 1)
    /\ Goto("decode", "feed")
    /\ UNCHANGED <<after, inSend, lockVars, boardVars, connectionState, late, handleVars,
                   threadVars, transferVars, received, fed>>

TakeChunk ==
    /\ pc["decode"] = "wait"
    /\ decodeThreadRunning
    /\ queue # <<>>
    /\ chunk' = Head(queue)
    /\ queue' = Tail(queue)
    /\ Goto("decode", "feed")
    /\ UNCHANGED <<after, inSend, lockVars, boardVars, connectionState, late, handleVars,
                   threadVars, transferVars, received, fed>>

DecodeLoopEnds ==
    /\ pc["decode"] = "wait"
    /\ ~decodeThreadRunning
    /\ Goto("decode", "exited")
    /\ UNCHANGED <<after, inSend, lockVars, boardVars, connectionState, late, handleVars,
                   threadVars, transferVars, dataVars>>

(* CheckInput: a response may end in the chunk, which kicks the watchdog,  *)
(* and its subscribers may send.                                           *)
Decode ==
    /\ pc["decode"] = "feed"
    /\ fed' = [fed EXCEPT ![chunk.channel] = Following(@)]
    /\ chunk' = NoChunk
    /\ late' = FALSE
    /\ \/ Goto("decode", "wait")
       \/ world.sends /\ connectionState = "connected" /\ Goto("decode", "sendLock")
    /\ UNCHANGED <<after, inSend, lockVars, boardVars, connectionState, handleVars,
                   threadVars, transferVars, queue, received>>

-----------------------------------------------------------------------------
Sending(t) == TakeSendLock(t) \/ SendUsbData(t) \/ SubmitSend(t) \/ SubmitSendNoDevice(t)

Reconnecting(t) ==
    \/ Disconnect(t) \/ Connect(t) \/ Reset(t)
    \/ StopReceiving(t) \/ JoinEvents(t) \/ (\E c \in Channels : Reap(t, c)) \/ StopDecoding(t)
    \/ JoinDecode(t) \/ JoinSelf(t) \/ Close(t) \/ Down(t) \/ Disconnected(t)
    \/ Open(t) \/ OpenFails(t) \/ ConnectFails(t)
    \/ SubmitReceive(t) \/ CountReceive(t) \/ SubmitReceiveFails(t) \/ Opened(t) \/ Connected(t)

EventThread == EventLoopEnds \/ \E c \in Channels : TransferCompleted(c) \/ TransferFailed(c)

DecodeThread == TakeChunk \/ DecodeLoopEnds \/ Decode

Aborted == pc["decode"] = "aborted"

Next ==
    /\ ~Aborted
    /\ \/ Unplug \/ Plug \/ TimePasses
       \/ \E t \in {"request", "lvgl"} : SendGcode(t)
       \/ WatchdogReconnects("request")
       \/ \E t \in Callers : Sending(t) \/ Reconnecting(t)
       \/ EventThread
       \/ DecodeThread

Spec == Init /\ [][Next]_vars

(* Every thread goes on and gets a mutex that is free again and again,     *)
(* sendNext is called again and again, and a board that has nowhere to     *)
(* send its responses to is late sooner or later.                          *)
AllIdle == \A c \in Channels : flying[c] = 0

Fairness ==
    /\ \A t \in Callers :
          /\ WF_vars(~Aborted /\ (Sending(t) \/ Reconnecting(t)))
          /\ SF_vars(~Aborted /\ (TakeSendLock(t) \/ SendUsbData(t) \/ Reset(t)))
    /\ WF_vars(~Aborted /\ WatchdogReconnects("request"))
    /\ WF_vars(~Aborted /\ EventLoopEnds)
    /\ WF_vars(~Aborted /\ DecodeThread)
    /\ WF_vars(~Aborted /\ AllIdle /\ TimePasses)

FairSpec == Spec /\ Fairness
-----------------------------------------------------------------------------
CallLabels == {"none", "idle", "wait", "feed", "exited", "aborted", "sendLock", "sendUsb",
               "submitSend", "disconnect", "connect", "reset", "stop", "joinEvents", "reap",
               "joinDecode", "close", "closed", "down", "submit", "count", "opened", "failed"}

Chunks == [handle : 0..2, channel : 1..MaxChannels, n : 0..1]

TypeOK ==
    /\ world \in Worlds
    /\ pc \in [Callers -> CallLabels]
    /\ after \in [Callers -> {"down", "downAgain", "open", "failed"}]
    /\ inSend \in [Callers -> BOOLEAN]
    /\ usbMutex \in Callers \cup {None}
    /\ sendLock \in Callers \cup {None}
    /\ connectionState \in {"disconnected", "connecting", "connected"}
    /\ late \in BOOLEAN /\ plugged \in BOOLEAN /\ alive \in BOOLEAN
    /\ handle \in 0..2 /\ last \in 1..2
    /\ eventThread \in {"none", "running", "exited"}
    /\ eventThreadRunning \in BOOLEAN /\ decodeThreadRunning \in BOOLEAN
    /\ flying \in [1..MaxChannels -> 0..Transfers]
    /\ toSubmit \in 0..(MaxChannels * Transfers)
    /\ pending \in -1..(MaxChannels * Transfers)
    /\ queue \in Seq(Chunks) /\ Len(queue) <= MaxQueue
    /\ chunk \in Chunks
    /\ received \in [1..MaxChannels -> 0..1]
    /\ fed \in [1..MaxChannels -> 0..1]

(* A link that is down has left nothing behind: no thread that would be    *)
(* overwritten by the next connect, no transfer that would write into a    *)
(* buffer in use again, and no data for the next connection's parser.      *)
ClosedIsQuiet ==
    handle = 0 =>
        /\ eventThread = "none"
        /\ pc["decode"] \in {"none", "aborted"}
        /\ flying = [c \in 1..MaxChannels |-> 0]
        /\ pending = 0
        /\ queue = <<>>

(* stopReceiving frees nothing that is pending: the count it waits for is  *)
(* the number of transfers, although both threads change it without a lock *)
(* and a callback may run before its transfer has been counted.            *)
PendingIsExact ==
    pending = flying[1] + flying[2] - (IF \E t \in Callers : pc[t] = "count" THEN 1 ELSE 0)

(* The parser of a channel gets every chunk of the connection, in order    *)
(* and none of another connection, whichever thread stops the link when.   *)
InOrder ==
    pc["decode"] = "feed" =>
        chunk.handle = handle /\ chunk.n = Following(fed[chunk.channel])

(* "leave the channel idle and let the response watchdog reconnect"        *)
(* (Usb.cpp:831), for one channel and for all of them.                     *)
IdleIsReconnected ==
    \A c \in 1..MaxChannels :
        c \in Channels /\ connectionState = "connected" /\ handle # 0 /\ flying[c] = 0
            ~> handle = 0 \/ flying[c] > 0

(* It does where no subscriber sends and the board stays on the bus.       *)
QuietIsReconnected ==
    (~world.sends /\ ~world.unplugs /\ connectionState = "connected" /\ handle # 0 /\ AllIdle)
        ~> (handle = 0 \/ ~AllIdle)
=============================================================================
