------------------------- MODULE UsbTransportProofs -------------------------
(***************************************************************************)
(* Proofs about the USB link, for every number of transfers and every      *)
(* length of the queue: what a link that is down leaves behind, and that   *)
(* the count stopReceiving waits for is the number of transfers.           *)
(***************************************************************************)
EXTENDS UsbTransport, TLAPS

USE DEF callVars, lockVars, boardVars, handleVars, threadVars, transferVars, dataVars

-----------------------------------------------------------------------------
(* The inductive invariant.                                                *)

(* TypeOK without the bounds that follow from the rest.                    *)
Types ==
    /\ world \in Worlds
    /\ pc \in [Callers -> CallLabels]
    /\ after \in [Callers -> {"down", "downAgain", "open", "failed"}]
    /\ inSend \in [Callers -> BOOLEAN]
    /\ usbMutex \in Callers \cup {None}
    /\ sendLock \in Callers \cup {None}
    /\ handle \in 0..2 /\ last \in 1..2
    /\ flying \in [1..MaxChannels -> Nat]
    /\ toSubmit \in 0..(world.channels * Transfers)
    /\ pending \in Int

(* Between taking s_usbMutex and leaving it.                               *)
Locked == {"submitSend", "stop", "joinEvents", "reap", "joinDecode", "close", "closed",
           "submit", "count"}

(* A thread in a guarded section has the mutex, and one that reconnects    *)
(* from inside a send has both.                                            *)
Locks ==
    \A t \in Callers :
        /\ pc[t] \in Locked \/ inSend[t] => usbMutex = t
        /\ pc[t] \in {"sendUsb", "submitSend"} \/ inSend[t] => sendLock = t
        /\ inSend[t] => pc[t] \notin {"none", "idle", "wait", "feed", "exited", "sendUsb",
                                      "submitSend"}

NothingFlies == flying = [c \in 1..MaxChannels |-> 0] /\ pending = 0

(* What the thread that takes the link down or up has done so far.         *)
Stages ==
    \A t \in Callers :
        /\ pc[t] \in {"stop", "joinEvents", "reap", "joinDecode", "close", "submit", "count"}
               => handle # 0
        /\ pc[t] = "closed" => handle = 0
        /\ pc[t] \in {"reap", "joinDecode", "close"} => eventThread = "none"
        /\ pc[t] \in {"joinDecode", "close"} => NothingFlies
        /\ pc[t] = "close" => pc["decode"] = "none" /\ queue = <<>>
        /\ pc[t] = "count" => toSubmit > 0

UsbInv == Types /\ Locks /\ Stages /\ ClosedIsQuiet /\ PendingIsExact

(* The steps of Next one by one.                                           *)
LEMMA Steps ==
  ASSUME Next
  PROVE  \/ Unplug \/ Plug \/ TimePasses
         \/ \E t \in Callers :
               \/ SendGcode(t) \/ WatchdogReconnects(t)
               \/ TakeSendLock(t) \/ SendUsbData(t) \/ SubmitSend(t) \/ SubmitSendNoDevice(t)
               \/ Disconnect(t) \/ Connect(t) \/ Reset(t)
               \/ StopReceiving(t) \/ JoinEvents(t) \/ (\E c \in Channels : Reap(t, c))
               \/ StopDecoding(t) \/ JoinDecode(t) \/ JoinSelf(t) \/ Close(t)
               \/ Down(t) \/ Disconnected(t)
               \/ Open(t) \/ OpenFails(t) \/ ConnectFails(t)
               \/ SubmitReceive(t) \/ CountReceive(t) \/ SubmitReceiveFails(t)
               \/ Opened(t) \/ Connected(t)
         \/ EventLoopEnds
         \/ \E c \in Channels : TransferCompleted(c) \/ TransferFailed(c)
         \/ TakeChunk \/ DecodeLoopEnds \/ Decode
<1>1. {"request", "lvgl"} \subseteq Callers /\ "request" \in Callers
  BY DEF Callers
<1> QED
  BY <1>1, Zenon DEF Next, Sending, Reconnecting, EventThread, DecodeThread


-----------------------------------------------------------------------------
(* Each part of the invariant is kept by every step.                       *)

(* startReceiving submits on a channel there is.                           *)
LEMMA NextChannelExists ==
  ASSUME world \in WorldType, toSubmit \in 1..(world.channels * Transfers)
  PROVE  /\ NextChannel \in Channels
         /\ world.channels = 1 => NextChannel = 1
         /\ world.channels = 2 => NextChannel = IF toSubmit > Transfers THEN 1 ELSE 2
<1>1. Transfers \in Nat \ {0} /\ world.channels \in 1..2
  BY UsbAssumption DEF WorldType, MaxChannels
<1> DEFINE n == toSubmit - 1
<1>2. n \in Nat /\ n < world.channels * Transfers
  BY <1>1
<1>3. ASSUME n < Transfers PROVE n \div Transfers = 0
  BY <1>1, <1>2, <1>3
<1>4. ASSUME n >= Transfers, n < 2 * Transfers PROVE n \div Transfers = 1
  BY <1>1, <1>2, <1>4
<1>5. CASE world.channels = 1
  BY <1>1, <1>2, <1>3, <1>5 DEF NextChannel, Channels
<1>6. CASE world.channels = 2
  BY <1>1, <1>2, <1>3, <1>4, <1>6 DEF NextChannel, Channels
<1> QED
  BY <1>1, <1>5, <1>6

(* Who holds s_usbMutex and m_sendLock is where the code says it is, at     *)
(* every step of a send, of a disconnect and of a connect.                  *)
LEMMA LocksStep ==
  ASSUME UsbInv, Next
  PROVE  Locks'
<1> USE UsbAssumption DEF UsbInv, Types, Locks, Locked, CallLabels, Goto, Return, TakeUsb, LeaveUsb
<1>1. CASE Unplug \/ Plug \/ TimePasses \/ EventLoopEnds
  BY <1>1 DEF Unplug, Plug, TimePasses, EventLoopEnds
<1>2. ASSUME NEW c \in Channels, TransferCompleted(c) \/ TransferFailed(c)
      PROVE  Locks'
  BY <1>2 DEF TransferCompleted, TransferFailed
<1>3. CASE TakeChunk \/ DecodeLoopEnds \/ Decode
  BY <1>3 DEF TakeChunk, DecodeLoopEnds, Decode, Callers
<1>4. ASSUME NEW t \in Callers, SendGcode(t) \/ WatchdogReconnects(t) PROVE Locks'
  BY <1>4 DEF SendGcode, WatchdogReconnects
<1>5. ASSUME NEW t \in Callers, TakeSendLock(t) \/ SendUsbData(t) PROVE Locks'
  BY <1>5 DEF TakeSendLock, SendUsbData, Callers
<1>6. ASSUME NEW t \in Callers, SubmitSend(t) \/ SubmitSendNoDevice(t) PROVE Locks'
  BY <1>6 DEF SubmitSend, SubmitSendNoDevice
<1>7. ASSUME NEW t \in Callers, Disconnect(t) \/ Connect(t) \/ Disconnected(t) \/ Connected(t) PROVE Locks'
  BY <1>7 DEF Disconnect, Connect, Disconnected, Connected
<1>8. ASSUME NEW t \in Callers, Reset(t) PROVE Locks'
  BY <1>8 DEF Reset, Callers
<1>9. ASSUME NEW t \in Callers, StopReceiving(t) \/ JoinEvents(t) \/ StopDecoding(t) \/ Close(t)
      PROVE  Locks'
  BY <1>9 DEF StopReceiving, JoinEvents, StopDecoding, Close
<1>10. ASSUME NEW t \in Callers, NEW c \in Channels, Reap(t, c) PROVE Locks'
  BY <1>10 DEF Reap
<1>11. ASSUME NEW t \in Callers, JoinDecode(t) \/ JoinSelf(t) PROVE Locks'
  BY <1>11 DEF JoinDecode, JoinSelf
<1>12. ASSUME NEW t \in Callers, Down(t) \/ OpenFails(t) \/ Opened(t) PROVE Locks'
  BY <1>12 DEF Down, OpenFails, Opened
<1>13. ASSUME NEW t \in Callers, Open(t) PROVE Locks'
  BY <1>13 DEF Open, Stages, ClosedIsQuiet
<1>14. ASSUME NEW t \in Callers, ConnectFails(t) PROVE Locks'
  BY <1>14 DEF ConnectFails
<1>15. ASSUME NEW t \in Callers, SubmitReceive(t) \/ CountReceive(t) \/ SubmitReceiveFails(t)
       PROVE  Locks'
  BY <1>15 DEF SubmitReceive, CountReceive, SubmitReceiveFails
<1> QED
  BY Steps, <1>1, <1>2, <1>3, <1>4, <1>5, <1>6, <1>7, <1>8, <1>9, <1>10, <1>11, <1>12, <1>13,
     <1>14, <1>15

(* The labels, the locks and the transfers keep their types.                *)
LEMMA TypesStep ==
  ASSUME UsbInv, Next
  PROVE  Types'
<1> USE UsbAssumption DEF UsbInv, Types, Locks, Locked, CallLabels, Goto, Return, TakeUsb, LeaveUsb
<1>0. /\ Channels \subseteq 1..MaxChannels
      /\ world \in WorldType
      /\ world.channels * Transfers \in Nat
  <2>1. world.channels \in 1..2 /\ Transfers \in Nat
    BY DEF WorldType, MaxChannels
  <2>2. world.channels * Transfers \in Nat
    BY <2>1
  <2> QED
    BY <2>1, <2>2 DEF Channels, MaxChannels
<1>1. CASE Unplug \/ Plug \/ TimePasses \/ EventLoopEnds
  BY <1>1 DEF Unplug, Plug, TimePasses, EventLoopEnds
<1>2. ASSUME NEW c \in Channels, TransferCompleted(c) \/ TransferFailed(c)
      PROVE  Types'
  BY <1>0, <1>2 DEF TransferCompleted, TransferFailed
<1>3. CASE TakeChunk \/ DecodeLoopEnds \/ Decode
  BY <1>3 DEF TakeChunk, DecodeLoopEnds, Decode, Callers
<1>4. ASSUME NEW t \in Callers, SendGcode(t) \/ WatchdogReconnects(t) PROVE Types'
  BY <1>4 DEF SendGcode, WatchdogReconnects
<1>5. ASSUME NEW t \in Callers, TakeSendLock(t) \/ SendUsbData(t) PROVE Types'
  BY <1>5 DEF TakeSendLock, SendUsbData, Callers
<1>6. ASSUME NEW t \in Callers, SubmitSend(t) \/ SubmitSendNoDevice(t) PROVE Types'
  BY <1>6 DEF SubmitSend, SubmitSendNoDevice
<1>7. ASSUME NEW t \in Callers, Disconnect(t) \/ Connect(t) \/ Disconnected(t) \/ Connected(t) PROVE Types'
  BY <1>7 DEF Disconnect, Connect, Disconnected, Connected
<1>8. ASSUME NEW t \in Callers, Reset(t) PROVE Types'
  BY <1>8 DEF Reset, Callers
<1>9. ASSUME NEW t \in Callers, StopReceiving(t) \/ JoinEvents(t) \/ StopDecoding(t) \/ Close(t)
      PROVE  Types'
  BY <1>9 DEF StopReceiving, JoinEvents, StopDecoding, Close
<1>10. ASSUME NEW t \in Callers, NEW c \in Channels, Reap(t, c) PROVE Types'
  BY <1>0, <1>10 DEF Reap
<1>11. ASSUME NEW t \in Callers, JoinDecode(t) \/ JoinSelf(t) PROVE Types'
  BY <1>11 DEF JoinDecode, JoinSelf
<1>12. ASSUME NEW t \in Callers, Down(t) \/ OpenFails(t) \/ Opened(t) PROVE Types'
  BY <1>12 DEF Down, OpenFails, Opened
<1>13. ASSUME NEW t \in Callers, Open(t) PROVE Types'
  <2>1. toSubmit' = world.channels * Transfers /\ world' = world
    BY <1>13 DEF Open
  <2>2. toSubmit' \in 0..(world'.channels * Transfers)
    BY <1>0, <2>1
  <2>3. handle' \in 0..2 /\ last' \in 1..2
    BY <1>13 DEF Open
  <2>4. pc' \in [Callers -> CallLabels]
    BY <1>13 DEF Open
  <2> QED
    BY <1>13, <2>2, <2>3, <2>4 DEF Open
<1>14. ASSUME NEW t \in Callers, ConnectFails(t) PROVE Types'
  BY <1>14 DEF ConnectFails
<1>15. ASSUME NEW t \in Callers, SubmitReceive(t) PROVE Types'
  <2>1. NextChannel \in 1..MaxChannels
    <3>1. toSubmit \in 1..(world.channels * Transfers)
      BY <1>0, <1>15 DEF SubmitReceive
    <3> QED
      BY <1>0, <3>1, NextChannelExists
  <2> QED
    BY <1>0, <1>15, <2>1 DEF SubmitReceive
<1>16. ASSUME NEW t \in Callers, CountReceive(t) \/ SubmitReceiveFails(t) PROVE Types'
  BY <1>0, <1>16 DEF CountReceive, SubmitReceiveFails, Stages
<1> QED
  BY Steps, <1>1, <1>2, <1>3, <1>4, <1>5, <1>6, <1>7, <1>8, <1>9, <1>10, <1>11, <1>12, <1>13,
     <1>14, <1>15, <1>16

(* What is left of a connection while it is taken down, stage by stage.     *)
LEMMA StagesStep ==
  ASSUME UsbInv, Next
  PROVE  Stages' /\ ClosedIsQuiet'
<1> USE UsbAssumption DEF UsbInv, Types, Locks, Locked, Stages, ClosedIsQuiet, NothingFlies,
                         Goto, Return, TakeUsb, LeaveUsb
<1> DEFINE Kept == Stages' /\ ClosedIsQuiet'
<1>1. CASE Unplug \/ Plug \/ TimePasses \/ EventLoopEnds
  BY <1>1 DEF Unplug, Plug, TimePasses, EventLoopEnds
<1>2. ASSUME NEW c \in Channels, TransferCompleted(c) \/ TransferFailed(c)
      PROVE  Kept
  BY <1>2 DEF TransferCompleted, TransferFailed, Receive
<1>3. CASE TakeChunk \/ DecodeLoopEnds \/ Decode
  BY <1>3 DEF TakeChunk, DecodeLoopEnds, Decode, Callers
<1>4. ASSUME NEW t \in Callers, SendGcode(t) \/ WatchdogReconnects(t) PROVE Kept
  BY <1>4 DEF SendGcode, WatchdogReconnects, Callers
<1>5. ASSUME NEW t \in Callers, TakeSendLock(t) \/ SendUsbData(t) PROVE Kept
  BY <1>5 DEF TakeSendLock, SendUsbData, Callers
<1>6. ASSUME NEW t \in Callers, SubmitSend(t) \/ SubmitSendNoDevice(t) PROVE Kept
  BY <1>6 DEF SubmitSend, SubmitSendNoDevice, Callers
<1>7. ASSUME NEW t \in Callers, Disconnect(t) \/ Connect(t) \/ Disconnected(t) \/ Connected(t) PROVE Kept
  BY <1>7 DEF Disconnect, Connect, Disconnected, Connected, Callers
<1>8. ASSUME NEW t \in Callers, Reset(t) PROVE Kept
  BY <1>8 DEF Reset, Callers
<1>9. ASSUME NEW t \in Callers, StopReceiving(t) \/ JoinEvents(t) PROVE Kept
  BY <1>9 DEF StopReceiving, JoinEvents
<1>10. ASSUME NEW t \in Callers, StopDecoding(t) PROVE Kept
  BY <1>10 DEF StopDecoding
<1>11. ASSUME NEW t \in Callers, NEW c \in Channels, Reap(t, c) PROVE Kept
  BY <1>11 DEF Reap, Receive
<1>12. ASSUME NEW t \in Callers, JoinDecode(t) PROVE Kept
  BY <1>12 DEF JoinDecode, Callers
<1>13. ASSUME NEW t \in Callers, JoinSelf(t) PROVE Kept
  BY <1>13 DEF JoinSelf, Callers
<1>14. ASSUME NEW t \in Callers, Close(t) PROVE Kept
  BY <1>14 DEF Close
<1>15. ASSUME NEW t \in Callers, Down(t) \/ OpenFails(t) \/ Opened(t) PROVE Kept
  BY <1>15 DEF Down, OpenFails, Opened, Callers
<1>16. ASSUME NEW t \in Callers, Open(t) PROVE Kept
  BY <1>16 DEF Open, Callers
<1>17. ASSUME NEW t \in Callers, ConnectFails(t) PROVE Kept
  BY <1>17 DEF ConnectFails
<1>18. ASSUME NEW t \in Callers, SubmitReceive(t) PROVE Kept
  BY <1>18 DEF SubmitReceive
<1>19. ASSUME NEW t \in Callers, CountReceive(t) \/ SubmitReceiveFails(t) PROVE Kept
  BY <1>19 DEF CountReceive, SubmitReceiveFails
<1> QED
  BY Steps, <1>1, <1>2, <1>3, <1>4, <1>5, <1>6, <1>7, <1>8, <1>9, <1>10, <1>11, <1>12, <1>13,
     <1>14, <1>15, <1>16, <1>17, <1>18, <1>19

-----------------------------------------------------------------------------
(* The count of the transfers.                                             *)

Counting == \E t \in Callers : pc[t] = "count"

(* Submitting, counting, completing and failing keep the count exact.       *)
LEMMA PendingStep ==
  ASSUME UsbInv, Next
  PROVE  PendingIsExact'
<1> USE UsbAssumption DEF UsbInv, Types, Goto, Return, MaxChannels
<1>0. Channels \subseteq {1, 2}
  BY DEF Channels, WorldType
(* While transfers and counts stay as they are, and so does who is about to*)
(* count one.                                                              *)
<1>1. ASSUME UNCHANGED <<flying, pending>>, Counting' <=> Counting
      PROVE  PendingIsExact'
  BY <1>1 DEF PendingIsExact, Counting
<1>2. CASE Unplug \/ Plug \/ TimePasses \/ EventLoopEnds
  BY <1>1, <1>2 DEF Unplug, Plug, TimePasses, EventLoopEnds, Counting
<1>3. ASSUME NEW c \in Channels, TransferCompleted(c) \/ TransferFailed(c)
      PROVE  PendingIsExact'
  BY <1>0, <1>3 DEF TransferCompleted, TransferFailed, PendingIsExact
<1>4. CASE TakeChunk \/ DecodeLoopEnds \/ Decode
  BY <1>1, <1>4 DEF TakeChunk, DecodeLoopEnds, Decode, Counting, Callers
<1>5. ASSUME NEW t \in Callers, NEW c \in Channels, Reap(t, c) PROVE PendingIsExact'
  BY <1>0, <1>5 DEF Reap, PendingIsExact
<1>6. ASSUME NEW t \in Callers, pc[t] # "count", pc'[t] # "count", UNCHANGED <<flying, pending>>,
             \A u \in Callers \ {t} : pc'[u] = "count" <=> pc[u] = "count"
      PROVE  PendingIsExact'
  BY <1>1, <1>6 DEF Counting
<1>7. ASSUME NEW t \in Callers, SendGcode(t) \/ WatchdogReconnects(t) PROVE PendingIsExact'
  BY <1>6, <1>7 DEF SendGcode, WatchdogReconnects
<1>8. ASSUME NEW t \in Callers,
             TakeSendLock(t) \/ SendUsbData(t) \/ SubmitSend(t) \/ SubmitSendNoDevice(t)
      PROVE  PendingIsExact'
  BY <1>6, <1>8 DEF TakeSendLock, SendUsbData, SubmitSend, SubmitSendNoDevice
<1>9. ASSUME NEW t \in Callers, Disconnect(t) \/ Connect(t) \/ Disconnected(t) \/ Connected(t)
      PROVE  PendingIsExact'
  BY <1>6, <1>9 DEF Disconnect, Connect, Disconnected, Connected
<1>10. ASSUME NEW t \in Callers, Reset(t) \/ StopReceiving(t) \/ JoinEvents(t) \/ Close(t)
       PROVE  PendingIsExact'
  BY <1>6, <1>10 DEF Reset, StopReceiving, JoinEvents, Close
<1>11. ASSUME NEW t \in Callers, JoinDecode(t) PROVE PendingIsExact'
  BY <1>6, <1>11 DEF JoinDecode, Callers
<1>12. ASSUME NEW t \in Callers, Down(t) \/ OpenFails(t) \/ Opened(t) \/ ConnectFails(t)
       PROVE  PendingIsExact'
  BY <1>6, <1>12 DEF Down, OpenFails, Opened, ConnectFails
<1>13. ASSUME NEW t \in Callers, Open(t) PROVE PendingIsExact'
  BY <1>6, <1>13 DEF Open, Callers, Stages, ClosedIsQuiet
<1>14. ASSUME NEW t \in Callers, SubmitReceiveFails(t) PROVE PendingIsExact'
  BY <1>6, <1>14 DEF SubmitReceiveFails
(* Nobody else is about to count, for that takes s_usbMutex.               *)
<1>15. ASSUME NEW t \in Callers, pc[t] \in Locked, pc[t] # "count" PROVE ~Counting
  BY <1>15 DEF Counting, Locks, Locked
<1>16. ASSUME NEW t \in Callers, StopDecoding(t) PROVE PendingIsExact'
  BY <1>15, <1>16 DEF StopDecoding, PendingIsExact, Counting, Locked
<1>17. ASSUME NEW t \in Callers, JoinSelf(t) PROVE PendingIsExact'
  BY <1>1, <1>15, <1>17 DEF JoinSelf, Counting, Locked
<1>18. ASSUME NEW t \in Callers, SubmitReceive(t) PROVE PendingIsExact'
  <2>1. NextChannel \in {1, 2}
    <3>1. toSubmit \in 1..(world.channels * Transfers) /\ world \in WorldType
      BY <1>18 DEF SubmitReceive
    <3> QED
      BY <1>0, <3>1, NextChannelExists
  <2>2. ~Counting /\ Counting'
    BY <1>15, <1>18 DEF SubmitReceive, Counting, Locked
  <2> QED
    BY <1>18, <2>1, <2>2 DEF SubmitReceive, PendingIsExact, Counting
<1>19. ASSUME NEW t \in Callers, CountReceive(t) PROVE PendingIsExact'
  <2>1. Counting /\ ~Counting'
    BY <1>19 DEF CountReceive, Counting, Locks, Locked
  <2> QED
    BY <1>19, <2>1 DEF CountReceive, PendingIsExact, Counting
<1> QED
  BY Steps, <1>2, <1>3, <1>4, <1>5, <1>7, <1>8, <1>9, <1>10, <1>11, <1>12, <1>13, <1>14, <1>16,
     <1>17, <1>18, <1>19

-----------------------------------------------------------------------------
(* The inductive invariant of the link: who holds the two locks, which of   *)
(* its threads run and what is left of a connection at every stage of       *)
(* Duet::Disconnect, UsbDevice::stopReceiving and Duet::Connect.            *)
THEOREM UsbInvariant == Spec => []UsbInv
<1>1. ASSUME Init PROVE UsbInv
  <2> USE <1>1 DEF Init
  <2>1. toSubmit \in 0..(world.channels * Transfers)
    <3>1. world.channels \in Nat /\ Transfers \in Nat
      BY UsbAssumption DEF WorldType
    <3>2. world.channels * Transfers \in Nat
      BY <3>1
    <3> QED
      BY <3>2
  <2>2. Types
    BY <2>1 DEF Types, CallLabels, Callers, MaxChannels
  <2>3. Locks /\ Stages
    BY DEF Locks, Locked, Stages, Callers
  <2>4. ClosedIsQuiet /\ PendingIsExact
    BY DEF ClosedIsQuiet, PendingIsExact, Callers, MaxChannels
  <2> QED
    BY <2>2, <2>3, <2>4 DEF UsbInv
<1>2. ASSUME UsbInv, Next PROVE UsbInv'
  BY <1>2, TypesStep, LocksStep, StagesStep, PendingStep DEF UsbInv
<1>3. ASSUME UsbInv, UNCHANGED vars PROVE UsbInv'
  BY <1>3 DEF vars, UsbInv, Types, Locks, Stages, ClosedIsQuiet, PendingIsExact, NothingFlies
<1> QED
  BY <1>1, <1>2, <1>3, PTL DEF Spec

(* A link that is down has left nothing behind (stopReceiving, reset):     *)
(* whichever thread takes it down when, and whatever the board and the     *)
(* other threads do meanwhile.                                             *)
THEOREM NothingIsLeftBehind == Spec => []ClosedIsQuiet
<1>1. UsbInv => ClosedIsQuiet
  BY DEF UsbInv
<1> QED
  BY <1>1, UsbInvariant, PTL

(* m_pendingReceiveCount is the number of transfers, although the event    *)
(* thread may count one down before it was counted up.                     *)
THEOREM PendingIsCounted == Spec => []PendingIsExact
<1>1. UsbInv => PendingIsExact
  BY DEF UsbInv
<1> QED
  BY <1>1, UsbInvariant, PTL

-----------------------------------------------------------------------------
(* The types, with their bounds.                                           *)

DataTypes ==
    /\ connectionState \in {"disconnected", "connecting", "connected"}
    /\ late \in BOOLEAN /\ plugged \in BOOLEAN /\ alive \in BOOLEAN
    /\ eventThread \in {"none", "running", "exited"}
    /\ eventThreadRunning \in BOOLEAN /\ decodeThreadRunning \in BOOLEAN
    /\ queue \in Seq(Chunks) /\ Len(queue) <= MaxQueue
    /\ chunk \in Chunks
    /\ received \in [1..MaxChannels -> 0..1]
    /\ fed \in [1..MaxChannels -> 0..1]

(* Of n transfers, those that startReceiving will submit on channel c.     *)
Left(c, n) ==
    IF world.channels = 1 THEN IF c = 1 THEN n ELSE 0
    ELSE IF c = 1 THEN IF n > Transfers THEN n - Transfers ELSE 0
                  ELSE IF n > Transfers THEN Transfers ELSE n

(* No channel gets more transfers than it may have.                        *)
Room ==
    \A c \in 1..MaxChannels :
        /\ flying[c] <= Transfers
        /\ \A t \in Callers :
              /\ pc[t] = "submit" => flying[c] + Left(c, toSubmit) <= Transfers
              /\ pc[t] = "count" => flying[c] + Left(c, toSubmit - 1) <= Transfers

(* A completed transfer puts a well-typed chunk at the end of the queue.    *)
LEMMA ReceiveTypes ==
  ASSUME Types, DataTypes, NEW c \in 1..MaxChannels, Len(queue) < MaxQueue, Receive(c)
  PROVE  /\ queue' \in Seq(Chunks) /\ Len(queue') <= MaxQueue
         /\ chunk' \in Chunks
         /\ received' \in [1..MaxChannels -> 0..1]
         /\ fed' \in [1..MaxChannels -> 0..1]
<1> DEFINE new == [handle |-> handle, channel |-> c, n |-> Following(received[c])]
<1>1. new \in Chunks
  BY DEF Types, DataTypes, Chunks, Following
<1>2. queue' = Append(queue, new) /\ received' = [received EXCEPT ![c] = Following(@)]
  BY DEF Receive
<1>3. queue' \in Seq(Chunks) /\ Len(queue') <= MaxQueue
  BY <1>1, <1>2, UsbAssumption DEF DataTypes
<1>4. received' \in [1..MaxChannels -> 0..1]
  BY <1>2 DEF DataTypes, Following
<1> QED
  BY <1>3, <1>4 DEF Receive, DataTypes

(* The data of the link has its types before anything was sent.             *)
LEMMA TypesAtFirst ==
  ASSUME Init
  PROVE  DataTypes
<1>1. NoChunk \in Chunks
  BY DEF NoChunk, Chunks, MaxChannels
<1>2. queue \in Seq(Chunks) /\ Len(queue) <= MaxQueue
  BY UsbAssumption DEF Init
<1>3. received \in [1..MaxChannels -> 0..1] /\ fed \in [1..MaxChannels -> 0..1]
  BY DEF Init
<1> QED
  BY <1>1, <1>2, <1>3 DEF Init, DataTypes

(* Every step keeps the types of the queue and of the parsers.              *)
LEMMA DataTypesStep ==
  ASSUME UsbInv, DataTypes, Next
  PROVE  DataTypes'
<1> USE DEF DataTypes, Goto, Return
<1>0. Types /\ Channels \subseteq 1..MaxChannels
  BY UsbAssumption DEF UsbInv, Types, Channels, WorldType, MaxChannels
<1>1. CASE Unplug \/ Plug \/ TimePasses \/ EventLoopEnds
  BY <1>1 DEF Unplug, Plug, TimePasses, EventLoopEnds
<1>2. ASSUME NEW c \in Channels, TransferCompleted(c) \/ TransferFailed(c) PROVE DataTypes'
  BY <1>0, <1>2, ReceiveTypes DEF TransferCompleted, TransferFailed
<1>3. CASE TakeChunk
  <2>1. queue # <<>> /\ chunk' = Head(queue) /\ queue' = Tail(queue)
    BY <1>3 DEF TakeChunk
  <2>2. chunk' \in Chunks /\ queue' \in Seq(Chunks) /\ Len(queue') <= MaxQueue
    BY <2>1, UsbAssumption
  <2> QED
    BY <1>3, <2>2 DEF TakeChunk
<1>4. CASE DecodeLoopEnds \/ Decode
  <2>1. CASE DecodeLoopEnds
    BY <2>1 DEF DecodeLoopEnds
  <2>2. CASE Decode
    <3>1. chunk' = NoChunk /\ fed' = [fed EXCEPT ![chunk.channel] = Following(@)]
      BY <2>2 DEF Decode
    <3>2. chunk' \in Chunks
      BY <3>1 DEF NoChunk, Chunks, MaxChannels
    <3>3. fed' \in [1..MaxChannels -> 0..1]
      BY <3>1 DEF Chunks, Following
    <3> QED
      BY <2>2, <3>2, <3>3 DEF Decode
  <2> QED
    BY <1>4, <2>1, <2>2
<1>5. ASSUME NEW t \in Callers,
             \/ SendGcode(t) \/ WatchdogReconnects(t)
             \/ TakeSendLock(t) \/ SendUsbData(t) \/ SubmitSend(t) \/ SubmitSendNoDevice(t)
      PROVE  DataTypes'
  BY <1>5 DEF SendGcode, WatchdogReconnects, TakeSendLock, SendUsbData, SubmitSend,
              SubmitSendNoDevice
<1>6. ASSUME NEW t \in Callers,
             Disconnect(t) \/ Connect(t) \/ Disconnected(t) \/ Connected(t) \/ Reset(t)
      PROVE  DataTypes'
  BY <1>6 DEF Disconnect, Connect, Disconnected, Connected, Reset
<1>7. ASSUME NEW t \in Callers,
             StopReceiving(t) \/ JoinEvents(t) \/ StopDecoding(t) \/ JoinSelf(t) \/ Close(t)
      PROVE  DataTypes'
  BY <1>7 DEF StopReceiving, JoinEvents, StopDecoding, JoinSelf, Close
<1>8. ASSUME NEW t \in Callers, NEW c \in Channels, Reap(t, c) PROVE DataTypes'
  BY <1>0, <1>8, ReceiveTypes DEF Reap
<1>9. ASSUME NEW t \in Callers, JoinDecode(t) PROVE DataTypes'
  BY <1>9, UsbAssumption DEF JoinDecode
<1>10. ASSUME NEW t \in Callers, Down(t) \/ OpenFails(t) \/ Opened(t) \/ ConnectFails(t)
       PROVE  DataTypes'
  BY <1>10 DEF Down, OpenFails, Opened, ConnectFails
<1>11. ASSUME NEW t \in Callers, Open(t) PROVE DataTypes'
  BY <1>11 DEF Open
<1>12. ASSUME NEW t \in Callers, SubmitReceive(t) \/ CountReceive(t) \/ SubmitReceiveFails(t)
       PROVE  DataTypes'
  BY <1>12 DEF SubmitReceive, CountReceive, SubmitReceiveFails
<1> QED
  BY Steps, <1>1, <1>2, <1>3, <1>4, <1>5, <1>6, <1>7, <1>8, <1>9, <1>10, <1>11, <1>12

(* startReceiving never gives a channel more than its transfers.            *)
LEMMA RoomStep ==
  ASSUME UsbInv, Room, Next
  PROVE  Room'
<1> USE UsbAssumption DEF UsbInv, Types, Room, Left, Goto, Return, MaxChannels
<1>0. /\ Channels \subseteq {1, 2}
      /\ world \in WorldType /\ world.channels \in {1, 2} /\ Transfers \in Nat
  BY DEF Channels, WorldType
(* No transfer is submitted, and who submits or counts did so before.      *)
<1>1. ASSUME \A c \in 1..MaxChannels : flying'[c] <= flying[c],
             UNCHANGED <<toSubmit, world>>, flying' \in [1..MaxChannels -> Nat],
             \A t \in Callers : pc'[t] \in {"submit", "count"} => pc'[t] = pc[t]
      PROVE  Room'
  BY <1>0, <1>1
<1>2. CASE Unplug \/ Plug \/ TimePasses \/ EventLoopEnds
  BY <1>1, <1>2 DEF Unplug, Plug, TimePasses, EventLoopEnds
<1>3. ASSUME NEW c \in Channels, TransferCompleted(c) \/ TransferFailed(c) PROVE Room'
  <2>1. c \in 1..MaxChannels /\ UNCHANGED <<pc, toSubmit, world>>
    BY <1>0, <1>3 DEF TransferCompleted, TransferFailed
  <2>2. /\ flying[c] > 0
        /\ flying' = flying \/ flying' = [flying EXCEPT ![c] = @ - 1]
    BY <1>3 DEF TransferCompleted, TransferFailed
  <2>3. flying' \in [1..MaxChannels -> Nat] /\ \A d \in 1..MaxChannels : flying'[d] <= flying[d]
    BY <2>1, <2>2
  <2> QED
    BY <1>1, <2>1, <2>3
<1>4. CASE TakeChunk \/ DecodeLoopEnds \/ Decode
  BY <1>1, <1>4 DEF TakeChunk, DecodeLoopEnds, Decode, Callers
<1>5. ASSUME NEW t \in Callers,
             \/ SendGcode(t) \/ WatchdogReconnects(t)
             \/ TakeSendLock(t) \/ SendUsbData(t) \/ SubmitSend(t) \/ SubmitSendNoDevice(t)
      PROVE  Room'
  BY <1>1, <1>5 DEF SendGcode, WatchdogReconnects, TakeSendLock, SendUsbData, SubmitSend,
                    SubmitSendNoDevice
<1>6. ASSUME NEW t \in Callers,
             Disconnect(t) \/ Connect(t) \/ Disconnected(t) \/ Connected(t) \/ Reset(t)
      PROVE  Room'
  BY <1>1, <1>6 DEF Disconnect, Connect, Disconnected, Connected, Reset
<1>7. ASSUME NEW t \in Callers,
             StopReceiving(t) \/ JoinEvents(t) \/ StopDecoding(t) \/ JoinDecode(t) \/ Close(t)
      PROVE  Room'
  BY <1>1, <1>7 DEF StopReceiving, JoinEvents, StopDecoding, JoinDecode, Close
<1>8. ASSUME NEW t \in Callers, NEW c \in Channels, Reap(t, c) PROVE Room'
  BY <1>0, <1>1, <1>8 DEF Reap
<1>9. ASSUME NEW t \in Callers, JoinSelf(t) PROVE Room'
  BY <1>1, <1>9 DEF JoinSelf
<1>10. ASSUME NEW t \in Callers, Down(t) \/ OpenFails(t) \/ Opened(t) \/ ConnectFails(t)
       PROVE  Room'
  BY <1>1, <1>10 DEF Down, OpenFails, Opened, ConnectFails
<1>11. ASSUME NEW t \in Callers, Open(t) PROVE Room'
  <2>1. flying = [c \in 1..MaxChannels |-> 0] /\ flying' = flying /\ world' = world
    BY <1>11 DEF Open, Stages, ClosedIsQuiet
  <2>2. toSubmit' = IF world.channels = 1 THEN Transfers ELSE 2 * Transfers
    BY <1>0, <1>11 DEF Open
  <2>3. \A u \in Callers : pc'[u] # "count"
    BY <1>11 DEF Open, Locks, Locked
  <2> QED
    BY <1>0, <2>1, <2>2, <2>3
<1>12. ASSUME NEW t \in Callers, SubmitReceive(t) PROVE Room'
  <2>1. /\ NextChannel \in Channels
        /\ world.channels = 1 => NextChannel = 1
        /\ world.channels = 2 => NextChannel = IF toSubmit > Transfers THEN 1 ELSE 2
    <3>1. toSubmit \in 1..(world.channels * Transfers)
      BY <1>12 DEF SubmitReceive
    <3> QED
      BY <1>0, <3>1, NextChannelExists
  <2>2. \A u \in Callers \ {t} : pc'[u] \notin {"submit", "count"}
    BY <1>12 DEF SubmitReceive, Locks, Locked
  <2>3. flying' = [flying EXCEPT ![NextChannel] = @ + 1] /\ UNCHANGED <<toSubmit, world>>
    BY <1>12 DEF SubmitReceive
  <2>4. pc'[t] = "count" /\ pc[t] = "submit" /\ toSubmit > 0
    BY <1>12 DEF SubmitReceive
  <2> QED
    BY <1>0, <2>1, <2>2, <2>3, <2>4
<1>13. ASSUME NEW t \in Callers, CountReceive(t) PROVE Room'
  <2>1. \A u \in Callers \ {t} : pc'[u] \notin {"submit", "count"}
    BY <1>13 DEF CountReceive, Locks, Locked
  <2> QED
    BY <1>0, <1>13, <2>1 DEF CountReceive
<1>14. ASSUME NEW t \in Callers, SubmitReceiveFails(t) PROVE Room'
  <2>1. \A u \in Callers : pc'[u] \notin {"submit", "count"}
    BY <1>14 DEF SubmitReceiveFails, Locks, Locked
  <2> QED
    BY <1>14, <2>1 DEF SubmitReceiveFails
<1> QED
  BY Steps, <1>2, <1>3, <1>4, <1>5, <1>6, <1>7, <1>8, <1>9, <1>10, <1>11, <1>12, <1>13, <1>14

(* Every variable of the link keeps its type: no channel ever has more     *)
(* transfers than startReceiving gives it, and the count is one short at   *)
(* most.                                                                   *)
THEOREM TypeCorrect == Spec => []TypeOK
<1>1. ASSUME Init PROVE DataTypes /\ Room
  <2>1. \A c \in 1..MaxChannels : flying[c] <= Transfers
    BY <1>1, UsbAssumption DEF Init
  <2>2. \A t \in Callers : pc[t] \in {"none", "idle"}
    BY <1>1 DEF Init
  <2> QED
    BY <1>1, <2>1, <2>2, TypesAtFirst DEF Room
<1>2. ASSUME UsbInv, DataTypes, Room, [Next]_vars PROVE DataTypes' /\ Room'
  <2>1. CASE Next
    BY <1>2, <2>1, DataTypesStep, RoomStep
  <2>2. CASE UNCHANGED vars
    BY <1>2, <2>2 DEF vars, DataTypes, Room, Left
  <2> QED
    BY <1>2, <2>1, <2>2
<1>3. ASSUME UsbInv, DataTypes, Room PROVE TypeOK
  <2>1. toSubmit \in 0..(MaxChannels * Transfers)
    <3>1. world.channels \in {1, 2} /\ Transfers \in Nat
      BY <1>3, UsbAssumption DEF UsbInv, Types, WorldType, MaxChannels
    <3>2. toSubmit \in 0..(world.channels * Transfers)
      BY <1>3 DEF UsbInv, Types
    <3>3. CASE world.channels = 1
      BY <3>1, <3>2, <3>3 DEF MaxChannels
    <3>4. CASE world.channels = 2
      BY <3>2, <3>4 DEF MaxChannels
    <3> QED
      BY <3>1, <3>3, <3>4
  <2>2. flying \in [1..MaxChannels -> 0..Transfers]
    BY <1>3, UsbAssumption DEF UsbInv, Types, Room, MaxChannels
  <2>3. pending \in -1..(MaxChannels * Transfers)
    <3>1. flying[1] \in 0..Transfers /\ flying[2] \in 0..Transfers
      BY <2>2 DEF MaxChannels
    <3> QED
      BY <1>3, <3>1, UsbAssumption DEF UsbInv, PendingIsExact, MaxChannels
  <2> QED
    BY <1>3, <2>1, <2>2, <2>3 DEF UsbInv, Types, DataTypes, TypeOK
<1> QED
  BY <1>1, <1>2, <1>3, UsbInvariant, PTL DEF Spec

-----------------------------------------------------------------------------
(* The order of the chunks.                                                *)

(* What the decoder will have fed to the parser of channel c next.         *)
Taken(c) == IF pc["decode"] = "feed" /\ chunk.channel = c THEN chunk.n ELSE fed[c]

(* i is the first, the last chunk of its channel in the queue.             *)
FirstIn(q, i) == \A h \in 1..(i - 1) : q[h].channel # q[i].channel
LastIn(q, i) == \A h \in (i + 1)..Len(q) : q[h].channel # q[i].channel
NextIn(q, i, j) ==
    i < j /\ q[j].channel = q[i].channel /\ \A h \in (i + 1)..(j - 1) : q[h].channel # q[i].channel

(* The chunks of a channel follow one another in the queue, from the one   *)
(* taken last to the one received last.                                    *)
Queued ==
    /\ \A i \in 1..Len(queue) :
          /\ queue[i].handle = handle
          /\ FirstIn(queue, i) => queue[i].n = Following(Taken(queue[i].channel))
          /\ LastIn(queue, i) => queue[i].n = received[queue[i].channel]
          /\ \A j \in 1..Len(queue) : NextIn(queue, i, j) => queue[j].n = Following(queue[i].n)
    /\ \A c \in 1..MaxChannels :
          (\A i \in 1..Len(queue) : queue[i].channel # c) => received[c] = Taken(c)

(* While there is a decode thread.                                         *)
OrderInv == pc["decode"] \notin {"none", "aborted"} => Queued /\ InOrder

(* The event thread appends a chunk: the queue stays in order.              *)
LEMMA ReceiveKeepsOrder ==
  ASSUME Types, DataTypes, NEW c \in 1..MaxChannels, Queued, Receive(c), UNCHANGED <<pc, handle>>
  PROVE  Queued'
<1> DEFINE new == [handle |-> handle, channel |-> c, n |-> Following(received[c])]
           L == Len(queue)
<1>1. queue' = Append(queue, new) /\ received' = [received EXCEPT ![c] = Following(@)]
  BY DEF Receive
<1>2. /\ queue \in Seq(Chunks) /\ L \in Nat /\ new \in Chunks
      /\ received \in [1..MaxChannels -> 0..1]
  BY DEF Types, DataTypes, Chunks, Following
<1>3. Len(queue') = L + 1 /\ queue'[L + 1] = new /\ \A i \in 1..L : queue'[i] = queue[i]
  BY <1>1, <1>2
<1>4. UNCHANGED <<chunk, fed, pc, handle>>
  BY DEF Receive
<1>5. \A i \in 1..(L + 1) : queue'[i].handle = handle'
  BY <1>3 DEF Queued
<1>6. ASSUME NEW i \in 1..(L + 1), FirstIn(queue', i)
      PROVE  queue'[i].n = Following(Taken(queue'[i].channel))
  <2>1. CASE i \in 1..L
    <3>1. FirstIn(queue, i)
      BY <1>2, <1>3, <1>6, <2>1 DEF FirstIn
    <3> QED
      BY <1>2, <1>3, <2>1, <3>1 DEF Queued
  <2>2. CASE i = L + 1
    <3>1. \A h \in 1..L : queue[h].channel # c
      BY <1>2, <1>3, <1>6, <2>2 DEF FirstIn
    <3> QED
      BY <1>2, <1>3, <2>2, <3>1 DEF Queued
  <2> QED
    BY <1>2, <2>1, <2>2
<1>7. ASSUME NEW i \in 1..(L + 1), LastIn(queue', i)
      PROVE  queue'[i].n = received'[queue'[i].channel]
  <2>1. CASE i \in 1..L
    <3>1. queue[i].channel # c /\ LastIn(queue, i)
      BY <1>2, <1>3, <1>7, <2>1 DEF LastIn
    <3> QED
      BY <1>1, <1>2, <1>3, <2>1, <3>1 DEF Queued
  <2>2. CASE i = L + 1
    BY <1>1, <1>2, <1>3, <2>2
  <2> QED
    BY <1>2, <2>1, <2>2
<1>8. ASSUME NEW i \in 1..(L + 1), NEW j \in 1..(L + 1), NextIn(queue', i, j)
      PROVE  queue'[j].n = Following(queue'[i].n)
  <2>1. i \in 1..L /\ i < j
    BY <1>2, <1>8 DEF NextIn
  <2>2. CASE j \in 1..L
    <3>1. NextIn(queue, i, j)
      BY <1>2, <1>3, <1>8, <2>1, <2>2 DEF NextIn
    <3> QED
      BY <1>3, <2>1, <2>2, <3>1 DEF Queued
  <2>3. CASE j = L + 1
    <3>1. queue[i].channel = c /\ LastIn(queue, i)
      BY <1>2, <1>3, <1>8, <2>1, <2>3 DEF NextIn, LastIn
    <3> QED
      BY <1>2, <1>3, <2>1, <2>3, <3>1 DEF Queued
  <2> QED
    BY <1>2, <2>2, <2>3
<1>9. ASSUME NEW d \in 1..MaxChannels, \A i \in 1..(L + 1) : queue'[i].channel # d
      PROVE  received'[d] = Taken(d)
  BY <1>1, <1>2, <1>3, <1>9 DEF Queued
<1>10. ASSUME NEW d PROVE Taken(d)' = Taken(d)
  BY <1>4 DEF Taken
<1>11. \A i \in 1..(L + 1) :
          FirstIn(queue', i) => queue'[i].n = Following((Taken(queue[i].channel))')
  BY <1>4, <1>6 DEF Taken
<1> QED
  BY <1>3, <1>5, <1>7, <1>8, <1>9, <1>10, <1>11 DEF Queued

(* The decode thread takes the first chunk: the rest stays in order.        *)
LEMMA TakeKeepsOrder ==
  ASSUME Types, DataTypes, Queued, TakeChunk
  PROVE  Queued' /\ InOrder'
<1> DEFINE L == Len(queue)
           Fed(d) == IF d = queue[1].channel THEN queue[1].n ELSE fed[d]
<1>1. /\ queue # <<>> /\ chunk' = queue[1] /\ queue' = Tail(queue)
      /\ pc["decode"] = "wait" /\ pc'["decode"] = "feed"
      /\ UNCHANGED <<handle, received, fed>>
  BY DEF TakeChunk, Goto, Types, Callers
<1>2. /\ queue \in Seq(Chunks) /\ L \in Nat \ {0} /\ queue[1] \in Chunks
  BY <1>1 DEF DataTypes
<1>3. Len(queue') = L - 1 /\ \A i \in 1..(L - 1) : queue'[i] = queue[i + 1]
  BY <1>1, <1>2
<1>4. \A d : Taken(d) = fed[d]
  BY <1>1 DEF Taken
<1>6. InOrder'
  <2>1. FirstIn(queue, 1)
    BY <1>2 DEF FirstIn
  <2>2. queue[1].handle = handle /\ queue[1].n = Following(fed[queue[1].channel])
    BY <1>2, <1>4, <2>1 DEF Queued
  <2> QED
    BY <1>1, <2>2 DEF InOrder, Following
<1>7. \A i \in 1..(L - 1) : queue'[i].handle = handle'
  BY <1>1, <1>2, <1>3 DEF Queued
<1>8. ASSUME NEW i \in 1..(L - 1), FirstIn(queue', i)
      PROVE  queue'[i].n = Following(Fed(queue'[i].channel))
  <2>1. i + 1 \in 1..L /\ 1 \in 1..L /\ queue'[i] = queue[i + 1]
    BY <1>2, <1>3
  <2>2. \A h \in 2..i : queue[h].channel # queue[i + 1].channel
    <3> TAKE h \in 2..i
    <3>1. h - 1 \in 1..(i - 1) /\ queue'[h - 1] = queue[h]
      BY <1>2, <1>3
    <3> QED
      BY <1>8, <2>1, <3>1 DEF FirstIn
  <2>3. CASE queue[i + 1].channel = queue[1].channel
    <3>1. NextIn(queue, 1, i + 1)
      BY <2>1, <2>2, <2>3 DEF NextIn
    <3> QED
      BY <1>2, <2>1, <2>3, <3>1 DEF Queued
  <2>4. CASE queue[i + 1].channel # queue[1].channel
    <3>1. FirstIn(queue, i + 1)
      BY <2>1, <2>2, <2>4 DEF FirstIn
    <3> QED
      BY <1>4, <2>1, <2>4, <3>1 DEF Queued
  <2> QED
    BY <2>3, <2>4
<1>9. ASSUME NEW i \in 1..(L - 1), LastIn(queue', i)
      PROVE  queue'[i].n = received'[queue'[i].channel]
  <2>1. i + 1 \in 1..L /\ queue'[i] = queue[i + 1]
    BY <1>2, <1>3
  <2>2. LastIn(queue, i + 1)
    <3> SUFFICES ASSUME NEW h \in (i + 2)..L PROVE queue[h].channel # queue[i + 1].channel
      BY <1>2 DEF LastIn
    <3>1. h - 1 \in (i + 1)..(L - 1) /\ queue'[h - 1] = queue[h]
      BY <1>2, <1>3
    <3> QED
      BY <1>3, <1>9, <2>1, <3>1 DEF LastIn
  <2> QED
    BY <1>1, <2>1, <2>2 DEF Queued
<1>10. ASSUME NEW i \in 1..(L - 1), NEW j \in 1..(L - 1), NextIn(queue', i, j)
       PROVE  queue'[j].n = Following(queue'[i].n)
  <2>1. /\ i + 1 \in 1..L /\ queue'[i] = queue[i + 1]
        /\ j + 1 \in 1..L /\ queue'[j] = queue[j + 1]
    BY <1>2, <1>3
  <2>2. NextIn(queue, i + 1, j + 1)
    <3>1. i + 1 < j + 1 /\ queue[j + 1].channel = queue[i + 1].channel
      BY <1>10, <2>1 DEF NextIn
    <3>2. ASSUME NEW h \in (i + 2)..j PROVE queue[h].channel # queue[i + 1].channel
      <4>1. h - 1 \in (i + 1)..(j - 1) /\ queue'[h - 1] = queue[h]
        BY <1>2, <1>3
      <4> QED
        BY <1>10, <2>1, <4>1 DEF NextIn
    <3> QED
      BY <3>1, <3>2 DEF NextIn
  <2> QED
    BY <2>1, <2>2 DEF Queued
<1>11. ASSUME NEW d \in 1..MaxChannels, \A i \in 1..(L - 1) : queue'[i].channel # d
       PROVE  received'[d] = Fed(d)
  <2>1. \A i \in 2..L : queue[i].channel # d
    <3> TAKE i \in 2..L
    <3>1. i - 1 \in 1..(L - 1) /\ queue'[i - 1] = queue[i]
      BY <1>2, <1>3
    <3> QED
      BY <1>11, <3>1
  <2>2. CASE queue[1].channel = d
    <3>1. LastIn(queue, 1) /\ 1 \in 1..L
      BY <1>2, <2>1, <2>2 DEF LastIn
    <3> QED
      BY <1>1, <2>2, <3>1 DEF Queued
  <2>3. CASE queue[1].channel # d
    <3>1. \A i \in 1..L : queue[i].channel # d
      BY <1>2, <2>1, <2>3
    <3> QED
      BY <1>1, <1>4, <2>3, <3>1 DEF Queued
  <2> QED
    BY <2>2, <2>3
<1>12. ASSUME NEW d PROVE Taken(d)' = Fed(d)
  BY <1>1 DEF Taken
<1>13. \A i \in 1..(L - 1) :
          FirstIn(queue', i) => queue'[i].n = Following((Taken(queue[i].channel))')
  BY <1>1, <1>8 DEF Taken
<1> QED
  BY <1>3, <1>6, <1>7, <1>9, <1>10, <1>11, <1>12, <1>13 DEF Queued

(* Every step keeps the queue in order, while there is a decode thread.     *)
LEMMA OrderStep ==
  ASSUME UsbInv, DataTypes, OrderInv, Next
  PROVE  OrderInv'
<1> USE DEF UsbInv, Goto, Return
<1>0. Types /\ "decode" \in Callers /\ Channels \subseteq 1..MaxChannels
  BY UsbAssumption DEF Types, Callers, Channels, WorldType, MaxChannels
(* Neither the data nor what the decode thread feeds changes.              *)
<1>1. ASSUME UNCHANGED <<queue, chunk, received, fed, handle>>,
             pc'["decode"] = "feed" <=> pc["decode"] = "feed",
             pc'["decode"] \notin {"none", "aborted"} => pc["decode"] \notin {"none", "aborted"}
      PROVE  OrderInv'
  BY <1>1 DEF OrderInv, Queued, InOrder, Taken, FirstIn, LastIn, NextIn
<1>2. ASSUME NEW t \in Callers, pc' = [pc EXCEPT ![t] = pc'[t]], pc'[t] # "feed", pc[t] # "feed",
             pc[t] \notin {"none", "aborted"}, UNCHANGED <<queue, chunk, received, fed, handle>>
      PROVE  OrderInv'
  BY <1>0, <1>1, <1>2 DEF Types
<1>3. CASE Unplug \/ Plug \/ TimePasses \/ EventLoopEnds
  BY <1>1, <1>3 DEF Unplug, Plug, TimePasses, EventLoopEnds
<1>4. ASSUME NEW c \in Channels, Receive(c), UNCHANGED <<pc, handle>> PROVE OrderInv'
  <2>1. Queued => Queued'
    BY <1>0, <1>4, ReceiveKeepsOrder
  <2>2. InOrder => InOrder'
    BY <1>4 DEF InOrder, Receive
  <2> QED
    BY <1>4, <2>1, <2>2 DEF OrderInv
<1>5. ASSUME NEW c \in Channels, TransferCompleted(c) \/ TransferFailed(c) PROVE OrderInv'
  BY <1>1, <1>4, <1>5 DEF TransferCompleted, TransferFailed
<1>6. ASSUME NEW t \in Callers, NEW c \in Channels, Reap(t, c) PROVE OrderInv'
  BY <1>1, <1>4, <1>6 DEF Reap
<1>7. CASE TakeChunk
  <2>1. Queued
    BY <1>7 DEF TakeChunk, OrderInv
  <2> QED
    BY <1>0, <1>7, <2>1, TakeKeepsOrder DEF OrderInv
<1>8. CASE DecodeLoopEnds
  BY <1>0, <1>2, <1>8 DEF DecodeLoopEnds, Types
(* What was taken has been fed.                                            *)
<1>9. CASE Decode
  <2>1. /\ pc["decode"] = "feed" /\ pc'["decode"] # "feed"
        /\ fed' = [fed EXCEPT ![chunk.channel] = Following(@)]
        /\ UNCHANGED <<queue, received, handle>>
    BY <1>0, <1>9 DEF Decode, Types
  <2>2. Queued /\ chunk.n = Following(fed[chunk.channel])
    BY <2>1 DEF OrderInv, InOrder
  <2>3. chunk.channel \in 1..MaxChannels
    BY DEF DataTypes, Chunks
  <2>4. \A d \in 1..MaxChannels : Taken(d)' = Taken(d)
    BY <2>1, <2>2, <2>3 DEF Taken, DataTypes
  <2>5. \A i \in 1..Len(queue) : queue[i].channel \in 1..MaxChannels
    <3> TAKE i \in 1..Len(queue)
    <3>1. queue[i] \in Chunks
      BY DEF DataTypes
    <3> QED
      BY <3>1 DEF Chunks
  <2> QED
    BY <2>1, <2>2, <2>4, <2>5 DEF OrderInv, Queued, InOrder, FirstIn, LastIn, NextIn
<1>10. ASSUME NEW t \in Callers,
              \/ SendGcode(t) \/ WatchdogReconnects(t)
              \/ TakeSendLock(t) \/ SendUsbData(t) \/ SubmitSend(t) \/ SubmitSendNoDevice(t)
       PROVE  OrderInv'
  BY <1>2, <1>10 DEF SendGcode, WatchdogReconnects, TakeSendLock, SendUsbData, SubmitSend,
                     SubmitSendNoDevice, Types
<1>11. ASSUME NEW t \in Callers,
              Disconnect(t) \/ Connect(t) \/ Disconnected(t) \/ Connected(t) \/ Reset(t)
       PROVE  OrderInv'
  BY <1>2, <1>11 DEF Disconnect, Connect, Disconnected, Connected, Reset, Types
<1>12. ASSUME NEW t \in Callers, StopReceiving(t) \/ JoinEvents(t) \/ StopDecoding(t)
       PROVE  OrderInv'
  BY <1>2, <1>12 DEF StopReceiving, JoinEvents, StopDecoding, Types
<1>13. ASSUME NEW t \in Callers, JoinDecode(t) \/ JoinSelf(t) PROVE OrderInv'
  BY <1>0, <1>13 DEF JoinDecode, JoinSelf, OrderInv, Types
<1>14. ASSUME NEW t \in Callers, Close(t) PROVE OrderInv'
  BY <1>0, <1>14 DEF Close, OrderInv, Stages, Types
<1>15. ASSUME NEW t \in Callers, Down(t) \/ OpenFails(t) \/ Opened(t) \/ ConnectFails(t)
       PROVE  OrderInv'
  BY <1>2, <1>15 DEF Down, OpenFails, Opened, ConnectFails, Types
<1>16. ASSUME NEW t \in Callers, Open(t) PROVE OrderInv'
  <2>1. /\ queue' = <<>> /\ pc'["decode"] = "wait"
        /\ received' = [c \in 1..MaxChannels |-> 0] /\ fed' = [c \in 1..MaxChannels |-> 0]
    BY <1>0, <1>16 DEF Open, Stages, ClosedIsQuiet, Types
  <2> QED
    BY <2>1 DEF OrderInv, Queued, InOrder, Taken
<1>17. ASSUME NEW t \in Callers, SubmitReceive(t) \/ CountReceive(t) \/ SubmitReceiveFails(t)
       PROVE  OrderInv'
  BY <1>2, <1>17 DEF SubmitReceive, CountReceive, SubmitReceiveFails, Types
<1> QED
  BY Steps, <1>3, <1>5, <1>6, <1>7, <1>8, <1>9, <1>10, <1>11, <1>12, <1>13, <1>14, <1>15, <1>16,
     <1>17

(* Every chunk reaches the parser of its channel, in order and from the    *)
(* connection that is open.                                                *)
THEOREM ChunksInOrder == Spec => []InOrder
<1>1. ASSUME Init PROVE OrderInv /\ DataTypes
  BY <1>1, TypesAtFirst DEF Init, OrderInv, Callers
<1>2. ASSUME UsbInv, DataTypes, OrderInv, [Next]_vars PROVE OrderInv' /\ DataTypes'
  <2>1. CASE Next
    BY <1>2, <2>1, DataTypesStep, OrderStep
  <2>2. CASE UNCHANGED vars
    BY <1>2, <2>2 DEF vars, DataTypes, OrderInv, Queued, InOrder, Taken, FirstIn, LastIn, NextIn
  <2> QED
    BY <1>2, <2>1, <2>2
<1>3. OrderInv => InOrder
  BY DEF OrderInv, InOrder
<1> QED
  BY <1>1, <1>2, <1>3, UsbInvariant, PTL DEF Spec
=============================================================================
