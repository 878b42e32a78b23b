----------------------------- MODULE SeqPolling -----------------------------
(***************************************************************************)
(* The polling of the Duet's object model: the table of sequences of       *)
(* Comm/Communication.cpp, the request thread that runs sendNext, the      *)
(* receiving thread that runs the JSON decoder of Comm/JsonDecoder.cpp,    *)
(* and a third thread that may reset the connection at any moment.         *)
(*                                                                         *)
(* The Duet and the serial line are external: the Duet answers the         *)
(* requests of one channel in order, and every answer is a snapshot of the *)
(* versions of the sections it carries.  A version is the number the Duet  *)
(* publishes under "seqs", so that "the panel shows the change it was told *)
(* of" is an inequality between two numbers.                               *)
(***************************************************************************)
EXTENDS Integers, Sequences

CONSTANTS
    NumKeys,        \* entries of the table s_seqs, in the order it is scanned
    MaxVersion,     \* bound: versions the Duet goes through
    MaxInFlight,    \* bound: requests and responses queued on the line
    RetryTicks,     \* polls after which a request is taken for lost
    WatchdogTicks,  \* polls without a response before a reconnection
    MaxFaults,      \* bound: faults of the line and of the user
    FaultKinds,     \* faults of the line this instance has
    OtherMessages,  \* responses to other commands on the same line
    Backlog,        \* may answers of the old connection reach the new one?
    Outlives,       \* may a message be decoded past the end of its connection?
    Prompt          \* does the Duet answer within one poll interval?

ASSUME PollingAssumption ==
    /\ NumKeys \in Nat \ {0}
    /\ MaxVersion \in Nat
    /\ MaxInFlight \in Nat \ {0}
    /\ RetryTicks \in Nat
    /\ WatchdogTicks \in Nat
    /\ MaxFaults \in Nat
    /\ FaultKinds \subseteq {"lost", "cut", "bad", "link"}
    /\ OtherMessages \subseteq {-2, -3}
    /\ Backlog \in BOOLEAN
    /\ Outlives \in BOOLEAN
    /\ Prompt \in BOOLEAN

Keys == 1..NumKeys
Freq == 0                   \* s_freqSeq, whose key is the empty string
Slots == Keys \cup {Freq}
None == -1                  \* a null Seq*
NoKey == -2                 \* a response without a "key" field: a G-code reply
OtherKey == -3              \* a response whose key is in no table: move.axes

SeqStates == {"Init", "Requested", "Ok", "Update", "Error"}
ConnStates == {"CONNECTED", "CONNECTING", "DISCONNECTED"}

VARIABLES
    \* the table of sequences
    state,          \* state[s]: Seq::state
    lastSeq,        \* lastSeq[k]: Seq::lastSeq
    age,            \* age[s]: time since Seq::lastRequestTime, saturating
    sendFreqNext,   \* s_sendFreqNext
    silence,        \* time since s_lastResponseTime, saturating
    \* the request thread
    pc,             \* where it is in sendNext
    selected,       \* the sequence GetNextSeq chose, while sendNext needs it
    \* the connection and the line
    conn,           \* DUET.m_connectionState
    toDuet,         \* keys requested and not answered
    fromDuet,       \* responses not decoded, oldest first
    \* the receiving thread
    phase,          \* how much of Head(fromDuet) is decoded
    mSeq,           \* JsonDecoder::m_seq
    \* both copies of the object model
    duetSeq,        \* duetSeq[k]: version of section k on the Duet
    shown,          \* shown[k]: version of k in the panel's model, -1 for none
    faults          \* faults so far

tableVars == <<state, lastSeq, age, sendFreqNext>>
threadVars == <<pc, selected>>
lineVars == <<toDuet, fromDuet>>
decoderVars == <<phase, mSeq>>
vars == <<tableVars, silence, threadVars, conn, lineVars, decoderVars,
          duetSeq, shown, faults>>

-----------------------------------------------------------------------------
(* CheckSeq: what it answers for a sequence, and the state it leaves.      *)

(* Mutant: no retry. *)
Expired_Never(s) == s # s

Expired(s) == state[s] = "Requested" /\ age[s] > RetryTicks

Check(s) ==
    CASE state[s] = "Error" -> "Error"
      [] state[s] \in {"Init", "Update"} \/ Expired(s) -> "Ready"
      [] state[s] = "Requested" /\ ~Expired(s) -> "InProgress"
      [] state[s] = "Ok" -> "Ok"

(* Mutant: an overdue request is made again without leaving Requested. *)
Checked_StaysRequested(s) == IF state[s] = "Error" THEN "Init" ELSE state[s]

Checked(s) ==
    IF state[s] = "Error" THEN "Init"
    ELSE IF Expired(s) THEN "Update"
    ELSE state[s]

(* GetNextSeq scans the table from its start, whatever its argument, and   *)
(* stops at the first sequence that is ready or in progress.               *)
Stops == {k \in Keys : Check(k) \in {"Ready", "InProgress"}}
FirstStop == CHOOSE k \in Stops : \A j \in Stops : k <= j
FallsToFreq == sendFreqNext \/ Stops = {}

GetNextSeq ==
    IF FallsToFreq THEN (IF Check(Freq) = "InProgress" THEN None ELSE Freq)
    ELSE IF Check(FirstStop) = "Ready" THEN FirstStop
    ELSE None

Scanned ==
    IF sendFreqNext THEN {Freq}
    ELSE IF Stops = {} THEN Slots
    ELSE {k \in Keys : k <= FirstStop}

-----------------------------------------------------------------------------
Init ==
    /\ state = [s \in Slots |-> "Init"]
    /\ lastSeq = [k \in Keys |-> 0]
    /\ age = [s \in Slots |-> 0]
    /\ sendFreqNext = TRUE
    /\ silence = 0
    /\ pc = "idle"
    /\ selected = None
    /\ conn = "DISCONNECTED"
    /\ toDuet = <<>>
    /\ fromDuet = <<>>
    /\ phase = "begin"
    /\ mSeq = None
    /\ duetSeq = [k \in Keys |-> 0]
    /\ shown = [k \in Keys |-> -1]
    /\ faults = 0

(* Mutant: the sequence numbers of the old connection are kept. *)
ResetSeqs_KeepsNumbers ==
    /\ state' = [s \in Slots |-> IF s = Freq THEN state[Freq] ELSE "Init"]
    /\ sendFreqNext' = TRUE
    /\ UNCHANGED lastSeq

(* Mutant: only the requests under way are reset. *)
ResetSeqs_KeepsOk ==
    /\ state' = [s \in Slots |-> IF state[s] = "Requested" THEN "Init" ELSE state[s]]
    /\ lastSeq' = [k \in Keys |-> 0]
    /\ sendFreqNext' = TRUE

(* ResetSeqs leaves s_freqSeq as it is. *)
ResetSeqs ==
    /\ state' = [s \in Slots |-> IF s = Freq THEN state[Freq] ELSE "Init"]
    /\ lastSeq' = [k \in Keys |-> 0]
    /\ sendFreqNext' = TRUE

RemoveAll == shown' = [k \in Keys |-> -1]

(* The transport is closed: the receiving thread ends, in the middle of a  *)
(* message or not, and its decoder keeps m_seq.  With a Backlog the Duet   *)
(* still holds answers to the requests of the old connection.              *)
CloseTransport ==
    /\ phase' = "begin"
    /\ UNCHANGED mSeq
    /\ \/ toDuet' = <<>> /\ fromDuet' = <<>>
       \/ /\ Backlog
          /\ UNCHANGED toDuet
          /\ fromDuet' = IF phase = "begin" THEN fromDuet ELSE Tail(fromDuet)

(* Duet::Reconnect: Disconnect does nothing when already disconnected;     *)
(* Connect ends in any of the three states, depending on the transport.    *)
DuetReconnect ==
    /\ conn' \in ConnStates
    /\ conn' = "DISCONNECTED" =>
          /\ "link" \in FaultKinds
          /\ faults < MaxFaults
    /\ faults' = IF conn' = "DISCONNECTED" THEN faults + 1 ELSE faults
    /\ IF conn = "DISCONNECTED"
       THEN UNCHANGED <<state, lastSeq, sendFreqNext, shown, lineVars, decoderVars>>
       ELSE ResetSeqs /\ RemoveAll /\ CloseTransport

-----------------------------------------------------------------------------
(* The request thread: sleep one poll interval, then sendNext.             *)

OneTick ==
    /\ age' = [s \in Slots |-> IF age[s] > RetryTicks THEN age[s] ELSE age[s] + 1]
    /\ silence' = IF silence > WatchdogTicks THEN silence ELSE silence + 1

Sleep ==
    /\ pc = "idle"
    /\ Prompt => toDuet = <<>> /\ fromDuet = <<>> /\ conn # "CONNECTING"
    /\ pc' = "check"
    /\ OneTick
    /\ UNCHANGED <<state, lastSeq, sendFreqNext, selected, conn, lineVars,
                   decoderVars, duetSeq, shown, faults>>

(* sendNext up to GetNextSeq: Comm::Reconnect when the link is down or the *)
(* Duet has been silent for too long.  Its DUET.Reconnect is this step and *)
(* the clearing that follows it ReconnectEnd: the new connection's         *)
(* receiving thread already runs in between.                               *)
Alive == conn # "DISCONNECTED" /\ silence <= WatchdogTicks

ReconnectBegin ==
    /\ pc = "check"
    /\ ~Alive
    /\ pc' = IF conn = "DISCONNECTED" THEN "clearAndReturn" ELSE "clearAndSend"
    /\ silence' = 0
    /\ DuetReconnect
    /\ UNCHANGED <<age, selected, duetSeq>>

ReconnectEnd ==
    /\ pc \in {"clearAndReturn", "clearAndSend"}
    /\ RemoveAll
    /\ ResetSeqs
    /\ pc' = IF pc = "clearAndReturn" THEN "idle" ELSE "select"
    /\ UNCHANGED <<age, silence, selected, conn, lineVars, decoderVars, duetSeq, faults>>

(* Mutant: the null result of GetNextSeq is not checked. *)
Select_NoNullCheck ==
    /\ \/ pc = "check" /\ Alive
       \/ pc = "select"
    /\ selected' = GetNextSeq
    /\ state' = [s \in Slots |-> IF s \in Scanned THEN Checked(s) ELSE state[s]]
    /\ sendFreqNext' = (GetNextSeq # Freq)
    /\ pc' = "request"
    /\ UNCHANGED <<lastSeq, age, silence, conn, lineVars, decoderVars, duetSeq,
                   shown, faults>>

(* GetNextSeq, right after the watchdog or after a reconnection. *)
Select ==
    /\ \/ pc = "check" /\ Alive
       \/ pc = "select"
    /\ selected' = GetNextSeq
    /\ state' = [s \in Slots |-> IF s \in Scanned THEN Checked(s) ELSE state[s]]
    /\ sendFreqNext' = (GetNextSeq # Freq)
    /\ pc' = IF GetNextSeq = None THEN "idle" ELSE "request"
    /\ UNCHANGED <<lastSeq, age, silence, conn, lineVars, decoderVars, duetSeq,
                   shown, faults>>

(* RequestSeq up to the call of RequestModel.  Its early returns, for no   *)
(* sequence and for one already requested, are never taken (SelectedIsFree).*)
Request ==
    /\ pc = "request"
    /\ state' = [state EXCEPT ![selected] = "Requested"]
    /\ age' = [age EXCEPT ![selected] = 0]
    /\ pc' = "send"
    /\ UNCHANGED <<lastSeq, sendFreqNext, silence, selected, conn, lineVars,
                   decoderVars, duetSeq, shown, faults>>

LineFree == Len(toDuet) + Len(fromDuet) < MaxInFlight

(* Duet::RequestModel sends nothing, and reports nothing, when the link is *)
(* not up.                                                                 *)
Send ==
    /\ pc = "send"
    /\ \/ conn = "CONNECTED" /\ LineFree
          /\ toDuet' = Append(toDuet, selected)
       \/ conn # "CONNECTED" /\ UNCHANGED toDuet
    /\ pc' = "idle"
    /\ selected' = None
    /\ UNCHANGED <<tableVars, silence, conn, fromDuet, decoderVars,
                   duetSeq, shown, faults>>

-----------------------------------------------------------------------------
(* The connection: its asynchronous end, and the other threads.            *)

(* The first data on a UART, or the answer to rr_connect. *)
ConnectDone ==
    /\ conn = "CONNECTING"
    /\ conn' = "CONNECTED"
    /\ UNCHANGED <<tableVars, silence, threadVars, lineVars, decoderVars, duetSeq,
                   shown, faults>>

(* The answer to rr_connect does not come: the connection is given up      *)
(* without a Reset, and the next poll makes it again.                      *)
ConnectFails ==
    /\ "link" \in FaultKinds
    /\ faults < MaxFaults
    /\ conn = "CONNECTING"
    /\ conn' = "DISCONNECTED"
    /\ faults' = faults + 1
    /\ UNCHANGED <<tableVars, silence, threadVars, lineVars, decoderVars, duetSeq,
                   shown>>

(* Another thread changes the settings or stops the machine: Disconnect    *)
(* and Connect under the feet of the request thread.  A serial transport   *)
(* is closed.  Over the network the request thread is inside RequestModel: *)
(* nothing stops it, and it decodes the answer it has asked for to its end *)
(* although the table and the model are cleared meanwhile.                 *)
UserReconnect ==
    /\ "link" \in FaultKinds
    /\ faults < MaxFaults
    /\ conn # "DISCONNECTED"
    /\ conn' \in ConnStates
    /\ ResetSeqs
    /\ RemoveAll
    /\ \/ CloseTransport
       \/ Outlives /\ UNCHANGED <<lineVars, decoderVars>>
    /\ faults' = faults + 1
    /\ UNCHANGED <<age, silence, threadVars, duetSeq>>

-----------------------------------------------------------------------------
(* The Duet and the line.                                                  *)

Carries(m, k) == m.key = k \/ m.key = Freq

Response(s) ==
    [key |-> s, vals |-> [k \in Keys |-> IF s \in {k, Freq} THEN duetSeq[k] ELSE 0]]

Bump(k) ==
    /\ duetSeq[k] < MaxVersion
    /\ duetSeq' = [duetSeq EXCEPT ![k] = @ + 1]
    /\ UNCHANGED <<tableVars, silence, threadVars, conn, lineVars, decoderVars,
                   shown, faults>>

Answer ==
    /\ toDuet # <<>>
    /\ fromDuet' = Append(fromDuet, Response(Head(toDuet)))
    /\ toDuet' = Tail(toDuet)
    /\ UNCHANGED <<tableVars, silence, threadVars, conn, decoderVars, duetSeq,
                   shown, faults>>

(* The response to a command of another component, on the same line. *)
AnswerOther(o) ==
    /\ LineFree
    /\ fromDuet' = Append(fromDuet, Response(o))
    /\ UNCHANGED <<tableVars, silence, threadVars, conn, toDuet, decoderVars,
                   duetSeq, shown, faults>>

-----------------------------------------------------------------------------
(* The receiving thread.  The request thread runs between the fields of a  *)
(* message and its last brace.  Over the network the decoder runs inside   *)
(* the request for the answer and never looks at the connection.           *)

Receiving == (conn = "CONNECTED" \/ Outlives) /\ fromDuet # <<>>

(* rcvKey: m_seq becomes the sequence of that key, found as the current    *)
(* request or in the table.  Without a "key" field it stays what it was.   *)
SeqOfKey(key) ==
    CASE key = NoKey -> mSeq
      [] key = OtherKey -> None
      [] key \in Slots -> key

(* UpdateSeq for every member of "seqs". *)
UpdateSeqs(vals) ==
    /\ lastSeq' = vals
    /\ state' = [s \in Slots |->
                    IF s # Freq /\ vals[s] # lastSeq[s] THEN "Update" ELSE state[s]]

DecodeBody ==
    /\ Receiving
    /\ phase = "begin"
    /\ phase' = "body"
    /\ LET m == Head(fromDuet)
       IN /\ mSeq' = SeqOfKey(m.key)
          /\ IF m.key = Freq THEN UpdateSeqs(m.vals) ELSE UNCHANGED <<state, lastSeq>>
          /\ shown' = [k \in Keys |-> IF m.key = k THEN m.vals[k] ELSE shown[k]]
    /\ UNCHANGED <<age, sendFreqNext, silence, threadVars, conn, lineVars,
                   duetSeq, faults>>

(* EndReceivedMessage. *)
DecodeEnd ==
    /\ Receiving
    /\ phase = "body"
    /\ phase' = "begin"
    /\ fromDuet' = Tail(fromDuet)
    /\ silence' = 0
    /\ state' = [s \in Slots |-> IF s = mSeq THEN "Ok" ELSE state[s]]
    /\ mSeq' = None
    /\ UNCHANGED <<lastSeq, age, sendFreqNext, threadVars, conn, toDuet, duetSeq,
                   shown, faults>>

(* A newline in the middle of a message abandons the parse and keeps       *)
(* m_seq, which the key may already have set.  Before the '{' it is as if  *)
(* the response had been lost.                                             *)
Abandon ==
    /\ Receiving
    /\ faults < MaxFaults
    /\ \/ "lost" \in FaultKinds /\ phase = "begin" /\ UNCHANGED mSeq
       \/ "cut" \in FaultKinds /\ phase = "begin" /\ mSeq' = SeqOfKey(Head(fromDuet).key)
       \/ "cut" \in FaultKinds /\ phase = "body" /\ UNCHANGED mSeq
    /\ phase' = "begin"
    /\ fromDuet' = Tail(fromDuet)
    /\ faults' = faults + 1
    /\ UNCHANGED <<tableVars, silence, threadVars, conn, toDuet, duetSeq, shown>>

(* A malformed message, before or after its key: jsError up to the         *)
(* newline, then ParserErrorEncountered.                                   *)
ParserError ==
    /\ Receiving
    /\ "bad" \in FaultKinds
    /\ faults < MaxFaults
    /\ mSeq' \in {mSeq} \cup {SeqOfKey(Head(fromDuet).key)}
    /\ phase' = "begin"
    /\ fromDuet' = Tail(fromDuet)
    /\ state' = [s \in Slots |-> IF s = mSeq' THEN "Error" ELSE state[s]]
    /\ faults' = faults + 1
    /\ UNCHANGED <<lastSeq, age, sendFreqNext, silence, threadVars, conn, toDuet,
                   duetSeq, shown>>

-----------------------------------------------------------------------------
RequestThread ==
    Sleep \/ ReconnectBegin \/ ReconnectEnd \/ Select \/ Request \/ Send

ReceivingThread == DecodeBody \/ DecodeEnd \/ Abandon \/ ParserError

Environment ==
    \/ ConnectDone
    \/ ConnectFails
    \/ UserReconnect
    \/ \E k \in Keys : Bump(k)
    \/ Answer
    \/ \E o \in OtherMessages : AnswerOther(o)

Next == RequestThread \/ ReceivingThread \/ Environment

Spec == Init /\ [][Next]_vars

(* The threads are scheduled, the Duet answers, and a message under way is *)
(* decoded or damaged.                                                     *)
Fairness ==
    /\ WF_vars(RequestThread)
    /\ WF_vars(ReceivingThread)
    /\ WF_vars(Answer)
    /\ WF_vars(ConnectDone)

FairSpec == Spec /\ Fairness

-----------------------------------------------------------------------------
MessageType == [key : Slots \cup OtherMessages, vals : [Keys -> Nat]]

TypeOK ==
    /\ state \in [Slots -> SeqStates]
    /\ lastSeq \in [Keys -> Nat]
    /\ age \in [Slots -> Nat]
    /\ sendFreqNext \in BOOLEAN
    /\ silence \in Nat
    /\ pc \in {"idle", "check", "clearAndReturn", "clearAndSend", "select",
               "request", "send"}
    /\ selected \in Slots \cup {None}
    /\ pc \in {"request", "send"} => selected \in Slots
    /\ conn \in ConnStates
    /\ toDuet \in Seq(Slots)
    /\ fromDuet \in Seq(MessageType)
    /\ phase \in {"begin", "body"}
    /\ phase # "begin" => fromDuet # <<>>
    /\ mSeq \in Slots \cup {None}
    /\ duetSeq \in [Keys -> Nat]
    /\ shown \in [Keys -> Nat \cup {-1}]
    /\ faults \in Nat

(* What the line must not do for NoLostUpdate: cut or damage messages while *)
(* it also carries responses without a key, for a stale m_seq would then   *)
(* mark a section as up to date.                                           *)
CleanLine == NoKey \in OtherMessages => FaultKinds \cap {"cut", "bad"} = {}

(* No update is lost: whenever a section counts as up to date, the panel   *)
(* shows every change of it that the Duet has announced since the          *)
(* connection was made (UpdateSeq against EndReceivedMessage).             *)
NoLostUpdate ==
    \A k \in Keys : state[k] = "Ok" /\ lastSeq[k] > 0 => shown[k] >= lastSeq[k]

(* A section never announced as changed counts as up to date only once it  *)
(* was received on this connection (the initial load after ResetSeqs), if  *)
(* the decoding ends with the connection (FreshLine).                      *)
OkIsLoaded == \A k \in Keys : state[k] = "Ok" => shown[k] # -1

(* RequestSeq is never called on a sequence already requested: its second  *)
(* early return is never taken, though both threads write Seq::state       *)
(* between GetNextSeq and RequestSeq.                                      *)
SelectedIsFree == pc = "request" => state[selected] # "Requested"

(* The strengthening of NoLostUpdate and SelectedIsFree that the steps     *)
(* preserve.  Answers leave the Duet in the order of its versions, so what *)
(* is on the line is never older than what the panel knows or shows.       *)
LineInOrder ==
    \A i \in 1..Len(fromDuet) : \A k \in Keys :
        Carries(fromDuet[i], k) =>
            /\ lastSeq[k] <= fromDuet[i].vals[k]
            /\ shown[k] <= fromDuet[i].vals[k]
            /\ fromDuet[i].vals[k] <= duetSeq[k]
            /\ \A j \in 1..Len(fromDuet) :
                  j < i /\ Carries(fromDuet[j], k) =>
                      fromDuet[j].vals[k] <= fromDuet[i].vals[k]

NothingAhead == \A k \in Keys : lastSeq[k] <= duetSeq[k] /\ shown[k] <= duetSeq[k]

(* In the middle of a message m_seq is the sequence its key names, and     *)
(* what is about to count as up to date is already shown.                  *)
BodyNamesSeq ==
    phase = "body" =>
        /\ Head(fromDuet).key \in Slots => mSeq = Head(fromDuet).key
        /\ Head(fromDuet).key = OtherKey => mSeq = None

BodyIsShown ==
    \A k \in Keys :
        phase = "body" /\ mSeq = k /\ lastSeq[k] > 0 => shown[k] >= lastSeq[k]

(* A sequence left in m_seq by a message that never ended can be completed *)
(* by a response without a key: it must not have been announced yet.       *)
LeftoverIsHarmless ==
    \A k \in Keys :
        NoKey \in OtherMessages /\ phase = "begin" /\ mSeq = k => lastSeq[k] = 0

PollingInv ==
    /\ TypeOK
    /\ LineInOrder
    /\ NothingAhead
    /\ BodyNamesSeq
    /\ BodyIsShown
    /\ LeftoverIsHarmless
    /\ NoLostUpdate
    /\ SelectedIsFree

(* What the line must not do for OkIsLoaded: bring answers to requests of  *)
(* an old connection, or responses without a key, which would complete the *)
(* m_seq that a closed transport has left behind.  And the decoding must   *)
(* end with the connection, as on a serial line: over the network another  *)
(* thread can clear the section whose body is under way, and its end still *)
(* marks the section as up to date.                                        *)
FreshLine == ~Backlog /\ ~Outlives /\ NoKey \notin OtherMessages

(* The strengthening of OkIsLoaded.  The message under way was shown, and  *)
(* no section is asked for or answered while the link is down, nor between *)
(* the two times that Comm::Reconnect clears the model: otherwise the      *)
(* second time would take away what the message under way has just shown.  *)
BodyIsLoaded == \A k \in Keys : phase = "body" /\ mSeq = k => shown[k] # -1

Clearing == pc \in {"clearAndReturn", "clearAndSend"}

NothingAnswered ==
    conn # "CONNECTED" \/ Clearing =>
        /\ toDuet = <<>>
        /\ \A i \in 1..Len(fromDuet) : fromDuet[i].key \notin Keys
        /\ phase = "body" => mSeq \notin Keys

LoadedInv ==
    /\ TypeOK
    /\ OkIsLoaded
    /\ BodyIsLoaded
    /\ NothingAnswered

(* The strengthening of WatchdogIsPatient, which counts polls.  A fault    *)
(* costs at most the polls until its request is made again.                *)
Lost(n) == n * (RetryTicks + 1)

(* What the constants must allow for WatchdogIsPatient: a Duet that answers *)
(* within one poll interval, and a watchdog slower than the retries of all *)
(* the responses that get lost, and one poll.                              *)
PatientWatchdog == Prompt /\ Lost(MaxFaults) + 1 <= WatchdogTicks

Polling == pc \in {"check", "request", "send"}
LineEmpty == toDuet = <<>> /\ fromDuet = <<>>

(* The sequence is about to be asked for, or its answer is under way. *)
Awaited(s) ==
    \/ pc = "send" /\ selected = s
    \/ \E i \in 1..Len(toDuet) : toDuet[i] = s
    \/ \E i \in 1..Len(fromDuet) : fromDuet[i].key = s

(* Without a fault sendNext asks only while the link is up, and whatever   *)
(* counts as requested will be answered.                                   *)
NothingLost ==
    faults = 0 =>
        /\ conn = "CONNECTING" => pc \in {"clearAndReturn", "idle"}
        /\ conn = "DISCONNECTED" => pc \in {"idle", "check"}
        /\ \A s \in Slots : state[s] = "Requested" => Awaited(s)

(* A poll starts after everything asked for before it was answered or      *)
(* lost, and one poll after the last request.                              *)
QuietPoll ==
    /\ Polling => toDuet = <<>> /\ \A i \in 1..Len(fromDuet) : fromDuet[i].key \notin Slots
    /\ pc = "check" => \A s \in Slots : state[s] = "Requested" => age[s] >= 1

(* The sequence of everything was the last one asked for, unless its turn  *)
(* comes next.                                                             *)
FreqWasLast ==
    ~sendFreqNext =>
        /\ pc = "request" => selected = Freq
        /\ pc \in {"send", "idle"} => age[Freq] = 0
        /\ pc = "check" => age[Freq] <= 1

Saturates == faults <= MaxFaults /\ \A s \in Slots : age[s] <= RetryTicks + 1

NeverImpatient ==
    /\ pc \notin {"clearAndSend", "select"}
    /\ pc = "clearAndReturn" => silence = 0

(* While it still waits for everything, the panel has waited as long as    *)
(* that request is old, beyond what the earlier faults have cost.          *)
IdleInTime ==
    pc = "idle" /\ LineEmpty =>
        /\ state[Freq] = "Requested" =>
              /\ silence <= Lost(faults) - RetryTicks + age[Freq]
              /\ silence <= Lost(faults)
        /\ state[Freq] # "Requested" =>
              IF sendFreqNext THEN silence <= Lost(faults)
              ELSE silence = 0 \/ silence <= Lost(faults) - RetryTicks

CheckInTime ==
    pc = "check" =>
        IF state[Freq] = "Requested" THEN silence <= Lost(faults) - RetryTicks + age[Freq]
        ELSE sendFreqNext \/ silence <= 1 \/ silence <= Lost(faults) - RetryTicks + 1

(* On a link that is not down the silence never exceeds what the faults    *)
(* have cost by more than the present poll.                                *)
InTime ==
    conn # "DISCONNECTED" =>
        /\ Polling \/ pc = "idle" => silence <= Lost(faults) + 1
        /\ Polling /\ conn = "CONNECTING" => silence <= Lost(faults) - RetryTicks
        /\ IdleInTime
        /\ CheckInTime

PatientInv ==
    /\ TypeOK
    /\ BodyNamesSeq
    /\ NothingLost
    /\ QuietPoll
    /\ FreqWasLast
    /\ Saturates
    /\ NeverImpatient
    /\ InTime

(* The polling implements the cache: what the panel shows only moves       *)
(* forward between reconnections, and a section settles only when it shows *)
(* what was announced.                                                     *)
Cache == INSTANCE SeqCache WITH
            current <- duetSeq,
            known <- lastSeq,
            settled <- {k \in Keys : state[k] = "Ok"}

ImplementsCache == Cache!Spec

(* Every change on the Duet reaches the panel, although responses get lost *)
(* (retry of CheckSeq), messages are malformed (SeqStateError) and the     *)
(* scan of GetNextSeq always restarts at the first key.                    *)
EveryChangeShown ==
    \A k \in Keys : \A v \in 0..MaxVersion :
        (duetSeq[k] = v) ~> (shown[k] >= v)

(* A Duet that answers is not reconnected because a few responses were     *)
(* lost: the retries come sooner than the watchdog of sendNext.            *)
WatchdogIsPatient == pc # "clearAndSend"
=============================================================================
