------------------------- MODULE ThumbnailTransfer -------------------------
(***************************************************************************)
(* The thumbnail half of FileInfoCache: a thumbnail is fetched in chunks,  *)
(* each asked for with M36.1 and decoded into the image as it arrives.     *)
(*                                                                         *)
(* Three kinds of threads meet here.  The cache thread runs Spin, whose    *)
(* sections hold s_mutex one after the other.  A receiving thread hands    *)
(* the values of an answer to the subscribers one by one; only the first   *)
(* of them takes s_mutex.  Any other thread queues requests or clears the  *)
(* cache.  A file's info is known (what M36 delivers), its thumbnails valid.*)
(*                                                                         *)
(* An offset is a thumbnail with the number of a chunk.  Time is left out: *)
(* a request in progress may at any sweep be found timed out.  What may go *)
(* wrong, and whether requests are dropped and replaced also in the        *)
(* microseconds in which an answer about their thumbnail is decoded, and   *)
(* how often other threads call (a bound), is chosen at the start, the     *)
(* world.                                                                  *)
(***************************************************************************)
EXTENDS Naturals, Sequences, SequencesExt

CONSTANTS
    Thumbs,         \* thumbnails
    File,           \* File[t]: the file of a thumbnail
    NumChunks,      \* chunks of a thumbnail
    None,           \* next of the last chunk, and of a thumbnail not started
    Worlds,         \* what may happen: records of WorldType
    MaxFaults       \* bound: faults

Faults ==
    {"lost",        \* an answer never comes
     "refused",     \* an answer reports an error
     "send",        \* Duet::RequestThumbnail returns false
     "disk",        \* the image file cannot be created
     "decode"}      \* a chunk cannot be decoded

WorldType == [interrupts : BOOLEAN, faults : SUBSET Faults, calls : Nat]

ASSUME TransferAssumption ==
    /\ DOMAIN File = Thumbs
    /\ NumChunks \in Nat \ {0}
    /\ None \notin Thumbs \X (1..NumChunks)
    /\ Worlds \subseteq WorldType
    /\ MaxFaults \in Nat

VARIABLES
    world,
    queue,          \* m_thumbnailRequestQueue
    ctx,            \* ctx[t]: Thumbnail::context
    image,          \* image[t]: the chunks decoded since ThumbnailImage::New
    answers,        \* what the Duet has yet to deliver
    rx,             \* the answer being decoded, and how far
    spin,           \* the section of Spin that is next
    calls, faults   \* counted against the bounds

tableVars == <<queue, ctx, image>>
boundVars == <<world, calls, faults>>
vars == <<tableVars, answers, rx, spin, boundVars>>

Offsets == Thumbs \X (1..NumChunks)

OfFile(f) == {t \in Thumbs : File[t] = f}

First(t) == <<t, 1>>

(* Mutant: the end is noticed a chunk too late. *)
Following_Late(o) == IF o[2] > NumChunks THEN None ELSE <<o[1], o[2] + 1>>

Following(o) == IF o[2] = NumChunks THEN None ELSE <<o[1], o[2] + 1>>

(* ThumbnailContext::Init; bad: parseErr is set.  *)
Fresh == [state |-> "Init", next |-> None, bad |-> FALSE]

(* The context of a thumbnail whose first chunk was asked for. *)
Begun(t) == [Fresh EXCEPT !.state = "DataWait", !.next = First(t)]

Idle == [step |-> "idle"]

Init ==
    /\ world \in Worlds
    /\ queue = <<>>
    /\ ctx = [t \in Thumbs |-> Fresh]
    /\ image = [t \in Thumbs |-> <<>>]
    /\ answers = <<>>
    /\ rx = Idle
    /\ spin = "sweep"
    /\ calls = 0
    /\ faults = 0

InProgress(r) == r.state \in {"REQUESTED", "RECEIVING"}

(* A fault of one of these kinds happens now. *)
Fault(kind) ==
    /\ kind \in world.faults
    /\ faults < MaxFaults
    /\ faults' = faults + 1

(* The decoder is not at an answer about one of these thumbnails. *)
Untouched(thumbs) == rx # Idle /\ rx.thumb \in thumbs => world.interrupts

(* A request may be taken off the queue while the decoder still refers to it. *)
Detach(gone) == IF rx # Idle /\ rx.thumb \in gone THEN [rx EXCEPT !.queued = FALSE] ELSE rx

-----------------------------------------------------------------------------
(* The threads that queue and clear.                                       *)

(* Where a request marked next goes. *)
NextPlace(q) ==
    CHOOSE i \in 1..(Len(q) + 1) :
        /\ i <= Len(q) => ~InProgress(q[i])
        /\ \A j \in 1..(i - 1) : InProgress(q[j])

(* Position of the first request of a file, 0 if there is none. *)
FirstOf(f) == SelectInSeq(queue, LAMBDA r : File[r.thumb] = f)

(* Mutant: the request that was found stays. *)
Without_Keeps(f) == queue

(* The queue without the request that was found. *)
Without(f) == IF FirstOf(f) = 0 THEN queue ELSE RemoveAt(queue, FirstOf(f))

(* A request of the file that is in the queue already may be replaced. *)
MayQueue(r, next) == ~InProgress(r) /\ (next \/ r.state = "FAILED")

Queue(t, next) ==
    LET f == File[t]
        r == [thumb |-> t, state |-> "UNKNOWN"]
        q == Without(f)
    IN /\ calls < world.calls
       /\ Untouched(OfFile(f))
       /\ FirstOf(f) # 0 => MayQueue(queue[FirstOf(f)], next)
       /\ calls' = calls + 1
       /\ ctx' = [ctx EXCEPT ![t] = Fresh]
       /\ queue' = IF next THEN InsertAt(q, NextPlace(q), r) ELSE Append(q, r)
       /\ rx' = Detach(OfFile(f))
       /\ UNCHANGED <<world, image, answers, spin, faults>>

(* ClearCache, and the file infos received anew: the decoder's reference   *)
(* is to a request and a thumbnail that nothing else refers to.            *)
Clear ==
    /\ calls < world.calls
    /\ calls' = calls + 1
    /\ queue' = <<>>
    /\ ctx' = [t \in Thumbs |-> Fresh]
    /\ image' = [t \in Thumbs |-> <<>>]
    /\ rx' = Idle
    /\ UNCHANGED <<world, answers, spin, faults>>

-----------------------------------------------------------------------------
(* Spin.                                                                   *)

(* Mutant: only time ends a request. *)
Droppable_InTime(r) == InProgress(r) /\ Untouched({r.thumb})

Droppable(r) == (InProgress(r) \/ r.state = "FAILED") /\ Untouched({r.thumb})

(* Requests that failed, and requests found timed out, are dropped; the    *)
(* n that stay keep their order.                                           *)
Sweep ==
    /\ spin = "sweep"
    /\ \E late \in SUBSET {r \in {queue[i] : i \in 1..Len(queue)} : InProgress(r)},
          n \in 0..Len(queue) : \E place \in [1..n -> 1..Len(queue)] :
          LET Dropped(r) == Droppable(r) /\ (r \in late \/ r.state = "FAILED")
              stay == {i \in 1..Len(queue) : ~Dropped(queue[i])}
          IN /\ {place[k] : k \in 1..n} = stay
             /\ \A j, k \in 1..n : j < k => place[j] < place[k]
             /\ queue' = [k \in 1..n |-> queue[place[k]]]
             /\ rx' = Detach({queue[i].thumb : i \in (1..Len(queue)) \ stay})
    /\ spin' = "request"
    /\ UNCHANGED <<ctx, image, answers, boundVars>>

(* Thumbnails that are complete at the front leave the queue. *)
Complete(q) ==
    CHOOSE n \in 0..Len(q) :
        /\ \A i \in 1..n : ctx[q[i].thumb].state = "Cached"
        /\ n < Len(q) => ctx[q[n + 1].thumb].state # "Cached"

(* Duet::RequestThumbnail, for the request at the front of q; its m_state  *)
(* changes only if that returns true.                                      *)
Ask(q, offset) ==
    \/ /\ queue' = [q EXCEPT ![1].state = "REQUESTED"]
       /\ \/ /\ answers' = Append(answers, [offset |-> offset, ok |-> TRUE])
             /\ UNCHANGED faults
          \/ /\ Fault("refused")
             /\ answers' = Append(answers, [offset |-> offset, ok |-> FALSE])
          \/ /\ Fault("lost")
             /\ UNCHANGED answers
    \/ /\ Fault("send")
       /\ queue' = q
       /\ UNCHANGED answers

Start(q) ==
    LET t == q[1].thumb
    IN /\ ctx[t].state = "Init"
       /\ \/ /\ ctx' = [ctx EXCEPT ![t] = Begun(t)]
             /\ image' = [image EXCEPT ![t] = <<>>]
             /\ Ask(q, First(t))
          \/ /\ Fault("disk")
             /\ queue' = q
             /\ UNCHANGED <<ctx, image, answers>>

Continue(q) ==
    LET t == q[1].thumb
    IN /\ ctx[t].state = "DataRequest"
       /\ ctx' = [ctx EXCEPT ![t].state = "DataWait"]
       /\ UNCHANGED image
       /\ Ask(q, ctx[t].next)

(* One thumbnail at a time: the first that is not complete decides. *)
Request ==
    LET n == Complete(queue)
        q == SubSeq(queue, n + 1, Len(queue))
    IN /\ spin = "request"
       /\ spin' = "sweep"
       /\ rx' = Detach({queue[i].thumb : i \in 1..n})
       /\ \/ q # <<>> /\ (Start(q) \/ Continue(q))
          \/ /\ q # <<>> => ctx[q[1].thumb].state \in {"Data", "DataWait"}
             /\ queue' = q
             /\ UNCHANGED <<ctx, image, answers, faults>>
       /\ UNCHANGED <<world, calls>>

-----------------------------------------------------------------------------
(* The subscribers of an answer to M36.1, in the order of its values.      *)

(* The request the decoder refers to changes state, in the queue or not. *)
SetState(state) ==
    queue' = IF rx.queued
             THEN [i \in 1..Len(queue) |->
                     IF queue[i].thumb = rx.thumb THEN [queue[i] EXCEPT !.state = state]
                     ELSE queue[i]]
             ELSE queue

(* thumbnailFilename. *)
RxFilename ==
    /\ rx = Idle
    /\ \E i \in 1..Len(answers) :
          /\ answers' = RemoveAt(answers, i)
          /\ LET m == answers[i]
                 j == FirstOf(File[m.offset[1]])
             IN rx' = IF j = 0 THEN Idle
                      ELSE [step |-> "offset", thumb |-> queue[j].thumb, queued |-> TRUE,
                            offset |-> m.offset, ok |-> m.ok]
    /\ UNCHANGED <<tableVars, spin, boundVars>>

(* Mutant: the offset of an answer is not compared. *)
Expected_Any == TRUE

(* The answer is about the chunk that the thumbnail waits for. *)
Expected == rx.offset = ctx[rx.thumb].next

(* thumbnailOffset. *)
RxOffset ==
    /\ rx # Idle
    /\ rx.step = "offset"
    /\ \/ /\ Expected
          /\ SetState("RECEIVING")
          /\ rx' = [rx EXCEPT !.step = IF rx.ok THEN "data" ELSE "err"]
          /\ UNCHANGED ctx
       \/ /\ ~Expected
          /\ SetState("FAILED")
          /\ ctx' = [ctx EXCEPT ![rx.thumb].bad = TRUE]
          /\ rx' = Idle
    /\ UNCHANGED <<image, answers, spin, boundVars>>

(* thumbnailData. *)
RxData ==
    /\ rx # Idle
    /\ rx.step = "data"
    /\ ctx' = [ctx EXCEPT ![rx.thumb].state = "Data"]
    /\ rx' = [rx EXCEPT !.step = "next"]
    /\ UNCHANGED <<queue, image, answers, spin, boundVars>>

(* thumbnailNext. *)
RxNext ==
    /\ rx # Idle
    /\ rx.step = "next"
    /\ ctx' = [ctx EXCEPT ![rx.thumb].next = Following(rx.offset)]
    /\ rx' = [rx EXCEPT !.step = "err"]
    /\ UNCHANGED <<queue, image, answers, spin, boundVars>>

(* The answer reports no error, and neither does an earlier one. *)
Fine == rx.ok /\ ~ctx[rx.thumb].bad

(* thumbnailErr, when it fails the request. *)
RxFailed ==
    /\ \/ ~Fine /\ UNCHANGED faults
       \/ Fine /\ ctx[rx.thumb].state = "Data" /\ Fault("decode")
    /\ SetState("FAILED")
    /\ UNCHANGED <<ctx, image>>

(* thumbnailErr, when there is no data to decode. *)
RxNoData ==
    /\ Fine
    /\ ctx[rx.thumb].state # "Data"
    /\ UNCHANGED <<tableVars, faults>>

(* thumbnailErr, when it decodes the chunk. *)
RxDecode ==
    /\ Fine
    /\ ctx[rx.thumb].state = "Data"
    /\ image' = [image EXCEPT ![rx.thumb] = Append(@, rx.offset)]
    /\ ctx' = [ctx EXCEPT ![rx.thumb].state =
                 IF ctx[rx.thumb].next = None THEN "Cached" ELSE "DataRequest"]
    /\ UNCHANGED <<queue, faults>>

RxErr ==
    /\ rx # Idle
    /\ rx.step = "err"
    /\ RxFailed \/ RxNoData \/ RxDecode
    /\ rx' = Idle
    /\ UNCHANGED <<world, answers, spin, calls>>

-----------------------------------------------------------------------------
Spinning == Sweep \/ Request

Receiving == RxFilename \/ RxOffset \/ RxData \/ RxNext \/ RxErr

Calling == (\E t \in Thumbs, next \in BOOLEAN : Queue(t, next)) \/ Clear

Next == Spinning \/ Receiving \/ Calling

Spec == Init /\ [][Next]_vars

Queued(t) == \E i \in 1..Len(queue) : queue[i].thumb = t

(* A request that stays in progress is found timed out some time. *)
TimesOut(t) ==
    /\ Sweep
    /\ \E i \in 1..Len(queue) : queue[i].thumb = t /\ InProgress(queue[i])
    /\ \A i \in 1..Len(queue') : queue'[i].thumb # t

(* The cache thread never stops, and neither does the decoder.             *)
Fairness ==
    /\ WF_vars(Sweep)
    /\ WF_vars(Request)
    /\ WF_vars(Receiving)
    /\ \A t \in Thumbs : SF_vars(TimesOut(t))

FairSpec == Spec /\ Fairness

-----------------------------------------------------------------------------
States == {"UNKNOWN", "REQUESTED", "RECEIVING", "FAILED"}

TypeOK ==
    /\ world \in Worlds
    /\ queue \in Seq([thumb : Thumbs, state : States])
    /\ ctx \in [Thumbs -> [state : {"Init", "DataRequest", "DataWait", "Data", "Cached"},
                           next : Offsets \cup {None}, bad : BOOLEAN]]
    /\ image \in [Thumbs -> Seq(Offsets)]
    /\ answers \in Seq([offset : Offsets, ok : BOOLEAN])
    /\ rx = Idle \/ rx \in [step : {"offset", "data", "next", "err"}, thumb : Thumbs,
                            queued : BOOLEAN, offset : Offsets, ok : BOOLEAN]
    /\ spin \in {"sweep", "request"}
    /\ calls \in 0..world.calls
    /\ faults \in 0..MaxFaults

(* The first n chunks of a thumbnail. *)
Chunks(t, n) == [i \in 1..n |-> <<t, i>>]

(* A thumbnail that counts as complete was decoded from all of its chunks, *)
(* each once and in order, whatever late answers came in between.          *)
ImageIsExact ==
    ~world.interrupts /\ "decode" \notin world.faults =>
        \A t \in Thumbs : ctx[t].state = "Cached" => image[t] = Chunks(t, NumChunks)

(* A file has one request at most: QueueThumbnailRequestInner finds the    *)
(* one there is, and GetThumbnailRequest the right one.                    *)
OnePerFile ==
    \A i, j \in 1..Len(queue) :
        File[queue[i].thumb] = File[queue[j].thumb] => i = j

(* Every request ends while the Duet can be asked: the thumbnail arrives,  *)
(* or the request is given up, and with it the wait of those behind it.    *)
RequestsEnd ==
    \A t \in Thumbs :
        (Queued(t) /\ ~world.interrupts /\ "send" \notin world.faults) ~> ~Queued(t)
=============================================================================
