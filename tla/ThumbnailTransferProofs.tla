---------------------- MODULE ThumbnailTransferProofs ----------------------
(***************************************************************************)
(* Proofs about the transfer of thumbnails, for every number of files,     *)
(* thumbnails, chunks, calls and faults: types, one request for a file,    *)
(* and images that are complete are exact.                                 *)
(***************************************************************************)
EXTENDS ThumbnailTransfer, SequenceTheorems, WellFoundedInduction, TLAPS

Requests == [thumb : Thumbs, state : States]
Contexts == [state : {"Init", "DataRequest", "DataWait", "Data", "Cached"},
             next : Offsets \cup {None}, bad : BOOLEAN]
Answers == [offset : Offsets, ok : BOOLEAN]
Decoding == [step : {"offset", "data", "next", "err"}, thumb : Thumbs, queued : BOOLEAN,
             offset : Offsets, ok : BOOLEAN]

-----------------------------------------------------------------------------
(* Facts about the data.                                                   *)

(* A nonempty set of numbers has a least one.                              *)
LEMMA Least ==
  ASSUME NEW S, S \subseteq Nat, S # {}
  PROVE  \E k \in S : \A j \in S : k <= j
<1>1. PICK k \in S : \A j \in S : ~(<<j, k>> \in OpToRel(<, Nat))
  BY NatLessThanWellFounded, WFMin
<1>2. ASSUME NEW j \in S PROVE k <= j
  <2>1. OpToRel(<, Nat) = {p \in Nat \X Nat : p[1] < p[2]}
    BY DEF OpToRel
  <2>2. ~(j < k)
    BY <1>1, <2>1
  <2>3. j \in Nat /\ k \in Nat
    OBVIOUS
  <2> QED
    BY <2>2, <2>3
<1> QED
  BY <1>2

(* A sequence without its i-th element.                                    *)
LEMMA Removed ==
  ASSUME NEW S, NEW s \in Seq(S), NEW i \in 1..Len(s)
  PROVE  /\ RemoveAt(s, i) \in Seq(S) /\ Len(RemoveAt(s, i)) = Len(s) - 1
         /\ \A j \in 1..(Len(s) - 1) : RemoveAt(s, i)[j] = IF j < i THEN s[j] ELSE s[j + 1]
<1> DEFINE a == SubSeq(s, 1, i - 1)
           b == SubSeq(s, i + 1, Len(s))
<1>1. a \in Seq(S) /\ Len(a) = i - 1 /\ \A j \in 1..(i - 1) : a[j] = s[j]
  OBVIOUS
<1>2. b \in Seq(S) /\ Len(b) = Len(s) - i /\ \A j \in 1..(Len(s) - i) : b[j] = s[i + j]
  OBVIOUS
<1>3. RemoveAt(s, i) = a \o b
  BY DEF RemoveAt
<1> HIDE DEF a, b
<1>4. a \o b \in Seq(S) /\ Len(a \o b) = Len(s) - 1
  <2>1. a \in Seq(S) /\ b \in Seq(S)
    BY <1>1, <1>2
  <2>2. a \o b \in Seq(S) /\ Len(a \o b) = Len(a) + Len(b)
    BY <2>1, ConcatProperties
  <2> QED
    BY <1>1, <1>2, <2>2
<1>5. \A j \in 1..(Len(s) - 1) : (a \o b)[j] = IF j < i THEN s[j] ELSE s[j + 1]
  BY <1>1, <1>2
<1> QED
  BY <1>3, <1>4, <1>5

(* A sequence with one more element, at place i.                           *)
LEMMA Inserted ==
  ASSUME NEW S, NEW s \in Seq(S), NEW i \in 1..(Len(s) + 1), NEW e \in S
  PROVE  /\ InsertAt(s, i, e) \in Seq(S) /\ Len(InsertAt(s, i, e)) = Len(s) + 1
         /\ \A j \in 1..(Len(s) + 1) :
                InsertAt(s, i, e)[j] = IF j < i THEN s[j] ELSE IF j = i THEN e ELSE s[j - 1]
<1> DEFINE a == SubSeq(s, 1, i - 1)
           b == SubSeq(s, i, Len(s))
           c == a \o <<e>>
<1>1. a \in Seq(S) /\ Len(a) = i - 1 /\ \A j \in 1..(i - 1) : a[j] = s[j]
  OBVIOUS
<1>2. b \in Seq(S) /\ Len(b) = Len(s) + 1 - i /\ \A j \in 1..(Len(s) + 1 - i) : b[j] = s[i + j - 1]
  OBVIOUS
<1>3. InsertAt(s, i, e) = c \o b
  BY DEF InsertAt
<1> HIDE DEF a, b
<1>4. c \in Seq(S) /\ Len(c) = i /\ c[i] = e /\ \A j \in 1..(i - 1) : c[j] = s[j]
  BY <1>1
<1> HIDE DEF c
<1>5. c \o b \in Seq(S) /\ Len(c \o b) = Len(s) + 1
  <2>1. c \in Seq(S) /\ b \in Seq(S)
    BY <1>2, <1>4
  <2>2. c \o b \in Seq(S) /\ Len(c \o b) = Len(c) + Len(b)
    BY <2>1, ConcatProperties
  <2> QED
    BY <1>2, <1>4, <2>2
<1>6. ASSUME NEW j \in 1..(Len(s) + 1)
      PROVE  (c \o b)[j] = IF j < i THEN s[j] ELSE IF j = i THEN e ELSE s[j - 1]
  <2>1. CASE j <= i
    BY <1>2, <1>4, <2>1
  <2>2. CASE j > i
    <3>1. (c \o b)[j] = b[j - i] /\ j - i \in 1..(Len(s) + 1 - i)
      BY <1>2, <1>4, <2>2
    <3>2. b[j - i] = s[i + (j - i) - 1] /\ i + (j - i) - 1 = j - 1
      BY <1>2, <3>1
    <3> QED
      BY <2>2, <3>1, <3>2
  <2>3. i \in Nat /\ j \in Nat
    OBVIOUS
  <2>4. j <= i \/ j > i
    BY <2>3
  <2> QED
    BY <2>1, <2>2, <2>4
<1> QED
  BY <1>3, <1>5, <1>6

(* GetThumbnailRequest returns a request of the file, if there is one.     *)
LEMMA FirstOfIs ==
  ASSUME queue \in Seq(Requests), NEW f
  PROVE  \/ /\ FirstOf(f) \in 1..Len(queue)
            /\ File[queue[FirstOf(f)].thumb] = f
         \/ FirstOf(f) = 0 /\ \A i \in 1..Len(queue) : File[queue[i].thumb] # f
<1> DEFINE I == {i \in 1..Len(queue) : File[queue[i].thumb] = f}
<1>1. FirstOf(f) = IF I # {} THEN Min(I) ELSE 0
  BY DEF FirstOf, SelectInSeq
<1>2. I \subseteq Nat
  OBVIOUS
<1>3. ASSUME I # {} PROVE Min(I) \in I
  <2>1. \E k \in I : \A j \in I : k <= j
    BY <1>2, <1>3, Least
  <2> QED
    BY <2>1 DEF Min
<1> QED
  BY <1>1, <1>3

(* A request marked next has a place, behind those in progress.            *)
LEMMA NextPlaceIs ==
  ASSUME NEW q \in Seq(Requests)
  PROVE  NextPlace(q) \in 1..(Len(q) + 1)
<1> DEFINE I == {i \in 1..(Len(q) + 1) : i <= Len(q) => ~InProgress(q[i])}
<1>1. I \subseteq Nat /\ Len(q) + 1 \in I
  OBVIOUS
<1>2. PICK k \in I : \A j \in I : k <= j
  BY <1>1, Least
<1>3. \A j \in 1..(k - 1) : j \notin I
  BY <1>1, <1>2
<1>4. \A j \in 1..(k - 1) : InProgress(q[j])
  BY <1>3
<1> QED
  BY <1>2, <1>4 DEF NextPlace

(* What is complete at the front of the queue has an end.                  *)
LEMMA CompleteIs ==
  ASSUME NEW q \in Seq(Requests)
  PROVE  Complete(q) \in 0..Len(q)
<1> DEFINE I == {n \in 0..Len(q) : n < Len(q) => ctx[q[n + 1].thumb].state # "Cached"}
<1>1. I \subseteq Nat /\ Len(q) \in I
  OBVIOUS
<1>2. PICK n \in I : \A j \in I : n <= j
  BY <1>1, Least
<1>3. ASSUME NEW i \in 1..n PROVE i - 1 \notin I /\ i - 1 \in 0..Len(q)
  <2>1. n \in 0..Len(q) /\ Len(q) \in Nat
    OBVIOUS
  <2>2. i - 1 \in 0..Len(q) /\ ~(n <= i - 1)
    BY <2>1
  <2> QED
    BY <1>2, <2>2
<1>4. \A i \in 1..n : ctx[q[i].thumb].state = "Cached"
  BY <1>3
<1> QED
  BY <1>2, <1>4 DEF Complete

(* The offset after one of a thumbnail is one of it, or there is none.     *)
LEMMA FollowingIs ==
  ASSUME NEW o \in Offsets
  PROVE  Following(o) \in Offsets \cup {None}
BY TransferAssumption DEF Offsets, Following

(* Taking requests off the queue leaves the decoder where it is.           *)
LEMMA Detached ==
  ASSUME rx = Idle \/ rx \in Decoding, NEW gone
  PROVE  /\ Detach(gone) = Idle \/ Detach(gone) \in Decoding
         /\ rx = Idle <=> Detach(gone) = Idle
         /\ Detach(gone).step = rx.step
         /\ rx # Idle => /\ Detach(gone).thumb = rx.thumb
                         /\ Detach(gone).offset = rx.offset
                         /\ Detach(gone).ok = rx.ok
BY DEF Detach, Idle, Decoding

(* A state of the request that the decoder refers to.                      *)
LEMMA StateSet ==
  ASSUME queue \in Seq(Requests), NEW state \in States, SetState(state)
  PROVE  /\ queue' \in Seq(Requests)
         /\ Len(queue') = Len(queue)
         /\ \A i \in 1..Len(queue) : queue'[i].thumb = queue[i].thumb
<1>1. CASE ~rx.queued
  BY <1>1 DEF SetState
<1>2. CASE rx.queued
  <2> DEFINE new(i) == IF queue[i].thumb = rx.thumb THEN [queue[i] EXCEPT !.state = state]
                       ELSE queue[i]
  <2>1. queue' = [i \in 1..Len(queue) |-> new(i)]
    BY <1>2 DEF SetState
  <2>2. ASSUME NEW i \in 1..Len(queue)
        PROVE  new(i) \in Requests /\ new(i).thumb = queue[i].thumb
    <3>1. queue[i] \in Requests
      OBVIOUS
    <3> QED
      BY <3>1 DEF Requests
  <2> HIDE DEF new
  <2>3. queue' \in Seq(Requests) /\ Len(queue') = Len(queue)
    BY <2>1, <2>2
  <2> QED
    BY <2>1, <2>2, <2>3
<1> QED
  BY <1>1, <1>2

-----------------------------------------------------------------------------
(* Types.                                                                  *)

(* The variables have their types; a thumbnail that waits to be asked for  *)
(* has a chunk to ask for, which no answer takes from it.                  *)
TypeInv ==
    /\ TypeOK
    /\ \A t \in Thumbs : ctx[t].state = "DataRequest" => ctx[t].next # None
    /\ rx.step = "next" => ctx[rx.thumb].state # "DataRequest"

(* TypeOK, in the names of this module.                                    *)
LEMMA TypesAre ==
  TypeOK <=> /\ world \in Worlds
             /\ queue \in Seq(Requests)
             /\ ctx \in [Thumbs -> Contexts]
             /\ image \in [Thumbs -> Seq(Offsets)]
             /\ answers \in Seq(Answers)
             /\ rx = Idle \/ rx \in Decoding
             /\ spin \in {"sweep", "request"}
             /\ calls \in 0..world.calls
             /\ faults \in 0..MaxFaults
BY DEF TypeOK, Requests, Contexts, Answers, Decoding

(* The program starts in order.                                            *)
LEMMA InitTyped == Init => TypeInv
<1> SUFFICES ASSUME Init PROVE TypeInv
  OBVIOUS
<1>1. world.calls \in Nat /\ MaxFaults \in Nat
  BY TransferAssumption DEF Init, WorldType
<1>2. Fresh \in Contexts /\ Fresh.state = "Init" /\ Idle.step = "idle"
  BY DEF Fresh, Contexts, Idle
<1>3. TypeOK
  BY <1>1, <1>2, TypesAre DEF Init
<1> QED
  BY <1>2, <1>3 DEF TypeInv, Init

(* A fault that happens is counted.                                        *)
LEMMA FaultCounted ==
  ASSUME faults \in 0..MaxFaults, NEW kind, Fault(kind)
  PROVE  faults' \in 0..MaxFaults
BY TransferAssumption DEF Fault

(* Queueing preserves the types.                                           *)
LEMMA QueueTyped ==
  ASSUME TypeInv, NEW t \in Thumbs, NEW next \in BOOLEAN, Queue(t, next)
  PROVE  TypeInv'
<1> DEFINE f == File[t]
           q == Without(f)
           r == [thumb |-> t, state |-> "UNKNOWN"]
<1>1. TypeOK
  BY DEF TypeInv
<1>2. q \in Seq(Requests)
  <2>1. CASE FirstOf(f) = 0
    BY <1>1, <2>1, TypesAre DEF Without
  <2>2. CASE FirstOf(f) \in 1..Len(queue)
    <3>1. RemoveAt(queue, FirstOf(f)) \in Seq(Requests)
      BY <1>1, <2>2, TypesAre, Removed
    <3> QED
      BY <2>2, <3>1 DEF Without
  <2> QED
    BY <1>1, <2>1, <2>2, TypesAre, FirstOfIs
<1>3. r \in Requests
  BY DEF Requests, States
<1>4. queue' = IF next THEN InsertAt(q, NextPlace(q), r) ELSE Append(q, r)
  BY DEF Queue
<1> HIDE DEF q, r
<1>5. queue' \in Seq(Requests)
  <2>1. InsertAt(q, NextPlace(q), r) \in Seq(Requests)
    BY <1>2, <1>3, NextPlaceIs, Inserted
  <2>2. Append(q, r) \in Seq(Requests)
    BY <1>2, <1>3
  <2> QED
    BY <1>4, <2>1, <2>2
<1>6. Fresh \in Contexts /\ Fresh.state = "Init"
  BY DEF Fresh, Contexts
<1>7. ctx' = [ctx EXCEPT ![t] = Fresh] /\ rx' = Detach(OfFile(f))
  BY DEF Queue
<1>8. UNCHANGED <<world, image, answers, spin, faults>> /\ calls' = calls + 1
      /\ calls < world.calls
  BY DEF Queue
<1>9. world.calls \in Nat
  BY <1>1, TypesAre, TransferAssumption DEF WorldType
<1>10. rx' = Idle \/ rx' \in Decoding
  BY <1>1, <1>7, TypesAre, Detached
<1>11. TypeOK'
  BY <1>1, <1>5, <1>6, <1>7, <1>8, <1>9, <1>10, TypesAre DEF TypeOK, Requests, Contexts, Answers, Decoding
<1>12. ASSUME rx'.step = "next" PROVE ctx'[rx'.thumb].state # "DataRequest"
  <2>1. rx.step = "next" /\ rx # Idle /\ rx'.thumb = rx.thumb /\ rx.thumb \in Thumbs
    BY <1>1, <1>7, <1>12, TypesAre, Detached DEF Idle, Decoding
  <2> QED
    BY <1>1, <1>6, <1>7, <2>1, TypesAre DEF TypeInv
<1>13. \A u \in Thumbs : ctx'[u].state = "DataRequest" => ctx'[u].next # None
  BY <1>1, <1>6, <1>7, TypesAre DEF TypeInv
<1> QED
  BY <1>11, <1>12, <1>13 DEF TypeInv

(* Clearing preserves the types.                                           *)
LEMMA ClearTyped == TypeInv /\ Clear => TypeInv'
<1> SUFFICES ASSUME TypeInv, Clear PROVE TypeInv'
  OBVIOUS
<1>1. world.calls \in Nat
  BY TypesAre, TransferAssumption DEF TypeInv, WorldType
<1>2. Fresh \in Contexts /\ Fresh.state = "Init" /\ Idle.step = "idle"
  BY DEF Fresh, Contexts, Idle
<1>3. TypeOK'
  BY <1>1, <1>2, TypesAre
  DEF TypeInv, Clear, TypeOK, Requests, Contexts, Answers, Decoding
<1> QED
  BY <1>2, <1>3 DEF TypeInv, Clear

(* A sweep keeps some of the requests, in their order.                     *)
LEMMA SweepKeeps ==
  ASSUME queue \in Seq(Requests), Sweep
  PROVE  \E n \in 0..Len(queue) : \E place \in [1..n -> 1..Len(queue)] :
            /\ \A j, k \in 1..n : j < k => place[j] < place[k]
            /\ queue' = [k \in 1..n |-> queue[place[k]]]
            /\ queue' \in Seq(Requests)
            /\ Len(queue') = n
            /\ \E gone : rx' = Detach(gone)
<1>1. PICK late \in SUBSET {r \in {queue[i] : i \in 1..Len(queue)} : InProgress(r)},
           n \in 0..Len(queue) : \E place \in [1..n -> 1..Len(queue)] :
          LET Dropped(r) == Droppable(r) /\ (r \in late \/ r.state = "FAILED")
              stay == {i \in 1..Len(queue) : ~Dropped(queue[i])}
          IN /\ {place[k] : k \in 1..n} = stay
             /\ \A j, k \in 1..n : j < k => place[j] < place[k]
             /\ queue' = [k \in 1..n |-> queue[place[k]]]
             /\ rx' = Detach({queue[i].thumb : i \in (1..Len(queue)) \ stay})
  BY DEF Sweep
<1>2. PICK place \in [1..n -> 1..Len(queue)] :
             /\ \A j, k \in 1..n : j < k => place[j] < place[k]
             /\ queue' = [k \in 1..n |-> queue[place[k]]]
             /\ \E gone : rx' = Detach(gone)
  BY <1>1
<1>3. \A k \in 1..n : queue[place[k]] \in Requests
  BY <1>2
<1>4. queue' \in Seq(Requests) /\ Len(queue') = n
  BY <1>2, <1>3
<1> QED
  BY <1>2, <1>4

(* Sweeping preserves the types.                                           *)
LEMMA SweepTyped == TypeInv /\ Sweep => TypeInv'
<1> SUFFICES ASSUME TypeInv, Sweep PROVE TypeInv'
  OBVIOUS
<1>1. TypeOK
  BY DEF TypeInv
<1>2. queue' \in Seq(Requests) /\ \E gone : rx' = Detach(gone)
  BY <1>1, TypesAre, SweepKeeps
<1>3. PICK gone : rx' = Detach(gone)
  BY <1>2
<1>4. /\ rx' = Idle \/ rx' \in Decoding
      /\ rx'.step = "next" => rx.step = "next" /\ rx'.thumb = rx.thumb
  BY <1>1, <1>3, TypesAre, Detached DEF Idle
<1>5. UNCHANGED <<ctx, image, answers, boundVars>> /\ spin' = "request"
  BY DEF Sweep
<1>6. TypeOK'
  BY <1>1, <1>2, <1>4, <1>5, TypesAre
  DEF TypeOK, Requests, Contexts, Answers, Decoding, boundVars
<1> QED
  BY <1>4, <1>5, <1>6 DEF TypeInv

(* What is left of the queue when the complete are gone.                   *)
LEMMA FrontGone ==
  ASSUME queue \in Seq(Requests)
  PROVE  LET n == Complete(queue)
             q == SubSeq(queue, n + 1, Len(queue))
         IN /\ n \in 0..Len(queue)
            /\ q \in Seq(Requests)
            /\ Len(q) = Len(queue) - n
            /\ \A i \in 1..Len(q) : q[i] = queue[n + i]
            /\ q # <<>> => 1 \in 1..Len(q) /\ q[1] \in Requests
<1> DEFINE n == Complete(queue)
           q == SubSeq(queue, n + 1, Len(queue))
<1>1. n \in 0..Len(queue)
  BY CompleteIs
<1> HIDE DEF n
<1>2. q \in Seq(Requests) /\ Len(q) = Len(queue) - n
      /\ \A i \in 1..Len(q) : q[i] = queue[n + i]
  BY <1>1
<1> HIDE DEF q
<1>3. q # <<>> => 1 \in 1..Len(q) /\ q[1] \in Requests
  BY <1>2
<1> QED
  BY <1>1, <1>2, <1>3 DEF n, q

(* Asking changes the state of the request at the front, and the answers.  *)
LEMMA Asked ==
  ASSUME TypeOK, NEW q \in Seq(Requests), q # <<>>, NEW offset \in Offsets, Ask(q, offset)
  PROVE  /\ queue' \in Seq(Requests)
         /\ Len(queue') = Len(q)
         /\ \A i \in 1..Len(q) : queue'[i].thumb = q[i].thumb
         /\ answers' \in Seq(Answers)
         /\ faults' \in 0..MaxFaults
<1>1. 1 \in 1..Len(q) /\ q[1] \in Requests
  OBVIOUS
<1> DEFINE p == [q EXCEPT ![1].state = "REQUESTED"]
<1>2. /\ p \in Seq(Requests)
      /\ Len(p) = Len(q)
      /\ \A i \in 1..Len(q) : p[i].thumb = q[i].thumb
  <2>1. [q[1] EXCEPT !.state = "REQUESTED"] \in Requests
        /\ [q[1] EXCEPT !.state = "REQUESTED"].thumb = q[1].thumb
    BY <1>1 DEF Requests, States
  <2> QED
    BY <1>1, <2>1
<1>3. queue' = p \/ queue' = q
  BY DEF Ask
<1> HIDE DEF p
<1>4. \A ok \in BOOLEAN : Append(answers, [offset |-> offset, ok |-> ok]) \in Seq(Answers)
  BY TypesAre DEF Answers
<1>5. answers' \in Seq(Answers)
  BY <1>4, TypesAre DEF Ask
<1>6. faults' \in 0..MaxFaults
  BY TypesAre, FaultCounted DEF Ask
<1> QED
  BY <1>2, <1>3, <1>5, <1>6

(* Asking for chunks preserves the types.                                  *)
LEMMA RequestTyped == TypeInv /\ Request => TypeInv'
<1> SUFFICES ASSUME TypeInv, Request PROVE TypeInv'
  OBVIOUS
<1> DEFINE n == Complete(queue)
           q == SubSeq(queue, n + 1, Len(queue))
           t == q[1].thumb
<1>1. TypeOK
  BY DEF TypeInv
<1>2. q \in Seq(Requests) /\ (q # <<>> => t \in Thumbs)
  BY <1>1, TypesAre, FrontGone DEF Requests
<1>3. /\ \/ q # <<>> /\ (Start(q) \/ Continue(q))
         \/ /\ queue' = q
            /\ UNCHANGED <<ctx, image, answers, faults>>
      /\ UNCHANGED <<world, calls>>
      /\ spin' = "sweep"
      /\ \E gone : rx' = Detach(gone)
  BY DEF Request
<1> HIDE DEF n, q
<1>4. /\ queue' \in Seq(Requests)
      /\ answers' \in Seq(Answers)
      /\ faults' \in 0..MaxFaults
      /\ ctx' \in [Thumbs -> Contexts]
      /\ image' \in [Thumbs -> Seq(Offsets)]
      /\ \A u \in Thumbs : ctx'[u].state = "DataRequest" => /\ ctx'[u].next # None
                                                            /\ ctx[u].state = "DataRequest"
  <2>1. CASE q # <<>> /\ Start(q)
    <3>1. First(t) \in Offsets /\ Begun(t) \in Contexts /\ Begun(t).state = "DataWait"
      <4>1. First(t) \in Offsets
        BY <1>2, <2>1, TransferAssumption DEF First, Offsets
      <4>2. Begun(t) \in Contexts /\ Begun(t).state = "DataWait"
        BY <4>1 DEF Begun, Fresh, Contexts
      <4> QED
        BY <4>1, <4>2
    <3>2. CASE ctx' = [ctx EXCEPT ![t] = Begun(t)] /\ image' = [image EXCEPT ![t] = <<>>]
               /\ Ask(q, First(t))
      <4>1. queue' \in Seq(Requests) /\ answers' \in Seq(Answers) /\ faults' \in 0..MaxFaults
        BY <1>1, <1>2, <2>1, <3>1, <3>2, Asked
      <4>2. image' \in [Thumbs -> Seq(Offsets)]
        <5>1. image \in [Thumbs -> Seq(Offsets)] /\ <<>> \in Seq(Offsets)
          BY <1>1, TypesAre, EmptySeq
        <5> QED
          BY <3>2, <5>1
      <4>3. ctx' \in [Thumbs -> Contexts]
        BY <1>1, <3>1, <3>2, TypesAre
      <4>4. \A u \in Thumbs : ctx'[u].state = "DataRequest" => ctx'[u] = ctx[u]
        BY <1>1, <3>1, <3>2, TypesAre
      <4> QED
        BY <4>1, <4>2, <4>3, <4>4 DEF TypeInv
    <3>3. CASE Fault("disk") /\ queue' = q /\ UNCHANGED <<ctx, image, answers>>
      BY <1>1, <1>2, <3>3, TypesAre, FaultCounted DEF TypeInv
    <3> QED
      BY <2>1, <3>2, <3>3 DEF Start
  <2>2. CASE q # <<>> /\ Continue(q)
    <3>1. /\ ctx[t].state = "DataRequest"
          /\ ctx' = [ctx EXCEPT ![t].state = "DataWait"]
          /\ UNCHANGED image
          /\ Ask(q, ctx[t].next)
      BY <2>2 DEF Continue
    <3>2. ctx[t] \in Contexts /\ ctx[t].next \in Offsets
      BY <1>1, <1>2, <2>2, <3>1, TypesAre DEF TypeInv, Contexts
    <3>3. queue' \in Seq(Requests) /\ answers' \in Seq(Answers) /\ faults' \in 0..MaxFaults
      BY <1>1, <1>2, <2>2, <3>1, <3>2, Asked
    <3>4. [ctx[t] EXCEPT !.state = "DataWait"] \in Contexts
          /\ [ctx[t] EXCEPT !.state = "DataWait"].state = "DataWait"
      BY <3>2 DEF Contexts
    <3>5. ctx' \in [Thumbs -> Contexts]
          /\ \A u \in Thumbs : ctx'[u].state = "DataRequest" => ctx'[u] = ctx[u]
      BY <1>1, <3>1, <3>4, TypesAre
    <3> QED
      BY <1>1, <3>1, <3>3, <3>5, TypesAre DEF TypeInv
  <2>3. CASE queue' = q /\ UNCHANGED <<ctx, image, answers, faults>>
    BY <1>1, <1>2, <2>3, TypesAre DEF TypeInv
  <2> QED
    BY <1>3, <2>1, <2>2, <2>3
<1>5. /\ rx' = Idle \/ rx' \in Decoding
      /\ rx'.step = "next" => rx.step = "next" /\ rx'.thumb = rx.thumb /\ rx.thumb \in Thumbs
  BY <1>1, <1>3, TypesAre, Detached DEF Idle, Decoding
<1>6. TypeOK'
  BY <1>1, <1>3, <1>4, <1>5, TypesAre DEF TypeOK, Requests, Contexts, Answers, Decoding
<1> QED
  BY <1>4, <1>5, <1>6 DEF TypeInv

(* An answer that is found a request preserves the types.                  *)
LEMMA FilenameTyped == TypeInv /\ RxFilename => TypeInv'
<1> SUFFICES ASSUME TypeInv, RxFilename PROVE TypeInv'
  OBVIOUS
<1>1. TypeOK
  BY DEF TypeInv
<1>2. PICK i \in 1..Len(answers) :
          LET m == answers[i]
              j == FirstOf(File[m.offset[1]])
          IN /\ answers' = RemoveAt(answers, i)
             /\ rx' = IF j = 0 THEN Idle
                      ELSE [step |-> "offset", thumb |-> queue[j].thumb, queued |-> TRUE,
                            offset |-> m.offset, ok |-> m.ok]
  BY DEF RxFilename
<1> DEFINE m == answers[i]
           j == FirstOf(File[m.offset[1]])
<1>3. answers' \in Seq(Answers)
  BY <1>1, <1>2, TypesAre, Removed
<1>4. m.offset \in Offsets /\ m.ok \in BOOLEAN
  <2>1. m \in Answers
    BY <1>1, TypesAre
  <2> QED
    BY <2>1 DEF Answers
<1>5. rx' = Idle \/ rx' \in Decoding
  <2>1. j # 0 => queue[j] \in Requests
    BY <1>1, TypesAre, FirstOfIs
  <2> HIDE DEF j, m
  <2>2. j # 0 => queue[j].thumb \in Thumbs
    BY <2>1 DEF Requests
  <2> QED
    BY <1>2, <1>4, <2>2 DEF Decoding, j, m
<1>6. rx'.step # "next"
  BY <1>2 DEF Idle
<1>7. UNCHANGED <<tableVars, spin, boundVars>>
  BY DEF RxFilename
<1>8. TypeOK'
  BY <1>1, <1>3, <1>5, <1>7, TypesAre
  DEF TypeOK, Requests, Contexts, Answers, Decoding, tableVars, boundVars
<1> QED
  BY <1>6, <1>7, <1>8 DEF TypeInv, tableVars

(* Comparing the offsets preserves the types.                              *)
LEMMA OffsetTyped == TypeInv /\ RxOffset => TypeInv'
<1> SUFFICES ASSUME TypeInv, RxOffset PROVE TypeInv'
  OBVIOUS
<1>1. TypeOK /\ rx \in Decoding
  BY TypesAre DEF TypeInv, RxOffset
<1>2. rx.thumb \in Thumbs /\ ctx[rx.thumb] \in Contexts
  BY <1>1, TypesAre DEF Decoding
<1>3. queue' \in Seq(Requests)
  BY <1>1, TypesAre, StateSet DEF RxOffset, States
<1>4. \/ rx' = Idle
      \/ rx' \in Decoding /\ rx'.step \in {"data", "err"}
  <2>1. \A step \in {"data", "err"} : [rx EXCEPT !.step = step] \in Decoding
                                      /\ [rx EXCEPT !.step = step].step = step
    BY <1>1 DEF Decoding
  <2>2. rx' = Idle \/ \E step \in {"data", "err"} : rx' = [rx EXCEPT !.step = step]
    BY DEF RxOffset
  <2>3. ASSUME NEW step \in {"data", "err"}, rx' = [rx EXCEPT !.step = step]
        PROVE  rx' \in Decoding /\ rx'.step = step
    <3>1. [rx EXCEPT !.step = step] \in Decoding /\ [rx EXCEPT !.step = step].step = step
      BY <2>1
    <3> QED
      BY <2>3, <3>1
  <2> QED
    BY <2>2, <2>3
<1>5. /\ ctx' \in [Thumbs -> Contexts]
      /\ \A t \in Thumbs : ctx'[t].state = ctx[t].state /\ ctx'[t].next = ctx[t].next
  <2>1. [ctx[rx.thumb] EXCEPT !.bad = TRUE] \in Contexts
        /\ [ctx[rx.thumb] EXCEPT !.bad = TRUE].state = ctx[rx.thumb].state
        /\ [ctx[rx.thumb] EXCEPT !.bad = TRUE].next = ctx[rx.thumb].next
    BY <1>2 DEF Contexts
  <2>2. ctx' = ctx \/ ctx' = [ctx EXCEPT ![rx.thumb].bad = TRUE]
    BY DEF RxOffset
  <2> QED
    BY <1>1, <1>2, <2>1, <2>2, TypesAre
<1>6. UNCHANGED <<image, answers, spin, boundVars>>
  BY DEF RxOffset
<1>7. TypeOK'
  BY <1>1, <1>3, <1>4, <1>5, <1>6, TypesAre
  DEF TypeOK, Requests, Contexts, Answers, Decoding, boundVars
<1> QED
  BY <1>4, <1>5, <1>7 DEF TypeInv, Idle

(* Taking the data preserves the types.                                    *)
LEMMA DataTyped == TypeInv /\ RxData => TypeInv'
<1> SUFFICES ASSUME TypeInv, RxData PROVE TypeInv'
  OBVIOUS
<1>1. TypeOK /\ rx \in Decoding
  BY TypesAre DEF TypeInv, RxData
<1>2. rx.thumb \in Thumbs /\ ctx[rx.thumb] \in Contexts
  BY <1>1, TypesAre DEF Decoding
<1>3. /\ ctx' \in [Thumbs -> Contexts]
      /\ ctx'[rx.thumb].state = "Data"
      /\ \A t \in Thumbs : ctx'[t].state = "DataRequest" => ctx'[t] = ctx[t]
  <2>1. [ctx[rx.thumb] EXCEPT !.state = "Data"] \in Contexts
        /\ [ctx[rx.thumb] EXCEPT !.state = "Data"].state = "Data"
    BY <1>2 DEF Contexts
  <2>2. ctx' = [ctx EXCEPT ![rx.thumb].state = "Data"]
    BY DEF RxData
  <2> QED
    BY <1>1, <1>2, <2>1, <2>2, TypesAre
<1>4. rx' \in Decoding /\ rx'.thumb = rx.thumb
  BY <1>1 DEF RxData, Decoding
<1>5. UNCHANGED <<queue, image, answers, spin, boundVars>>
  BY DEF RxData
<1>6. TypeOK'
  BY <1>1, <1>3, <1>4, <1>5, TypesAre
  DEF TypeOK, Requests, Contexts, Answers, Decoding, boundVars
<1> QED
  BY <1>3, <1>4, <1>6 DEF TypeInv

(* Taking the next offset preserves the types.                             *)
LEMMA NextTyped == TypeInv /\ RxNext => TypeInv'
<1> SUFFICES ASSUME TypeInv, RxNext PROVE TypeInv'
  OBVIOUS
<1>1. TypeOK /\ rx \in Decoding
  BY TypesAre DEF TypeInv, RxNext
<1>2. rx.thumb \in Thumbs /\ ctx[rx.thumb] \in Contexts /\ Following(rx.offset) \in Offsets \cup {None}
  BY <1>1, TypesAre, FollowingIs DEF Decoding
<1>3. /\ ctx' \in [Thumbs -> Contexts]
      /\ \A t \in Thumbs : ctx'[t].state = "DataRequest" => ctx'[t] = ctx[t]
  <2>1. [ctx[rx.thumb] EXCEPT !.next = Following(rx.offset)] \in Contexts
        /\ [ctx[rx.thumb] EXCEPT !.next = Following(rx.offset)].state = ctx[rx.thumb].state
    BY <1>2 DEF Contexts
  <2>2. ctx' = [ctx EXCEPT ![rx.thumb].next = Following(rx.offset)]
    BY DEF RxNext
  <2>3. ctx[rx.thumb].state # "DataRequest"
    BY DEF TypeInv, RxNext
  <2> QED
    BY <1>1, <1>2, <2>1, <2>2, <2>3, TypesAre
<1>4. rx' \in Decoding /\ rx'.step = "err"
  BY <1>1 DEF RxNext, Decoding
<1>5. UNCHANGED <<queue, image, answers, spin, boundVars>>
  BY DEF RxNext
<1>6. TypeOK'
  BY <1>1, <1>3, <1>4, <1>5, TypesAre
  DEF TypeOK, Requests, Contexts, Answers, Decoding, boundVars
<1> QED
  BY <1>3, <1>4, <1>6 DEF TypeInv

(* The end of an answer preserves the types.                               *)
LEMMA ErrTyped == TypeInv /\ RxErr => TypeInv'
<1> SUFFICES ASSUME TypeInv, RxErr PROVE TypeInv'
  OBVIOUS
<1>1. TypeOK /\ rx \in Decoding
  BY TypesAre DEF TypeInv, RxErr
<1>2. rx.thumb \in Thumbs /\ ctx[rx.thumb] \in Contexts /\ rx.offset \in Offsets
  BY <1>1, TypesAre DEF Decoding
<1>3. rx' = Idle /\ rx'.step # "next" /\ UNCHANGED <<world, answers, spin, calls>>
  BY DEF RxErr, Idle
<1>4. /\ queue' \in Seq(Requests)
      /\ faults' \in 0..MaxFaults
      /\ ctx' \in [Thumbs -> Contexts]
      /\ image' \in [Thumbs -> Seq(Offsets)]
      /\ \A t \in Thumbs : ctx'[t].state = "DataRequest" => ctx'[t].next # None
  <2>1. CASE RxFailed
    BY <1>1, <2>1, TypesAre, StateSet, FaultCounted DEF TypeInv, RxFailed, States
  <2>2. CASE RxNoData
    BY <1>1, <2>2, TypesAre DEF TypeInv, RxNoData, tableVars
  <2>3. CASE RxDecode
    <3> DEFINE new == IF ctx[rx.thumb].next = None THEN "Cached" ELSE "DataRequest"
    <3>1. [ctx[rx.thumb] EXCEPT !.state = new] \in Contexts
          /\ [ctx[rx.thumb] EXCEPT !.state = new].next = ctx[rx.thumb].next
          /\ [ctx[rx.thumb] EXCEPT !.state = new].state = new
      BY <1>2 DEF Contexts
    <3>2. ctx' = [ctx EXCEPT ![rx.thumb].state = new]
      BY <2>3 DEF RxDecode
    <3>3. \A t \in Thumbs : ctx'[t].state = "DataRequest" => ctx'[t].next # None
      BY <1>1, <3>1, <3>2, TypesAre DEF TypeInv
    <3>4. ctx' \in [Thumbs -> Contexts]
      BY <1>1, <3>1, <3>2, TypesAre
    <3>5. image' \in [Thumbs -> Seq(Offsets)]
      <4>1. Append(image[rx.thumb], rx.offset) \in Seq(Offsets)
        BY <1>1, <1>2, TypesAre
      <4> QED
        BY <1>1, <2>3, <4>1, TypesAre DEF RxDecode
    <3> QED
      BY <1>1, <2>3, <3>3, <3>4, <3>5, TypesAre DEF RxDecode
  <2> QED
    BY <2>1, <2>2, <2>3 DEF RxErr
<1>5. TypeOK'
  BY <1>1, <1>3, <1>4, TypesAre DEF TypeOK, Requests, Contexts, Answers, Decoding
<1> QED
  BY <1>3, <1>4, <1>5 DEF TypeInv

(* Every step preserves the types.                                         *)
LEMMA NextTypes == TypeInv /\ [Next]_vars => TypeInv'
<1> SUFFICES ASSUME TypeInv, [Next]_vars PROVE TypeInv'
  OBVIOUS
<1>1. CASE UNCHANGED vars
  BY <1>1 DEF TypeInv, TypeOK, vars, tableVars, boundVars
<1>2. CASE Spinning
  BY <1>2, SweepTyped, RequestTyped DEF Spinning
<1>3. CASE Receiving
  BY <1>3, FilenameTyped, OffsetTyped, DataTyped, NextTyped, ErrTyped DEF Receiving
<1>4. CASE Calling
  BY <1>4, QueueTyped, ClearTyped DEF Calling
<1> QED
  BY <1>1, <1>2, <1>3, <1>4 DEF Next

(* At every step the strengthened types hold.                              *)
THEOREM TypesHold == Spec => []TypeInv
<1>1. Init => TypeInv
  BY InitTyped
<1>2. TypeInv /\ [Next]_vars => TypeInv'
  BY NextTypes
<1> QED
  BY <1>1, <1>2, PTL DEF Spec

(* The variables have their types, however answers, sweeps, calls and      *)
(* faults interleave (FileInfo.cpp, ThumbnailSubscribers.cpp): a chunk is  *)
(* asked for only at an offset that a chunk has.                           *)
THEOREM TypeCorrect == Spec => []TypeOK
<1>1. TypeInv => TypeOK
  BY DEF TypeInv
<1> QED
  BY <1>1, TypesHold, PTL

-----------------------------------------------------------------------------
(* One request for a file.                                                 *)

FileAt(q, i) == File[q[i].thumb]

Distinct(q) == \A i, j \in 1..Len(q) : FileAt(q, i) = FileAt(q, j) => i = j

(* OnePerFile, in the names of this module.                                *)
LEMMA OneIsDistinct == (OnePerFile <=> Distinct(queue)) /\ (OnePerFile' <=> Distinct(queue'))
BY DEF OnePerFile, Distinct, FileAt

(* Without the request that is found, the queue has none of the file.      *)
LEMMA WithoutIs ==
  ASSUME queue \in Seq(Requests), Distinct(queue), NEW f
  PROVE  /\ Without(f) \in Seq(Requests)
         /\ Distinct(Without(f))
         /\ \A i \in 1..Len(Without(f)) : FileAt(Without(f), i) # f
<1> DEFINE k == FirstOf(f)
<1>1. CASE k = 0 /\ \A i \in 1..Len(queue) : File[queue[i].thumb] # f
  BY <1>1 DEF Without, FileAt
<1>2. CASE k \in 1..Len(queue) /\ File[queue[k].thumb] = f
  <2> HIDE DEF k
  <2> DEFINE q == RemoveAt(queue, k)
             old(i) == IF i < k THEN i ELSE i + 1
  <2>1. q \in Seq(Requests) /\ Len(q) = Len(queue) - 1
        /\ \A i \in 1..(Len(queue) - 1) : q[i] = IF i < k THEN queue[i] ELSE queue[i + 1]
    BY <1>2, Removed
  <2>2. Without(f) = q
    BY <1>2 DEF Without, k
  <2> HIDE DEF q
  <2>3. ASSUME NEW i \in 1..Len(q)
        PROVE  old(i) \in 1..Len(queue) /\ old(i) # k /\ FileAt(q, i) = FileAt(queue, old(i))
    <3>1. i \in Nat /\ k \in Nat /\ Len(queue) \in Nat
      BY <1>2
    <3> QED
      BY <1>2, <2>1, <3>1 DEF FileAt
  <2>4. \A i, j \in 1..Len(q) : old(i) = old(j) => i = j
    BY <1>2, <2>1
  <2> HIDE DEF old
  <2>5. Distinct(q)
    BY <2>3, <2>4 DEF Distinct
  <2>6. \A i \in 1..Len(q) : FileAt(q, i) # f
    <3>1. FileAt(queue, k) = f
      BY <1>2 DEF FileAt
    <3> QED
      BY <1>2, <2>3, <3>1 DEF Distinct
  <2> QED
    BY <2>1, <2>2, <2>5, <2>6
<1> QED
  BY <1>1, <1>2, FirstOfIs

(* Queueing keeps one request for a file.                                  *)
LEMMA QueueDistinct ==
  ASSUME TypeOK, Distinct(queue), NEW t \in Thumbs, NEW next \in BOOLEAN, Queue(t, next)
  PROVE  Distinct(queue')
<1> DEFINE q == Without(File[t])
           r == [thumb |-> t, state |-> "UNKNOWN"]
<1>1. q \in Seq(Requests) /\ Distinct(q) /\ \A i \in 1..Len(q) : FileAt(q, i) # File[t]
  BY TypesAre, WithoutIs
<1>2. r \in Requests /\ r.thumb = t
  BY DEF Requests, States
<1>3. queue' = IF next THEN InsertAt(q, NextPlace(q), r) ELSE Append(q, r)
  BY DEF Queue
<1> HIDE DEF q, r
<1>4. CASE next
  <2> DEFINE n == NextPlace(q)
             p == InsertAt(q, n, r)
             old(i) == IF i < n THEN i ELSE i - 1
  <2>1. n \in 1..(Len(q) + 1)
    BY <1>1, NextPlaceIs
  <2> HIDE DEF n
  <2>2. Len(p) = Len(q) + 1
        /\ \A i \in 1..(Len(q) + 1) : p[i] = IF i < n THEN q[i] ELSE IF i = n THEN r ELSE q[i - 1]
    <3>1. ASSUME NEW s \in Seq(Requests), NEW i \in 1..(Len(s) + 1), NEW e \in Requests
          PROVE  /\ Len(InsertAt(s, i, e)) = Len(s) + 1
                 /\ \A j \in 1..(Len(s) + 1) :
                      InsertAt(s, i, e)[j] = IF j < i THEN s[j] ELSE IF j = i THEN e ELSE s[j - 1]
      BY Inserted
    <3> QED
      BY <1>1, <1>2, <2>1, <3>1
  <2> HIDE DEF p
  <2>3. ASSUME NEW i \in 1..Len(p), i # n
        PROVE  old(i) \in 1..Len(q) /\ FileAt(p, i) = FileAt(q, old(i))
    <3>1. i \in Nat /\ n \in Nat /\ Len(q) \in Nat
      BY <1>1, <2>1, <2>2
    <3> QED
      BY <1>1, <2>1, <2>2, <2>3, <3>1 DEF FileAt
  <2>4. FileAt(p, n) = File[t]
    BY <1>2, <2>1, <2>2 DEF FileAt
  <2>5. \A i, j \in 1..Len(p) : i # n /\ j # n /\ old(i) = old(j) => i = j
    BY <1>1, <2>1, <2>2
  <2> HIDE DEF old
  <2>6. Distinct(p)
    BY <1>1, <2>3, <2>4, <2>5 DEF Distinct
  <2> QED
    BY <1>3, <1>4, <2>6 DEF p, n
<1>5. CASE ~next
  <2> DEFINE p == Append(q, r)
             n == Len(q) + 1
  <2>1. Len(p) = n /\ n \in Nat /\ p[n] = r /\ \A i \in 1..Len(q) : p[i] = q[i]
    BY <1>1, <1>2
  <2>2. \A i \in 1..Len(p) : i = n \/ i \in 1..Len(q)
    BY <1>1, <2>1
  <2> HIDE DEF p, n
  <2>3. FileAt(p, n) = File[t] /\ \A i \in 1..Len(q) : FileAt(p, i) = FileAt(q, i)
    BY <1>2, <2>1 DEF FileAt
  <2>4. Distinct(p)
    BY <1>1, <2>2, <2>3 DEF Distinct
  <2> QED
    BY <1>3, <1>5, <2>4 DEF p
<1> QED
  BY <1>4, <1>5

(* Sweeping keeps one request for a file.                                  *)
LEMMA SweepDistinct ==
  ASSUME TypeOK, Distinct(queue), Sweep
  PROVE  Distinct(queue')
<1>1. PICK n \in 0..Len(queue) : \E place \in [1..n -> 1..Len(queue)] :
          /\ \A j, k \in 1..n : j < k => place[j] < place[k]
          /\ queue' = [k \in 1..n |-> queue[place[k]]]
          /\ Len(queue') = n
  BY TypesAre, SweepKeeps
<1>2. PICK place \in [1..n -> 1..Len(queue)] :
          /\ \A j, k \in 1..n : j < k => place[j] < place[k]
          /\ queue' = [k \in 1..n |-> queue[place[k]]]
          /\ Len(queue') = n
  BY <1>1
<1>3. ASSUME NEW i \in 1..n, NEW j \in 1..n, FileAt(queue', i) = FileAt(queue', j)
      PROVE  i = j
  <2>1. FileAt(queue', i) = FileAt(queue, place[i]) /\ FileAt(queue', j) = FileAt(queue, place[j])
    BY <1>2 DEF FileAt
  <2>2. place[i] \in 1..Len(queue) /\ place[j] \in 1..Len(queue)
    OBVIOUS
  <2>3. place[i] = place[j]
    BY <1>3, <2>1, <2>2 DEF Distinct
  <2>4. i \in Nat /\ j \in Nat /\ place[i] \in Nat
    BY <2>2
  <2>5. ~(i < j) /\ ~(j < i)
    BY <1>2, <2>3, <2>4
  <2> QED
    BY <2>4, <2>5
<1> QED
  BY <1>2, <1>3 DEF Distinct

(* Requests that are complete leave one request for a file.                *)
LEMMA RequestDistinct ==
  ASSUME TypeInv, Distinct(queue), Request
  PROVE  Distinct(queue')
<1> DEFINE n == Complete(queue)
           q == SubSeq(queue, n + 1, Len(queue))
<1>1. TypeOK
  BY DEF TypeInv
<1>2. n \in 0..Len(queue) /\ q \in Seq(Requests) /\ Len(q) = Len(queue) - n
      /\ \A i \in 1..Len(q) : q[i] = queue[n + i]
  BY <1>1, TypesAre, FrontGone
<1>3. q # <<>> => q[1].thumb \in Thumbs
  BY <1>1, TypesAre, FrontGone DEF Requests
<1>4. \/ q # <<>> /\ (Start(q) \/ Continue(q))
      \/ queue' = q
  BY DEF Request
<1> HIDE DEF n, q
<1>5. Distinct(q)
  <2>1. ASSUME NEW i \in 1..Len(q), NEW j \in 1..Len(q), FileAt(q, i) = FileAt(q, j)
        PROVE  i = j
    <3>1. FileAt(q, i) = FileAt(queue, n + i) /\ FileAt(q, j) = FileAt(queue, n + j)
      BY <1>2 DEF FileAt
    <3>2. n + i \in 1..Len(queue) /\ n + j \in 1..Len(queue)
      BY <1>2
    <3>3. n + i = n + j
      BY <2>1, <3>1, <3>2 DEF Distinct
    <3> QED
      BY <1>2, <3>3
  <2> QED
    BY <2>1 DEF Distinct
<1>6. ASSUME NEW offset \in Offsets, q # <<>>, Ask(q, offset) PROVE Distinct(queue')
  <2>1. Len(queue') = Len(q) /\ \A i \in 1..Len(q) : queue'[i].thumb = q[i].thumb
    BY <1>1, <1>2, <1>6, Asked
  <2> QED
    BY <1>5, <2>1 DEF Distinct, FileAt
<1>7. CASE q # <<>> /\ Start(q)
  <2>1. First(q[1].thumb) \in Offsets
    BY <1>3, <1>7, TransferAssumption DEF First, Offsets
  <2> QED
    BY <1>5, <1>6, <1>7, <2>1 DEF Start
<1>8. CASE q # <<>> /\ Continue(q)
  <2>1. ctx[q[1].thumb].next \in Offsets
    BY <1>1, <1>3, <1>8, TypesAre DEF TypeInv, Continue, Contexts
  <2> QED
    BY <1>6, <1>8, <2>1 DEF Continue
<1> QED
  BY <1>4, <1>5, <1>7, <1>8

(* The subscribers change the state of requests, not the requests.         *)
LEMMA ReceivingDistinct ==
  ASSUME TypeOK, Distinct(queue), Receiving
  PROVE  Distinct(queue')
<1>1. UNCHANGED queue \/ \E state \in States : SetState(state)
  BY DEF Receiving, RxFilename, RxOffset, RxData, RxNext, RxErr, RxFailed, RxNoData, RxDecode,
         tableVars, States
<1>2. ASSUME NEW state \in States, SetState(state) PROVE Distinct(queue')
  <2>1. Len(queue') = Len(queue) /\ \A i \in 1..Len(queue) : queue'[i].thumb = queue[i].thumb
    BY <1>2, TypesAre, StateSet
  <2> QED
    BY <2>1 DEF Distinct, FileAt
<1>3. CASE UNCHANGED queue
  BY <1>3
<1> QED
  BY <1>1, <1>2, <1>3

(* A file has one request at most, whoever queues, sweeps and receives     *)
(* (FileInfoCache::QueueThumbnailRequestInner, FileInfoCache::Spin): the   *)
(* request that a subscriber finds by its file is the right one.           *)
THEOREM OneRequestPerFile == Spec => []OnePerFile
<1>1. Init => Distinct(queue)
  BY DEF Init, Distinct
<1>2. TypeInv /\ Distinct(queue) /\ [Next]_vars => Distinct(queue')
  <2> SUFFICES ASSUME TypeInv, Distinct(queue), [Next]_vars PROVE Distinct(queue')
    OBVIOUS
  <2>1. TypeOK
    BY DEF TypeInv
  <2>2. CASE UNCHANGED vars
    BY <2>2 DEF vars, tableVars
  <2>3. CASE Spinning
    BY <2>1, <2>3, SweepDistinct, RequestDistinct DEF Spinning
  <2>4. CASE Receiving
    BY <2>1, <2>4, ReceivingDistinct
  <2>5. CASE Clear
    BY <2>5 DEF Clear, Distinct
  <2>6. CASE \E t \in Thumbs, next \in BOOLEAN : Queue(t, next)
    BY <2>1, <2>6, QueueDistinct
  <2> QED
    BY <2>2, <2>3, <2>4, <2>5, <2>6 DEF Next, Calling
<1>3. Init => OnePerFile
  BY <1>1, OneIsDistinct
<1>4. TypeInv /\ OnePerFile /\ [Next]_vars => OnePerFile'
  BY <1>2, OneIsDistinct
<1> QED
  BY <1>3, <1>4, TypesHold, PTL DEF Spec

-----------------------------------------------------------------------------
(* Images that are complete are exact.                                     *)

Calm == ~world.interrupts /\ "decode" \notin world.faults

(* The image has the chunks of t before o. *)
Before(t, o) == o \in Offsets /\ o[1] = t /\ image[t] = Chunks(t, o[2] - 1)

(* Between two answers the image ends where the next chunk starts.         *)
Waiting(t) ==
    /\ ctx[t].state = "Init" => ctx[t].next = None
    /\ ctx[t].state = "Cached" => ctx[t].next = None /\ image[t] = Chunks(t, NumChunks)
    /\ ctx[t].state \in {"DataRequest", "DataWait"} => Before(t, ctx[t].next)

(* Data that wait to be decoded are the chunk of the answer in hand.       *)
InHand(t) ==
    ctx[t].state = "Data" /\ ~ctx[t].bad =>
        rx.step \in {"next", "err"} /\ rx.thumb = t /\ Before(t, rx.offset)

(* How far the answer in hand has changed the context of its thumbnail.    *)
Decoder ==
    /\ rx.step \in {"data", "next"} => rx.ok /\ ctx[rx.thumb].next = rx.offset
    /\ rx.step = "data" => ctx[rx.thumb].state \notin {"Init", "Cached"}
    /\ rx.step = "next" => ctx[rx.thumb].state = "Data"
    /\ rx.step = "err" /\ ctx[rx.thumb].state = "Data" /\ ~ctx[rx.thumb].bad =>
           rx.ok /\ ctx[rx.thumb].next = Following(rx.offset)

Exact == (\A t \in Thumbs : Waiting(t) /\ InHand(t)) /\ Decoder

ExactInv == Calm => Exact

(* The first chunks of a thumbnail, and one more.                          *)
LEMMA ChunksGrow ==
  ASSUME NEW t, NEW n \in Nat \ {0}
  PROVE  /\ Chunks(t, 0) = <<>>
         /\ Append(Chunks(t, n - 1), <<t, n>>) = Chunks(t, n)
<1>1. Chunks(t, 0) = <<>>
  BY DEF Chunks
<1>2. Append(Chunks(t, n - 1), <<t, n>>) = Chunks(t, n)
  BY DEF Chunks
<1> QED
  BY <1>1, <1>2

(* A thumbnail that keeps its context and its image, while the decoder     *)
(* stays where it is, keeps what holds of it.                              *)
LEMMA Kept ==
  ASSUME NEW t, Waiting(t), InHand(t), ctx'[t] = ctx[t], image'[t] = image[t],
         ctx[t].state = "Data" /\ ~ctx[t].bad =>
             rx'.step = rx.step /\ rx'.thumb = rx.thumb /\ rx'.offset = rx.offset
  PROVE  Waiting(t)' /\ InHand(t)'
BY DEF Waiting, InHand, Before

(* Sweeping, and whatever else leaves contexts and images alone.           *)
LEMMA ExactKept ==
  ASSUME TypeInv, Exact, ctx' = ctx, image' = image, NEW gone, rx' = Detach(gone)
  PROVE  Exact'
<1>1. rx = Idle \/ rx \in Decoding
  BY TypesAre DEF TypeInv
<1>2. rx'.step = rx.step
      /\ (rx # Idle => rx'.thumb = rx.thumb /\ rx'.offset = rx.offset /\ rx'.ok = rx.ok)
  BY <1>1, Detached
<1>3. rx.step # "idle" => rx # Idle
  BY DEF Idle
<1>4. \A t \in Thumbs : Waiting(t)' /\ InHand(t)'
  <2>1. \A t \in Thumbs : ctx[t].state = "Data" /\ ~ctx[t].bad => rx # Idle
    BY <1>3 DEF Exact, InHand
  <2> QED
    BY <1>2, <2>1, Kept DEF Exact
<1>5. Decoder'
  BY <1>2, <1>3 DEF Exact, Decoder
<1> QED
  BY <1>4, <1>5 DEF Exact

(* Queueing undisturbed keeps the images exact.                            *)
LEMMA QueueExact ==
  ASSUME TypeInv, Exact, Calm, NEW t \in Thumbs, NEW next \in BOOLEAN, Queue(t, next)
  PROVE  Exact'
<1>1. rx = Idle \/ rx \in Decoding
  BY TypesAre DEF TypeInv
<1>2. ctx' = [ctx EXCEPT ![t] = Fresh] /\ image' = image /\ rx' = Detach(OfFile(File[t]))
      /\ Untouched(OfFile(File[t])) /\ ctx \in [Thumbs -> Contexts]
  BY TypesAre DEF Queue, TypeInv
<1>3. rx'.step = rx.step
      /\ (rx # Idle => rx'.thumb = rx.thumb /\ rx'.offset = rx.offset /\ rx'.ok = rx.ok)
  BY <1>1, <1>2, Detached
<1>4. rx.step # "idle" => rx # Idle /\ rx.thumb # t /\ rx.thumb \in Thumbs
  <2>1. rx # Idle => rx.thumb # t /\ rx.thumb \in Thumbs
    BY <1>1, <1>2 DEF Untouched, Calm, OfFile, Decoding
  <2> QED
    BY <2>1 DEF Idle
<1>5. Fresh.state = "Init" /\ Fresh.next = None
  BY DEF Fresh
<1>6. \A u \in Thumbs \ {t} : ctx'[u] = ctx[u] /\ image'[u] = image[u]
  BY <1>2
<1>7. ctx'[t] = Fresh
  BY <1>2
<1>8. ASSUME NEW u \in Thumbs PROVE Waiting(u)' /\ InHand(u)'
  <2>1. CASE u = t
    BY <1>5, <1>7, <2>1 DEF Waiting, InHand
  <2>2. CASE u # t
    <3>1. ctx[u].state = "Data" /\ ~ctx[u].bad => rx # Idle
      BY <1>4 DEF Exact, InHand
    <3> QED
      BY <1>3, <1>6, <2>2, <3>1, Kept DEF Exact
  <2> QED
    BY <2>1, <2>2
<1>9. Decoder'
  BY <1>3, <1>4, <1>6 DEF Exact, Decoder
<1> QED
  BY <1>8, <1>9 DEF Exact

(* Clearing keeps the images exact: there are none.                        *)
LEMMA ClearExact == Clear => Exact'
<1> SUFFICES ASSUME Clear PROVE Exact'
  OBVIOUS
<1>1. Fresh.state = "Init" /\ Fresh.next = None /\ Idle.step = "idle"
  BY DEF Fresh, Idle
<1>2. \A t \in Thumbs : ctx'[t] = Fresh
  BY DEF Clear
<1>3. rx' = Idle
  BY DEF Clear
<1> QED
  BY <1>1, <1>2, <1>3 DEF Exact, Waiting, InHand, Decoder

(* A thumbnail asked for its next chunk, from where its image ends.        *)
LEMMA ExactAsked ==
  ASSUME TypeInv, Exact, NEW gone, rx' = Detach(gone), NEW a \in Thumbs, NEW c,
         ctx[a].state \in {"Init", "DataRequest"},
         ctx'[a] = c,
         \A u \in Thumbs \ {a} : ctx'[u] = ctx[u],
         \A u \in Thumbs \ {a} : image'[u] = image[u],
         c.state = "DataWait",
         ctx[a].state = "DataRequest" => c.next = ctx[a].next,
         c.next \in Offsets, c.next[1] = a,
         image'[a] = Chunks(a, c.next[2] - 1)
  PROVE  Exact'
<1>1. rx = Idle \/ rx \in Decoding
  BY TypesAre DEF TypeInv
<1>2. rx'.step = rx.step
      /\ (rx # Idle => rx'.thumb = rx.thumb /\ rx'.offset = rx.offset /\ rx'.ok = rx.ok)
  BY <1>1, Detached
<1>3. rx.step # "idle" => rx # Idle /\ rx.thumb \in Thumbs
  BY <1>1 DEF Idle, Decoding
<1>4. ASSUME NEW u \in Thumbs PROVE Waiting(u)' /\ InHand(u)'
  <2>1. CASE u = a
    BY <2>1 DEF Waiting, InHand, Before
  <2>2. CASE u # a
    <3>1. ctx[u].state = "Data" /\ ~ctx[u].bad => rx # Idle
      BY <1>3 DEF Exact, InHand, Idle
    <3> QED
      BY <1>2, <2>2, <3>1, Kept DEF Exact
  <2> QED
    BY <2>1, <2>2
<1>5. Decoder'
  <2>1. CASE rx.step = "idle"
    BY <1>2, <2>1 DEF Decoder
  <2>2. CASE rx.step # "idle" /\ rx.thumb = a
    BY <1>2, <1>3, <2>2 DEF Exact, Decoder
  <2>3. CASE rx.step # "idle" /\ rx.thumb # a
    BY <1>2, <1>3, <2>3 DEF Exact, Decoder
  <2> QED
    BY <2>1, <2>2, <2>3
<1> QED
  BY <1>4, <1>5 DEF Exact

(* Asking for a chunk keeps the images exact: it starts one, or goes on    *)
(* where it ends.                                                          *)
LEMMA RequestExact ==
  ASSUME TypeInv, Exact, Request
  PROVE  Exact'
<1> DEFINE q == SubSeq(queue, Complete(queue) + 1, Len(queue))
           t == q[1].thumb
<1>1. /\ rx = Idle \/ rx \in Decoding
      /\ ctx \in [Thumbs -> Contexts]
      /\ image \in [Thumbs -> Seq(Offsets)]
  BY TypesAre DEF TypeInv
<1>2. q # <<>> => t \in Thumbs
  BY TypesAre, FrontGone DEF TypeInv, Requests
<1>3. PICK gone : rx' = Detach(gone)
  BY DEF Request
<1>4. \/ q # <<>> /\ (Start(q) \/ Continue(q))
      \/ UNCHANGED <<ctx, image>>
  BY DEF Request
<1> HIDE DEF q
<1>5. CASE UNCHANGED <<ctx, image>>
  BY <1>3, <1>5, ExactKept
<1>6. CASE q # <<>> /\ Start(q)
  <2>1. CASE ctx' = [ctx EXCEPT ![t] = Begun(t)] /\ image' = [image EXCEPT ![t] = <<>>]
    <3>1. First(t) \in Offsets /\ First(t)[1] = t /\ First(t)[2] = 1
      BY <1>2, <1>6, TransferAssumption DEF First, Offsets
    <3>2. Begun(t).state = "DataWait" /\ Begun(t).next = First(t)
      BY DEF Begun, Fresh
    <3>3. image'[t] = <<>> /\ \A u \in Thumbs \ {t} : image'[u] = image[u]
      BY <1>1, <1>2, <1>6, <2>1
    <3>4. ctx[t].state = "Init"
      BY <1>6 DEF Start
    <3>5. ASSUME NEW a \in Thumbs, a = t PROVE Exact'
      <4>1. First(a) \in Offsets /\ First(a)[1] = a /\ image'[a] = Chunks(a, First(a)[2] - 1)
        <5>1. First(a) \in Offsets /\ First(a)[1] = a /\ First(a)[2] - 1 = 0
          BY <3>1, <3>5
        <5>2. image'[a] = Chunks(a, 0)
          BY <3>3, <3>5 DEF Chunks
        <5> QED
          BY <5>1, <5>2
      <4> QED
        <5>1. ASSUME NEW c, c = Begun(a) PROVE Exact'
          <6>1. /\ ctx[a].state = "Init"
                /\ ctx'[a] = c
                /\ \A u \in Thumbs \ {a} : ctx'[u] = ctx[u]
                /\ \A u \in Thumbs \ {a} : image'[u] = image[u]
                /\ c.state = "DataWait"
                /\ c.next = First(a)
            BY <1>1, <2>1, <3>2, <3>3, <3>4, <3>5, <5>1
          <6>2. c.next \in Offsets /\ c.next[1] = a /\ image'[a] = Chunks(a, c.next[2] - 1)
            BY <4>1, <6>1
          <6>3. ctx[a].state = "DataRequest" => c.next = ctx[a].next
            BY <6>1
          <6>4. ctx[a].state \in {"Init", "DataRequest"}
            BY <6>1
          <6> QED
            BY <1>3, <6>1, <6>2, <6>3, <6>4, ExactAsked
        <5> QED
          BY <5>1
    <3> QED
      BY <1>2, <1>6, <3>5
  <2> QED
    BY <1>5, <1>6, <2>1 DEF Start
<1>7. CASE q # <<>> /\ Continue(q)
  <2>1. /\ ctx[t].state = "DataRequest"
        /\ ctx' = [ctx EXCEPT ![t].state = "DataWait"]
        /\ UNCHANGED image
    BY <1>7 DEF Continue
  <2> DEFINE new == [ctx[t] EXCEPT !.state = "DataWait"]
  <2>2. ctx[t] \in Contexts
    BY <1>1, <1>2, <1>7
  <2>3. new.state = "DataWait" /\ new.next = ctx[t].next
    BY <2>2 DEF Contexts
  <2>4. ctx' = [ctx EXCEPT ![t] = new]
    BY <2>1
  <2> HIDE DEF new
  <2>5. Before(t, ctx[t].next)
    BY <1>2, <1>7, <2>1 DEF Exact, Waiting
  <2>6. ASSUME NEW a \in Thumbs, a = t, NEW o, o = ctx[t].next, NEW c, c = new PROVE Exact'
    <3>1. o \in Offsets /\ o[1] = a /\ image'[a] = Chunks(a, o[2] - 1)
      BY <2>1, <2>5, <2>6 DEF Before
    <3> QED
      <4>1. /\ ctx[a].state = "DataRequest"
            /\ ctx'[a] = c
            /\ \A u \in Thumbs \ {a} : ctx'[u] = ctx[u]
            /\ \A u \in Thumbs \ {a} : image'[u] = image[u]
            /\ c.state = "DataWait"
            /\ c.next = o
            /\ c.next = ctx[a].next
        BY <1>1, <2>1, <2>3, <2>4, <2>6
      <4>2. c.next \in Offsets /\ c.next[1] = a /\ image'[a] = Chunks(a, c.next[2] - 1)
        BY <3>1, <4>1
      <4>3. ctx[a].state \in {"Init", "DataRequest"}
        BY <4>1
      <4> QED
        BY <1>3, <4>1, <4>2, <4>3, ExactAsked
  <2> QED
    BY <1>2, <1>7, <2>6
<1> QED
  BY <1>4, <1>5, <1>6, <1>7

(* Finding the request of an answer keeps the images exact.                *)
LEMMA FilenameExact ==
  ASSUME Exact, RxFilename
  PROVE  Exact'
<1>1. rx.step = "idle" /\ ctx' = ctx /\ image' = image
  BY DEF RxFilename, tableVars, Idle
<1>2. rx'.step \in {"idle", "offset"}
  BY DEF RxFilename, Idle
<1>3. \A t \in Thumbs : Waiting(t)' /\ InHand(t)'
  BY <1>1, Kept DEF Exact, InHand
<1>4. Decoder'
  BY <1>2 DEF Decoder
<1> QED
  BY <1>3, <1>4 DEF Exact

(* An answer about another chunk than the expected one fails the request;  *)
(* comparing the offsets keeps the images exact.                           *)
LEMMA OffsetExact ==
  ASSUME TypeInv, Exact, RxOffset
  PROVE  Exact'
<1>1. rx \in Decoding /\ ctx \in [Thumbs -> Contexts]
  BY TypesAre DEF TypeInv, RxOffset
<1>2. rx.step = "offset" /\ rx.thumb \in Thumbs /\ rx.offset \in Offsets /\ rx.offset # None
      /\ image' = image
  BY <1>1, TransferAssumption DEF RxOffset, Decoding, Offsets
<1>3. \A t \in Thumbs : ~(ctx[t].state = "Data" /\ ~ctx[t].bad)
  BY <1>2 DEF Exact, InHand
<1>4. CASE Expected /\ rx' = [rx EXCEPT !.step = IF rx.ok THEN "data" ELSE "err"] /\ ctx' = ctx
  <2>1. /\ rx'.step = IF rx.ok THEN "data" ELSE "err"
        /\ rx'.thumb = rx.thumb /\ rx'.offset = rx.offset /\ rx'.ok = rx.ok
    BY <1>1, <1>4 DEF Decoding
  <2>2. \A t \in Thumbs : Waiting(t)' /\ InHand(t)'
    BY <1>2, <1>3, <1>4, Kept DEF Exact
  <2>3. rx.offset = ctx[rx.thumb].next
    BY <1>4 DEF Expected
  <2>4. ctx[rx.thumb].state \notin {"Init", "Cached"}
    BY <1>2, <2>3 DEF Exact, Waiting
  <2>5. Decoder'
    BY <1>2, <1>3, <1>4, <2>1, <2>3, <2>4 DEF Decoder
  <2> QED
    BY <2>2, <2>5 DEF Exact
<1>5. CASE ctx' = [ctx EXCEPT ![rx.thumb].bad = TRUE] /\ rx' = Idle
  <2>1. /\ [ctx[rx.thumb] EXCEPT !.bad = TRUE].state = ctx[rx.thumb].state
        /\ [ctx[rx.thumb] EXCEPT !.bad = TRUE].next = ctx[rx.thumb].next
        /\ [ctx[rx.thumb] EXCEPT !.bad = TRUE].bad = TRUE
    BY <1>1, <1>2 DEF Contexts
  <2>2. \A t \in Thumbs : /\ ctx'[t].state = ctx[t].state /\ ctx'[t].next = ctx[t].next
                          /\ ctx'[t].bad = ctx[t].bad \/ ctx'[t].bad
    BY <1>1, <1>2, <1>5, <2>1
  <2>3. \A t \in Thumbs : Waiting(t)'
    BY <1>2, <2>2 DEF Exact, Waiting, Before
  <2>4. \A t \in Thumbs : InHand(t)'
    BY <1>3, <2>2 DEF InHand
  <2>5. Decoder'
    BY <1>5 DEF Decoder, Idle
  <2> QED
    BY <2>3, <2>4, <2>5 DEF Exact
<1> QED
  BY <1>4, <1>5 DEF RxOffset

(* Data that are taken are those of the chunk the image ends before.       *)
LEMMA DataExact ==
  ASSUME TypeInv, Exact, RxData
  PROVE  Exact'
<1>1. rx \in Decoding /\ ctx \in [Thumbs -> Contexts]
  BY TypesAre DEF TypeInv, RxData
<1> DEFINE a == rx.thumb
<1>2. rx.step = "data" /\ a \in Thumbs /\ image' = image /\ ctx[a] \in Contexts
  BY <1>1 DEF RxData, Decoding
<1>3. \A t \in Thumbs : ~(ctx[t].state = "Data" /\ ~ctx[t].bad)
  BY <1>2 DEF Exact, InHand
<1>4. rx'.step = "next" /\ rx'.thumb = a /\ rx'.offset = rx.offset /\ rx'.ok = rx.ok
  BY <1>1 DEF RxData, Decoding
<1>5. /\ ctx'[a].state = "Data" /\ ctx'[a].next = ctx[a].next /\ ctx'[a].bad = ctx[a].bad
      /\ \A t \in Thumbs \ {a} : ctx'[t] = ctx[t]
  <2>1. /\ [ctx[a] EXCEPT !.state = "Data"].state = "Data"
        /\ [ctx[a] EXCEPT !.state = "Data"].next = ctx[a].next
        /\ [ctx[a] EXCEPT !.state = "Data"].bad = ctx[a].bad
    BY <1>2 DEF Contexts
  <2>2. ctx' = [ctx EXCEPT ![a].state = "Data"]
    BY DEF RxData
  <2> QED
    BY <1>1, <1>2, <2>1, <2>2
<1>6. rx.ok /\ ctx[a].next = rx.offset /\ ctx[a].state \notin {"Init", "Cached"}
  BY <1>2 DEF Exact, Decoder
<1>7. ~ctx[a].bad => Before(a, rx.offset)
  <2>1. ctx[a].state \in {"Init", "DataRequest", "DataWait", "Data", "Cached"}
    BY <1>2 DEF Contexts
  <2> QED
    BY <1>2, <1>3, <1>6, <2>1 DEF Exact, Waiting
<1>8. ASSUME NEW t \in Thumbs PROVE Waiting(t)' /\ InHand(t)'
  <2>1. CASE t = a
    BY <1>2, <1>4, <1>5, <1>7, <2>1 DEF Waiting, InHand, Before
  <2>2. CASE t # a
    BY <1>2, <1>3, <1>5, <2>2, Kept DEF Exact
  <2> QED
    BY <2>1, <2>2
<1>9. Decoder'
  BY <1>4, <1>5, <1>6 DEF Decoder
<1> QED
  BY <1>8, <1>9 DEF Exact

(* The next offset is the one that follows.                                *)
LEMMA NextExact ==
  ASSUME TypeInv, Exact, RxNext
  PROVE  Exact'
<1>1. rx \in Decoding /\ ctx \in [Thumbs -> Contexts]
  BY TypesAre DEF TypeInv, RxNext
<1> DEFINE a == rx.thumb
<1>2. rx.step = "next" /\ a \in Thumbs /\ image' = image /\ ctx[a] \in Contexts
  BY <1>1 DEF RxNext, Decoding
<1>3. rx'.step = "err" /\ rx'.thumb = a /\ rx'.offset = rx.offset /\ rx'.ok = rx.ok
  BY <1>1 DEF RxNext, Decoding
<1>4. /\ ctx'[a].state = ctx[a].state /\ ctx'[a].bad = ctx[a].bad
      /\ ctx'[a].next = Following(rx.offset)
      /\ \A t \in Thumbs \ {a} : ctx'[t] = ctx[t]
  <2> DEFINE c == [ctx[a] EXCEPT !.next = Following(rx.offset)]
  <2>1. c.state = ctx[a].state /\ c.bad = ctx[a].bad /\ c.next = Following(rx.offset)
    BY <1>2 DEF Contexts
  <2>2. ctx' = [ctx EXCEPT ![a].next = Following(rx.offset)]
    BY DEF RxNext
  <2> QED
    BY <1>1, <1>2, <2>1, <2>2
<1>5. rx.ok /\ ctx[a].state = "Data"
  BY <1>2 DEF Exact, Decoder
<1>6. ASSUME NEW t \in Thumbs PROVE Waiting(t)' /\ InHand(t)'
  <2>1. CASE t = a
    BY <1>2, <1>3, <1>4, <1>5, <2>1 DEF Exact, Waiting, InHand, Before
  <2>2. CASE t # a
    <3>1. ~(ctx[t].state = "Data" /\ ~ctx[t].bad)
      BY <2>2 DEF Exact, InHand
    <3> QED
      BY <1>2, <1>4, <2>2, <3>1, Kept DEF Exact
  <2> QED
    BY <2>1, <2>2
<1>7. Decoder'
  BY <1>3, <1>4, <1>5 DEF Decoder
<1> QED
  BY <1>6, <1>7 DEF Exact

(* A chunk that is decoded goes behind those before it; nothing else that  *)
(* thumbnailErr does leaves data undecoded.                                *)
LEMMA ErrExact ==
  ASSUME TypeInv, Exact, Calm, RxErr
  PROVE  Exact'
<1>1. /\ rx \in Decoding /\ ctx \in [Thumbs -> Contexts]
      /\ image \in [Thumbs -> Seq(Offsets)]
  BY TypesAre DEF TypeInv, RxErr
<1> DEFINE a == rx.thumb
<1>2. rx.step = "err" /\ a \in Thumbs /\ ctx[a] \in Contexts /\ rx.offset \in Offsets
  BY <1>1 DEF RxErr, Decoding
<1>3. rx' = Idle /\ rx'.step = "idle"
  BY DEF RxErr, Idle
<1>4. Decoder'
  BY <1>3 DEF Decoder
<1>5. \A t \in Thumbs \ {a} : ~(ctx[t].state = "Data" /\ ~ctx[t].bad)
  BY DEF Exact, InHand
<1>6. CASE ctx' = ctx /\ image' = image /\ ~(ctx[a].state = "Data" /\ ~ctx[a].bad)
  BY <1>4, <1>5, <1>6, Kept DEF Exact
<1>7. CASE RxDecode
  <2>1. /\ ctx[a].state = "Data" /\ ~ctx[a].bad
        /\ image' = [image EXCEPT ![a] = Append(image[a], rx.offset)]
    BY <1>7 DEF RxDecode, Fine
  <2>2. ctx[a].next = Following(rx.offset) /\ Before(a, rx.offset)
    BY <1>2, <2>1 DEF Exact, InHand, Decoder
  <2> DEFINE new == IF ctx[a].next = None THEN "Cached" ELSE "DataRequest"
             k == rx.offset[2]
  <2>3. rx.offset = <<a, k>> /\ k \in 1..NumChunks /\ NumChunks \in Nat
    BY <1>2, <2>2, TransferAssumption DEF Before, Offsets
  <2>4. image'[a] = Chunks(a, k) /\ \A t \in Thumbs \ {a} : image'[t] = image[t]
    <3>1. image'[a] = Append(Chunks(a, k - 1), rx.offset)
          /\ \A t \in Thumbs \ {a} : image'[t] = image[t]
      BY <1>1, <1>2, <2>1, <2>2 DEF Before
    <3>2. Append(Chunks(a, k - 1), <<a, k>>) = Chunks(a, k)
      BY <2>3, ChunksGrow
    <3> QED
      BY <2>3, <3>1, <3>2
  <2>5. /\ ctx'[a].state = new /\ ctx'[a].next = ctx[a].next
        /\ \A t \in Thumbs \ {a} : ctx'[t] = ctx[t]
    <3>1. [ctx[a] EXCEPT !.state = new].state = new /\ [ctx[a] EXCEPT !.state = new].next = ctx[a].next
      BY <1>2 DEF Contexts
    <3>2. ctx' = [ctx EXCEPT ![a].state = new]
      BY <1>7 DEF RxDecode
    <3> QED
      BY <1>1, <1>2, <3>1, <3>2
  <2>6. CASE k = NumChunks
    <3>1. ctx[a].next = None
      BY <2>2, <2>6 DEF Following
    <3>2. ASSUME NEW t \in Thumbs PROVE Waiting(t)' /\ InHand(t)'
      <4>1. CASE t = a
        BY <2>4, <2>5, <2>6, <3>1, <4>1 DEF Waiting, InHand
      <4>2. CASE t # a
        BY <1>5, <2>4, <2>5, <4>2, Kept DEF Exact
      <4> QED
        BY <4>1, <4>2
    <3> QED
      BY <1>4, <3>2 DEF Exact
  <2>7. CASE k # NumChunks
    <3>1. ctx[a].next = <<a, k + 1>>
      BY <2>2, <2>3, <2>7 DEF Following
    <3>2. ctx[a].next \in Offsets /\ ctx[a].next # None /\ ctx[a].next[1] = a
          /\ ctx[a].next[2] - 1 = k
      <4>1. k + 1 \in 1..NumChunks /\ k + 1 - 1 = k
        BY <2>3, <2>7
      <4> QED
        BY <1>2, <3>1, <4>1, TransferAssumption DEF Offsets
    <3>3. ASSUME NEW t \in Thumbs PROVE Waiting(t)' /\ InHand(t)'
      <4>1. CASE t = a
        BY <2>4, <2>5, <3>2, <4>1 DEF Waiting, InHand, Before
      <4>2. CASE t # a
        BY <1>5, <2>4, <2>5, <4>2, Kept DEF Exact
      <4> QED
        BY <4>1, <4>2
    <3> QED
      BY <1>4, <3>3 DEF Exact
  <2> QED
    BY <2>6, <2>7
<1>8. CASE RxFailed
  <2>1. ctx' = ctx /\ image' = image
    BY <1>8 DEF RxFailed
  <2>2. ~Fine
    BY <1>8 DEF RxFailed, Fault, Calm
  <2>3. ctx[a].state = "Data" /\ ~ctx[a].bad => rx.ok
    BY <1>2 DEF Exact, Decoder
  <2> QED
    BY <1>6, <2>1, <2>2, <2>3 DEF Fine
<1>9. CASE RxNoData
  BY <1>6, <1>9 DEF RxNoData, tableVars
<1> QED
  BY <1>7, <1>8, <1>9 DEF RxErr

(* At every step of a calm world the images fit the contexts.              *)
THEOREM ExactHolds == Spec => []ExactInv
<1>1. Init => ExactInv
  <2>1. Fresh.state = "Init" /\ Fresh.next = None /\ Idle.step = "idle"
    BY DEF Fresh, Idle
  <2> QED
    BY <2>1 DEF Init, ExactInv, Exact, Waiting, InHand, Decoder
<1>2. TypeInv /\ ExactInv /\ [Next]_vars => ExactInv'
  <2> SUFFICES ASSUME TypeInv, ExactInv, [Next]_vars, Calm' PROVE Exact'
    BY DEF ExactInv
  <2>1. world' = world
    BY DEF Next, Spinning, Sweep, Request, Receiving, RxFilename, RxOffset, RxData, RxNext, RxErr,
           Calling, Queue, Clear, vars, boundVars
  <2>2. Calm /\ Exact
    BY <2>1 DEF ExactInv, Calm
  <2>3. CASE UNCHANGED vars
    <3>1. UNCHANGED <<ctx, image, rx>>
      BY <2>3 DEF vars, tableVars
    <3> QED
      BY <2>2, <3>1 DEF Exact, Waiting, InHand, Decoder, Before
  <2>4. CASE Sweep
    <3>1. ctx' = ctx /\ image' = image /\ \E gone : rx' = Detach(gone)
      BY <2>4 DEF Sweep
    <3> QED
      BY <2>2, <3>1, ExactKept
  <2>5. CASE Request
    BY <2>2, <2>5, RequestExact
  <2>6. CASE Receiving
    BY <2>2, <2>6, FilenameExact, OffsetExact, DataExact, NextExact, ErrExact DEF Receiving
  <2>7. CASE Clear
    BY <2>7, ClearExact
  <2>8. CASE \E t \in Thumbs, next \in BOOLEAN : Queue(t, next)
    BY <2>2, <2>8, QueueExact
  <2> QED
    BY <2>3, <2>4, <2>5, <2>6, <2>7, <2>8 DEF Next, Spinning, Calling
<1> QED
  BY <1>1, <1>2, TypesHold, PTL DEF Spec

(* While answers are decoded undisturbed and the decoder works, a          *)
(* thumbnail is complete only when it was decoded from all of its chunks,  *)
(* in order, whatever answers were late, lost, refused or overtaken        *)
(* (thumbnailOffset_subscriber to thumbnailErr_subscriber).                *)
THEOREM ImagesAreExact == Spec => []ImageIsExact
<1>1. ExactInv => ImageIsExact
  BY DEF ExactInv, Calm, Exact, Waiting, ImageIsExact
<1> QED
  BY <1>1, ExactHolds, PTL

=============================================================================
