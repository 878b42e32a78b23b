-------------------------- MODULE SeqPollingProofs --------------------------
(***************************************************************************)
(* Proofs about the polling of the object model, for every number of       *)
(* sections, versions and faults and every length of the line.             *)
(***************************************************************************)
EXTENDS SeqPolling, SequenceTheorems, WellFoundedInduction, TLAPS

-----------------------------------------------------------------------------
(* The scan of the table.                                                  *)

(* A nonempty set of table entries has a first one. *)
LEMMA FirstEntry ==
  ASSUME NEW S, S \subseteq Keys, S # {}
  PROVE  \E k \in S : \A j \in S : k <= j
<1>1. S \subseteq Nat
  BY PollingAssumption DEF Keys
<1>2. PICK k \in S : \A j \in S : ~(<<j, k>> \in OpToRel(<, Nat))
  BY <1>1, NatLessThanWellFounded, WFMin
<1>3. ASSUME NEW j \in S PROVE k <= j
  <2>1. OpToRel(<, Nat) = {p \in Nat \X Nat : p[1] < p[2]}
    BY DEF OpToRel
  <2>2. ~(j < k)
    BY <1>1, <1>2, <2>1
  <2> QED
    BY <1>1, <2>2
<1> QED
  BY <1>3

(* The scan stops at an entry that is ready or in progress. *)
LEMMA FirstStopIsStop ==
  ASSUME Stops # {}
  PROVE  FirstStop \in Stops
BY FirstEntry DEF FirstStop, Stops

(* GetNextSeq returns nothing or a sequence that its own CheckSeq has left *)
(* free to be requested.                                                   *)
LEMMA GetNextSeqIsFree ==
  ASSUME TypeOK
  PROVE  /\ GetNextSeq \in Slots \cup {None}
         /\ GetNextSeq # None =>
               GetNextSeq \in Scanned /\ Checked(GetNextSeq) # "Requested"
<1>1. Freq \in Slots /\ Keys \subseteq Slots /\ None \notin Slots
  BY PollingAssumption DEF Slots, Freq, None, Keys
<1>2. \A s \in Slots : state[s] \in SeqStates
  BY DEF TypeOK
<1>3. \A s \in Slots : Check(s) # "InProgress" => Checked(s) # "Requested"
  BY <1>2 DEF Check, Checked, SeqStates
<1>4. CASE FallsToFreq
  BY <1>1, <1>3, <1>4 DEF GetNextSeq, Scanned, FallsToFreq
<1>5. CASE ~FallsToFreq
  <2>1. FirstStop \in Stops
    BY <1>5, FirstStopIsStop DEF FallsToFreq
  <2>2. FirstStop \in Keys /\ FirstStop <= FirstStop
    BY <2>1, PollingAssumption DEF Stops, Keys
  <2> QED
    BY <1>1, <1>3, <1>5, <2>2 DEF GetNextSeq, Scanned, FallsToFreq
<1> QED
  BY <1>4, <1>5

-----------------------------------------------------------------------------
(* Types.                                                                  *)

(* What the constants denote. *)
LEMMA SlotFacts ==
  /\ Keys \subseteq Nat \ {0}
  /\ Freq \in Slots /\ Freq \notin Keys /\ Keys \subseteq Slots
  /\ None \notin Slots /\ NoKey \notin Slots /\ OtherKey \notin Slots
  /\ OtherMessages \subseteq {NoKey, OtherKey}
BY PollingAssumption DEF Keys, Freq, Slots, None, NoKey, OtherKey

(* The head of the line is a message, and so is what follows it. *)
LEMMA HeadAndTail ==
  ASSUME TypeOK, fromDuet # <<>>
  PROVE  /\ Head(fromDuet) \in MessageType
         /\ Tail(fromDuet) \in Seq(MessageType)
         /\ Len(fromDuet) \in Nat \ {0}
         /\ Len(Tail(fromDuet)) = Len(fromDuet) - 1
         /\ \A i \in 1..Len(Tail(fromDuet)) : Tail(fromDuet)[i] = fromDuet[i + 1]
         /\ Head(fromDuet) = fromDuet[1]
BY HeadTailProperties, EmptySeq DEF TypeOK

(* The sequence a message is decoded for. *)
LEMMA SeqOfKeyType ==
  ASSUME TypeOK, NEW m \in MessageType
  PROVE  SeqOfKey(m.key) \in Slots \cup {None}
BY SlotFacts DEF SeqOfKey, MessageType, TypeOK

(* A response is a message. *)
LEMMA ResponseType ==
  ASSUME TypeOK, NEW s \in Slots \cup OtherMessages
  PROVE  Response(s) \in MessageType
BY DEF Response, MessageType, TypeOK

(* ResetSeqs and RemoveAll. *)
LEMMA ResetType ==
  ASSUME TypeOK, ResetSeqs, RemoveAll
  PROVE  /\ state' \in [Slots -> SeqStates]
         /\ lastSeq' \in [Keys -> Nat]
         /\ sendFreqNext' \in BOOLEAN
         /\ shown' \in [Keys -> Nat \cup {-1}]
BY SlotFacts DEF ResetSeqs, RemoveAll, TypeOK, SeqStates

(* Closing the transport. *)
LEMMA CloseType ==
  ASSUME TypeOK, CloseTransport
  PROVE  /\ toDuet' \in Seq(Slots)
         /\ fromDuet' \in Seq(MessageType)
         /\ phase' = "begin"
         /\ mSeq' \in Slots \cup {None}
<1>1. toDuet' \in Seq(Slots)
  BY EmptySeq DEF CloseTransport, TypeOK
<1>2. fromDuet' \in Seq(MessageType)
  <2>1. CASE fromDuet' = <<>>
    BY <2>1, EmptySeq
  <2>2. CASE fromDuet' = IF phase = "begin" THEN fromDuet ELSE Tail(fromDuet)
    BY <2>2, HeadAndTail DEF TypeOK
  <2> QED
    BY <2>1, <2>2 DEF CloseTransport
<1> QED
  BY <1>1, <1>2 DEF CloseTransport, TypeOK

(* Every step of the system keeps the types. *)
LEMMA TypeStep ==
  ASSUME TypeOK, [Next]_vars
  PROVE  TypeOK'
<1> USE DEF tableVars, threadVars, lineVars, decoderVars
<1>1. CASE Sleep
  BY <1>1, PollingAssumption DEF Sleep, OneTick, TypeOK
<1>2. CASE ReconnectBegin
  <2>1. CASE conn = "DISCONNECTED"
    BY <1>2, <2>1 DEF ReconnectBegin, DuetReconnect, TypeOK, ConnStates
  <2>2. CASE conn # "DISCONNECTED"
    <3>1. ResetSeqs /\ RemoveAll /\ CloseTransport
      BY <1>2, <2>2 DEF ReconnectBegin, DuetReconnect
    <3> QED
      BY <1>2, <2>2, <3>1, ResetType, CloseType
      DEF ReconnectBegin, DuetReconnect, TypeOK, ConnStates
  <2> QED
    BY <2>1, <2>2
<1>3. CASE ReconnectEnd
  <2>1. ResetSeqs /\ RemoveAll
    BY <1>3 DEF ReconnectEnd
  <2> QED
    BY <1>3, <2>1, ResetType DEF ReconnectEnd, TypeOK
<1>4. CASE Select
  <2>1. state' \in [Slots -> SeqStates]
    BY <1>4 DEF Select, Checked, TypeOK, SeqStates
  <2>2. selected' \in Slots \cup {None} /\ (pc' = "request" => selected' \in Slots)
    BY <1>4, GetNextSeqIsFree DEF Select
  <2> QED
    BY <1>4, <2>1, <2>2 DEF Select, TypeOK
<1>5. CASE Request
  BY <1>5 DEF Request, TypeOK, SeqStates
<1>6. CASE Send
  <2>1. toDuet' \in Seq(Slots)
    <3>1. toDuet \in Seq(Slots) /\ selected \in Slots
      BY <1>6 DEF Send, TypeOK
    <3> QED
      BY <1>6, <3>1, AppendProperties DEF Send
  <2> QED
    BY <1>6, <2>1 DEF Send, TypeOK
<1>7. CASE DecodeBody
  <2>1. Head(fromDuet) \in MessageType /\ fromDuet # <<>>
    BY <1>7, HeadAndTail DEF DecodeBody, Receiving
  <2>2. Head(fromDuet).vals \in [Keys -> Nat]
    BY <2>1 DEF MessageType
  <2>3. state' \in [Slots -> SeqStates] /\ lastSeq' \in [Keys -> Nat]
    BY <1>7, <2>2 DEF DecodeBody, UpdateSeqs, TypeOK, SeqStates
  <2>4. shown' \in [Keys -> Nat \cup {-1}]
    BY <1>7, <2>2 DEF DecodeBody, TypeOK
  <2>5. mSeq' \in Slots \cup {None}
    BY <1>7, <2>1, SeqOfKeyType DEF DecodeBody
  <2> QED
    BY <1>7, <2>1, <2>3, <2>4, <2>5 DEF DecodeBody, TypeOK
<1>8. CASE DecodeEnd
  <2>1. Tail(fromDuet) \in Seq(MessageType)
    BY <1>8, HeadAndTail DEF DecodeEnd, Receiving
  <2> QED
    BY <1>8, <2>1 DEF DecodeEnd, TypeOK, SeqStates
<1>9. CASE Abandon
  <2>1. Head(fromDuet) \in MessageType /\ Tail(fromDuet) \in Seq(MessageType)
    BY <1>9, HeadAndTail DEF Abandon, Receiving
  <2>2. mSeq' \in Slots \cup {None}
    BY <1>9, <2>1, SeqOfKeyType DEF Abandon, TypeOK
  <2> QED
    BY <1>9, <2>1, <2>2 DEF Abandon, TypeOK
<1>10. CASE ParserError
  <2>1. Head(fromDuet) \in MessageType /\ Tail(fromDuet) \in Seq(MessageType)
    BY <1>10, HeadAndTail DEF ParserError, Receiving
  <2>2. mSeq' \in Slots \cup {None}
    BY <1>10, <2>1, SeqOfKeyType DEF ParserError, TypeOK
  <2>3. state' \in [Slots -> SeqStates]
    BY <1>10 DEF ParserError, TypeOK, SeqStates
  <2> QED
    BY <1>10, <2>1, <2>2, <2>3 DEF ParserError, TypeOK
<1>11. CASE ConnectDone \/ ConnectFails
  BY <1>11 DEF ConnectDone, ConnectFails, TypeOK, ConnStates
<1>12. CASE UserReconnect
  <2>1. /\ ResetSeqs /\ RemoveAll
        /\ CloseTransport \/ UNCHANGED <<lineVars, decoderVars>>
    BY <1>12 DEF UserReconnect
  <2>2. CASE CloseTransport
    BY <1>12, <2>1, <2>2, ResetType, CloseType DEF UserReconnect, TypeOK
  <2>3. CASE UNCHANGED <<lineVars, decoderVars>>
    BY <1>12, <2>1, <2>3, ResetType DEF UserReconnect, TypeOK, MessageType
  <2> QED
    BY <2>1, <2>2, <2>3
<1>13. ASSUME NEW k \in Keys, Bump(k) PROVE TypeOK'
  BY <1>13 DEF Bump, TypeOK
<1>14. CASE Answer
  <2>1. Head(toDuet) \in Slots /\ Tail(toDuet) \in Seq(Slots)
    BY <1>14, HeadTailProperties DEF Answer, TypeOK
  <2>2. Response(Head(toDuet)) \in MessageType
    BY <2>1, ResponseType
  <2>3. fromDuet' \in Seq(MessageType) /\ fromDuet' # <<>>
    BY <1>14, <2>2, AppendProperties DEF Answer, TypeOK
  <2> QED
    BY <1>14, <2>1, <2>3 DEF Answer, TypeOK
<1>15. ASSUME NEW o \in OtherMessages, AnswerOther(o) PROVE TypeOK'
  <2>1. Response(o) \in MessageType
    BY ResponseType
  <2>2. fromDuet' \in Seq(MessageType) /\ fromDuet' # <<>>
    BY <1>15, <2>1, AppendProperties DEF AnswerOther, TypeOK
  <2> QED
    BY <1>15, <2>2 DEF AnswerOther, TypeOK
<1>16. CASE UNCHANGED vars
  BY <1>16 DEF vars, TypeOK, MessageType
<1> QED
  BY <1>1, <1>2, <1>3, <1>4, <1>5, <1>6, <1>7, <1>8, <1>9, <1>10, <1>11, <1>12,
     <1>13, <1>14, <1>15, <1>16
  DEF Next, RequestThread, ReceivingThread, Environment

(* The types hold initially. *)
LEMMA TypeInit == Init => TypeOK
<1> SUFFICES ASSUME Init PROVE TypeOK
  OBVIOUS
<1>1. <<>> \in Seq(Slots) /\ <<>> \in Seq(MessageType)
  BY EmptySeq
<1> QED
  BY <1>1, SlotFacts DEF Init, TypeOK, SeqStates, ConnStates

(* The variables of the polling keep their types: no thread ever acts on a *)
(* null sequence, and a message is only in the middle of its decoding when *)
(* there is one on the line.                                               *)
THEOREM TypeCorrect == Spec => []TypeOK
<1>1. TypeOK /\ [Next]_vars => TypeOK'
  BY TypeStep
<1> QED
  BY TypeInit, <1>1, PTL DEF Spec

-----------------------------------------------------------------------------
(* The order of the answers on the line.                                   *)

(* The order survives when the line only loses its head, the panel forgets *)
(* and the Duet advances.                                                  *)
LEMMA LineKept ==
  ASSUME TypeOK, TypeOK', LineInOrder,
         \/ fromDuet' = fromDuet
         \/ fromDuet # <<>> /\ fromDuet' = Tail(fromDuet)
         \/ fromDuet' = <<>>,
         \A k \in Keys : /\ lastSeq'[k] <= lastSeq[k]
                         /\ shown'[k] <= shown[k]
                         /\ duetSeq[k] <= duetSeq'[k]
  PROVE  LineInOrder'
<1>1. /\ lastSeq \in [Keys -> Nat] /\ lastSeq' \in [Keys -> Nat]
      /\ shown \in [Keys -> Nat \cup {-1}] /\ shown' \in [Keys -> Nat \cup {-1}]
      /\ duetSeq \in [Keys -> Nat] /\ duetSeq' \in [Keys -> Nat]
      /\ fromDuet \in Seq(MessageType)
  BY DEF TypeOK
<1>2. \A i \in 1..Len(fromDuet) : \A k \in Keys : fromDuet[i].vals[k] \in Nat
  <2>1. \A i \in 1..Len(fromDuet) : fromDuet[i] \in MessageType
    BY <1>1, ElementOfSeq
  <2> QED
    BY <2>1 DEF MessageType
<1>3. CASE fromDuet' = fromDuet
  <2>1. ASSUME NEW i \in 1..Len(fromDuet), NEW k \in Keys, Carries(fromDuet[i], k)
        PROVE  /\ lastSeq'[k] <= fromDuet[i].vals[k]
               /\ shown'[k] <= fromDuet[i].vals[k]
               /\ fromDuet[i].vals[k] <= duetSeq'[k]
    <3>1. /\ lastSeq[k] <= fromDuet[i].vals[k]
          /\ shown[k] <= fromDuet[i].vals[k]
          /\ fromDuet[i].vals[k] <= duetSeq[k]
      BY <2>1 DEF LineInOrder
    <3>2. /\ lastSeq[k] \in Int /\ lastSeq'[k] \in Int /\ shown[k] \in Int
          /\ shown'[k] \in Int /\ duetSeq[k] \in Int /\ duetSeq'[k] \in Int
      BY <1>1
    <3>3. /\ lastSeq'[k] <= lastSeq[k] /\ shown'[k] <= shown[k]
          /\ duetSeq[k] <= duetSeq'[k]
      OBVIOUS
    <3>4. fromDuet[i].vals[k] \in Int
      BY <1>2
    <3> QED
      BY <3>1, <3>2, <3>3, <3>4
  <2> QED
    BY <1>3, <2>1 DEF LineInOrder, Carries
<1>4. CASE fromDuet # <<>> /\ fromDuet' = Tail(fromDuet)
  <2>1. /\ Len(fromDuet) \in Nat \ {0}
        /\ Len(fromDuet') = Len(fromDuet) - 1
        /\ \A i \in 1..Len(fromDuet') : fromDuet'[i] = fromDuet[i + 1]
    BY <1>4, HeadAndTail
  <2>2. ASSUME NEW i \in 1..Len(fromDuet'), NEW k \in Keys,
               Carries(fromDuet'[i], k)
        PROVE  /\ lastSeq'[k] <= fromDuet'[i].vals[k]
               /\ shown'[k] <= fromDuet'[i].vals[k]
               /\ fromDuet'[i].vals[k] <= duetSeq'[k]
               /\ \A j \in 1..Len(fromDuet') :
                     j < i /\ Carries(fromDuet'[j], k) =>
                         fromDuet'[j].vals[k] <= fromDuet'[i].vals[k]
    <3>1. i + 1 \in 1..Len(fromDuet) /\ Carries(fromDuet[i + 1], k)
      BY <2>1, <2>2
    <3>2. \A j \in 1..Len(fromDuet') :
            j < i => j + 1 \in 1..Len(fromDuet) /\ j + 1 < i + 1
      BY <2>1
    <3>3. /\ lastSeq[k] <= fromDuet'[i].vals[k]
          /\ shown[k] <= fromDuet'[i].vals[k]
          /\ fromDuet'[i].vals[k] <= duetSeq[k]
      BY <2>1, <3>1 DEF LineInOrder
    <3>4. fromDuet'[i].vals[k] \in Nat
      BY <1>2, <2>1, <3>1
    <3>5. \A j \in 1..Len(fromDuet') :
            j < i /\ Carries(fromDuet'[j], k) =>
                fromDuet'[j].vals[k] <= fromDuet'[i].vals[k]
      BY <2>1, <3>1, <3>2 DEF LineInOrder
    <3>6. /\ lastSeq[k] \in Int /\ lastSeq'[k] \in Int /\ shown[k] \in Int
          /\ shown'[k] \in Int /\ duetSeq[k] \in Int /\ duetSeq'[k] \in Int
      BY <1>1
    <3>7. /\ lastSeq'[k] <= lastSeq[k] /\ shown'[k] <= shown[k]
          /\ duetSeq[k] <= duetSeq'[k]
      OBVIOUS
    <3> QED
      BY <3>3, <3>4, <3>5, <3>6, <3>7
  <2> QED
    BY <2>2 DEF LineInOrder, Carries
<1>5. CASE fromDuet' = <<>>
  BY <1>5, EmptySeq DEF LineInOrder
<1> QED
  BY <1>3, <1>4, <1>5

(* A new answer carries the current versions, so it keeps the order. *)
LEMMA LineGrows ==
  ASSUME TypeOK, LineInOrder, NothingAhead,
         NEW s \in Slots \cup OtherMessages,
         fromDuet' = Append(fromDuet, Response(s)),
         UNCHANGED <<lastSeq, shown, duetSeq>>
  PROVE  LineInOrder'
<1>1. Response(s) \in MessageType
  BY ResponseType
<1>2. /\ Len(fromDuet) \in Nat
      /\ Len(fromDuet') = Len(fromDuet) + 1
      /\ \A i \in 1..Len(fromDuet) : fromDuet'[i] = fromDuet[i]
      /\ fromDuet'[Len(fromDuet) + 1] = Response(s)
  BY <1>1, AppendProperties, LenProperties DEF TypeOK
<1>3. \A k \in Keys : Carries(Response(s), k) => Response(s).vals[k] = duetSeq[k]
  BY DEF Carries, Response
<1>4. ASSUME NEW i \in 1..Len(fromDuet'), NEW k \in Keys,
             Carries(fromDuet'[i], k)
      PROVE  /\ lastSeq'[k] <= fromDuet'[i].vals[k]
             /\ shown'[k] <= fromDuet'[i].vals[k]
             /\ fromDuet'[i].vals[k] <= duetSeq'[k]
             /\ \A j \in 1..Len(fromDuet') :
                   j < i /\ Carries(fromDuet'[j], k) =>
                       fromDuet'[j].vals[k] <= fromDuet'[i].vals[k]
  <2>1. \A j \in 1..Len(fromDuet') :
          j # Len(fromDuet) + 1 =>
              j \in 1..Len(fromDuet) /\ fromDuet'[j] = fromDuet[j]
    BY <1>2
  <2>2. CASE i = Len(fromDuet) + 1
    <3>1. fromDuet'[i].vals[k] = duetSeq[k]
      BY <1>2, <1>3, <1>4, <2>2
    <3>2. duetSeq[k] \in Nat
      BY DEF TypeOK
    <3>3. \A j \in 1..Len(fromDuet') : j < i => j # Len(fromDuet) + 1
      BY <1>2, <2>2
    <3> QED
      BY <2>1, <3>1, <3>2, <3>3 DEF LineInOrder, NothingAhead
  <2>3. CASE i # Len(fromDuet) + 1
    <3>1. i \in 1..Len(fromDuet) /\ fromDuet'[i] = fromDuet[i]
      BY <2>1, <2>3
    <3>2. \A j \in 1..Len(fromDuet') : j < i => j # Len(fromDuet) + 1
      BY <1>2, <3>1
    <3> QED
      BY <1>4, <2>1, <3>1, <3>2 DEF LineInOrder
  <2> QED
    BY <2>2, <2>3
<1> QED
  BY <1>4 DEF LineInOrder, Carries

-----------------------------------------------------------------------------
(* No update is lost.                                                      *)

(* A step that leaves the line, the decoder, what is known and what is     *)
(* shown alone, and settles nothing. *)
LEMMA QuietStep ==
  ASSUME PollingInv, TypeOK',
         UNCHANGED <<lastSeq, shown, fromDuet, phase, mSeq>>,
         \A k \in Keys : duetSeq[k] <= duetSeq'[k],
         \A k \in Keys : state'[k] = "Ok" => state[k] = "Ok",
         SelectedIsFree'
  PROVE  PollingInv'
<1>1. LineInOrder'
  <2>1. \A k \in Keys : lastSeq[k] \in Int /\ shown[k] \in Int
    BY DEF PollingInv, TypeOK
  <2>2. \A k \in Keys : lastSeq'[k] <= lastSeq[k] /\ shown'[k] <= shown[k]
    BY <2>1
  <2> QED
    BY <2>2, LineKept DEF PollingInv
<1>2. NothingAhead'
  <2>1. \A k \in Keys : /\ lastSeq[k] \in Int /\ shown[k] \in Int
                        /\ duetSeq[k] \in Int /\ duetSeq'[k] \in Int
    BY DEF PollingInv, TypeOK
  <2> QED
    BY <2>1 DEF PollingInv, NothingAhead
<1>3. BodyNamesSeq' /\ BodyIsShown' /\ LeftoverIsHarmless'
  BY DEF PollingInv, BodyNamesSeq, BodyIsShown, LeftoverIsHarmless
<1>4. NoLostUpdate'
  BY DEF PollingInv, NoLostUpdate
<1> QED
  BY <1>1, <1>2, <1>3, <1>4 DEF PollingInv

(* A step that forgets everything, with or without closing the transport. *)
LEMMA ResetStep ==
  ASSUME PollingInv, TypeOK', ResetSeqs, RemoveAll, UNCHANGED duetSeq,
         CloseTransport \/ UNCHANGED <<fromDuet, phase, mSeq>>,
         pc' # "request" \/ UNCHANGED <<pc, selected>>
  PROVE  PollingInv'
<1>1. \A k \in Keys : lastSeq'[k] = 0 /\ shown'[k] = -1
  BY DEF ResetSeqs, RemoveAll
<1>2. \A k \in Keys : lastSeq[k] \in Nat /\ shown[k] \in Nat \cup {-1} /\ duetSeq[k] \in Nat
  BY DEF PollingInv, TypeOK
<1>3. LineInOrder'
  <2>1. \/ fromDuet' = fromDuet
        \/ fromDuet # <<>> /\ fromDuet' = Tail(fromDuet)
        \/ fromDuet' = <<>>
    BY DEF CloseTransport, PollingInv, TypeOK
  <2>2. \A k \in Keys : /\ lastSeq'[k] <= lastSeq[k]
                        /\ shown'[k] <= shown[k]
                        /\ duetSeq[k] <= duetSeq'[k]
    BY <1>1, <1>2
  <2> QED
    BY <2>1, <2>2, LineKept DEF PollingInv
<1>4. NothingAhead' /\ BodyIsShown' /\ LeftoverIsHarmless' /\ NoLostUpdate'
  BY <1>1, <1>2 DEF NothingAhead, BodyIsShown, LeftoverIsHarmless, NoLostUpdate
<1>5. BodyNamesSeq'
  BY DEF CloseTransport, PollingInv, BodyNamesSeq
<1>6. SelectedIsFree'
  <2>1. CASE pc' # "request"
    BY <2>1 DEF SelectedIsFree
  <2>2. CASE UNCHANGED <<pc, selected>> /\ pc = "request"
    <3>1. selected \in Slots
      BY <2>2 DEF PollingInv, TypeOK
    <3> QED
      BY <2>2, <3>1 DEF ResetSeqs, PollingInv, SelectedIsFree
  <2> QED
    BY <2>1, <2>2
<1> QED
  BY <1>3, <1>4, <1>5, <1>6 DEF PollingInv

(* The body of a response: what it shows and announces is in order, and    *)
(* what it is decoded for is shown. *)
LEMMA BodyStep ==
  ASSUME PollingInv, TypeOK', DecodeBody
  PROVE  PollingInv'
<1> DEFINE m == Head(fromDuet)
<1>1. /\ fromDuet # <<>> /\ m \in MessageType /\ m = fromDuet[1]
      /\ 1 \in 1..Len(fromDuet) /\ Len(fromDuet) \in Nat
  BY HeadAndTail DEF PollingInv, DecodeBody, Receiving
<1>2. /\ fromDuet' = fromDuet /\ duetSeq' = duetSeq /\ phase' = "body"
      /\ phase = "begin" /\ UNCHANGED <<pc, selected>>
      /\ mSeq' = SeqOfKey(m.key)
      /\ shown' = [k \in Keys |-> IF m.key = k THEN m.vals[k] ELSE shown[k]]
  BY DEF DecodeBody, lineVars, threadVars
<1>3. m.key \in Slots \cup {NoKey, OtherKey} /\ m.vals \in [Keys -> Nat]
  BY <1>1, SlotFacts DEF MessageType
<1>4. \A k \in Keys : /\ lastSeq[k] \in Nat /\ lastSeq'[k] \in Nat
                      /\ shown[k] \in Nat \cup {-1} /\ shown'[k] \in Nat \cup {-1}
                      /\ duetSeq[k] \in Nat /\ m.vals[k] \in Nat
  BY <1>3 DEF PollingInv, TypeOK
<1>5. \A k \in Keys : Carries(m, k) =>
        /\ lastSeq[k] <= m.vals[k] /\ shown[k] <= m.vals[k] /\ m.vals[k] <= duetSeq[k]
        /\ \A i \in 1..Len(fromDuet) :
              Carries(fromDuet[i], k) => m.vals[k] <= fromDuet[i].vals[k]
  <2>1. \A i \in 1..Len(fromDuet) : i = 1 \/ 1 < i
    BY <1>1
  <2>2. \A k \in Keys : m.vals[k] <= m.vals[k]
    BY <1>4
  <2> QED
    BY <1>1, <2>1, <2>2 DEF PollingInv, LineInOrder
<1>6. \A k \in Keys : /\ lastSeq'[k] = IF m.key = Freq THEN m.vals[k] ELSE lastSeq[k]
                      /\ lastSeq'[k] # lastSeq[k] => state'[k] = "Update"
                      /\ lastSeq'[k] = lastSeq[k] => state'[k] = state[k]
                      /\ Carries(m, k) \/ (lastSeq'[k] = lastSeq[k] /\ shown'[k] = shown[k])
  <2>1. CASE m.key = Freq
    <3>1. UpdateSeqs(m.vals)
      BY <2>1 DEF DecodeBody
    <3>2. \A k \in Keys : k \in Slots /\ k # Freq /\ Carries(m, k)
      BY <2>1, SlotFacts DEF Carries
    <3>3. lastSeq' = m.vals
      BY <3>1 DEF UpdateSeqs
    <3>4. state' = [s \in Slots |->
                      IF s # Freq /\ m.vals[s] # lastSeq[s] THEN "Update" ELSE state[s]]
      BY <3>1 DEF UpdateSeqs
    <3> QED
      BY <2>1, <3>2, <3>3, <3>4
  <2>2. CASE m.key # Freq
    <3>1. UNCHANGED <<state, lastSeq>>
      BY <2>2 DEF DecodeBody
    <3>2. \A k \in Keys : m.key = k => Carries(m, k)
      BY DEF Carries
    <3> QED
      BY <1>2, <2>2, <3>1, <3>2
  <2> QED
    BY <2>1, <2>2
<1>7. LineInOrder'
  <2>1. ASSUME NEW i \in 1..Len(fromDuet), NEW k \in Keys, Carries(fromDuet[i], k)
        PROVE  /\ lastSeq'[k] <= fromDuet[i].vals[k]
               /\ shown'[k] <= fromDuet[i].vals[k]
    <3>1. lastSeq[k] <= fromDuet[i].vals[k] /\ shown[k] <= fromDuet[i].vals[k]
      BY <2>1 DEF PollingInv, LineInOrder
    <3>2. CASE Carries(m, k)
      <4>1. m.vals[k] <= fromDuet[i].vals[k]
        BY <1>5, <2>1, <3>2
      <4> QED
        BY <1>2, <1>6, <3>1, <4>1
    <3>3. CASE ~Carries(m, k)
      BY <1>6, <3>1, <3>3
    <3> QED
      BY <3>2, <3>3
  <2> QED
    BY <1>2, <2>1 DEF PollingInv, LineInOrder, Carries
<1>8. NothingAhead'
  <2>1. ASSUME NEW k \in Keys PROVE lastSeq'[k] <= duetSeq[k] /\ shown'[k] <= duetSeq[k]
    <3>1. lastSeq[k] <= duetSeq[k] /\ shown[k] <= duetSeq[k]
      BY DEF PollingInv, NothingAhead
    <3>2. CASE Carries(m, k)
      BY <1>2, <1>5, <1>6, <3>1, <3>2
    <3>3. CASE ~Carries(m, k)
      BY <1>6, <3>1, <3>3
    <3> QED
      BY <3>2, <3>3
  <2> QED
    BY <1>2, <2>1 DEF NothingAhead
<1>9. BodyNamesSeq'
  BY <1>2, <1>3, SlotFacts DEF BodyNamesSeq, SeqOfKey, OtherKey, NoKey
<1>10. BodyIsShown'
  <2>1. ASSUME NEW k \in Keys, mSeq' = k, lastSeq'[k] > 0 PROVE shown'[k] >= lastSeq'[k]
    <3>1. CASE m.key = k
      <4>1. Carries(m, k) /\ m.key # Freq
        BY <3>1, SlotFacts DEF Carries
      <4>2. lastSeq'[k] = lastSeq[k] /\ shown'[k] = m.vals[k]
        BY <1>2, <1>6, <3>1, <4>1
      <4>3. lastSeq[k] <= m.vals[k]
        BY <1>5, <4>1
      <4> QED
        BY <1>4, <4>2, <4>3
    <3>2. CASE m.key = NoKey
      <4>1. mSeq = k
        BY <1>2, <2>1, <3>2, SlotFacts DEF SeqOfKey
      <4>2. NoKey \in OtherMessages
        BY <1>1, <3>2, SlotFacts DEF MessageType
      <4>3. lastSeq[k] = 0
        BY <1>2, <4>1, <4>2 DEF PollingInv, LeftoverIsHarmless
      <4>4. m.key # Freq
        BY <3>2, SlotFacts
      <4> QED
        BY <1>6, <2>1, <4>3, <4>4
    <3>3. CASE m.key \notin {k, NoKey}
      BY <1>2, <1>3, <2>1, <3>3, SlotFacts DEF SeqOfKey
    <3> QED
      BY <3>1, <3>2, <3>3
  <2> QED
    BY <2>1 DEF BodyIsShown
<1>11. LeftoverIsHarmless'
  BY <1>2 DEF LeftoverIsHarmless
<1>12. NoLostUpdate'
  <2>1. ASSUME NEW k \in Keys, state'[k] = "Ok", lastSeq'[k] > 0
        PROVE  shown'[k] >= lastSeq'[k]
    <3>1. lastSeq'[k] = lastSeq[k] /\ state[k] = "Ok" /\ shown[k] >= lastSeq[k]
      BY <1>6, <2>1 DEF PollingInv, NoLostUpdate
    <3>2. shown'[k] >= shown[k]
      <4>1. CASE m.key = k
        <5>1. Carries(m, k) /\ shown'[k] = m.vals[k]
          BY <1>2, <4>1 DEF Carries
        <5> QED
          BY <1>4, <1>5, <5>1
      <4>2. CASE m.key # k
        BY <1>2, <1>4, <4>2
      <4> QED
        BY <4>1, <4>2
    <3> QED
      BY <1>4, <3>1, <3>2
  <2> QED
    BY <2>1 DEF NoLostUpdate
<1>13. SelectedIsFree'
  <2>1. ASSUME pc = "request" PROVE state'[selected] # "Requested"
    <3>1. selected \in Slots /\ state[selected] # "Requested"
      BY <2>1 DEF PollingInv, TypeOK, SelectedIsFree
    <3> QED
      BY <3>1 DEF DecodeBody, UpdateSeqs
  <2> QED
    BY <1>2, <2>1 DEF SelectedIsFree
<1> QED
  BY <1>7, <1>8, <1>9, <1>10, <1>11, <1>12, <1>13 DEF PollingInv

(* The end of a message, read to its last brace, lost or damaged: the line *)
(* loses its head, and what the decoder leaves behind is harmless. *)
LEMMA HeadStep ==
  ASSUME PollingInv, TypeOK', fromDuet # <<>>, fromDuet' = Tail(fromDuet),
         phase' = "begin",
         UNCHANGED <<lastSeq, shown, duetSeq, pc, selected>>,
         NoKey \in OtherMessages =>
             mSeq' = None \/ (phase = "begin" /\ mSeq' = mSeq),
         \A s \in Slots :
             \/ state'[s] \in {state[s], "Error"}
             \/ phase = "body" /\ mSeq = s /\ state'[s] = "Ok"
  PROVE  PollingInv'
<1>1. LineInOrder'
  <2>1. \A k \in Keys : /\ lastSeq[k] \in Int /\ shown[k] \in Int
                        /\ duetSeq[k] \in Int
    BY DEF PollingInv, TypeOK
  <2>2. \A k \in Keys : /\ lastSeq'[k] <= lastSeq[k] /\ shown'[k] <= shown[k]
                        /\ duetSeq[k] <= duetSeq'[k]
    BY <2>1
  <2> QED
    BY <2>2, LineKept DEF PollingInv
<1>2. NothingAhead'
  BY DEF PollingInv, NothingAhead
<1>3. BodyNamesSeq' /\ BodyIsShown'
  BY DEF BodyNamesSeq, BodyIsShown
<1>4. LeftoverIsHarmless'
  BY SlotFacts DEF PollingInv, LeftoverIsHarmless
<1>5. NoLostUpdate'
  <2>1. ASSUME NEW k \in Keys, state'[k] = "Ok", lastSeq[k] > 0
        PROVE  shown[k] >= lastSeq[k]
    <3>1. state[k] = "Ok" \/ (phase = "body" /\ mSeq = k)
      BY <2>1, SlotFacts
    <3> QED
      BY <2>1, <3>1 DEF PollingInv, NoLostUpdate, BodyIsShown
  <2> QED
    BY <2>1 DEF NoLostUpdate
<1>6. SelectedIsFree'
  <2>1. pc = "request" => selected \in Slots /\ state[selected] # "Requested"
    BY DEF PollingInv, TypeOK, SelectedIsFree
  <2> QED
    BY <2>1 DEF SelectedIsFree
<1> QED
  BY <1>1, <1>2, <1>3, <1>4, <1>5, <1>6 DEF PollingInv

(* A response joins the line. *)
LEMMA AnswerStep ==
  ASSUME PollingInv, TypeOK',
         NEW s \in Slots \cup OtherMessages,
         fromDuet' = Append(fromDuet, Response(s)),
         UNCHANGED <<state, lastSeq, pc, selected, phase, mSeq, duetSeq, shown>>
  PROVE  PollingInv'
<1>1. LineInOrder'
  BY LineGrows DEF PollingInv
<1>2. NothingAhead' /\ BodyIsShown' /\ LeftoverIsHarmless' /\ NoLostUpdate' /\ SelectedIsFree'
  BY DEF PollingInv, NothingAhead, BodyIsShown, LeftoverIsHarmless, NoLostUpdate,
         SelectedIsFree
<1>3. phase = "body" => Head(fromDuet') = Head(fromDuet)
  <2>1. Response(s) \in MessageType /\ fromDuet \in Seq(MessageType)
    BY ResponseType DEF PollingInv, TypeOK
  <2>2. phase = "body" => fromDuet # <<>>
    BY DEF PollingInv, TypeOK
  <2> QED
    BY <2>1, <2>2, HeadTailAppend
<1>4. BodyNamesSeq'
  BY <1>3 DEF PollingInv, BodyNamesSeq
<1> QED
  BY <1>1, <1>2, <1>4 DEF PollingInv

(* Every step of a system with a clean line keeps the invariant. *)
LEMMA PollingStep ==
  ASSUME CleanLine, PollingInv, [Next]_vars
  PROVE  PollingInv'
<1> USE DEF tableVars, threadVars, lineVars, decoderVars
<1>0. TypeOK' /\ TypeOK
  BY TypeStep DEF PollingInv
<1>00. \A k \in Keys : duetSeq[k] \in Nat /\ duetSeq[k] <= duetSeq[k]
  BY <1>0 DEF TypeOK
<1>1. CASE Sleep
  BY <1>0, <1>00, <1>1, QuietStep DEF Sleep, SelectedIsFree
<1>2. CASE ReconnectBegin
  <2>1. pc' # "request" /\ UNCHANGED duetSeq
    BY <1>2 DEF ReconnectBegin
  <2>2. CASE conn = "DISCONNECTED"
    <3>1. SelectedIsFree'
      BY <2>1 DEF SelectedIsFree
    <3> QED
      BY <1>0, <1>00, <1>2, <2>1, <2>2, <3>1, QuietStep DEF ReconnectBegin, DuetReconnect
  <2>3. CASE conn # "DISCONNECTED"
    BY <1>0, <1>2, <2>1, <2>3, ResetStep DEF ReconnectBegin, DuetReconnect
  <2> QED
    BY <2>2, <2>3
<1>3. CASE ReconnectEnd
  BY <1>0, <1>3, ResetStep DEF ReconnectEnd
<1>4. CASE Select
  <2>1. \A k \in Keys : state'[k] = "Ok" => state[k] = "Ok"
    BY <1>0, <1>4, SlotFacts DEF Select, Checked, TypeOK
  <2>2. SelectedIsFree'
    <3>1. ASSUME GetNextSeq # None
          PROVE  state'[GetNextSeq] # "Requested"
      BY <1>0, <1>4, <3>1, GetNextSeqIsFree DEF Select
    <3>2. selected' = GetNextSeq /\ (pc' = "request" => GetNextSeq # None)
      BY <1>4 DEF Select
    <3> QED
      BY <3>1, <3>2 DEF SelectedIsFree
  <2> QED
    BY <1>0, <1>00, <1>4, <2>1, <2>2, QuietStep DEF Select
<1>5. CASE Request
  <2>1. \A k \in Keys : state'[k] = "Ok" => state[k] = "Ok"
    BY <1>0, <1>5, SlotFacts DEF Request, TypeOK
  <2> QED
    BY <1>0, <1>00, <1>5, <2>1, QuietStep DEF Request, SelectedIsFree
<1>6. CASE Send
  BY <1>0, <1>00, <1>6, QuietStep DEF Send, SelectedIsFree
<1>7. CASE DecodeBody
  BY <1>0, <1>7, BodyStep
<1>8. CASE DecodeEnd
  <2>1. \A s \in Slots : state'[s] = state[s] \/ (mSeq = s /\ state'[s] = "Ok")
    BY <1>8 DEF DecodeEnd
  <2> QED
    BY <1>0, <1>8, <2>1, HeadStep DEF DecodeEnd, Receiving
<1>9. CASE Abandon
  <2>1. NoKey \in OtherMessages => phase = "begin" /\ mSeq' = mSeq
    BY <1>9 DEF Abandon, CleanLine
  <2> QED
    BY <1>0, <1>9, <2>1, HeadStep DEF Abandon, Receiving
<1>10. CASE ParserError
  <2>1. NoKey \notin OtherMessages
    BY <1>10 DEF ParserError, CleanLine
  <2>2. \A s \in Slots : state'[s] \in {state[s], "Error"}
    BY <1>10 DEF ParserError
  <2> QED
    BY <1>0, <1>10, <2>1, <2>2, HeadStep DEF ParserError, Receiving
<1>11. CASE ConnectDone \/ ConnectFails
  BY <1>0, <1>00, <1>11, QuietStep DEF ConnectDone, ConnectFails, SelectedIsFree, PollingInv
<1>12. CASE UserReconnect
  BY <1>0, <1>12, ResetStep DEF UserReconnect
<1>13. ASSUME NEW k \in Keys, Bump(k) PROVE PollingInv'
  <2>1. \A j \in Keys : duetSeq[j] <= duetSeq'[j]
    BY <1>0, <1>00, <1>13 DEF Bump, TypeOK
  <2> QED
    BY <1>0, <1>13, <2>1, QuietStep DEF Bump, SelectedIsFree, PollingInv
<1>14. CASE Answer
  <2>1. Head(toDuet) \in Slots
    BY <1>0, <1>14, HeadTailProperties DEF Answer, TypeOK
  <2> QED
    BY <1>0, <1>14, <2>1, AnswerStep DEF Answer
<1>15. ASSUME NEW o \in OtherMessages, AnswerOther(o) PROVE PollingInv'
  BY <1>0, <1>15, AnswerStep DEF AnswerOther
<1>16. CASE UNCHANGED vars
  BY <1>0, <1>00, <1>16, QuietStep DEF vars, SelectedIsFree, PollingInv
<1> QED
  BY <1>1, <1>2, <1>3, <1>4, <1>5, <1>6, <1>7, <1>8, <1>9, <1>10, <1>11, <1>12,
     <1>13, <1>14, <1>15, <1>16
  DEF Next, RequestThread, ReceivingThread, Environment

(* The invariant holds initially. *)
LEMMA PollingInit == Init => PollingInv
<1> SUFFICES ASSUME Init PROVE PollingInv
  OBVIOUS
<1>1. TypeOK
  BY TypeInit
<1>2. Len(fromDuet) = 0
  BY EmptySeq DEF Init
<1>3. LineInOrder
  BY <1>2 DEF LineInOrder
<1>4. \A k \in Keys : mSeq # k
  BY SlotFacts DEF Init
<1> QED
  BY <1>1, <1>3, <1>4, SlotFacts
  DEF Init, PollingInv, NothingAhead, BodyNamesSeq, BodyIsShown,
      LeftoverIsHarmless, NoLostUpdate, SelectedIsFree

(* On a clean line the strengthened invariant always holds. *)
THEOREM PollingCorrect == CleanLine => (Spec => []PollingInv)
<1> SUFFICES ASSUME CleanLine PROVE Spec => []PollingInv
  OBVIOUS
<1>1. PollingInv /\ [Next]_vars => PollingInv'
  BY PollingStep
<1> QED
  BY PollingInit, <1>1, PTL DEF Spec

(* No update is lost, whatever the number of sections, the length of the   *)
(* line, the faults of the connection and the interleaving of the request  *)
(* thread, the receiving thread and the thread that reconnects: a section  *)
(* that counts as up to date shows every change the panel was told of.     *)
THEOREM NoUpdateIsLost == CleanLine => (Spec => []NoLostUpdate)
<1> SUFFICES ASSUME CleanLine PROVE Spec => []NoLostUpdate
  OBVIOUS
<1>1. PollingInv => NoLostUpdate
  BY DEF PollingInv
<1>2. Spec => []PollingInv
  BY PollingCorrect
<1> QED
  BY <1>1, <1>2, PTL

(* RequestSeq never meets a sequence that is already requested. *)
THEOREM NeverAskedTwice == CleanLine => (Spec => []SelectedIsFree)
<1> SUFFICES ASSUME CleanLine PROVE Spec => []SelectedIsFree
  OBVIOUS
<1>1. PollingInv => SelectedIsFree
  BY DEF PollingInv
<1>2. Spec => []PollingInv
  BY PollingCorrect
<1> QED
  BY <1>1, <1>2, PTL

-----------------------------------------------------------------------------
(* The initial load.                                                       *)

(* A step that neither receives nor forgets anything, on a link that stays *)
(* as it is or leaves its clearing.                                        *)
LEMMA LoadedQuiet ==
  ASSUME LoadedInv, TypeOK',
         UNCHANGED <<shown, toDuet, fromDuet, phase, mSeq>>,
         conn' # "CONNECTED" \/ Clearing' => conn # "CONNECTED" \/ Clearing,
         \A k \in Keys : state'[k] = "Ok" => state[k] = "Ok"
  PROVE  LoadedInv'
BY DEF LoadedInv, OkIsLoaded, BodyIsLoaded, NothingAnswered

(* The line is emptied with the transport. *)
LEMMA LoadedReset ==
  ASSUME FreshLine, TypeOK', ResetSeqs, CloseTransport
  PROVE  LoadedInv'
<1>1. \A k \in Keys : state'[k] = "Init"
  BY SlotFacts DEF ResetSeqs
<1>2. phase' = "begin" /\ toDuet' = <<>> /\ fromDuet' = <<>>
  BY DEF CloseTransport, FreshLine
<1>3. Len(fromDuet') = 0
  BY <1>2, EmptySeq
<1> QED
  BY <1>1, <1>2, <1>3 DEF LoadedInv, OkIsLoaded, BodyIsLoaded, NothingAnswered

(* A message is decoded to its end, or lost or damaged. *)
LEMMA LoadedHead ==
  ASSUME LoadedInv, TypeOK', fromDuet # <<>>, fromDuet' = Tail(fromDuet),
         phase' = "begin", UNCHANGED <<shown, toDuet, conn, pc>>,
         \A s \in Slots :
             \/ state'[s] \in {state[s], "Error"}
             \/ phase = "body" /\ mSeq = s /\ state'[s] = "Ok"
  PROVE  LoadedInv'
<1>1. OkIsLoaded'
  <2>1. ASSUME NEW k \in Keys, state'[k] = "Ok"
        PROVE  shown[k] # -1
    <3>1. state[k] = "Ok" \/ (phase = "body" /\ mSeq = k)
      BY <2>1, SlotFacts
    <3> QED
      BY <3>1 DEF LoadedInv, OkIsLoaded, BodyIsLoaded
  <2> QED
    BY <2>1 DEF OkIsLoaded
<1>2. BodyIsLoaded'
  BY DEF BodyIsLoaded
<1>3. NothingAnswered'
  <2>1. \A i \in 1..Len(fromDuet') :
          i + 1 \in 1..Len(fromDuet) /\ fromDuet'[i] = fromDuet[i + 1]
    BY HeadAndTail DEF LoadedInv
  <2> QED
    BY <2>1 DEF LoadedInv, NothingAnswered, Clearing
<1> QED
  BY <1>1, <1>2, <1>3 DEF LoadedInv

(* The body of a message is decoded. *)
LEMMA LoadedBody ==
  ASSUME FreshLine, LoadedInv, TypeOK', DecodeBody
  PROVE  LoadedInv'
<1> DEFINE m == Head(fromDuet)
<1>1. /\ m \in MessageType /\ m = fromDuet[1] /\ 1 \in 1..Len(fromDuet)
  BY HeadAndTail DEF LoadedInv, DecodeBody, Receiving
<1>2. /\ mSeq' = SeqOfKey(m.key)
      /\ shown' = [k \in Keys |-> IF m.key = k THEN m.vals[k] ELSE shown[k]]
      /\ UNCHANGED <<conn, pc, toDuet, fromDuet>>
  BY DEF DecodeBody, threadVars, lineVars
<1>3. m.key \in Slots \cup {OtherKey} /\ m.vals \in [Keys -> Nat]
  BY <1>1, SlotFacts DEF FreshLine, MessageType
<1> HIDE DEF m
<1>4. \A k \in Keys : mSeq' = k => m.key = k
  BY <1>2, <1>3, SlotFacts DEF SeqOfKey
<1>5. \A k \in Keys : shown'[k] = -1 => shown[k] = -1 /\ m.key # k
  BY <1>2, <1>3
<1>6. OkIsLoaded'
  <2>1. \A k \in Keys : state'[k] = "Ok" => state[k] = "Ok"
    BY SlotFacts DEF DecodeBody, UpdateSeqs
  <2> QED
    BY <1>5, <2>1 DEF LoadedInv, OkIsLoaded
<1>7. BodyIsLoaded'
  BY <1>4, <1>5 DEF BodyIsLoaded
<1>8. NothingAnswered'
  BY <1>1, <1>2, <1>4 DEF LoadedInv, NothingAnswered, Clearing
<1> QED
  BY <1>6, <1>7, <1>8 DEF LoadedInv

(* A response joins the line: while the link is not up only one of another *)
(* component can.                                                          *)
LEMMA LoadedAnswer ==
  ASSUME LoadedInv, TypeOK', NEW s \in Slots \cup OtherMessages,
         fromDuet' = Append(fromDuet, Response(s)),
         conn # "CONNECTED" \/ Clearing => s \notin Keys /\ toDuet' = <<>>,
         UNCHANGED <<state, pc, conn, phase, mSeq, shown>>
  PROVE  LoadedInv'
<1>1. Response(s) \in MessageType /\ Response(s).key = s
  BY ResponseType DEF LoadedInv, Response
<1>2. /\ Len(fromDuet) \in Nat
      /\ Len(fromDuet') = Len(fromDuet) + 1
      /\ \A i \in 1..Len(fromDuet) : fromDuet'[i] = fromDuet[i]
      /\ fromDuet'[Len(fromDuet) + 1] = Response(s)
  BY <1>1, AppendProperties, LenProperties DEF LoadedInv, TypeOK
<1>3. \A i \in 1..Len(fromDuet') : i \in 1..Len(fromDuet) \/ i = Len(fromDuet) + 1
  BY <1>2
<1>4. NothingAnswered'
  BY <1>1, <1>2, <1>3 DEF LoadedInv, NothingAnswered, Clearing
<1> QED
  BY <1>4 DEF LoadedInv, OkIsLoaded, BodyIsLoaded

(* Every step on a fresh line keeps what is loaded. *)
LEMMA LoadedStep ==
  ASSUME FreshLine, LoadedInv, [Next]_vars
  PROVE  LoadedInv'
<1> USE DEF tableVars, threadVars, lineVars, decoderVars
<1>0. TypeOK' /\ TypeOK
  BY TypeStep DEF LoadedInv
<1>1. CASE Sleep
  BY <1>0, <1>1, LoadedQuiet DEF Sleep, Clearing
<1>2. CASE ReconnectBegin
  <2>1. CASE conn = "DISCONNECTED"
    BY <1>0, <1>2, <2>1, LoadedQuiet DEF ReconnectBegin, DuetReconnect, Clearing
  <2>2. CASE conn # "DISCONNECTED"
    BY <1>0, <1>2, <2>2, LoadedReset DEF ReconnectBegin, DuetReconnect
  <2> QED
    BY <2>1, <2>2
<1>3. CASE ReconnectEnd
  <2>1. Clearing /\ ~Clearing' /\ conn' = conn
    BY <1>3 DEF ReconnectEnd, Clearing
  <2>2. \A k \in Keys : state'[k] = "Init"
    BY <1>3, SlotFacts DEF ReconnectEnd, ResetSeqs
  <2>3. UNCHANGED <<toDuet, fromDuet, phase, mSeq>>
    BY <1>3 DEF ReconnectEnd
  <2> QED
    BY <1>0, <2>1, <2>2, <2>3 DEF LoadedInv, OkIsLoaded, BodyIsLoaded, NothingAnswered
<1>4. CASE Select
  <2>1. \A k \in Keys : state'[k] = "Ok" => state[k] = "Ok"
    BY <1>0, <1>4, SlotFacts DEF Select, Checked, TypeOK
  <2> QED
    BY <1>0, <1>4, <2>1, LoadedQuiet DEF Select, Clearing
<1>5. CASE Request
  <2>1. \A k \in Keys : state'[k] = "Ok" => state[k] = "Ok"
    BY <1>0, <1>5, SlotFacts DEF Request, TypeOK
  <2> QED
    BY <1>0, <1>5, <2>1, LoadedQuiet DEF Request, Clearing
<1>6. CASE Send
  <2>1. ~Clearing /\ ~Clearing' /\ conn' = conn
    BY <1>6 DEF Send, Clearing
  <2>2. conn # "CONNECTED" => toDuet' = toDuet
    BY <1>6 DEF Send
  <2>3. UNCHANGED <<state, shown, fromDuet, phase, mSeq>>
    BY <1>6 DEF Send
  <2> QED
    BY <1>0, <2>1, <2>2, <2>3 DEF LoadedInv, OkIsLoaded, BodyIsLoaded, NothingAnswered
<1>7. CASE DecodeBody
  BY <1>0, <1>7, LoadedBody
<1>8. CASE DecodeEnd
  <2>1. \A s \in Slots : state'[s] = state[s] \/ (mSeq = s /\ state'[s] = "Ok")
    BY <1>8 DEF DecodeEnd
  <2> QED
    BY <1>0, <1>8, <2>1, LoadedHead DEF DecodeEnd, Receiving
<1>9. CASE Abandon
  BY <1>0, <1>9, LoadedHead DEF Abandon, Receiving
<1>10. CASE ParserError
  <2>1. \A s \in Slots : state'[s] \in {state[s], "Error"}
    BY <1>10 DEF ParserError
  <2> QED
    BY <1>0, <1>10, <2>1, LoadedHead DEF ParserError, Receiving
<1>11. CASE ConnectDone \/ ConnectFails
  BY <1>0, <1>11, LoadedQuiet DEF ConnectDone, ConnectFails, Clearing
<1>12. CASE UserReconnect
  BY <1>0, <1>12, LoadedReset DEF UserReconnect, FreshLine
<1>13. ASSUME NEW k \in Keys, Bump(k) PROVE LoadedInv'
  BY <1>0, <1>13, LoadedQuiet DEF Bump, Clearing
<1>14. CASE Answer
  <2>1. Head(toDuet) \in Slots
    BY <1>0, <1>14, HeadTailProperties DEF Answer, TypeOK
  <2>2. ~(conn # "CONNECTED" \/ Clearing)
    BY <1>14 DEF Answer, LoadedInv, NothingAnswered
  <2> QED
    BY <1>0, <1>14, <2>1, <2>2, LoadedAnswer DEF Answer
<1>15. ASSUME NEW o \in OtherMessages, AnswerOther(o) PROVE LoadedInv'
  <2>1. o \notin Keys
    BY SlotFacts
  <2>2. conn # "CONNECTED" \/ Clearing => toDuet' = <<>>
    BY <1>15 DEF AnswerOther, LoadedInv, NothingAnswered
  <2> QED
    BY <1>0, <1>15, <2>1, <2>2, LoadedAnswer DEF AnswerOther
<1>16. CASE UNCHANGED vars
  BY <1>0, <1>16, LoadedQuiet DEF vars, Clearing
<1> QED
  BY <1>1, <1>2, <1>3, <1>4, <1>5, <1>6, <1>7, <1>8, <1>9, <1>10, <1>11, <1>12,
     <1>13, <1>14, <1>15, <1>16
  DEF Next, RequestThread, ReceivingThread, Environment

(* On a line that brings no answer of an old connection and no response    *)
(* without a key, and whose decoding ends with the connection, as on a     *)
(* serial line, a section counts as up to date only once it was received   *)
(* on this connection, whatever is lost, cut or malformed, and however     *)
(* the receiving thread of the new connection and the other threads that   *)
(* reconnect run between the two clearings of Comm::Reconnect.             *)
THEOREM UpToDateIsLoaded == FreshLine => (Spec => []OkIsLoaded)
<1> SUFFICES ASSUME FreshLine PROVE Spec => []OkIsLoaded
  OBVIOUS
<1>1. Init => LoadedInv
  <2> SUFFICES ASSUME Init PROVE LoadedInv
    OBVIOUS
  <2>1. TypeOK
    BY TypeInit
  <2>2. Len(fromDuet) = 0
    BY EmptySeq DEF Init
  <2>3. OkIsLoaded
    BY SlotFacts DEF Init, OkIsLoaded
  <2>4. BodyIsLoaded /\ NothingAnswered
    BY <2>2 DEF Init, BodyIsLoaded, NothingAnswered
  <2> QED
    BY <2>1, <2>3, <2>4 DEF LoadedInv
<1>2. LoadedInv /\ [Next]_vars => LoadedInv'
  BY LoadedStep
<1>3. LoadedInv => OkIsLoaded
  BY DEF LoadedInv
<1> QED
  BY <1>1, <1>2, <1>3, PTL DEF Spec

-----------------------------------------------------------------------------
(* The watchdog is slower than the retries.                                *)

(* What the faults can cost. *)
LEMMA LostFacts ==
  /\ RetryTicks \in Nat
  /\ \A n \in Nat : Lost(n) \in Nat /\ Lost(n + 1) = Lost(n) + RetryTicks + 1
  /\ \A n \in Nat : n > 0 => Lost(n) >= RetryTicks + 1
  /\ \A m, n \in Nat : m <= n => Lost(m) <= Lost(n)
<1>1. RetryTicks \in Nat
  BY PollingAssumption
<1>2. ASSUME NEW n \in Nat PROVE Lost(n) \in Nat
  BY <1>1 DEF Lost
<1>3. ASSUME NEW n \in Nat PROVE Lost(n + 1) = Lost(n) + RetryTicks + 1
  BY <1>1 DEF Lost
<1>4. ASSUME NEW m \in Nat, NEW n \in Nat PROVE Lost(m + n) = Lost(m) + Lost(n)
  BY <1>1 DEF Lost
<1>5. ASSUME NEW m \in Nat, NEW n \in Nat, m <= n PROVE Lost(m) <= Lost(n)
  <2>1. n - m \in Nat /\ n = m + (n - m)
    BY <1>5
  <2>2. Lost(n) = Lost(m) + Lost(n - m)
    BY <1>4, <2>1
  <2> QED
    BY <1>2, <2>1, <2>2
<1>6. ASSUME NEW n \in Nat, n > 0 PROVE Lost(n) >= RetryTicks + 1
  <2>1. n - 1 \in Nat /\ n = (n - 1) + 1
    BY <1>6
  <2>2. Lost(n) = Lost(n - 1) + RetryTicks + 1 /\ Lost(n - 1) \in Nat
    BY <1>2, <1>3, <2>1
  <2> QED
    BY <1>1, <2>2
<1> QED
  BY <1>1, <1>2, <1>3, <1>5, <1>6

(* The counters of a poll. *)
LEMMA Counters ==
  ASSUME TypeOK
  PROVE  /\ silence \in Nat /\ faults \in Nat /\ age[Freq] \in Nat
         /\ Lost(faults) \in Nat /\ RetryTicks \in Nat
         /\ \A s \in Slots : age[s] \in Nat
BY LostFacts, SlotFacts DEF TypeOK

(* The link of a watchdog that never bites is closed by other threads only. *)
LEMMA NotReconnected ==
  ASSUME PatientWatchdog, PatientInv, ReconnectBegin
  PROVE  conn = "DISCONNECTED"
<1>1. silence <= Lost(faults) + 1 \/ conn = "DISCONNECTED"
  BY DEF ReconnectBegin, PatientInv, InTime, Polling
<1>2. Lost(faults) <= Lost(MaxFaults) /\ Lost(MaxFaults) \in Nat
  BY LostFacts, PollingAssumption DEF PatientInv, Saturates, TypeOK
<1>3. silence \in Nat /\ Lost(faults) \in Nat /\ WatchdogTicks \in Nat
  BY Counters, PollingAssumption DEF PatientInv
<1>4. silence <= WatchdogTicks \/ conn = "DISCONNECTED"
  BY <1>1, <1>2, <1>3 DEF PatientWatchdog
<1> QED
  BY <1>4 DEF ReconnectBegin, Alive

(* Whatever keeps the line and the thread, and asks for nothing, keeps     *)
(* what is awaited.                                                        *)
LEMMA NothingLostQuiet ==
  ASSUME NothingLost, UNCHANGED <<toDuet, fromDuet, pc, selected, faults>>,
         conn' = conn \/ (conn = "CONNECTING" /\ conn' = "CONNECTED"),
         \A s \in Slots : state'[s] = "Requested" => state[s] = "Requested"
  PROVE  NothingLost'
BY DEF NothingLost, Awaited

(* A step that counts a fault owes nothing. *)
LEMMA NothingLostFault ==
  ASSUME TypeOK, faults' = faults + 1
  PROVE  NothingLost'
BY DEF NothingLost, TypeOK

(* The same thread and no new fault, and whoever is awaited on the line    *)
(* still is, or is no longer requested.                                    *)
LEMMA NothingLostLine ==
  ASSUME NothingLost, UNCHANGED <<pc, selected, faults, conn>>,
         \A s \in Slots : state'[s] = "Requested" => state[s] = "Requested",
         \A s \in Slots : state'[s] = "Requested" /\ Awaited(s) => Awaited(s)'
  PROVE  NothingLost'
BY DEF NothingLost

(* An answer waits for the same sequence as its request did. *)
LEMMA AnswerAwaited ==
  ASSUME TypeOK, Answer, NEW s \in Slots, Awaited(s)
  PROVE  Awaited(s)'
<1> DEFINE r == Response(Head(toDuet))
<1>1. /\ Head(toDuet) \in Slots /\ r.key = Head(toDuet) /\ Head(toDuet) = toDuet[1]
      /\ Len(toDuet) \in Nat \ {0} /\ Len(toDuet') = Len(toDuet) - 1
      /\ \A i \in 1..Len(toDuet') : toDuet'[i] = toDuet[i + 1]
  BY HeadTailProperties, EmptySeq DEF Answer, TypeOK, Response
<1>2. /\ Len(fromDuet) \in Nat /\ Len(fromDuet') = Len(fromDuet) + 1
      /\ \A i \in 1..Len(fromDuet) : fromDuet'[i] = fromDuet[i]
      /\ fromDuet'[Len(fromDuet) + 1] = r
  BY <1>1, ResponseType, AppendProperties, LenProperties DEF Answer, TypeOK
<1>3. CASE pc = "send" /\ selected = s
  BY <1>3 DEF Answer, Awaited, threadVars
<1>4. ASSUME NEW i \in 1..Len(toDuet), toDuet[i] = s PROVE Awaited(s)'
  <2>1. CASE i = 1
    <3>1. Len(fromDuet) + 1 \in 1..Len(fromDuet') /\ r.key = s
      BY <1>1, <1>2, <1>4, <2>1
    <3> QED
      BY <1>2, <3>1 DEF Awaited
  <2>2. CASE i # 1
    <3>1. i - 1 \in 1..Len(toDuet') /\ (i - 1) + 1 = i
      BY <1>1, <2>2
    <3> QED
      BY <1>1, <1>4, <3>1 DEF Awaited
  <2> QED
    BY <2>1, <2>2
<1>5. ASSUME NEW i \in 1..Len(fromDuet), fromDuet[i].key = s PROVE Awaited(s)'
  BY <1>2, <1>5 DEF Awaited
<1> QED
  BY <1>3, <1>4, <1>5 DEF Awaited

(* A response joins the line behind those that are awaited. *)
LEMMA OtherAwaited ==
  ASSUME TypeOK, NEW o \in OtherMessages, AnswerOther(o), NEW s \in Slots, Awaited(s)
  PROVE  Awaited(s)'
<1>1. /\ Len(fromDuet) \in Nat /\ Len(fromDuet') = Len(fromDuet) + 1
      /\ \A i \in 1..Len(fromDuet) : fromDuet'[i] = fromDuet[i]
  BY ResponseType, AppendProperties, LenProperties DEF AnswerOther, TypeOK
<1> QED
  BY <1>1 DEF Awaited, AnswerOther, threadVars

(* The message that ends leaves only its own sequence without an answer,   *)
(* and settles that.                                                       *)
LEMMA EndAwaited ==
  ASSUME TypeOK, BodyNamesSeq, DecodeEnd, NEW s \in Slots,
         state'[s] = "Requested", Awaited(s)
  PROVE  Awaited(s)'
<1>1. s # mSeq
  BY DEF DecodeEnd
<1>2. Head(fromDuet).key # s
  BY <1>1 DEF BodyNamesSeq, DecodeEnd
<1>3. ASSUME NEW i \in 1..Len(fromDuet), fromDuet[i].key = s PROVE Awaited(s)'
  <2>1. i # 1
    BY <1>2, <1>3, HeadAndTail DEF DecodeEnd, Receiving
  <2>2. i - 1 \in 1..Len(fromDuet') /\ (i - 1) + 1 = i
    BY <2>1, HeadAndTail DEF DecodeEnd, Receiving
  <2>3. fromDuet'[i - 1] = fromDuet[i]
    BY <2>2, HeadAndTail DEF DecodeEnd, Receiving
  <2> QED
    BY <1>3, <2>2, <2>3 DEF Awaited
<1> QED
  BY <1>3 DEF Awaited, DecodeEnd, threadVars

(* The request that is sent is awaited on the line. *)
LEMMA SendAwaited ==
  ASSUME TypeOK, Send, conn = "CONNECTED", NEW s \in Slots, Awaited(s)
  PROVE  Awaited(s)'
<1>1. toDuet' = Append(toDuet, selected) /\ selected \in Slots /\ UNCHANGED fromDuet
  BY DEF Send, TypeOK
<1>2. /\ Len(toDuet) \in Nat /\ Len(toDuet') = Len(toDuet) + 1
      /\ \A i \in 1..Len(toDuet) : toDuet'[i] = toDuet[i]
      /\ toDuet'[Len(toDuet) + 1] = selected
  BY <1>1, AppendProperties, LenProperties DEF TypeOK
<1>3. Len(toDuet) + 1 \in 1..Len(toDuet')
  BY <1>2
<1>4. CASE selected = s
  BY <1>2, <1>3, <1>4 DEF Awaited
<1>5. CASE selected # s
  BY <1>1, <1>2, <1>5 DEF Awaited
<1> QED
  BY <1>4, <1>5

(* Without faults the thread asks on a link that is up, and what it asks   *)
(* for is answered.                                                        *)
LEMMA NothingLostStep ==
  ASSUME PatientWatchdog, PatientInv, [Next]_vars
  PROVE  NothingLost'
<1> USE DEF tableVars, threadVars, lineVars, decoderVars
<1>0. TypeOK /\ BodyNamesSeq /\ NothingLost
  BY DEF PatientInv
<1>1. CASE Sleep
  <2>1. pc = "idle" /\ pc' = "check" /\ UNCHANGED <<state, conn, lineVars, faults>>
    BY <1>1 DEF Sleep
  <2>2. toDuet = <<>> /\ fromDuet = <<>> /\ conn # "CONNECTING"
    BY <1>1 DEF Sleep, PatientWatchdog
  <2>3. \A s \in Slots : ~Awaited(s)
    <3>1. Len(toDuet) = 0 /\ Len(fromDuet) = 0
      BY <2>2, EmptySeq
    <3> QED
      BY <2>1, <3>1 DEF Awaited
  <2> QED
    BY <1>0, <2>1, <2>2, <2>3 DEF NothingLost
<1>2. CASE ReconnectBegin
  <2>1. conn = "DISCONNECTED"
    BY <1>2, NotReconnected
  <2>2. pc = "check" /\ pc' = "clearAndReturn" /\ UNCHANGED <<state, lineVars, selected>>
    BY <1>2, <2>1 DEF ReconnectBegin, DuetReconnect
  <2>3. CASE conn' = "DISCONNECTED"
    <3>1. faults' = faults + 1
      BY <1>2, <2>3 DEF ReconnectBegin, DuetReconnect
    <3> QED
      BY <1>0, <3>1, NothingLostFault
  <2>4. CASE conn' # "DISCONNECTED"
    <3>1. faults' = faults
      BY <1>2, <2>4 DEF ReconnectBegin, DuetReconnect
    <3>2. \A s \in Slots : Awaited(s) => Awaited(s)'
      BY <2>2 DEF Awaited
    <3> QED
      BY <1>0, <2>2, <2>4, <3>1, <3>2 DEF NothingLost
  <2> QED
    BY <2>3, <2>4
<1>3. CASE ReconnectEnd
  <2>1. \A s \in Slots : state'[s] = "Requested" => state[s] = "Requested"
    BY <1>3, SlotFacts DEF ReconnectEnd, ResetSeqs
  <2>2. pc = "clearAndReturn" /\ pc' = "idle"
    BY <1>3 DEF ReconnectEnd, PatientInv, NeverImpatient
  <2>3. UNCHANGED <<toDuet, fromDuet, conn, selected, faults>>
    BY <1>3 DEF ReconnectEnd
  <2>4. \A s \in Slots : Awaited(s) => Awaited(s)'
    BY <2>2, <2>3 DEF Awaited
  <2> QED
    BY <1>0, <2>1, <2>2, <2>3, <2>4 DEF NothingLost
<1>4. CASE Select
  <2>1. \A s \in Slots : state'[s] = "Requested" => state[s] = "Requested"
    BY <1>0, <1>4 DEF Select, Checked, TypeOK
  <2>2. pc = "check" /\ pc' \in {"idle", "request"} /\ conn # "DISCONNECTED"
    BY <1>4 DEF Select, PatientInv, NeverImpatient, Alive
  <2>3. UNCHANGED <<toDuet, fromDuet, conn, faults>>
    BY <1>4 DEF Select
  <2>4. \A s \in Slots : Awaited(s) => Awaited(s)'
    BY <2>2, <2>3 DEF Awaited
  <2> QED
    BY <1>0, <2>1, <2>2, <2>3, <2>4 DEF NothingLost
<1>5. CASE Request
  <2>1. pc = "request" /\ pc' = "send"
    BY <1>5 DEF Request
  <2>2. UNCHANGED <<toDuet, fromDuet, conn, selected, faults>>
    BY <1>5 DEF Request
  <2>3. \A s \in Slots : Awaited(s) => Awaited(s)'
    BY <2>1, <2>2 DEF Awaited
  <2>4. \A s \in Slots : state'[s] = "Requested" => state[s] = "Requested" \/ s = selected
    BY <1>0, <1>5 DEF Request, TypeOK
  <2>5. Awaited(selected)'
    BY <2>1, <2>2 DEF Awaited
  <2> QED
    BY <1>0, <2>1, <2>2, <2>3, <2>4, <2>5 DEF NothingLost
<1>6. CASE Send
  <2>1. pc = "send" /\ pc' = "idle" /\ UNCHANGED <<state, conn, faults>>
    BY <1>6 DEF Send
  <2>2. faults = 0 => conn = "CONNECTED"
    BY <1>0, <2>1 DEF NothingLost, TypeOK, ConnStates
  <2> QED
    BY <1>0, <1>6, <2>1, <2>2, SendAwaited DEF NothingLost
<1>7. CASE DecodeBody
  <2>1. \A s \in Slots : state'[s] = "Requested" => state[s] = "Requested"
    BY <1>7 DEF DecodeBody, UpdateSeqs
  <2> QED
    BY <1>0, <1>7, <2>1, NothingLostQuiet DEF DecodeBody
<1>8. CASE DecodeEnd
  <2>1. \A s \in Slots : state'[s] = "Requested" => state[s] = "Requested"
    BY <1>8 DEF DecodeEnd
  <2> QED
    BY <1>0, <1>8, <2>1, EndAwaited, NothingLostLine DEF DecodeEnd
<1>9. CASE Abandon
  BY <1>0, <1>9, NothingLostFault DEF Abandon
<1>10. CASE ParserError
  BY <1>0, <1>10, NothingLostFault DEF ParserError
<1>11. CASE ConnectDone
  BY <1>0, <1>11, NothingLostQuiet DEF ConnectDone
<1>11a. CASE ConnectFails
  BY <1>0, <1>11a, NothingLostFault DEF ConnectFails
<1>12. CASE UserReconnect
  BY <1>0, <1>12, NothingLostFault DEF UserReconnect
<1>13. ASSUME NEW k \in Keys, Bump(k) PROVE NothingLost'
  BY <1>0, <1>13, NothingLostQuiet DEF Bump
<1>14. CASE Answer
  BY <1>0, <1>14, AnswerAwaited, NothingLostLine DEF Answer
<1>15. ASSUME NEW o \in OtherMessages, AnswerOther(o) PROVE NothingLost'
  BY <1>0, <1>15, OtherAwaited, NothingLostLine DEF AnswerOther
<1>16. CASE UNCHANGED vars
  BY <1>0, <1>16, NothingLostQuiet DEF vars
<1> QED
  BY <1>1, <1>2, <1>3, <1>4, <1>5, <1>6, <1>7, <1>8, <1>9, <1>10, <1>11, <1>11a, <1>12,
     <1>13, <1>14, <1>15, <1>16
  DEF Next, RequestThread, ReceivingThread, Environment

(* The message under way stays the first on the line. *)
LEMMA BodyNamesSeqStep ==
  ASSUME TypeOK, BodyNamesSeq, [Next]_vars
  PROVE  BodyNamesSeq'
<1> USE DEF tableVars, threadVars, lineVars, decoderVars
<1>1. CASE UNCHANGED <<phase, mSeq, fromDuet>>
  BY <1>1 DEF BodyNamesSeq
<1>2. CASE phase' = "begin"
  BY <1>2 DEF BodyNamesSeq
<1>3. CASE DecodeBody
  BY <1>3, SlotFacts DEF DecodeBody, BodyNamesSeq, SeqOfKey
<1>4. ASSUME NEW s \in Slots \cup OtherMessages,
             fromDuet' = Append(fromDuet, Response(s)), UNCHANGED <<phase, mSeq>>
      PROVE  BodyNamesSeq'
  <2>1. phase = "body" => Head(fromDuet') = Head(fromDuet)
    <3>1. Response(s) \in MessageType
      BY ResponseType
    <3>2. fromDuet # <<>> => Head(Append(fromDuet, Response(s))) = Head(fromDuet)
      BY <3>1, AppendProperties, HeadTailProperties, LenProperties, EmptySeq DEF TypeOK
    <3> QED
      BY <1>4, <3>2 DEF TypeOK
  <2> QED
    BY <1>4, <2>1 DEF BodyNamesSeq
<1>5. CASE ReconnectBegin
  BY <1>1, <1>2, <1>5 DEF ReconnectBegin, DuetReconnect, CloseTransport
<1>6. CASE Answer
  <2>1. Head(toDuet) \in Slots
    BY <1>6, HeadTailProperties DEF Answer, TypeOK
  <2> QED
    BY <1>4, <1>6, <2>1 DEF Answer
<1>7. ASSUME NEW o \in OtherMessages, AnswerOther(o) PROVE BodyNamesSeq'
  BY <1>4, <1>7 DEF AnswerOther
<1>8. CASE Sleep \/ ReconnectEnd \/ Select \/ Request \/ Send
  BY <1>1, <1>8 DEF Sleep, ReconnectEnd, Select, Request, Send
<1>9. CASE DecodeEnd
  BY <1>9 DEF DecodeEnd, BodyNamesSeq
<1>10. CASE Abandon \/ ParserError
  BY <1>2, <1>10 DEF Abandon, ParserError
<1>11. CASE UserReconnect
  BY <1>1, <1>2, <1>11 DEF UserReconnect, CloseTransport
<1>12. CASE ConnectDone \/ ConnectFails \/ \E k \in Keys : Bump(k)
  BY <1>1, <1>12 DEF ConnectDone, ConnectFails, Bump
<1>13. CASE UNCHANGED vars
  BY <1>1, <1>13 DEF vars
<1> QED
  BY <1>3, <1>5, <1>6, <1>7, <1>8, <1>9, <1>10, <1>11, <1>12, <1>13
  DEF Next, RequestThread, ReceivingThread, Environment

(* A line that loses its first message, or everything, stays quiet. *)
LEMMA QuietLine ==
  ASSUME TypeOK, \A i \in 1..Len(fromDuet) : fromDuet[i].key \notin Slots,
         \/ fromDuet' = fromDuet
         \/ fromDuet' = <<>>
         \/ fromDuet # <<>> /\ fromDuet' = Tail(fromDuet)
  PROVE  \A i \in 1..Len(fromDuet') : fromDuet'[i].key \notin Slots
<1>1. CASE fromDuet' = <<>>
  BY <1>1, EmptySeq
<1>2. CASE fromDuet # <<>> /\ fromDuet' = Tail(fromDuet)
  <2> SUFFICES ASSUME NEW i \in 1..Len(fromDuet')
               PROVE  fromDuet'[i].key \notin Slots
    OBVIOUS
  <2>1. i \in 1..Len(Tail(fromDuet))
    BY <1>2
  <2>2. fromDuet'[i] = fromDuet[i + 1]
    BY <1>2, <2>1, HeadAndTail
  <2>3. Len(fromDuet) \in Nat /\ Len(Tail(fromDuet)) = Len(fromDuet) - 1
    BY <1>2, HeadAndTail
  <2>4. i + 1 \in 1..Len(fromDuet)
    BY <2>1, <2>3
  <2> QED
    BY <2>2, <2>4
<1> QED
  BY <1>1, <1>2

(* A thread that stays where it is, on a line that gains no answer. *)
LEMMA QuietPollKept ==
  ASSUME TypeOK, QuietPoll, UNCHANGED <<pc, age>>,
         \A s \in Slots : state'[s] = "Requested" => state[s] = "Requested",
         toDuet' = toDuet \/ toDuet' = <<>>,
         \/ fromDuet' = fromDuet
         \/ fromDuet' = <<>>
         \/ fromDuet # <<>> /\ fromDuet' = Tail(fromDuet)
  PROVE  QuietPoll'
<1>1. pc = "check" => \A s \in Slots : state'[s] = "Requested" => age'[s] >= 1
  BY DEF QuietPoll
<1>2. Polling' <=> Polling
  BY DEF Polling
<1>3. Polling => toDuet' = <<>> /\ \A i \in 1..Len(fromDuet') : fromDuet'[i].key \notin Slots
  BY QuietLine DEF QuietPoll
<1> QED
  BY <1>1, <1>2, <1>3 DEF QuietPoll

(* What CloseTransport does to the line. *)
LEMMA CloseLine ==
  ASSUME TypeOK, CloseTransport
  PROVE  /\ toDuet' = toDuet \/ toDuet' = <<>>
         /\ \/ fromDuet' = fromDuet
            \/ fromDuet' = <<>>
            \/ fromDuet # <<>> /\ fromDuet' = Tail(fromDuet)
BY DEF CloseTransport, TypeOK

(* A poll starts on a line without requests and answers. *)
LEMMA QuietPollStep ==
  ASSUME PatientWatchdog, PatientInv, [Next]_vars
  PROVE  QuietPoll'
<1> USE DEF tableVars, threadVars, lineVars, decoderVars
<1>0. TypeOK /\ QuietPoll
  BY DEF PatientInv
<1>1. CASE Sleep
  <2>1. toDuet' = <<>> /\ fromDuet' = <<>>
    BY <1>1 DEF Sleep, PatientWatchdog
  <2>2. Len(fromDuet') = 0
    BY <2>1, EmptySeq
  <2>3. \A s \in Slots : age[s] \in Nat /\ age'[s] = IF age[s] > RetryTicks THEN age[s] ELSE age[s] + 1
    BY <1>0, <1>1, Counters DEF Sleep, OneTick
  <2>4. \A s \in Slots : age'[s] >= 1
    BY <2>3, PollingAssumption
  <2> QED
    BY <2>1, <2>2, <2>4 DEF QuietPoll
<1>2. CASE ReconnectBegin \/ ReconnectEnd
  <2>1. ~Polling' /\ pc' # "check"
    BY <1>2 DEF ReconnectBegin, ReconnectEnd, Polling, PatientInv, NeverImpatient
  <2> QED
    BY <2>1 DEF QuietPoll
<1>3. CASE Select
  <2>1. Polling /\ pc' # "check"
    BY <1>3 DEF Select, Polling, PatientInv, NeverImpatient
  <2> QED
    BY <1>0, <1>3, <2>1 DEF Select, QuietPoll
<1>4. CASE Request
  BY <1>0, <1>4 DEF Request, QuietPoll, Polling
<1>5. CASE Send
  BY <1>5 DEF Send, QuietPoll, Polling
<1>6. CASE DecodeBody
  <2>1. \A s \in Slots : state'[s] = "Requested" => state[s] = "Requested"
    BY <1>6 DEF DecodeBody, UpdateSeqs
  <2> QED
    BY <1>0, <1>6, <2>1, QuietPollKept DEF DecodeBody
<1>7. CASE DecodeEnd
  <2>1. \A s \in Slots : state'[s] = "Requested" => state[s] = "Requested"
    BY <1>7 DEF DecodeEnd
  <2> QED
    BY <1>0, <1>7, <2>1, QuietPollKept DEF DecodeEnd, Receiving
<1>8. CASE Abandon
  BY <1>0, <1>8, QuietPollKept DEF Abandon, Receiving
<1>9. CASE ParserError
  <2>1. \A s \in Slots : state'[s] = "Requested" => state[s] = "Requested"
    BY <1>9 DEF ParserError
  <2> QED
    BY <1>0, <1>9, <2>1, QuietPollKept DEF ParserError, Receiving
<1>10. CASE ConnectDone \/ ConnectFails \/ \E k \in Keys : Bump(k)
  BY <1>0, <1>10, QuietPollKept DEF ConnectDone, ConnectFails, Bump
<1>11. CASE UserReconnect
  <2>1. \A s \in Slots : state'[s] = "Requested" => state[s] = "Requested"
    BY <1>11 DEF UserReconnect, ResetSeqs
  <2>2. UNCHANGED <<pc, age>> /\ (CloseTransport \/ UNCHANGED lineVars)
    BY <1>11 DEF UserReconnect
  <2> QED
    BY <1>0, <2>1, <2>2, CloseLine, QuietPollKept
<1>12. CASE Answer
  <2>1. ~Polling
    BY <1>0, <1>12 DEF Answer, QuietPoll
  <2> QED
    BY <1>12, <2>1 DEF Answer, QuietPoll, Polling
<1>13. ASSUME NEW o \in OtherMessages, AnswerOther(o) PROVE QuietPoll'
  <2>1. Response(o) \in MessageType /\ Response(o).key = o
    BY <1>0, ResponseType DEF Response
  <2>2. /\ Len(fromDuet) \in Nat /\ Len(fromDuet') = Len(fromDuet) + 1
        /\ \A i \in 1..Len(fromDuet) : fromDuet'[i] = fromDuet[i]
        /\ fromDuet'[Len(fromDuet) + 1] = Response(o)
    BY <1>0, <1>13, <2>1, AppendProperties, LenProperties DEF AnswerOther, TypeOK
  <2>3. \A i \in 1..Len(fromDuet') : i \in 1..Len(fromDuet) \/ i = Len(fromDuet) + 1
    BY <2>2
  <2>4. o \notin Slots
    BY SlotFacts
  <2>5. Polling => \A i \in 1..Len(fromDuet') : fromDuet'[i].key \notin Slots
    BY <1>0, <2>1, <2>2, <2>3, <2>4 DEF QuietPoll
  <2> QED
    BY <1>0, <1>13, <2>5 DEF AnswerOther, QuietPoll, Polling
<1>14. CASE UNCHANGED vars
  BY <1>0, <1>14, QuietPollKept DEF vars
<1> QED
  BY <1>1, <1>2, <1>3, <1>4, <1>5, <1>6, <1>7, <1>8, <1>9, <1>10, <1>11, <1>12,
     <1>13, <1>14
  DEF Next, RequestThread, ReceivingThread, Environment

(* What a thread that is not in a poll, or keeps the last choice, leaves   *)
(* true of it.                                                             *)
LEMMA FreqWasLastKept ==
  ASSUME FreqWasLast,
         sendFreqNext' \/ UNCHANGED <<sendFreqNext, pc, selected, age>>
  PROVE  FreqWasLast'
BY DEF FreqWasLast

(* After everything was asked for, its age is that of the poll. *)
LEMMA FreqWasLastStep ==
  ASSUME PatientInv, [Next]_vars
  PROVE  FreqWasLast'
<1> USE DEF tableVars, threadVars, lineVars, decoderVars
<1>0. TypeOK /\ FreqWasLast
  BY DEF PatientInv
<1>1. CASE Sleep
  <2>1. age'[Freq] = IF age[Freq] > RetryTicks THEN age[Freq] ELSE age[Freq] + 1
    BY <1>1, SlotFacts DEF Sleep, OneTick
  <2>2. age[Freq] = 0 => age'[Freq] <= 1
    BY <2>1, PollingAssumption
  <2> QED
    BY <1>0, <1>1, <2>2 DEF Sleep, FreqWasLast
<1>2. CASE ReconnectBegin
  <2>1. pc' \in {"clearAndReturn", "clearAndSend"}
    BY <1>2 DEF ReconnectBegin
  <2> QED
    BY <2>1 DEF FreqWasLast
<1>3. CASE ReconnectEnd
  BY <1>0, <1>3, FreqWasLastKept DEF ReconnectEnd, ResetSeqs
<1>4. CASE Select
  <2>1. ~sendFreqNext' => selected' = Freq /\ pc' = "request"
    BY <1>4, SlotFacts DEF Select
  <2> QED
    BY <2>1 DEF FreqWasLast
<1>5. CASE Request
  <2>1. selected = Freq => age'[Freq] = 0
    BY <1>0, <1>5, SlotFacts DEF Request, TypeOK
  <2> QED
    BY <1>0, <1>5, <2>1 DEF Request, FreqWasLast
<1>6. CASE Send
  BY <1>0, <1>6 DEF Send, FreqWasLast
<1>7. CASE ReceivingThread
  BY <1>0, <1>7, FreqWasLastKept
  DEF ReceivingThread, DecodeBody, DecodeEnd, Abandon, ParserError
<1>8. CASE UserReconnect
  BY <1>0, <1>8, FreqWasLastKept DEF UserReconnect, ResetSeqs
<1>9. CASE ConnectDone \/ ConnectFails \/ Answer \/ \E k \in Keys : Bump(k)
  BY <1>0, <1>9, FreqWasLastKept DEF ConnectDone, ConnectFails, Answer, Bump
<1>10. CASE \E o \in OtherMessages : AnswerOther(o)
  BY <1>0, <1>10, FreqWasLastKept DEF AnswerOther
<1>11. CASE UNCHANGED vars
  BY <1>0, <1>11, FreqWasLastKept DEF vars
<1> QED
  BY <1>1, <1>2, <1>3, <1>4, <1>5, <1>6, <1>7, <1>8, <1>9, <1>10, <1>11
  DEF Next, RequestThread, Environment

(* The bounds of the counters. *)
LEMMA SaturatesStep ==
  ASSUME PatientInv, [Next]_vars
  PROVE  Saturates'
<1> USE DEF tableVars, threadVars, lineVars, decoderVars
<1>0. TypeOK /\ Saturates
  BY DEF PatientInv
<1>1. RetryTicks \in Nat /\ MaxFaults \in Nat /\ faults \in Nat /\ \A s \in Slots : age[s] \in Nat
  BY <1>0, Counters, PollingAssumption
<1>2. faults < MaxFaults => faults + 1 <= MaxFaults
  BY <1>1
<1>3. CASE Sleep
  <2>1. \A s \in Slots : age'[s] = IF age[s] > RetryTicks THEN age[s] ELSE age[s] + 1
    BY <1>3 DEF Sleep, OneTick
  <2>2. \A s \in Slots : age'[s] <= RetryTicks + 1
    BY <1>0, <1>1, <2>1 DEF Saturates
  <2> QED
    BY <1>0, <1>3, <2>2 DEF Sleep, Saturates
<1>4. CASE Request
  <2>1. \A s \in Slots : age'[s] = age[s] \/ age'[s] = 0
    BY <1>0, <1>4 DEF Request, TypeOK
  <2>2. \A s \in Slots : age'[s] <= RetryTicks + 1
    BY <1>0, <1>1, <2>1 DEF Saturates
  <2> QED
    BY <1>0, <1>4, <2>2 DEF Request, Saturates
<1>5. CASE UNCHANGED age /\ (faults' = faults \/ (faults < MaxFaults /\ faults' = faults + 1))
  BY <1>0, <1>2, <1>5 DEF Saturates
<1>6. CASE ReconnectBegin
  BY <1>5, <1>6 DEF ReconnectBegin, DuetReconnect
<1>7. CASE ReconnectEnd \/ Select \/ Send
  BY <1>5, <1>7 DEF ReconnectEnd, Select, Send
<1>8. CASE ReceivingThread
  BY <1>5, <1>8 DEF ReceivingThread, DecodeBody, DecodeEnd, Abandon, ParserError
<1>9. CASE Environment
  BY <1>5, <1>9 DEF Environment, ConnectDone, ConnectFails, UserReconnect, Answer, AnswerOther, Bump
<1>10. CASE UNCHANGED vars
  BY <1>5, <1>10 DEF vars
<1> QED
  BY <1>3, <1>4, <1>6, <1>7, <1>8, <1>9, <1>10 DEF Next, RequestThread

(* The watchdog never sees more than the faults can cost. *)
LEMMA NeverImpatientStep ==
  ASSUME PatientWatchdog, PatientInv, [Next]_vars
  PROVE  NeverImpatient'
<1> USE DEF tableVars, threadVars, lineVars, decoderVars
<1>0. NeverImpatient
  BY DEF PatientInv
<1>1. CASE ReconnectBegin
  <2>1. conn = "DISCONNECTED"
    BY <1>1, NotReconnected
  <2> QED
    BY <1>1, <2>1 DEF ReconnectBegin, NeverImpatient
<1>2. CASE Sleep \/ ReconnectEnd \/ Select \/ Request \/ Send
  <2>1. pc' \in {"check", "idle", "request", "send"}
    BY <1>0, <1>2 DEF Sleep, ReconnectEnd, Select, Request, Send, NeverImpatient
  <2> QED
    BY <2>1 DEF NeverImpatient
<1>3. CASE pc' = pc /\ (silence' = silence \/ silence' = 0)
  BY <1>0, <1>3 DEF NeverImpatient
<1>4. CASE ReceivingThread
  BY <1>3, <1>4 DEF ReceivingThread, DecodeBody, DecodeEnd, Abandon, ParserError
<1>5. CASE Environment
  BY <1>3, <1>5 DEF Environment, ConnectDone, ConnectFails, UserReconnect, Answer, AnswerOther, Bump
<1>6. CASE UNCHANGED vars
  BY <1>3, <1>6 DEF vars
<1> QED
  BY <1>1, <1>2, <1>4, <1>5, <1>6 DEF Next, RequestThread

(* A request that nobody will answer any more has cost a fault. *)
LEMMA UnansweredIsFault ==
  \A s \in Slots :
      /\ TypeOK /\ NothingLost /\ QuietPoll
      /\ state[s] = "Requested"
      /\ pc = "check" \/ (pc = "idle" /\ LineEmpty)
      => faults > 0
<1> SUFFICES ASSUME NEW s \in Slots, TypeOK, NothingLost, QuietPoll,
                    state[s] = "Requested",
                    pc = "check" \/ (pc = "idle" /\ LineEmpty)
             PROVE  faults > 0
  OBVIOUS
<1>1. toDuet = <<>> /\ \A i \in 1..Len(fromDuet) : fromDuet[i].key # s
  <2>1. CASE pc = "check"
    BY <2>1 DEF QuietPoll, Polling
  <2>2. CASE pc = "idle" /\ LineEmpty
    <3>1. fromDuet = <<>> /\ Len(fromDuet) = 0
      BY <2>2, EmptySeq DEF LineEmpty
    <3> QED
      BY <2>2, <3>1 DEF LineEmpty
  <2> QED
    BY <2>1, <2>2
<1>2. Len(toDuet) = 0
  BY <1>1, EmptySeq
<1>3. ~Awaited(s)
  BY <1>1, <1>2 DEF Awaited
<1>4. faults # 0 /\ faults \in Nat
  BY <1>3 DEF NothingLost, TypeOK
<1> QED
  BY <1>4

(* A silence that a fault has paid for is in time. *)
LEMMA PaidIsInTime ==
  TypeOK /\ (Polling \/ pc = "idle" => silence <= Lost(faults) - RetryTicks) => InTime
<1> SUFFICES ASSUME TypeOK, Polling \/ pc = "idle" => silence <= Lost(faults) - RetryTicks
             PROVE  InTime
  OBVIOUS
<1>1. /\ silence \in Nat /\ age[Freq] \in Nat
      /\ Lost(faults) \in Nat /\ RetryTicks \in Nat
  BY Counters
<1>2. Polling \/ pc = "idle" => silence <= Lost(faults) + 1
  BY <1>1
<1>3. IdleInTime
  BY <1>1 DEF IdleInTime
<1>4. CheckInTime
  BY <1>1 DEF CheckInTime, Polling
<1> QED
  BY <1>2, <1>3, <1>4 DEF InTime

(* So is no silence at all, on a link that is up. *)
LEMMA AnsweredIsInTime ==
  TypeOK /\ NothingLost /\ QuietPoll /\ silence = 0 /\ ~(Polling /\ conn = "CONNECTING")
  => InTime
<1> SUFFICES ASSUME TypeOK, NothingLost, QuietPoll, silence = 0,
                    ~(Polling /\ conn = "CONNECTING")
             PROVE  InTime
  OBVIOUS
<1>1. /\ faults \in Nat /\ age[Freq] \in Nat
      /\ Lost(faults) \in Nat /\ RetryTicks \in Nat
  BY Counters
<1>2. faults > 0 => Lost(faults) >= RetryTicks + 1
  BY <1>1, LostFacts
<1>3. ASSUME state[Freq] = "Requested", pc = "check" \/ (pc = "idle" /\ LineEmpty)
      PROVE  0 <= Lost(faults) - RetryTicks + age[Freq]
  BY <1>1, <1>2, <1>3, UnansweredIsFault, SlotFacts
<1>4. IdleInTime
  BY <1>1, <1>3 DEF IdleInTime
<1>5. CheckInTime
  BY <1>1, <1>3 DEF CheckInTime
<1>6. silence <= Lost(faults) + 1
  BY <1>1
<1> QED
  BY <1>4, <1>5, <1>6 DEF InTime

(* What a step keeps that does not count, empty the line or ask. *)
LEMMA InTimeKept ==
  ASSUME InTime, UNCHANGED <<pc, silence, faults, sendFreqNext, age>>,
         conn' = conn \/ (conn = "CONNECTING" /\ conn' = "CONNECTED"),
         state'[Freq] = state[Freq],
         LineEmpty' => LineEmpty
  PROVE  InTime'
<1>1. IdleInTime => IdleInTime'
  BY DEF IdleInTime
<1>2. CheckInTime => CheckInTime'
  BY DEF CheckInTime
<1>3. Polling' <=> Polling
  BY DEF Polling
<1> QED
  BY <1>1, <1>2, <1>3 DEF InTime

(* A fault pays for the silence so far. *)
LEMMA InTimeFault ==
  ASSUME TypeOK, TypeOK', InTime, conn # "DISCONNECTED", faults' = faults + 1,
         UNCHANGED <<silence, pc>>
  PROVE  InTime'
<1>1. silence \in Nat /\ Lost(faults) \in Nat /\ RetryTicks \in Nat /\ faults \in Nat
  BY Counters
<1>2. Lost(faults') = Lost(faults) + RetryTicks + 1
  BY <1>1, LostFacts
<1>3. Polling' \/ pc' = "idle" => silence <= Lost(faults) + 1
  BY DEF InTime, Polling
<1>4. Polling' \/ pc' = "idle" => silence' <= Lost(faults') - RetryTicks
  BY <1>1, <1>2, <1>3
<1>5. TypeOK' /\ (Polling \/ pc = "idle" => silence <= Lost(faults) - RetryTicks)' => InTime'
  BY PaidIsInTime, PTL
<1> QED
  BY <1>4, <1>5

(* A poll interval passes: everything asked for is older by one. *)
LEMMA SleepInTime ==
  ASSUME PatientWatchdog, PatientInv, Sleep
  PROVE  InTime'
<1>0. TypeOK /\ InTime
  BY DEF PatientInv
<1>1. /\ silence \in Nat /\ age[Freq] \in Nat
      /\ Lost(faults) \in Nat /\ RetryTicks \in Nat
  BY <1>0, Counters
<1>2. /\ pc = "idle" /\ pc' = "check" /\ LineEmpty /\ conn # "CONNECTING"
      /\ UNCHANGED <<conn, faults, sendFreqNext, state>>
  BY DEF Sleep, PatientWatchdog, LineEmpty
<1>3. silence' \in Nat /\ silence' <= silence + 1
  BY <1>1, PollingAssumption DEF Sleep, OneTick
<1>4. age'[Freq] = IF age[Freq] > RetryTicks THEN age[Freq] ELSE age[Freq] + 1
  BY SlotFacts DEF Sleep, OneTick
<1>5. age[Freq] <= RetryTicks + 1
  BY SlotFacts DEF PatientInv, Saturates
<1> SUFFICES ASSUME conn # "DISCONNECTED" PROVE InTime'
  BY <1>2 DEF InTime
<1>6. IdleInTime
  BY <1>0 DEF InTime
<1>7. CASE state[Freq] = "Requested"
  <2>1. silence <= Lost(faults) - RetryTicks + age[Freq] /\ silence <= Lost(faults)
    BY <1>2, <1>6, <1>7 DEF IdleInTime
  <2>2. silence' <= Lost(faults) - RetryTicks + age'[Freq]
    BY <1>1, <1>3, <1>4, <1>5, <2>1
  <2>3. silence' <= Lost(faults) + 1
    BY <1>1, <1>3, <2>1
  <2>4. CheckInTime'
    BY <1>2, <1>7, <2>2 DEF CheckInTime
  <2> QED
    BY <1>2, <2>3, <2>4 DEF InTime, IdleInTime
<1>8. CASE state[Freq] # "Requested"
  <2>1. IF sendFreqNext THEN silence <= Lost(faults)
        ELSE silence = 0 \/ silence <= Lost(faults) - RetryTicks
    BY <1>2, <1>6, <1>8 DEF IdleInTime
  <2>2. sendFreqNext \/ silence' <= 1 \/ silence' <= Lost(faults) - RetryTicks + 1
    BY <1>1, <1>3, <2>1
  <2>3. silence' <= Lost(faults) + 1
    BY <1>1, <1>3, <2>1
  <2>4. CheckInTime'
    BY <1>2, <1>8, <2>2 DEF CheckInTime
  <2> QED
    BY <1>2, <2>3, <2>4 DEF InTime, IdleInTime
<1> QED
  BY <1>7, <1>8

(* The scan finds nothing to ask for: it stopped at a request that is not  *)
(* overdue yet.                                                            *)
LEMMA NothingToAsk ==
  ASSUME TypeOK, GetNextSeq = None
  PROVE  \/ /\ state[Freq] = "Requested" /\ age[Freq] <= RetryTicks
            /\ Checked(Freq) = "Requested"
         \/ /\ ~sendFreqNext /\ Freq \notin Scanned
            /\ \E k \in Keys : state[k] = "Requested" /\ age[k] <= RetryTicks
<1>0. \A s \in Slots : state[s] \in SeqStates /\ age[s] \in Nat
  BY DEF TypeOK
<1>1. \A s \in Slots : Check(s) = "InProgress" => state[s] = "Requested" /\ ~Expired(s)
  BY <1>0 DEF Check, SeqStates
<1>2. \A s \in Slots : Check(s) = "InProgress" =>
          state[s] = "Requested" /\ age[s] <= RetryTicks /\ Checked(s) = "Requested"
  BY <1>0, <1>1, PollingAssumption DEF Expired, Checked
<1>3. CASE FallsToFreq
  <2>1. Check(Freq) = "InProgress"
    BY <1>3, SlotFacts DEF GetNextSeq
  <2> QED
    BY <1>2, <2>1, SlotFacts
<1>4. CASE ~FallsToFreq
  <2>1. FirstStop \in Stops
    BY <1>4, FirstStopIsStop DEF FallsToFreq
  <2>2. FirstStop \in Keys /\ Check(FirstStop) \in {"Ready", "InProgress"}
    BY <2>1 DEF Stops
  <2>3. Check(FirstStop) = "InProgress"
    BY <1>4, <2>2, SlotFacts DEF GetNextSeq
  <2>4. ~sendFreqNext /\ Freq \notin Scanned
    BY <1>4, SlotFacts DEF FallsToFreq, Scanned
  <2> QED
    BY <1>2, <2>2, <2>3, <2>4, SlotFacts
<1> QED
  BY <1>3, <1>4

(* A poll that asks for nothing waits for everything, or for a section     *)
(* whose answer a fault has taken.                                         *)
LEMMA SelectInTime ==
  ASSUME PatientInv, Select
  PROVE  InTime'
<1>0. TypeOK /\ InTime /\ NothingLost /\ QuietPoll
  BY DEF PatientInv
<1>1. /\ silence \in Nat /\ faults \in Nat /\ Lost(faults) \in Nat /\ RetryTicks \in Nat
      /\ \A s \in Slots : age[s] \in Nat
  BY <1>0, Counters
<1>2. /\ pc = "check" /\ conn # "DISCONNECTED"
      /\ pc' = IF GetNextSeq = None THEN "idle" ELSE "request"
      /\ UNCHANGED <<conn, silence, faults, age>>
  BY DEF Select, PatientInv, NeverImpatient, Alive
<1>3. /\ silence <= Lost(faults) + 1
      /\ conn = "CONNECTING" => silence <= Lost(faults) - RetryTicks
      /\ CheckInTime
  BY <1>0, <1>2 DEF InTime, Polling
<1>4. CASE GetNextSeq # None
  BY <1>2, <1>3, <1>4 DEF InTime, IdleInTime, CheckInTime
<1>5. CASE GetNextSeq = None
  <2>1. sendFreqNext' = TRUE /\ pc' = "idle"
    BY <1>2, <1>5, SlotFacts DEF Select
  <2>2. state' = [s \in Slots |-> IF s \in Scanned THEN Checked(s) ELSE state[s]]
    BY DEF Select
  <2>3. CASE /\ state[Freq] = "Requested" /\ age[Freq] <= RetryTicks
             /\ Checked(Freq) = "Requested"
    <3>1. state'[Freq] = "Requested"
      BY <2>2, <2>3, SlotFacts
    <3>2. silence <= Lost(faults) - RetryTicks + age[Freq]
      BY <1>2, <1>3, <2>3 DEF CheckInTime
    <3>3. silence <= Lost(faults)
      BY <1>1, <2>3, <3>2, SlotFacts
    <3>4. IdleInTime'
      BY <1>2, <3>1, <3>2, <3>3 DEF IdleInTime
    <3> QED
      BY <1>2, <1>3, <2>1, <3>4 DEF InTime, CheckInTime, Polling
  <2>4. ASSUME ~sendFreqNext, Freq \notin Scanned,
               NEW k \in Keys, state[k] = "Requested", age[k] <= RetryTicks
        PROVE  InTime'
    <3>1. state'[Freq] = state[Freq]
      BY <2>2, <2>4, SlotFacts
    <3>2. RetryTicks >= 1
      <4>1. age[k] >= 1 /\ age[k] \in Nat
        BY <1>0, <1>1, <1>2, <2>4, SlotFacts DEF QuietPoll
      <4> QED
        BY <1>1, <2>4, <4>1
    <3>3. Lost(faults) >= RetryTicks + 1
      <4>1. faults > 0
        BY <1>0, <1>2, <2>4, UnansweredIsFault, SlotFacts
      <4> QED
        BY <1>1, <4>1, LostFacts
    <3>4. age[Freq] <= 1 /\ age[Freq] \in Nat
      BY <1>1, <1>2, <2>4, SlotFacts DEF PatientInv, FreqWasLast
    <3>5. IF state[Freq] = "Requested" THEN silence <= Lost(faults) - RetryTicks + age[Freq]
          ELSE silence <= 1 \/ silence <= Lost(faults) - RetryTicks + 1
      BY <1>2, <1>3, <2>4 DEF CheckInTime
    <3>6. silence <= Lost(faults)
      BY <1>1, <3>2, <3>3, <3>4, <3>5
    <3>7. IdleInTime'
      BY <1>2, <2>1, <3>1, <3>5, <3>6 DEF IdleInTime
    <3> QED
      BY <1>2, <1>3, <2>1, <3>7 DEF InTime, CheckInTime, Polling
  <2> QED
    BY <1>0, <1>5, <2>3, <2>4, NothingToAsk
<1> QED
  BY <1>4, <1>5

(* A request leaves the line empty only on a link that is not up yet, and  *)
(* a link is not up during a poll only after a fault.                      *)
LEMMA SendInTime ==
  ASSUME PatientInv, Send
  PROVE  InTime'
<1>0. TypeOK /\ InTime /\ TypeOK'
  BY TypeStep DEF PatientInv, Next, RequestThread
<1>1. /\ pc = "send" /\ pc' = "idle"
      /\ UNCHANGED <<conn, silence, faults, age, state, sendFreqNext>>
  BY DEF Send, tableVars
<1>2. CASE conn = "CONNECTED"
  <2>1. toDuet' = Append(toDuet, selected) /\ selected \in Slots
    BY <1>0, <1>2 DEF Send, TypeOK
  <2>2. toDuet' # <<>>
    BY <1>0, <2>1, AppendProperties DEF TypeOK
  <2>3. silence <= Lost(faults) + 1
    BY <1>0, <1>1, <1>2 DEF InTime, Polling
  <2> QED
    BY <1>1, <1>2, <2>2, <2>3 DEF InTime, IdleInTime, CheckInTime, LineEmpty, Polling
<1>3. CASE conn = "CONNECTING"
  <2>1. silence' <= Lost(faults') - RetryTicks
    BY <1>0, <1>1, <1>3 DEF InTime, Polling
  <2>2. TypeOK' /\ (Polling \/ pc = "idle" => silence <= Lost(faults) - RetryTicks)' => InTime'
    BY PaidIsInTime, PTL
  <2> QED
    BY <1>0, <2>1, <2>2
<1>4. CASE conn = "DISCONNECTED"
  BY <1>1, <1>4 DEF InTime
<1> QED
  BY <1>0, <1>2, <1>3, <1>4 DEF TypeOK, ConnStates

(* Every step is in time. *)
LEMMA InTimeStep ==
  ASSUME PatientWatchdog, PatientInv, [Next]_vars
  PROVE  InTime'
<1> USE DEF tableVars, threadVars, lineVars, decoderVars
<1>0. TypeOK /\ TypeOK' /\ InTime /\ NothingLost' /\ QuietPoll'
  BY TypeStep, NothingLostStep, QuietPollStep DEF PatientInv
<1>1. TypeOK' /\ NothingLost' /\ QuietPoll' /\ (silence = 0)' /\ ~(Polling /\ conn = "CONNECTING")'
      => InTime'
  BY AnsweredIsInTime, PTL
<1>2. CASE Sleep
  BY <1>2, SleepInTime
<1>3. CASE ReconnectBegin
  <2>1. pc' = "clearAndReturn"
    BY <1>3, NotReconnected DEF ReconnectBegin
  <2> QED
    BY <2>1 DEF InTime, IdleInTime, CheckInTime, Polling
<1>4. CASE ReconnectEnd
  <2>1. pc' = "idle" /\ silence' = 0
    BY <1>4 DEF ReconnectEnd, PatientInv, NeverImpatient
  <2> QED
    BY <1>0, <1>1, <2>1 DEF Polling
<1>5. CASE Select
  BY <1>5, SelectInTime
<1>6. CASE Request
  <2>1. /\ pc = "request" /\ pc' = "send"
        /\ UNCHANGED <<conn, silence, faults>>
    BY <1>6 DEF Request
  <2> QED
    BY <1>0, <2>1 DEF InTime, IdleInTime, CheckInTime, Polling
<1>7. CASE Send
  BY <1>7, SendInTime
<1>8. CASE DecodeBody
  <2>1. state'[Freq] = state[Freq]
    BY <1>8, SlotFacts DEF DecodeBody, UpdateSeqs
  <2> QED
    BY <1>0, <1>8, <2>1, InTimeKept DEF DecodeBody, LineEmpty
<1>9. CASE DecodeEnd
  <2>1. silence' = 0 /\ UNCHANGED <<conn, pc, faults>>
    BY <1>9 DEF DecodeEnd
  <2>2. CASE ~(Polling /\ conn = "CONNECTING")
    BY <1>0, <1>1, <2>1, <2>2 DEF Polling
  <2>3. CASE Polling /\ conn = "CONNECTING"
    <3>1. faults' \in Nat /\ faults' > 0
      BY <1>0, <2>1, <2>3, Counters DEF NothingLost, Polling, TypeOK
    <3>2. silence' <= Lost(faults') - RetryTicks
      BY <2>1, <3>1, LostFacts, PollingAssumption
    <3>3. TypeOK' /\ (Polling \/ pc = "idle" => silence <= Lost(faults) - RetryTicks)' => InTime'
      BY PaidIsInTime, PTL
    <3> QED
      BY <1>0, <3>2, <3>3
  <2> QED
    BY <2>2, <2>3
<1>10. CASE Abandon
  <2>1. faults' = faults + 1 /\ UNCHANGED <<silence, pc, conn>>
    BY <1>10 DEF Abandon
  <2>2. CASE conn = "DISCONNECTED"
    BY <2>1, <2>2 DEF InTime
  <2>3. CASE conn # "DISCONNECTED"
    BY <1>0, <2>1, <2>3, InTimeFault
  <2> QED
    BY <2>2, <2>3
<1>11. CASE ParserError
  <2>1. faults' = faults + 1 /\ UNCHANGED <<silence, pc, conn>>
    BY <1>11 DEF ParserError
  <2>2. CASE conn = "DISCONNECTED"
    BY <2>1, <2>2 DEF InTime
  <2>3. CASE conn # "DISCONNECTED"
    BY <1>0, <2>1, <2>3, InTimeFault
  <2> QED
    BY <2>2, <2>3
<1>12. CASE ConnectDone
  BY <1>0, <1>12, InTimeKept DEF ConnectDone, LineEmpty
<1>12a. CASE ConnectFails
  BY <1>12a DEF ConnectFails, InTime
<1>13. CASE UserReconnect
  BY <1>0, <1>13, InTimeFault DEF UserReconnect
<1>14. ASSUME NEW k \in Keys, Bump(k) PROVE InTime'
  BY <1>0, <1>14, InTimeKept DEF Bump, LineEmpty
<1>15. CASE Answer
  <2>1. ~LineEmpty'
    <3>1. Head(toDuet) \in Slots
      BY <1>0, <1>15, HeadTailProperties DEF Answer, TypeOK
    <3> QED
      BY <1>0, <1>15, <3>1, ResponseType, AppendProperties DEF Answer, LineEmpty, TypeOK
  <2> QED
    BY <1>0, <1>15, <2>1, InTimeKept DEF Answer
<1>16. ASSUME NEW o \in OtherMessages, AnswerOther(o) PROVE InTime'
  <2>1. ~LineEmpty'
    BY <1>0, <1>16, ResponseType, AppendProperties DEF AnswerOther, LineEmpty, TypeOK
  <2> QED
    BY <1>0, <1>16, <2>1, InTimeKept DEF AnswerOther
<1>17. CASE UNCHANGED vars
  BY <1>0, <1>17, InTimeKept DEF vars, LineEmpty
<1> QED
  BY <1>2, <1>3, <1>4, <1>5, <1>6, <1>7, <1>8, <1>9, <1>10, <1>11, <1>12, <1>12a,
     <1>13, <1>14, <1>15, <1>16, <1>17
  DEF Next, RequestThread, ReceivingThread, Environment

(* At the start nothing was asked for. *)
LEMMA PatientInit == Init => PatientInv
<1> SUFFICES ASSUME Init PROVE PatientInv
  OBVIOUS
<1>1. TypeOK
  BY TypeInit
<1>2. \A s \in Slots : state[s] = "Init" /\ age[s] = 0
  BY DEF Init
<1>3. BodyNamesSeq /\ FreqWasLast /\ NeverImpatient /\ InTime
  BY DEF Init, BodyNamesSeq, FreqWasLast, NeverImpatient, InTime
<1>4. NothingLost /\ QuietPoll
  BY <1>2 DEF Init, NothingLost, QuietPoll, Polling
<1>5. Saturates
  BY <1>2, PollingAssumption DEF Init, Saturates
<1> QED
  BY <1>1, <1>3, <1>4, <1>5 DEF PatientInv

(* A Duet that answers within a poll interval is never reconnected by the  *)
(* watchdog of sendNext, whatever is lost, cut, malformed or broken: every *)
(* fault costs at most the polls until the request it took is overdue and  *)
(* one more, and the watchdog waits for one poll longer than all of them.  *)
(* For two faults and one retry tick no shorter wait would do: with        *)
(* WatchdogTicks = 4 TLC finds a reconnection of a Duet that answers.      *)
THEOREM WatchdogWaits == PatientWatchdog => (Spec => []WatchdogIsPatient)
<1> SUFFICES ASSUME PatientWatchdog PROVE Spec => []WatchdogIsPatient
  OBVIOUS
<1>1. Init => PatientInv
  BY PatientInit
<1>2. PatientInv /\ [Next]_vars => PatientInv'
  <2> SUFFICES ASSUME PatientInv, [Next]_vars PROVE PatientInv'
    OBVIOUS
  <2>1. TypeOK' /\ BodyNamesSeq'
    BY TypeStep, BodyNamesSeqStep DEF PatientInv
  <2>2. NothingLost' /\ QuietPoll' /\ FreqWasLast' /\ Saturates'
    BY NothingLostStep, QuietPollStep, FreqWasLastStep, SaturatesStep
  <2>3. NeverImpatient' /\ InTime'
    BY NeverImpatientStep, InTimeStep
  <2> QED
    BY <2>1, <2>2, <2>3 DEF PatientInv
<1>3. PatientInv => WatchdogIsPatient
  BY DEF PatientInv, NeverImpatient, WatchdogIsPatient
<1> QED
  BY <1>1, <1>2, <1>3, PTL DEF Spec

-----------------------------------------------------------------------------
(* The polling implements the cache.                                       *)

Settled == {k \in Keys : state[k] = "Ok"}

(* Steps that neither announce nor show anything only raise doubts. *)
LEMMA DoubtStep ==
  ASSUME UNCHANGED <<duetSeq, lastSeq, shown>>,
         \A k \in Keys : state'[k] = "Ok" => state[k] = "Ok"
  PROVE  Cache!Next
BY DEF Cache!Next, Cache!Doubt

(* A reset of the table is a Forget. *)
LEMMA ForgetStep ==
  ASSUME ResetSeqs, RemoveAll, UNCHANGED duetSeq
  PROVE  Cache!Next
<1>1. \A k \in Keys : state'[k] # "Ok"
  BY SlotFacts DEF ResetSeqs
<1> QED
  BY <1>1 DEF ResetSeqs, RemoveAll, Cache!Next, Cache!Forget

(* Every step of the polling is a step of the cache or leaves it alone. *)
LEMMA CacheStep ==
  ASSUME PollingInv, [Next]_vars
  PROVE  [Cache!Next]_(Cache!cacheVars)
<1> USE DEF tableVars, threadVars, lineVars, decoderVars
<1>0. TypeOK
  BY DEF PollingInv
<1>1. CASE Sleep
  BY <1>1, DoubtStep DEF Sleep
<1>2. CASE ReconnectBegin
  BY <1>2, DoubtStep, ForgetStep DEF ReconnectBegin, DuetReconnect
<1>3. CASE ReconnectEnd
  BY <1>3, ForgetStep DEF ReconnectEnd
<1>4. CASE Select
  <2>1. \A k \in Keys : state'[k] = "Ok" => state[k] = "Ok"
    BY <1>0, <1>4, SlotFacts DEF Select, Checked, TypeOK
  <2> QED
    BY <1>4, <2>1, DoubtStep DEF Select
<1>5. CASE Request
  <2>1. \A k \in Keys : state'[k] = "Ok" => state[k] = "Ok"
    BY <1>0, <1>5, SlotFacts DEF Request, TypeOK
  <2> QED
    BY <1>5, <2>1, DoubtStep DEF Request
<1>6. CASE Send
  BY <1>6, DoubtStep DEF Send
<1>7. CASE DecodeBody
  <2> DEFINE m == Head(fromDuet)
  <2>1. /\ m \in MessageType /\ m = fromDuet[1] /\ 1 \in 1..Len(fromDuet)
    BY <1>0, <1>7, HeadAndTail DEF DecodeBody, Receiving
  <2>2. m.vals \in [Keys -> Nat]
    BY <2>1 DEF MessageType
  <2>3. \A k \in Keys : Carries(m, k) =>
          lastSeq[k] <= m.vals[k] /\ shown[k] <= m.vals[k] /\ m.vals[k] <= duetSeq[k]
    BY <2>1 DEF PollingInv, LineInOrder
  <2>4. shown \in [Keys -> Nat \cup {-1}] /\ duetSeq \in [Keys -> Nat]
    BY <1>0 DEF TypeOK
  <2>5. shown' = [k \in Keys |-> IF m.key = k THEN m.vals[k] ELSE shown[k]]
    BY <1>7 DEF DecodeBody
  <2>6. CASE m.key = Freq
    <3>1. UpdateSeqs(m.vals) /\ UNCHANGED duetSeq
      BY <1>7, <2>6 DEF DecodeBody
    <3>2. shown' = shown
      BY <2>4, <2>5, <2>6, SlotFacts
    <3>3. lastSeq' = m.vals
      BY <3>1 DEF UpdateSeqs
    <3>4. \A k \in Keys : lastSeq'[k] >= lastSeq[k] /\ lastSeq'[k] <= duetSeq[k]
      <4>1. \A k \in Keys : Carries(m, k) /\ lastSeq[k] \in Int /\ m.vals[k] \in Int
        BY <1>0, <2>2, <2>6 DEF Carries, TypeOK
      <4> QED
        BY <2>3, <3>3, <4>1
    <3>5. Settled' = {k \in Settled : lastSeq'[k] = lastSeq[k]}
      <4>1. \A k \in Keys : state'[k] = IF lastSeq'[k] # lastSeq[k] THEN "Update" ELSE state[k]
        BY <3>1, <3>3, SlotFacts DEF UpdateSeqs
      <4> QED
        BY <4>1 DEF Settled
    <3>6. Cache!Learn
      BY <2>2, <3>1, <3>2, <3>3, <3>4, <3>5 DEF Cache!Learn, Settled
    <3> QED
      BY <3>6 DEF Cache!Next
  <2>7. CASE m.key \in Keys
    <3>1. UNCHANGED <<state, lastSeq, duetSeq>>
      BY <1>7, <2>7, SlotFacts DEF DecodeBody
    <3>2. shown' = [shown EXCEPT ![m.key] = m.vals[m.key]]
      BY <2>4, <2>5, <2>7
    <3>3. m.vals[m.key] \in 0..duetSeq[m.key] /\ m.vals[m.key] >= shown[m.key]
      <4>1. Carries(m, m.key)
        BY DEF Carries
      <4>2. /\ m.vals[m.key] \in Nat /\ duetSeq[m.key] \in Nat
            /\ shown[m.key] \in Nat \cup {-1}
        BY <2>2, <2>4, <2>7
      <4> QED
        BY <2>3, <2>7, <4>1, <4>2
    <3>4. Cache!Receive(m.key)
      BY <3>1, <3>2, <3>3 DEF Cache!Receive
    <3> QED
      BY <2>7, <3>4 DEF Cache!Next
  <2>8. CASE m.key \notin Slots
    <3>1. UNCHANGED <<state, lastSeq, duetSeq>>
      BY <1>7, <2>8, SlotFacts DEF DecodeBody
    <3>2. shown' = shown
      BY <2>4, <2>5, <2>8, SlotFacts
    <3> QED
      BY <3>1, <3>2, DoubtStep
  <2> QED
    BY <2>6, <2>7, <2>8 DEF Slots
<1>8. CASE DecodeEnd
  <2>1. UNCHANGED <<lastSeq, shown, duetSeq>> /\ phase = "body"
    BY <1>8 DEF DecodeEnd
  <2>2. \A s \in Slots : state'[s] = IF s = mSeq THEN "Ok" ELSE state[s]
    BY <1>8 DEF DecodeEnd
  <2>3. CASE mSeq \in Keys
    <3>1. PICK k \in Keys : k = mSeq
      BY <2>3
    <3>2. lastSeq[k] > 0 => shown[k] >= lastSeq[k]
      BY <2>1, <3>1 DEF PollingInv, BodyIsShown
    <3>3. Settled' = Settled \cup {k}
      BY <2>2, <3>1, SlotFacts DEF Settled
    <3>4. Cache!Settle(k)
      BY <2>1, <3>2, <3>3 DEF Cache!Settle, Settled
    <3> QED
      BY <3>4 DEF Cache!Next
  <2>4. CASE mSeq \notin Keys
    BY <2>1, <2>2, <2>4, SlotFacts, DoubtStep
  <2> QED
    BY <2>3, <2>4
<1>9. CASE Abandon
  BY <1>9, DoubtStep DEF Abandon
<1>10. CASE ParserError
  <2>1. \A k \in Keys : state'[k] = "Ok" => state[k] = "Ok"
    BY <1>10, SlotFacts DEF ParserError
  <2> QED
    BY <1>10, <2>1, DoubtStep DEF ParserError
<1>11. CASE ConnectDone \/ ConnectFails
  BY <1>11, DoubtStep DEF ConnectDone, ConnectFails
<1>12. CASE UserReconnect
  BY <1>12, ForgetStep DEF UserReconnect
<1>13. ASSUME NEW k \in Keys, Bump(k) PROVE Cache!Next
  BY <1>13 DEF Bump, Cache!Next, Cache!Change
<1>14. CASE Answer
  BY <1>14, DoubtStep DEF Answer
<1>15. ASSUME NEW o \in OtherMessages, AnswerOther(o) PROVE Cache!Next
  BY <1>15, DoubtStep DEF AnswerOther
<1>16. CASE UNCHANGED vars
  BY <1>16 DEF vars, Cache!cacheVars
<1> QED
  BY <1>1, <1>2, <1>3, <1>4, <1>5, <1>6, <1>7, <1>8, <1>9, <1>10, <1>11, <1>12,
     <1>13, <1>14, <1>15, <1>16
  DEF Next, RequestThread, ReceivingThread, Environment

(* On a clean line the polling implements the cache: between two           *)
(* reconnections what the panel shows of a section never goes back to an   *)
(* older version, although retries duplicate requests and answers of an    *)
(* old connection may come late.                                           *)
THEOREM PollingIsCache == CleanLine => (Spec => ImplementsCache)
<1> SUFFICES ASSUME CleanLine PROVE Spec => Cache!Spec
  BY DEF ImplementsCache
<1>1. Init => Cache!Init
  <2>1. ASSUME Init PROVE \A k \in Keys : state[k] # "Ok"
    BY <2>1, SlotFacts DEF Init
  <2> QED
    BY <2>1 DEF Init, Cache!Init
<1>2. PollingInv /\ [Next]_vars => [Cache!Next]_(Cache!cacheVars)
  BY CacheStep
<1>3. Spec => []PollingInv
  BY PollingCorrect
<1> QED
  BY <1>1, <1>2, <1>3, PTL DEF Spec, Cache!Spec
=============================================================================
