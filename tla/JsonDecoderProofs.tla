------------------------- MODULE JsonDecoderProofs -------------------------
(***************************************************************************)
(* Proofs about the decoder, for every limit, every set of keys and names  *)
(* and every line.                                                         *)
(*                                                                         *)
(* First, whatever arrives, broken or not: the number of open arrays stays *)
(* within the array of their indices, and the id never names more arrays   *)
(* than are open, so that closing an array it names always finds one.      *)
(*                                                                         *)
(* Then, for lines that arrive whole: what the sender writes is JSON       *)
(* (GrammarNext); its place, a path and the counts of its open arrays, is  *)
(* the concatenation of what its open objects and arrays add (PathAppend,  *)
(* CountsAppend), and the key goes in front of that (KeyedAppend); each    *)
(* token moves the decoder's id and indices as it moves the sender's place *)
(* (StartsMessage, StepOpen, StepField, StepScalar, StepComma, StepBrace,  *)
(* StepBracket).  So the decoder follows (PlacesFollow), and what it       *)
(* reports is what was meant.                                              *)
(***************************************************************************)
EXTENDS JsonDecoder, FiniteSetTheorems, SequenceTheorems, WellFoundedInduction, TLAPS

Parts == FieldNames \cup Separators \cup {"string"} \cup UNION {Range(k) : k \in Keys}
Ids == Seq(Parts)

(* The places of an id that name an array.                                 *)
Carets(id) == {i \in DOMAIN id : id[i] = "^"}

-----------------------------------------------------------------------------
(* Counting them.                                                          *)

(* A nonempty set of small numbers has its greatest one as its maximum.    *)
LEMMA Greatest ==
  ASSUME NEW n \in Nat, NEW S, S \subseteq 0..n, S # {}
  PROVE  Max(S) \in S
<1> DEFINE T == {n - i : i \in S}
<1>0. \A i \in S : i \in Nat /\ i <= n /\ n - i \in Nat
  <2> SUFFICES ASSUME NEW i \in S PROVE i \in Nat /\ i <= n /\ n - i \in Nat
    OBVIOUS
  <2>1. i \in 0..n
    OBVIOUS
  <2> QED
    BY <2>1
<1>1. T \subseteq Nat /\ T # {}
  BY <1>0
<1>2. PICK k \in T : \A j \in T : ~(<<j, k>> \in OpToRel(<, Nat))
  <2> HIDE DEF T
  <2> QED
    BY <1>1, NatLessThanWellFounded, WFMin
<1>3. OpToRel(<, Nat) = {p \in Nat \X Nat : p[1] < p[2]}
  BY DEF OpToRel
<1>4. ASSUME NEW j \in T PROVE k <= j
  <2>1. ~(j < k)
    BY <1>1, <1>2, <1>3
  <2>2. j \in Nat /\ k \in Nat
    BY <1>1
  <2> QED
    BY <2>1, <2>2
<1>5. PICK m \in S : k = n - m
  OBVIOUS
<1>6. ASSUME NEW i \in S PROVE m >= i
  <2>1. n - i \in T
    OBVIOUS
  <2>2. n - m <= n - i
    BY <1>4, <1>5, <2>1
  <2> QED
    BY <1>0, <2>2
<1> QED
  BY <1>6 DEF Max

(* The arrays an id names can be counted.                                  *)
LEMMA CountIs ==
  ASSUME NEW id \in Ids
  PROVE  /\ IsFiniteSet(Carets(id)) /\ Cardinality(Carets(id)) \in Nat
         /\ (\E i \in DOMAIN id : id[i] = "^") => Cardinality(Carets(id)) >= 1
<1>1. IsFiniteSet(1..Len(id))
  BY FS_Interval DEF Ids
<1>2. Carets(id) \in SUBSET (1..Len(id))
  BY DEF Carets, Ids
<1>3. IsFiniteSet(Carets(id))
  BY <1>1, <1>2, FS_Subset
<1>4. Cardinality(Carets(id)) \in Nat
  BY <1>3, FS_CardinalityType
<1>5. Carets(id) # {} => Cardinality(Carets(id)) # 0
  BY <1>3, FS_EmptySet
<1> QED
  BY <1>3, <1>4, <1>5 DEF Carets

(* What maps the places of one id into those of another, one to one.       *)
LEMMA NoMore ==
  ASSUME NEW id \in Ids, NEW new \in Ids, NEW f,
         \A i \in Carets(new) : f[i] \in Carets(id),
         \A i, j \in Carets(new) : f[i] = f[j] => i = j,
         DOMAIN f = Carets(new), f \in [Carets(new) -> Carets(id)]
  PROVE  Cardinality(Carets(new)) <= Cardinality(Carets(id))
<1>1. f \in Injection(Carets(new), Carets(id))
  BY DEF Injection, IsInjective
<1> QED
  BY <1>1, CountIs, FS_Injection

(* An id whose marks are those of another, all moved by as much, names no  *)
(* more arrays.                                                            *)
LEMMA NoMoreShifted ==
  ASSUME NEW id \in Ids, NEW new \in Ids, NEW shift \in Int,
         \A i \in Carets(new) : i + shift \in Carets(id)
  PROVE  Cardinality(Carets(new)) <= Cardinality(Carets(id))
<1> DEFINE f == [i \in Carets(new) |-> i + shift]
<1>1. \A i \in Carets(new) : i \in Int
  BY DEF Carets, Ids
<1>2. \A i, j \in Carets(new) : f[i] = f[j] => i = j
  <2> SUFFICES ASSUME NEW i \in Carets(new), NEW j \in Carets(new), i + shift = j + shift
               PROVE  i = j
    OBVIOUS
  <2>1. i \in Int /\ j \in Int
    BY <1>1
  <2> QED
    BY <2>1
<1>3. f \in [Carets(new) -> Carets(id)] /\ DOMAIN f = Carets(new)
  OBVIOUS
<1>4. \A i \in Carets(new) : f[i] \in Carets(id)
  OBVIOUS
<1> HIDE DEF f
<1> QED
  BY <1>2, <1>3, <1>4, NoMore

-----------------------------------------------------------------------------
(* What the helpers make of an id.                                         *)

(* A key names no array (DecoderAssumption).                               *)
LEMMA KeyIs ==
  ASSUME NEW k \in Keys
  PROVE  k \in Ids /\ Carets(k) = {}
<1>1. k \in Seq(Range(k) \ {"^"})
  <2>1. k = << >> => k \in Seq(Range(k) \ {"^"})
    OBVIOUS
  <2> QED
    BY <2>1, DecoderAssumption
<1>2. Range(k) \ {"^"} \subseteq Parts
  BY DEF Parts
<1>3. k \in Ids
  BY <1>1, <1>2 DEF Ids
<1>4. \A i \in DOMAIN k : k[i] # "^"
  BY <1>1
<1> QED
  BY <1>3, <1>4 DEF Carets

(* The key put into an id leaves its arrays and where it ends.             *)
LEMMA NamedIs ==
  ASSUME NEW id \in Ids, m_key \in Keys
  PROVE  LET new == Named(id)
         IN  /\ new \in Ids /\ Cardinality(Carets(new)) <= Cardinality(Carets(id))
             /\ InArray(id) => new = << >> \/ InArray(new)
             /\ InArray(new) => InArray(id)
<1> DEFINE new == Named(id)
<1>1. CASE id = << >> \/ id[1] # "result"
  <2>1. new = id
    BY <1>1 DEF Named
  <2> QED
    BY <2>1, CountIs
<1>2. CASE ~(id = << >> \/ id[1] # "result") /\ m_key = << >>
  <2>1. new = SubSeq(id, 3, Len(id)) /\ Len(id) \in Nat /\ Len(id) >= 1
    BY <1>2 DEF Named, Ids
  <2>2. CASE Len(id) < 3
    <3>1. new = << >>
      BY <2>1, <2>2 DEF Ids
    <3>2. new \in Ids /\ Carets(new) = {}
      BY <3>1 DEF Ids, Carets
    <3>3. Cardinality(Carets(new)) = 0
      BY <3>2, FS_EmptySet
    <3> QED
      BY <3>1, <3>2, <3>3, CountIs DEF InArray
  <2>3. CASE Len(id) >= 3
    <3>1. /\ new \in Ids /\ Len(new) = Len(id) - 2
          /\ \A i \in 1..Len(new) : new[i] = id[i + 2] /\ i + 2 \in 1..Len(id)
      BY <2>1, <2>3 DEF Ids
    <3>2. \A i \in Carets(new) : i + 2 \in Carets(id)
      BY <3>1 DEF Carets, Ids
    <3>3. Cardinality(Carets(new)) <= Cardinality(Carets(id))
      BY <3>1, <3>2, NoMoreShifted
    <3>4. Last(new) = Last(id) /\ new # << >>
      <4>1. Len(new) \in 1..Len(new) /\ Len(new) + 2 = Len(id)
        BY <2>1, <2>3, <3>1
      <4>2. new[Len(new)] = id[Len(id)]
        BY <3>1, <4>1
      <4> QED
        BY <4>1, <4>2 DEF Last
    <3> QED
      BY <1>2, <3>1, <3>3, <3>4 DEF InArray
  <2> QED
    BY <2>1, <2>2, <2>3
<1>3. CASE ~(id = << >> \/ id[1] # "result") /\ m_key # << >>
  <2>1. new = m_key \o Tail(id) /\ Len(id) \in Nat /\ Len(id) >= 1 /\ id[1] = "result"
    BY <1>3 DEF Named, Ids
  <2>2. m_key \in Ids /\ Carets(m_key) = {} /\ Len(m_key) \in Nat /\ Len(m_key) >= 1
    BY <1>3, KeyIs DEF Ids
  <2>3. /\ Tail(id) \in Ids /\ Len(Tail(id)) = Len(id) - 1
        /\ \A i \in 1..(Len(id) - 1) : Tail(id)[i] = id[i + 1]
    BY <2>1 DEF Ids
  <2> DEFINE shift == 1 - Len(m_key)
  <2>4. /\ new \in Ids /\ Len(new) = Len(id) - shift
        /\ \A i \in 1..Len(m_key) : new[i] = m_key[i]
    BY <2>1, <2>2, <2>3 DEF Ids
  <2>5. ASSUME NEW i \in 1..Len(new), i > Len(m_key)
        PROVE  new[i] = id[i + shift] /\ i + shift \in 1..Len(id)
    <3>1. i - Len(m_key) \in 1..(Len(id) - 1)
      BY <2>1, <2>2, <2>4, <2>5
    <3>2. new[i] = Tail(id)[i - Len(m_key)]
      BY <2>1, <2>2, <2>3, <2>4, <2>5, <3>1 DEF Ids
    <3> QED
      BY <2>2, <2>3, <3>1, <3>2
  <2>6. ASSUME NEW i \in Carets(new)
        PROVE  i + shift \in Carets(id)
    <3>1. i \in 1..Len(new) /\ new[i] = "^"
      BY <2>4 DEF Carets, Ids
    <3>2. i > Len(m_key)
      <4>1. ASSUME i \in 1..Len(m_key) PROVE FALSE
        BY <2>2, <2>4, <3>1, <4>1 DEF Carets, Ids
      <4> QED
        BY <2>2, <3>1, <4>1
    <3> QED
      BY <2>5, <3>1, <3>2 DEF Carets, Ids
  <2>7. Cardinality(Carets(new)) <= Cardinality(Carets(id))
    BY <2>2, <2>4, <2>6, NoMoreShifted
  <2>8. CASE Len(id) = 1
    <3>1. ~InArray(id)
      BY <2>1, <2>8 DEF InArray, Last
    <3>2. Last(new) = m_key[Len(m_key)]
      BY <2>2, <2>4, <2>8 DEF Last
    <3>3. ~InArray(new)
      BY <2>2, <3>2 DEF InArray, Carets, Ids
    <3> QED
      BY <2>4, <2>7, <3>1, <3>3
  <2>9. CASE Len(id) > 1
    <3>1. Len(new) \in 1..Len(new) /\ Len(new) > Len(m_key) /\ Len(new) + shift = Len(id)
      BY <2>1, <2>2, <2>4, <2>9
    <3>2. Last(new) = Last(id) /\ new # << >>
      BY <2>5, <3>1 DEF Last
    <3> QED
      BY <1>3, <2>4, <2>7, <3>2 DEF InArray
  <2>10. Len(id) = 1 \/ Len(id) > 1
    <3>1. Len(id) \in Nat /\ Len(id) >= 1
      BY <2>1
    <3>2. \A n \in Nat : n >= 1 => n = 1 \/ n > 1
      OBVIOUS
    <3> QED
      BY <3>1, <3>2, Zenon
  <2> QED
    BY <2>8, <2>9, <2>10
<1> QED
  BY <1>1, <1>2, <1>3

(* The beginning of an id names no more arrays.                            *)
LEMMA PrefixIs ==
  ASSUME NEW id \in Ids, NEW n \in 0..Len(id)
  PROVE  LET new == SubSeq(id, 1, n)
         IN  /\ new \in Ids /\ Len(new) = n /\ \A i \in 1..n : new[i] = id[i]
             /\ Cardinality(Carets(new)) <= Cardinality(Carets(id))
<1> DEFINE new == SubSeq(id, 1, n)
<1>1. new \in Ids /\ Len(new) = n /\ \A i \in 1..n : new[i] = id[i]
  BY DEF Ids
<1>2. \A i \in Carets(new) : i + 0 \in Carets(id)
  BY <1>1 DEF Carets, Ids
<1> QED
  BY <1>1, <1>2, NoMoreShifted

(* The end of an object takes names off the id.                            *)
LEMMA RemoveLastIdIs ==
  ASSUME NEW id \in Ids
  PROVE  LET new == RemoveLastId(id)
         IN  new \in Ids /\ Cardinality(Carets(new)) <= Cardinality(Carets(id))
<1> DEFINE S == {0} \cup {i \in DOMAIN id : id[i] \in Separators}
<1>1. Len(id) \in Nat /\ S \subseteq 0..Len(id) /\ S # {}
  BY DEF Ids
<1> HIDE DEF S
<1>2. Max(S) \in 0..Len(id)
  BY <1>1, Greatest
<1> QED
  BY <1>2, PrefixIs DEF RemoveLastId, S

(* The end of an array takes its mark off the id.                          *)
LEMMA RemoveLastIdCharIs ==
  ASSUME NEW id \in Ids
  PROVE  LET new == RemoveLastIdChar(id)
         IN  /\ new \in Ids /\ Cardinality(Carets(new)) <= Cardinality(Carets(id))
             /\ InArray(id) => Cardinality(Carets(new)) <= Cardinality(Carets(id)) - 1
<1> DEFINE new == RemoveLastIdChar(id)
<1>1. CASE id = << >>
  BY <1>1, CountIs DEF RemoveLastIdChar, InArray
<1>2. CASE id # << >>
  <2>1. Len(id) \in Nat /\ Len(id) >= 1 /\ Len(id) - 1 \in 0..Len(id)
    BY <1>2 DEF Ids
  <2>2. new = SubSeq(id, 1, Len(id) - 1)
    BY <1>2 DEF RemoveLastIdChar, Front
  <2>3. new \in Ids /\ Cardinality(Carets(new)) <= Cardinality(Carets(id))
    BY <2>1, <2>2, PrefixIs
  <2>4. ASSUME InArray(id)
        PROVE  Cardinality(Carets(new)) <= Cardinality(Carets(id)) - 1
    <3>1. Len(id) \in Carets(id)
      BY <2>1, <2>4 DEF InArray, Last, Carets, Ids
    <3>2. Len(new) = Len(id) - 1 /\ \A i \in 1..(Len(id) - 1) : new[i] = id[i]
      BY <2>1, <2>2, PrefixIs
    <3>3. Carets(new) = Carets(id) \ {Len(id)}
      BY <2>1, <2>3, <3>2 DEF Carets, Ids
    <3>4. Cardinality(Carets(id) \ {Len(id)}) = Cardinality(Carets(id)) - 1
      BY <3>1, CountIs, FS_RemoveElement
    <3> QED
      BY <3>3, <3>4, CountIs
  <2> QED
    BY <2>3, <2>4
<1> QED
  BY <1>1, <1>2

(* What the id grows by is one array at most.                              *)
LEMMA AppendIs ==
  ASSUME NEW id \in Ids, NEW part \in Parts
  PROVE  LET new == Append(id, part)
         IN  /\ new \in Ids /\ Cardinality(Carets(new)) <= Cardinality(Carets(id)) + 1
             /\ part # "^" => Cardinality(Carets(new)) <= Cardinality(Carets(id))
<1> DEFINE new == Append(id, part)
           n == Len(id) + 1
<1>1. /\ new \in Ids /\ Len(id) \in Nat /\ Len(new) = n /\ new[n] = part
      /\ \A i \in 1..Len(id) : new[i] = id[i]
  BY DEF Ids
<1>2. IsFiniteSet(Carets(id) \cup {n}) /\ Cardinality(Carets(id) \cup {n}) <= Cardinality(Carets(id)) + 1
  <2>1. IsFiniteSet(Carets(id)) /\ Cardinality(Carets(id)) \in Nat
    BY CountIs
  <2> HIDE DEF n
  <2>2. /\ IsFiniteSet(Carets(id) \cup {n})
        /\ Cardinality(Carets(id) \cup {n}) \in {Cardinality(Carets(id)), Cardinality(Carets(id)) + 1}
    BY <2>1, FS_AddElement
  <2> QED
    BY <2>1, <2>2
<1>3. \A i \in 1..n : i = n \/ i \in 1..Len(id)
  BY <1>1
<1>4. Carets(new) \subseteq Carets(id) \cup {n}
  BY <1>1, <1>3 DEF Carets, Ids
<1>5. part # "^" => Carets(new) \subseteq Carets(id)
  BY <1>1, <1>4 DEF Carets
<1>6. Cardinality(Carets(new)) <= Cardinality(Carets(id) \cup {n})
  BY <1>2, <1>4, FS_Subset
<1>7. part # "^" => Cardinality(Carets(new)) <= Cardinality(Carets(id))
  BY <1>5, CountIs, FS_Subset
<1>8. Cardinality(Carets(new)) \in Nat /\ Cardinality(Carets(id) \cup {n}) \in Nat /\ Cardinality(Carets(id)) \in Nat
  BY <1>1, <1>2, CountIs, FS_CardinalityType
<1> QED
  BY <1>1, <1>2, <1>6, <1>7, <1>8

-----------------------------------------------------------------------------
(* A token that is decoded, from any sender.                               *)

DecoderOK ==
    /\ state \in States /\ m_key \in Keys /\ ended \in Nat
    /\ fieldId \in Ids /\ arrayDepth \in 0..MAX_ARRAY_NESTING
    /\ arrayIndices \in [1..MAX_ARRAY_NESTING -> Nat]
    /\ Cardinality(Carets(fieldId)) <= arrayDepth

(* What the constants denote.                                              *)
LEMMA Limits ==
  /\ MAX_ARRAY_NESTING \in Nat /\ MAX_JSON_ID_LENGTH \in Nat /\ MaxSpoiled \in Nat
  /\ << >> \in Keys
  /\ \A part \in FieldNames \cup Separators \cup {"string"} : part \in Parts
  /\ \A part \in FieldNames \cup {"string", ":"} : part # "^"
BY DecoderAssumption DEF Parts, FieldNames, Separators

(* The empty id.                                                           *)
LEMMA NoId == << >> \in Ids /\ Cardinality(Carets(<< >>)) = 0
<1>1. << >> \in Ids /\ Carets(<< >>) = {}
  BY DEF Ids, Carets
<1> QED
  BY <1>1, FS_EmptySet

(* Inside an array there is an index to count.                             *)
LEMMA InArrayIsOpen ==
  ASSUME DecoderOK, InArray(fieldId)
  PROVE  arrayDepth >= 1 /\ arrayDepth - 1 \in 0..MAX_ARRAY_NESTING
<1>1. fieldId \in Ids /\ Cardinality(Carets(fieldId)) <= arrayDepth /\ arrayDepth \in 0..MAX_ARRAY_NESTING
  BY DEF DecoderOK
<1>2. Len(fieldId) \in DOMAIN fieldId /\ fieldId[Len(fieldId)] = "^"
  BY <1>1 DEF InArray, Last, Ids
<1>3. Cardinality(Carets(fieldId)) >= 1 /\ Cardinality(Carets(fieldId)) \in Nat
  BY <1>1, <1>2, CountIs
<1> QED
  BY <1>1, <1>3, Limits

(* A comma counts in place.                                                *)
LEMMA CountedUpIs ==
  ASSUME DecoderOK
  PROVE  CountedUp \in [1..MAX_ARRAY_NESTING -> Nat]
<1>1. arrayIndices \in [1..MAX_ARRAY_NESTING -> Nat]
  BY DEF DecoderOK
<1>2. \A i \in 1..MAX_ARRAY_NESTING : arrayIndices[i] + 1 \in Nat
  BY <1>1
<1> QED
  BY <1>1, <1>2 DEF CountedUp

(* The braces and brackets that close.                                     *)
LEMMA CloseObjectOK ==
  ASSUME DecoderOK, NEW id \in Ids, Cardinality(Carets(id)) <= Cardinality(Carets(fieldId)),
         CloseObject(id)
  PROVE  DecoderOK'
<1> DEFINE rest == RemoveLastId(id)
           short == RemoveLastIdChar(rest)
<1>1. rest \in Ids /\ Cardinality(Carets(rest)) <= Cardinality(Carets(id))
  BY RemoveLastIdIs
<1> HIDE DEF rest
<1>2. short \in Ids /\ Cardinality(Carets(short)) <= Cardinality(Carets(rest))
  BY <1>1, RemoveLastIdCharIs
<1>3. arrayIndices' = arrayIndices /\ arrayDepth' = arrayDepth
  BY DEF CloseObject
<1>4. \/ m_key' = << >> /\ ended' = ended + 1 /\ state' = "jsBegin" /\ fieldId' = rest
      \/ state' = "jsEndVal" /\ fieldId' = short /\ m_key' = m_key /\ ended' = ended
  BY DEF CloseObject, EndReceivedMessage, Become, rest
<1> HIDE DEF short
<1>5. /\ Cardinality(Carets(rest)) \in Nat /\ Cardinality(Carets(short)) \in Nat
      /\ Cardinality(Carets(id)) \in Nat /\ Cardinality(Carets(fieldId)) \in Nat
  BY <1>1, <1>2, CountIs DEF DecoderOK
<1>6. fieldId' \in {rest, short}
  BY <1>4
<1>7. fieldId' \in Ids /\ Cardinality(Carets(fieldId')) <= arrayDepth
  BY <1>1, <1>2, <1>5, <1>6, Limits DEF DecoderOK
<1>8. state' \in States /\ m_key' \in Keys /\ ended' \in Nat
  BY <1>4, Limits DEF DecoderOK, States
<1> QED
  BY <1>3, <1>7, <1>8 DEF DecoderOK, Carets

(* The end of an array goes one index back, which was open.                *)
LEMMA EndArrayOK ==
  ASSUME DecoderOK, InArray(fieldId), NEW id \in Ids, id = << >> \/ InArray(id),
         Cardinality(Carets(id)) <= Cardinality(Carets(fieldId)),
         NEW indices \in [1..MAX_ARRAY_NESTING -> Nat],
         EndArray(id, indices), state' = "jsEndVal"
  PROVE  DecoderOK'
<1> DEFINE short == RemoveLastIdChar(id)
<1>1. arrayDepth >= 1 /\ arrayDepth - 1 \in 0..MAX_ARRAY_NESTING /\ arrayDepth \in Nat
  BY InArrayIsOpen, Limits DEF DecoderOK
<1>2. /\ arrayIndices' = [indices EXCEPT ![arrayDepth] = 0]
      /\ arrayDepth' = arrayDepth - 1 /\ fieldId' = short
      /\ m_key' = m_key /\ ended' = ended
  BY <1>1 DEF EndArray
<1>3. arrayIndices' \in [1..MAX_ARRAY_NESTING -> Nat]
  BY <1>2
<1>4. short \in Ids /\ Cardinality(Carets(short)) <= arrayDepth - 1
  <2>1. CASE id = << >>
    BY <1>1, <2>1, NoId DEF RemoveLastIdChar
  <2>2. CASE InArray(id)
    <3>1. short \in Ids /\ Cardinality(Carets(short)) <= Cardinality(Carets(id)) - 1
      BY <2>2, RemoveLastIdCharIs
    <3> HIDE DEF short
    <3>2. Cardinality(Carets(id)) <= arrayDepth
      BY <1>1, CountIs DEF DecoderOK
    <3> QED
      BY <1>1, <3>1, <3>2, CountIs
  <2> QED
    BY <2>1, <2>2
<1> QED
  BY <1>1, <1>2, <1>3, <1>4 DEF DecoderOK, Carets, States

(* An error writes to nothing.                                             *)
LEMMA FailOK ==
  ASSUME DecoderOK, Fail
  PROVE  DecoderOK'
BY DEF DecoderOK, Fail, Become, States, Carets

(* The id grows by an array only while there is an index for it.           *)
LEMMA ExtendOK ==
  ASSUME DecoderOK, NEW part \in Parts, NEW next \in States, Extend(part, next),
         UNCHANGED <<arrayIndices, m_key, ended>>,
         \/ part # "^" /\ arrayDepth' = arrayDepth
         \/ Len(fieldId) >= MAX_JSON_ID_LENGTH /\ arrayDepth' = arrayDepth
         \/ arrayDepth' = arrayDepth + 1 /\ arrayDepth < MAX_ARRAY_NESTING
  PROVE  DecoderOK'
<1>1. fieldId \in Ids /\ arrayDepth \in 0..MAX_ARRAY_NESTING /\ Cardinality(Carets(fieldId)) <= arrayDepth
  BY DEF DecoderOK
<1>2. Cardinality(Carets(fieldId)) \in Nat /\ Len(fieldId) \in Nat
  BY <1>1, CountIs DEF Ids
<1> DEFINE new == Append(fieldId, part)
<1>3. /\ new \in Ids /\ Cardinality(Carets(new)) <= Cardinality(Carets(fieldId)) + 1
      /\ part # "^" => Cardinality(Carets(new)) <= Cardinality(Carets(fieldId))
      /\ Cardinality(Carets(new)) \in Nat
  BY <1>1, AppendIs, CountIs
<1> HIDE DEF new
<1>4. arrayDepth' \in 0..MAX_ARRAY_NESTING /\ arrayDepth' >= arrayDepth
  BY <1>1, Limits
<1>5. CASE Len(fieldId) < MAX_JSON_ID_LENGTH
  <2>1. fieldId' = new /\ state' = next
    BY <1>5 DEF Extend, Become, new
  <2>2. Cardinality(Carets(new)) <= arrayDepth'
    BY <1>1, <1>2, <1>3, <1>4, <1>5, Limits
  <2> QED
    BY <1>3, <1>4, <2>1, <2>2 DEF DecoderOK, Carets
<1>6. CASE ~(Len(fieldId) < MAX_JSON_ID_LENGTH)
  <2>1. fieldId' = fieldId /\ state' = "jsError"
    BY <1>6 DEF Extend, Become
  <2>2. Cardinality(Carets(fieldId)) <= arrayDepth'
    BY <1>1, <1>2, <1>4, Limits
  <2> QED
    BY <1>1, <1>4, <2>1, <2>2 DEF DecoderOK, Carets, States
<1> QED
  BY <1>5, <1>6

(* A bracket opens an index that exists, or is an error.                   *)
LEMMA OpenArrayOK ==
  ASSUME DecoderOK, OpenArray
  PROVE  DecoderOK'
<1>1. CASE ~(arrayDepth < MAX_ARRAY_NESTING)
  BY <1>1, FailOK DEF OpenArray
<1>2. CASE arrayDepth < MAX_ARRAY_NESTING
  <2>1. Extend("^", "jsVal") /\ m_key' = m_key /\ ended' = ended
    BY <1>2 DEF OpenArray
  <2>2. fieldId \in Ids /\ arrayDepth \in 0..MAX_ARRAY_NESTING /\ Cardinality(Carets(fieldId)) <= arrayDepth
        /\ arrayIndices \in [1..MAX_ARRAY_NESTING -> Nat]
    BY DEF DecoderOK
  <2>3. "^" \in Parts /\ "jsVal" \in States
    BY Limits DEF Separators, States
  <2>4. CASE ~(Len(fieldId) < MAX_JSON_ID_LENGTH)
    <3>1. arrayIndices' = arrayIndices /\ arrayDepth' = arrayDepth
      BY <1>2, <2>4 DEF OpenArray
    <3>2. Len(fieldId) >= MAX_JSON_ID_LENGTH
      BY <2>2, <2>4, Limits DEF Ids
    <3> QED
      BY <2>1, <2>3, <3>1, <3>2, ExtendOK
  <2>5. CASE Len(fieldId) < MAX_JSON_ID_LENGTH
    <3>1. arrayIndices' = [arrayIndices EXCEPT ![arrayDepth + 1] = 0] /\ arrayDepth' = arrayDepth + 1
      BY <1>2, <2>5 DEF OpenArray
    <3>2. fieldId' = Append(fieldId, "^") /\ state' = "jsVal"
      BY <2>1, <2>5 DEF Extend, Become
    <3> DEFINE new == Append(fieldId, "^")
    <3>3. new \in Ids /\ Cardinality(Carets(new)) <= Cardinality(Carets(fieldId)) + 1
      BY <2>2, <2>3, AppendIs
    <3> HIDE DEF new
    <3>4. Cardinality(Carets(new)) \in Nat /\ Cardinality(Carets(fieldId)) \in Nat
      BY <2>2, <3>3, CountIs
    <3>5. Cardinality(Carets(new)) <= arrayDepth'
      BY <2>2, <3>1, <3>3, <3>4, Limits
    <3>6. arrayIndices' \in [1..MAX_ARRAY_NESTING -> Nat] /\ arrayDepth' \in 0..MAX_ARRAY_NESTING
      BY <1>2, <2>2, <3>1, Limits
    <3> QED
      BY <2>1, <2>3, <3>2, <3>3, <3>5, <3>6 DEF DecoderOK, Carets, new
  <2> QED
    BY <2>4, <2>5
<1> QED
  BY <1>1, <1>2

(* What follows a value writes to open indices only.                       *)
LEMMA CheckValueCompletedOK ==
  ASSUME DecoderOK, NEW c \in Tokens, NEW process \in BOOLEAN, CheckValueCompleted(c, process)
  PROVE  DecoderOK'
<1> DEFINE id == IF process THEN Named(fieldId) ELSE fieldId
<1>1. fieldId \in Ids /\ arrayDepth \in 0..MAX_ARRAY_NESTING /\ Cardinality(Carets(fieldId)) <= arrayDepth
      /\ m_key \in Keys
  BY DEF DecoderOK
<1>2. /\ id \in Ids /\ Cardinality(Carets(id)) <= Cardinality(Carets(fieldId))
      /\ InArray(fieldId) => id = << >> \/ InArray(id)
      /\ Cardinality(Carets(id)) \in Nat /\ Cardinality(Carets(fieldId)) \in Nat
  <2>1. CASE process
    BY <1>1, <2>1, NamedIs, CountIs
  <2>2. CASE ~process
    BY <1>1, <2>2, CountIs
  <2> QED
    BY <2>1, <2>2
<1> DEFINE rest == RemoveLastId(id)
<1>3. \/ /\ c.is = "," /\ arrayDepth' = arrayDepth /\ m_key' = m_key /\ ended' = ended
         /\ \/ state' = "jsVal" /\ arrayIndices' = CountedUp /\ fieldId' = id
            \/ state' = "jsExpectId" /\ fieldId' = rest /\ arrayIndices' = arrayIndices
      \/ InArray(fieldId) /\ state' = "jsEndVal" /\ EndArray(id, CountedUp)
      \/ CloseObject(id)
      \/ Fail
  BY DEF CheckValueCompleted, Become
<1> HIDE DEF id
<1>4. rest \in Ids /\ Cardinality(Carets(rest)) <= Cardinality(Carets(id)) /\ Cardinality(Carets(rest)) \in Nat
  BY <1>2, RemoveLastIdIs, CountIs
<1> HIDE DEF rest
<1>5. CASE /\ c.is = "," /\ arrayDepth' = arrayDepth /\ m_key' = m_key /\ ended' = ended
           /\ \/ state' = "jsVal" /\ arrayIndices' = CountedUp /\ fieldId' = id
              \/ state' = "jsExpectId" /\ fieldId' = rest /\ arrayIndices' = arrayIndices
  <2>1. fieldId' \in {id, rest} /\ state' \in States
    BY <1>5 DEF States
  <2>2. arrayIndices' \in [1..MAX_ARRAY_NESTING -> Nat]
    BY <1>5, CountedUpIs DEF DecoderOK
  <2>3. Cardinality(Carets(id)) <= arrayDepth /\ Cardinality(Carets(rest)) <= arrayDepth
    BY <1>1, <1>2, <1>4, Limits
  <2>4. fieldId' \in Ids /\ Cardinality(Carets(fieldId')) <= arrayDepth
    BY <1>2, <1>4, <2>1, <2>3
  <2> QED
    BY <1>5, <2>1, <2>2, <2>4 DEF DecoderOK, Carets
<1>6. CASE InArray(fieldId) /\ state' = "jsEndVal" /\ EndArray(id, CountedUp)
  BY <1>2, <1>6, CountedUpIs, EndArrayOK
<1>7. CASE CloseObject(id)
  BY <1>2, <1>7, CloseObjectOK
<1> QED
  BY <1>3, <1>5, <1>6, <1>7, FailOK

(* So does a string, which may be the key.                                 *)
LEMMA StringValOK ==
  ASSUME DecoderOK, NEW c \in Tokens, StringVal(c), state' \in States
  PROVE  DecoderOK'
<1>1. fieldId \in Ids /\ arrayDepth \in 0..MAX_ARRAY_NESTING /\ Cardinality(Carets(fieldId)) <= arrayDepth
      /\ m_key \in Keys
  BY DEF DecoderOK
<1> DEFINE id == Named(fieldId)
<1>2. /\ id \in Ids /\ Cardinality(Carets(id)) <= Cardinality(Carets(fieldId))
  BY <1>1, NamedIs
<1>3. /\ fieldId' = id /\ m_key' \in {m_key, c.text}
      /\ arrayIndices' = arrayIndices /\ arrayDepth' = arrayDepth /\ ended' = ended
  BY DEF StringVal
<1> HIDE DEF id
<1>4. c.text \in Keys
  BY Limits DEF Tokens, Token
<1>5. Cardinality(Carets(id)) <= arrayDepth
  BY <1>1, <1>2, CountIs, Limits
<1> QED
  BY <1>1, <1>2, <1>3, <1>4, <1>5 DEF DecoderOK, Carets

(* So does every token, whether it belongs where it stands or not.         *)
LEMMA CheckInputOK ==
  ASSUME DecoderOK, NEW c \in Tokens, CheckInput(c)
  PROVE  DecoderOK'
<1>1. CASE Begin(c)
  <2>1. /\ arrayIndices' = arrayIndices /\ m_key' = m_key /\ ended' = ended
        /\ \/ state' = "jsExpectId" /\ fieldId' = << >> /\ arrayDepth' = 0
           \/ state' = state /\ fieldId' = fieldId /\ arrayDepth' = arrayDepth
    BY <1>1 DEF Begin, Become
  <2>2. 0 \in 0..MAX_ARRAY_NESTING /\ "jsExpectId" \in States
    BY Limits DEF States
  <2>3. CASE state' = "jsExpectId" /\ fieldId' = << >> /\ arrayDepth' = 0
    BY <2>1, <2>2, <2>3, NoId DEF DecoderOK, Carets
  <2>4. CASE state' = state /\ fieldId' = fieldId /\ arrayDepth' = arrayDepth
    BY <2>1, <2>4 DEF DecoderOK, Carets
  <2> QED
    BY <2>1, <2>3, <2>4
<1>2. CASE ExpectId(c)
  <2>1. CASE c.is \in FieldNames /\ Extend(c.is, "jsVal")
             /\ UNCHANGED <<arrayIndices, arrayDepth, m_key, ended>>
    <3>1. c.is \in Parts /\ c.is # "^" /\ "jsVal" \in States
      BY <2>1, Limits DEF States
    <3> QED
      BY <2>1, <3>1, ExtendOK
  <2>2. CASE c.is = "string" /\ Extend("string", "jsHadId")
             /\ UNCHANGED <<arrayIndices, arrayDepth, m_key, ended>>
    <3>1. "string" \in Parts /\ "string" # "^" /\ "jsHadId" \in States
      BY Limits DEF States
    <3> QED
      BY <2>2, <3>1, ExtendOK
  <2>3. CASE CloseObject(fieldId)
    <3>1. fieldId \in Ids /\ Cardinality(Carets(fieldId)) <= Cardinality(Carets(fieldId))
      BY CountIs DEF DecoderOK
    <3> QED
      BY <2>3, <3>1, CloseObjectOK
  <2> QED
    BY <1>2, <2>1, <2>2, <2>3, FailOK DEF ExpectId
<1>3. CASE HadId(c) \/ InError(c)
  BY <1>3, FailOK DEF HadId, InError
<1>4. CASE Val(c)
  <2>1. CASE (Become("jsEndVal") \/ Become("jsError")) /\ StringVal(c)
    <3>1. state' \in States
      BY <2>1 DEF Become, States
    <3> QED
      BY <2>1, <3>1, StringValOK
  <2>2. CASE OpenArray
    BY <2>2, OpenArrayOK
  <2>3. CASE InArray(fieldId) /\ Become("jsEndVal") /\ EndArray(fieldId, arrayIndices)
    <3>1. fieldId \in Ids /\ Cardinality(Carets(fieldId)) <= Cardinality(Carets(fieldId))
          /\ arrayIndices \in [1..MAX_ARRAY_NESTING -> Nat]
      BY CountIs DEF DecoderOK
    <3>2. state' = "jsEndVal"
      BY <2>3 DEF Become
    <3> QED
      BY <2>3, <3>1, <3>2, EndArrayOK
  <2>4. CASE Become("jsIntVal") /\ UNCHANGED <<fieldId, arrayIndices, arrayDepth, m_key, ended>>
    BY <2>4 DEF DecoderOK, Become, States, Carets
  <2>5. CASE Extend(":", "jsExpectId") /\ UNCHANGED <<arrayIndices, arrayDepth, m_key, ended>>
    <3>1. ":" \in Parts /\ ":" # "^" /\ "jsExpectId" \in States
      BY Limits DEF States, Separators
    <3> QED
      BY <2>5, <3>1, ExtendOK
  <2> QED
    BY <1>4, <2>1, <2>2, <2>3, <2>4, <2>5, FailOK DEF Val
<1>5. CASE IntVal(c)
  <2> DEFINE process == TRUE
  <2>1. process \in BOOLEAN
    OBVIOUS
  <2>2. CASE CheckValueCompleted(c, process)
    <3> HIDE DEF process
    <3> QED
      BY <2>1, <2>2, CheckValueCompletedOK
  <2>3. CASE UNCHANGED <<state, fieldId, arrayIndices, arrayDepth, m_key, ended>>
    BY <2>3 DEF DecoderOK, Carets
  <2> QED
    BY <1>5, <2>2, <2>3, FailOK DEF IntVal
<1>6. CASE EndVal(c)
  <2> DEFINE process == FALSE
  <2>1. process \in BOOLEAN
    OBVIOUS
  <2>2. CASE CheckValueCompleted(c, process)
    <3> HIDE DEF process
    <3> QED
      BY <2>1, <2>2, CheckValueCompletedOK
  <2> QED
    BY <1>6, <2>2, FailOK DEF EndVal
<1> QED
  BY <1>1, <1>2, <1>3, <1>4, <1>5, <1>6 DEF CheckInput

-----------------------------------------------------------------------------
(* The theorem.                                                            *)

(* The decoder starts with an empty id.                                    *)
LEMMA DecoderInit == Init => TypeOK
<1> SUFFICES ASSUME Init PROVE TypeOK
  OBVIOUS
<1>1. /\ state = "jsBegin" /\ fieldId = << >> /\ arrayDepth = 0 /\ m_key = << >>
      /\ arrayIndices = [i \in 1..MAX_ARRAY_NESTING |-> 0] /\ lineKey = << >> /\ spoiled = 0
      /\ wrong = FALSE /\ unnamed = FALSE /\ ended = 0
  BY DEF Init
<1>2. 0 \in 0..MAX_ARRAY_NESTING /\ 0 \in 0..MaxSpoiled
  BY Limits
<1>3. Cardinality({i \in DOMAIN fieldId : fieldId[i] = "^"}) <= arrayDepth
  BY <1>1, NoId DEF Carets
<1>4. fieldId \in Seq(FieldNames \cup Separators \cup {"string"} \cup UNION {Range(k) : k \in Keys})
  BY <1>1
<1>5. {wrong, unnamed} \subseteq BOOLEAN
  BY <1>1
<1>6. arrayIndices \in [1..MAX_ARRAY_NESTING -> Nat]
  BY <1>1
<1> QED
  BY <1>1, <1>2, <1>3, <1>4, <1>5, <1>6, Limits DEF TypeOK, States

(* The sender and the monitor.                                             *)
OtherOK ==
    /\ spoiled \in 0..MaxSpoiled /\ lineKey \in Keys
    /\ wrong \in BOOLEAN /\ unnamed \in BOOLEAN

(* The types are those of the decoder and those of the sender.             *)
LEMMA TypesSplit == TypeOK <=> DecoderOK /\ OtherOK
BY DEF TypeOK, DecoderOK, OtherOK, Ids, Parts, Carets

(* The sender stays with a key.                                            *)
LEMMA SendOK ==
  ASSUME lineKey \in Keys, NEW c \in Tokens, Send(c)
  PROVE  lineKey' \in Keys
<1>1. c.text \in Keys
  BY Limits DEF Tokens, Token
<1> QED
  BY <1>1 DEF Send, Open, Field, Scalar, Comma, CloseSent, After

(* Every step keeps the types.                                             *)
LEMMA DecoderNext == TypeOK /\ [Next]_vars => TypeOK'
<1> SUFFICES ASSUME TypeOK, [Next]_vars PROVE TypeOK'
  OBVIOUS
<1>1. DecoderOK /\ OtherOK
  BY TypesSplit
<1> SUFFICES DecoderOK' /\ OtherOK'
  BY TypesSplit DEF TypeOK, DecoderOK, OtherOK, Ids, Parts, Carets
<1>2. ASSUME NEW c \in Tokens, Deliver(c)
      PROVE  DecoderOK' /\ OtherOK'
  <2>1. DecoderOK'
    BY <1>1, <1>2, CheckInputOK DEF Deliver
  <2>2. lineKey' \in Keys
    BY <1>1, <1>2, SendOK DEF Deliver, OtherOK
  <2>3. spoiled' \in 0..MaxSpoiled
    BY <1>1, <1>2, Limits DEF Deliver, OtherOK
  <2>4. wrong' \in BOOLEAN /\ unnamed' \in BOOLEAN
    <3>1. CASE Compare(c)
      BY <3>1, Zenon DEF Compare
    <3>2. CASE UNCHANGED <<wrong, unnamed>>
      BY <1>1, <3>2 DEF OtherOK
    <3> QED
      BY <1>2, <3>1, <3>2 DEF Deliver
  <2> QED
    BY <2>1, <2>2, <2>3, <2>4 DEF OtherOK
<1>3. ASSUME NEW c \in Tokens, Damage(c)
      PROVE  DecoderOK' /\ OtherOK'
  <2>1. Token("garbage") \in Tokens
    BY DEF Tokens, Marks
  <2>2. ASSUME CheckInput(Token("garbage")) PROVE DecoderOK'
    BY <1>1, <2>1, <2>2, CheckInputOK
  <2>3. ASSUME UNCHANGED <<state, fieldId, arrayIndices, arrayDepth, m_key, ended>>
        PROVE  DecoderOK'
    BY <1>1, <2>3 DEF DecoderOK, Carets
  <2>4. DecoderOK'
    BY <1>3, <2>2, <2>3 DEF Damage
  <2>5. lineKey' \in Keys
    BY <1>1, <1>3, SendOK DEF Damage, OtherOK
  <2>6. spoiled' \in 0..MaxSpoiled
    BY <1>1, <1>3, Limits DEF Damage, OtherOK
  <2>7. wrong' \in BOOLEAN /\ unnamed' \in BOOLEAN
    BY <1>3, Zenon DEF Damage
  <2> QED
    BY <2>4, <2>5, <2>6, <2>7 DEF OtherOK
<1>4. CASE EndLine
  <2>1. DecoderOK'
    BY <1>1, <1>4 DEF EndLine, NewLine, Become, DecoderOK, Carets, States
  <2>2. spoiled' \in 0..MaxSpoiled /\ lineKey' \in Keys
    BY <1>4, Limits DEF EndLine
  <2>3. wrong' \in BOOLEAN /\ unnamed' \in BOOLEAN
    BY <1>4, Zenon DEF EndLine
  <2> QED
    BY <2>1, <2>2, <2>3 DEF OtherOK
<1>5. CASE UNCHANGED vars
  BY <1>1, <1>5 DEF vars, sender, decoder, monitor, DecoderOK, OtherOK, Carets
<1> QED
  BY <1>2, <1>3, <1>4, <1>5 DEF Next

(* No line, however broken, opens more arrays than there are indices for,  *)
(* or leaves an id that names an array which is not open (OpenArray,       *)
(* EndArray, m_arrayIndices).                                              *)
THEOREM IndicesStayInside == Spec => []TypeOK
BY DecoderInit, DecoderNext, PTL DEF Spec

-----------------------------------------------------------------------------
(* The concatenation of a sequence of sequences, one part at a time: what  *)
(* FlattenSeq computes with a recursive function.                          *)

(* A set of numbers that no number enters first is empty. *)
LEMMA NoFirst ==
  ASSUME NEW n \in Nat, NEW S, S \subseteq 0..n, 0 \notin S,
         \A i \in 1..n : i - 1 \notin S => i \notin S
  PROVE  S = {}
<1> SUFFICES ASSUME S # {} PROVE FALSE
  OBVIOUS
<1>1. S \subseteq Nat
  OBVIOUS
<1>2. PICK k \in S : \A j \in S : ~(<<j, k>> \in OpToRel(<, Nat))
  BY <1>1, NatLessThanWellFounded, WFMin
<1>3. OpToRel(<, Nat) = {p \in Nat \X Nat : p[1] < p[2]}
  BY DEF OpToRel
<1>4. k \in 1..n /\ k - 1 \in Nat
  BY <1>1
<1>5. k - 1 \notin S
  <2> SUFFICES ASSUME k - 1 \in S PROVE FALSE
    OBVIOUS
  <2>1. ~(<<k - 1, k>> \in OpToRel(<, Nat))
    BY <1>2
  <2>2. k - 1 < k /\ k \in Nat
    BY <1>4
  <2> QED
    BY <1>3, <1>4, <2>1, <2>2
<1> QED
  BY <1>4, <1>5

(* f[i] is the concatenation of the first i parts, up to the n-th.         *)
Concatenated(f, s, n) ==
  \A i \in 1..n : f[i] = IF i = 1 THEN s[i] ELSE f[i - 1] \o s[i]

Concatenates(f, s) ==
  f = [i \in 1..Len(s) |-> IF i = 1 THEN s[i] ELSE f[i - 1] \o s[i]]

(* Two sequences of beginnings of the same concatenation are the same.     *)
LEMMA ConcatenatedOnce ==
  ASSUME NEW s, NEW n \in Nat, NEW f, NEW g,
         Concatenated(f, s, n), Concatenated(g, s, n)
  PROVE  \A i \in 1..n : f[i] = g[i]
<1> DEFINE S == {i \in 1..n : f[i] # g[i]}
<1>1. \A i \in 1..n : i - 1 \notin S => i \notin S
  <2> SUFFICES ASSUME NEW i \in 1..n, i - 1 \notin S PROVE f[i] = g[i]
    OBVIOUS
  <2>1. CASE i = 1
    BY <2>1 DEF Concatenated
  <2>2. CASE i # 1
    <3>1. i - 1 \in 1..n
      BY <2>2
    <3>2. f[i - 1] = g[i - 1]
      BY <3>1
    <3> QED
      BY <2>2, <3>2 DEF Concatenated
  <2> QED
    BY <2>1, <2>2
<1>2. S \subseteq 0..n /\ 0 \notin S
  OBVIOUS
<1> HIDE DEF S
<1>3. S = {}
  BY <1>1, <1>2, NoFirst
<1> QED
  BY <1>3 DEF S

(* There is such a sequence: a first place without one would have one      *)
(* before it, and then one itself.                                         *)
LEMMA ConcatenatesExists ==
  ASSUME NEW S, NEW s \in Seq(Seq(S))
  PROVE  \E f \in [1..Len(s) -> Seq(S)] : Concatenates(f, s)
<1> DEFINE Up(n, f) == /\ f \in [1..n -> Seq(S)]
                       /\ \A i \in 1..n : f[i] = IF i = 1 THEN s[i] ELSE f[i - 1] \o s[i]
           Bad == {n \in 0..Len(s) : ~\E f : Up(n, f)}
<1>0. Len(s) \in Nat /\ \A i \in 1..Len(s) : s[i] \in Seq(S)
  OBVIOUS
<1>1. 0 \notin Bad
  <2>1. Up(0, << >>)
    OBVIOUS
  <2> QED
    BY <2>1
<1>2. \A n \in 1..Len(s) : n - 1 \notin Bad => n \notin Bad
  <2> SUFFICES ASSUME NEW n \in 1..Len(s), n - 1 \notin Bad
               PROVE  \E f : Up(n, f)
    OBVIOUS
  <2>1. n - 1 \in 0..Len(s) /\ n \in Nat
    BY <1>0
  <2>2. PICK f : Up(n - 1, f)
    BY <2>1
  <2> DEFINE g == [i \in 1..n |-> IF i = 1 THEN s[1] ELSE f[i - 1] \o s[i]]
  <2>3. \A i \in 1..n : i # 1 => i - 1 \in 1..(n - 1)
    BY <2>1
  <2>4. g \in [1..n -> Seq(S)]
    <3>1. ASSUME NEW i \in 1..n PROVE g[i] \in Seq(S)
      <4>1. CASE i = 1
        BY <1>0, <4>1
      <4>2. CASE i # 1
        <5>1. f[i - 1] \in Seq(S) /\ s[i] \in Seq(S)
          BY <1>0, <2>1, <2>2, <2>3, <4>2
        <5> QED
          BY <4>2, <5>1
      <4> QED
        BY <4>1, <4>2
    <3> QED
      BY <3>1
  <2>5. \A i \in 1..(n - 1) : g[i] = f[i]
    <3>1. ASSUME NEW i \in 1..(n - 1) PROVE g[i] = f[i]
      <4>1. i \in 1..n
        BY <2>1
      <4>2. f[i] = IF i = 1 THEN s[i] ELSE f[i - 1] \o s[i]
        BY <2>2
      <4> QED
        BY <4>1, <4>2
    <3> QED
      BY <3>1
  <2>6. \A i \in 1..n : g[i] = IF i = 1 THEN s[i] ELSE g[i - 1] \o s[i]
    <3>1. ASSUME NEW i \in 1..n, i # 1 PROVE g[i] = g[i - 1] \o s[i]
      <4>1. g[i - 1] = f[i - 1]
        BY <2>3, <2>5, <3>1
      <4> QED
        BY <3>1, <4>1
    <3>2. ASSUME NEW i \in 1..n, i = 1 PROVE g[i] = s[i]
      BY <3>2
    <3> HIDE DEF g
    <3> QED
      BY <3>1, <3>2
  <2> HIDE DEF g
  <2>7. Up(n, g)
    BY <2>4, <2>6
  <2> QED
    BY <2>7
<1>3. Bad \subseteq 0..Len(s)
  OBVIOUS
<1>4. Bad = {}
  <2> HIDE DEF Bad
  <2> QED
    BY <1>0, <1>1, <1>2, <1>3, NoFirst
<1>5. PICK f : Up(Len(s), f)
  <2>1. Len(s) \in 0..Len(s)
    BY <1>0
  <2> QED
    BY <1>4, <2>1
<1>6. Concatenates(f, s)
  BY <1>5 DEF Concatenates
<1> QED
  BY <1>5, <1>6

(* FlattenSeq is the last of these beginnings.                             *)
LEMMA FlattenIs ==
  ASSUME NEW S, NEW s \in Seq(Seq(S)), NEW f, Concatenates(f, s)
  PROVE  FlattenSeq(s) = IF s = << >> THEN << >> ELSE f[Len(s)]
<1>1. CASE s = << >>
  BY <1>1 DEF FlattenSeq
<1>2. CASE s # << >>
  <2>1. Len(s) \in Nat /\ Len(s) # 0 /\ Len(s) \in 1..Len(s)
    BY <1>2
  <2> DEFINE flatten[i \in 1..Len(s)] ==
               IF i = 1 THEN s[i] ELSE flatten[i-1] \o s[i]
  <2>2. FlattenSeq(s) = flatten[Len(s)]
    BY <2>1 DEF FlattenSeq
  <2>3. flatten = [i \in 1..Len(s) |-> IF i = 1 THEN s[i] ELSE flatten[i - 1] \o s[i]]
    <3>1. \E ff : ff = [i \in 1..Len(s) |-> IF i = 1 THEN s[i] ELSE ff[i - 1] \o s[i]]
      BY DEF Concatenates
    <3> QED
      BY <3>1
  <2> HIDE DEF flatten
  <2>4. \A i \in 1..Len(s) : flatten[i] = f[i]
    <3>1. Concatenated(flatten, s, Len(s))
      BY <2>3 DEF Concatenated
    <3>2. Concatenated(f, s, Len(s))
      BY DEF Concatenates, Concatenated
    <3> QED
      BY <2>1, <3>1, <3>2, ConcatenatedOnce
  <2> QED
    BY <1>2, <2>1, <2>2, <2>4
<1> QED
  BY <1>1, <1>2

(* One more part joins the others. *)
LEMMA FlattenAppend ==
  ASSUME NEW S, NEW s \in Seq(Seq(S)), NEW e \in Seq(S)
  PROVE  /\ FlattenSeq(s) \in Seq(S)
         /\ FlattenSeq(Append(s, e)) = FlattenSeq(s) \o e
<1> DEFINE t == Append(s, e)
<1>1. /\ t \in Seq(Seq(S)) /\ Len(t) = Len(s) + 1 /\ Len(s) \in Nat
      /\ t[Len(s) + 1] = e /\ \A i \in 1..Len(s) : t[i] = s[i]
      /\ t # << >>
  BY AppendProperties
<1>2. PICK f \in [1..Len(s) -> Seq(S)] : Concatenates(f, s)
  BY ConcatenatesExists
<1>3. PICK g \in [1..Len(t) -> Seq(S)] : Concatenates(g, t)
  BY <1>1, ConcatenatesExists
<1> HIDE DEF t
<1>4. FlattenSeq(s) = IF s = << >> THEN << >> ELSE f[Len(s)]
  BY <1>2, FlattenIs
<1>5. FlattenSeq(t) = g[Len(t)]
  BY <1>1, <1>3, FlattenIs
<1>6. \A i \in 1..Len(s) : f[i] = g[i]
  <2>1. Concatenated(f, s, Len(s))
    BY <1>2 DEF Concatenates, Concatenated
  <2>2. \A i \in 1..Len(t) : g[i] = IF i = 1 THEN t[i] ELSE g[i - 1] \o t[i]
    BY <1>3 DEF Concatenates
  <2>3. Concatenated(g, s, Len(s))
    <3>1. \A i \in 1..Len(s) : i \in 1..Len(t)
      BY <1>1
    <3> QED
      BY <1>1, <2>2, <3>1, Zenon DEF Concatenated
  <2>4. Len(s) \in Nat
    BY <1>1
  <2> QED
    BY <2>1, <2>3, <2>4, ConcatenatedOnce
<1>7. g[Len(t)] = IF Len(t) = 1 THEN e ELSE g[Len(t) - 1] \o e
  <2>1. Len(t) \in 1..Len(t) /\ t[Len(t)] = e
    BY <1>1
  <2>2. \A i \in 1..Len(t) : g[i] = IF i = 1 THEN t[i] ELSE g[i - 1] \o t[i]
    BY <1>3 DEF Concatenates
  <2> QED
    BY <2>1, <2>2
<1>8. CASE s = << >>
  <2>1. Len(s) = 0 /\ Len(t) = 1
    BY <1>1, <1>8
  <2> QED
    BY <1>4, <1>5, <1>7, <1>8, <2>1 DEF t
<1>9. CASE s # << >>
  <2>1. Len(s) \in 1..Len(s) /\ Len(t) # 1 /\ Len(t) - 1 = Len(s)
    BY <1>1, <1>9
  <2> QED
    BY <1>4, <1>5, <1>6, <1>7, <1>9, <2>1 DEF t
<1> QED
  BY <1>8, <1>9

-----------------------------------------------------------------------------
(* The sender's place.                                                     *)

Letters == FieldNames \cup Separators

Segments(s) == [i \in DOMAIN s |-> Segment(i, s[i])]
PathOf(s) == FlattenSeq(Segments(s))

CountParts(s) == [i \in DOMAIN s |-> IF s[i].kind = "array" THEN <<s[i].count>> ELSE << >>]
CountsOf(s) == FlattenSeq(CountParts(s))

(* The path and the counts depend on the stack alone.                      *)
LEMMA PathIs ==
  /\ Path = PathOf(stack) /\ Path' = PathOf(stack')
  /\ Counts = CountsOf(stack) /\ Counts' = CountsOf(stack')
BY DEF Path, PathOf, Segments, Counts, CountsOf, CountParts

(* Sequences of one and two.                                               *)
LEMMA ShortSeqs ==
  ASSUME NEW S, NEW a \in S, NEW b \in S
  PROVE  /\ << >> \in Seq(S) /\ <<a>> \in Seq(S) /\ <<a, b>> \in Seq(S)
         /\ <<a>> \o <<b>> = <<a, b>> /\ Append(<<a>>, b) = <<a, b>>
         /\ << >> \o <<a>> = <<a>> /\ <<a>> \o << >> = <<a>>
<1>1. << >> \in Seq(S) /\ <<a>> \in Seq(S) /\ <<a, b>> \in Seq(S)
  OBVIOUS
<1>2. Append(<<a>>, b) = <<a, b>>
  <2> DEFINE p == Append(<<a>>, b)
             q == <<a, b>>
  <2>1. p \in Seq(S) /\ Len(p) = 2 /\ p[1] = a /\ p[2] = b
    BY <1>1
  <2>2. q \in Seq(S) /\ Len(q) = 2 /\ q[1] = a /\ q[2] = b
    BY <1>1
  <2> HIDE DEF p, q
  <2>3. \A i \in 1..2 : p[i] = q[i]
    BY <2>1, <2>2
  <2>4. p = q
    BY <2>1, <2>2, <2>3, SeqEqual
  <2> QED
    BY <2>4 DEF p, q
<1>3. \A p \in Seq(S) : << >> \o p = p /\ p \o << >> = p
  OBVIOUS
<1>4. <<a>> \o <<b>> = Append(<<a>>, b)
  OBVIOUS
<1> QED
  BY <1>1, <1>2, <1>3, <1>4

(* Append, place by place.                                                 *)
LEMMA AppendIsFunction ==
  ASSUME NEW S, NEW s \in Seq(S), NEW e \in S
  PROVE  Append(s, e) = [i \in 1..(Len(s) + 1) |-> IF i = Len(s) + 1 THEN e ELSE s[i]]
<1> DEFINE p == Append(s, e)
           q == [i \in 1..(Len(s) + 1) |-> IF i = Len(s) + 1 THEN e ELSE s[i]]
<1>1. /\ p \in Seq(S) /\ Len(p) = Len(s) + 1 /\ Len(s) \in Nat
      /\ p[Len(s) + 1] = e /\ \A i \in 1..Len(s) : p[i] = s[i]
  BY AppendProperties, LenProperties
<1>2. \A i \in 1..(Len(s) + 1) : i = Len(s) + 1 \/ i \in 1..Len(s)
  BY <1>1
<1>3. \A i \in 1..(Len(s) + 1) : q[i] = IF i = Len(s) + 1 THEN e ELSE s[i]
  OBVIOUS
<1>4. q \in Seq(S) /\ Len(q) = Len(s) + 1
  <2>1. \A i \in 1..(Len(s) + 1) : q[i] \in S
    BY <1>2
  <2>2. q \in [1..(Len(s) + 1) -> S]
    BY <2>1
  <2> HIDE DEF q
  <2> QED
    BY <1>1, <2>2
<1> HIDE DEF p, q
<1>5. \A i \in 1..Len(p) : p[i] = q[i]
  BY <1>1, <1>2, <1>3
<1>6. p = q
  BY <1>1, <1>4, <1>5, SeqEqual
<1> QED
  BY <1>6 DEF p, q

(* What each open object or array adds to the id.                          *)
LEMMA SegmentIs ==
  ASSUME NEW i \in Nat \ {0}, NEW f \in Frames
  PROVE  /\ Segment(i, f) \in Seq(Letters)
         /\ f.kind = "array" => Segment(i, f) = <<"^">>
         /\ f.kind = "object" /\ i = 1 => Segment(i, f) = IF f.name = "none" THEN << >> ELSE <<f.name>>
         /\ f.kind = "object" /\ i # 1 => Segment(i, f) = IF f.name = "none" THEN <<":">> ELSE <<":", f.name>>
<1>1. f.kind \in {"object", "array"} /\ f.name \in FieldNames \cup {"none"}
  BY DEF Frames
<1>2. "^" \in Letters /\ ":" \in Letters /\ (f.name # "none" => f.name \in Letters)
  BY <1>1 DEF Letters, Separators
<1>3. f.kind = "array" => Segment(i, f) = <<"^">>
  BY DEF Segment
<1>4. f.kind = "object" /\ i = 1 => Segment(i, f) = IF f.name = "none" THEN << >> ELSE <<f.name>>
  BY DEF Segment
<1>5. f.kind = "object" /\ i # 1 => Segment(i, f) = IF f.name = "none" THEN <<":">> ELSE <<":", f.name>>
  <2>1. <<":">> \o << >> = <<":">>
    BY <1>2, ShortSeqs
  <2>2. f.name # "none" => <<":">> \o <<f.name>> = <<":", f.name>>
    BY <1>2, ShortSeqs
  <2> QED
    BY <2>1, <2>2 DEF Segment
<1>6. /\ << >> \in Seq(Letters) /\ <<"^">> \in Seq(Letters) /\ <<":">> \in Seq(Letters)
      /\ f.name # "none" => <<f.name>> \in Seq(Letters) /\ <<":", f.name>> \in Seq(Letters)
  BY <1>2, ShortSeqs
<1> QED
  BY <1>1, <1>3, <1>4, <1>5, <1>6

(* What is opened adds its segment to the path.                            *)
LEMMA PathAppend ==
  ASSUME NEW s \in Seq(Frames), NEW f \in Frames
  PROVE  /\ PathOf(s) \in Seq(Letters)
         /\ PathOf(Append(s, f)) = PathOf(s) \o Segment(Len(s) + 1, f)
<1> DEFINE t == Append(s, f)
           e == Segment(Len(s) + 1, f)
<1>1. /\ Len(s) \in Nat /\ t \in Seq(Frames) /\ Len(t) = Len(s) + 1 /\ t[Len(s) + 1] = f
      /\ \A i \in 1..Len(s) : t[i] = s[i] /\ s[i] \in Frames
  BY AppendProperties
<1>2. Segments(s) \in Seq(Seq(Letters)) /\ Len(Segments(s)) = Len(s)
  <2>1. ASSUME NEW i \in 1..Len(s) PROVE Segment(i, s[i]) \in Seq(Letters)
    <3>1. i \in Nat \ {0} /\ s[i] \in Frames
      BY <1>1
    <3> QED
      BY <3>1, SegmentIs
  <2> QED
    BY <1>1, <2>1 DEF Segments
<1>3. e \in Seq(Letters)
  <2>1. Len(s) + 1 \in Nat \ {0}
    BY <1>1
  <2> QED
    BY <2>1, SegmentIs
<1>4. Segments(t) = Append(Segments(s), e)
  <2>1. DOMAIN t = 1..(Len(s) + 1) /\ DOMAIN s = 1..Len(s)
    BY <1>1
  <2>2. Segments(t) = [i \in 1..(Len(s) + 1) |-> Segment(i, t[i])]
    BY <2>1 DEF Segments
  <2>3. Append(Segments(s), e) = [i \in 1..(Len(s) + 1) |-> IF i = Len(s) + 1 THEN e ELSE Segments(s)[i]]
    BY <1>1, <1>2, <1>3
  <2>4. \A i \in 1..(Len(s) + 1) : Segment(i, t[i]) = IF i = Len(s) + 1 THEN e ELSE Segments(s)[i]
    <3>1. ASSUME NEW i \in 1..(Len(s) + 1), i # Len(s) + 1
          PROVE  Segment(i, t[i]) = Segments(s)[i]
      <4>1. i \in 1..Len(s)
        BY <1>1, <3>1
      <4> QED
        BY <1>1, <2>1, <4>1 DEF Segments
    <3>2. ASSUME NEW i \in 1..(Len(s) + 1), i = Len(s) + 1
          PROVE  Segment(i, t[i]) = e
      BY <1>1, <3>2
    <3> HIDE DEF e
    <3> QED
      BY <3>1, <3>2
  <2> HIDE DEF e
  <2> QED
    BY <2>2, <2>3, <2>4
<1> HIDE DEF e
<1>5. FlattenSeq(Append(Segments(s), e)) = FlattenSeq(Segments(s)) \o e
  BY <1>2, <1>3, FlattenAppend
<1>6. FlattenSeq(Segments(s)) \in Seq(Letters)
  BY <1>2, <1>3, FlattenAppend
<1> QED
  BY <1>4, <1>5, <1>6 DEF PathOf, e

(* An array that is opened adds its count.                                 *)
LEMMA CountsAppend ==
  ASSUME NEW s \in Seq(Frames), NEW f \in Frames
  PROVE  /\ CountsOf(s) \in Seq(Nat)
         /\ CountsOf(Append(s, f)) = IF f.kind = "array" THEN Append(CountsOf(s), f.count) ELSE CountsOf(s)
<1> DEFINE t == Append(s, f)
           Part(g) == IF g.kind = "array" THEN <<g.count>> ELSE << >>
           e == Part(f)
<1>1. /\ Len(s) \in Nat /\ t \in Seq(Frames) /\ Len(t) = Len(s) + 1 /\ t[Len(s) + 1] = f
      /\ \A i \in 1..Len(s) : t[i] = s[i] /\ s[i] \in Frames
  BY AppendProperties
<1>2. ASSUME NEW g \in Frames PROVE Part(g) \in Seq(Nat)
  <2>1. g.count \in Nat
    BY DEF Frames
  <2>2. << >> \in Seq(Nat) /\ <<g.count>> \in Seq(Nat)
    BY <2>1, ShortSeqs
  <2> QED
    BY <2>2
<1>3. e \in Seq(Nat)
  BY <1>2
<1>a. CountParts(s) = [i \in DOMAIN s |-> Part(s[i])] /\ CountParts(t) = [i \in DOMAIN t |-> Part(t[i])]
  BY DEF CountParts
<1> HIDE DEF Part
<1>4. CountParts(s) \in Seq(Seq(Nat)) /\ Len(CountParts(s)) = Len(s)
  <2>1. \A i \in 1..Len(s) : Part(s[i]) \in Seq(Nat)
    BY <1>1, <1>2
  <2> QED
    BY <1>1, <1>a, <2>1
<1>5. CountParts(t) = Append(CountParts(s), e)
  <2>1. DOMAIN t = 1..(Len(s) + 1) /\ DOMAIN s = 1..Len(s)
    BY <1>1
  <2>2. CountParts(t) = [i \in 1..(Len(s) + 1) |-> Part(t[i])]
    BY <1>a, <2>1
  <2> HIDE DEF e
  <2>3. Append(CountParts(s), e) = [i \in 1..(Len(s) + 1) |-> IF i = Len(s) + 1 THEN e ELSE CountParts(s)[i]]
    BY <1>3, <1>4, AppendIsFunction
  <2>4. \A i \in 1..(Len(s) + 1) : Part(t[i]) = IF i = Len(s) + 1 THEN e ELSE CountParts(s)[i]
    <3>1. ASSUME NEW i \in 1..(Len(s) + 1), i # Len(s) + 1
          PROVE  Part(t[i]) = CountParts(s)[i]
      <4>1. i \in 1..Len(s)
        BY <1>1, <3>1
      <4> QED
        BY <1>1, <1>a, <2>1, <4>1
    <3>2. ASSUME NEW i \in 1..(Len(s) + 1), i = Len(s) + 1
          PROVE  Part(t[i]) = e
      BY <1>1, <3>2 DEF e
    <3> HIDE DEF e
    <3> QED
      BY <3>1, <3>2
  <2> HIDE DEF e
  <2> QED
    BY <2>2, <2>3, <2>4
<1> HIDE DEF e
<1>6. /\ FlattenSeq(Append(CountParts(s), e)) = FlattenSeq(CountParts(s)) \o e
      /\ FlattenSeq(CountParts(s)) \in Seq(Nat)
  BY <1>3, <1>4, FlattenAppend
<1>7. CountsOf(t) = CountsOf(s) \o e /\ CountsOf(s) \in Seq(Nat)
  BY <1>5, <1>6 DEF CountsOf
<1>8. f.kind = "array" => CountsOf(s) \o e = Append(CountsOf(s), f.count)
  <2> SUFFICES ASSUME f.kind = "array" PROVE CountsOf(s) \o e = Append(CountsOf(s), f.count)
    OBVIOUS
  <2>1. e = <<f.count>> /\ f.count \in Nat
    BY DEF e, Part, Frames
  <2> QED
    BY <1>7, <2>1
<1>9. f.kind # "array" => CountsOf(s) \o e = CountsOf(s)
  <2>1. f.kind # "array" => e = << >>
    BY DEF e, Part
  <2> QED
    BY <1>7, <2>1
<1> QED
  BY <1>7, <1>8, <1>9

(* A stack of open objects and arrays as the sender has it.                *)
GoodStack(s) ==
  /\ s \in Seq(Frames)
  /\ \A i \in 1..Len(s) :
       /\ i = 1 => s[i].kind = "object"
       /\ i < Len(s) /\ s[i].kind = "object" => s[i].name # "none"
       /\ i > 1 => s[i].name \in Names \cup {"none"}

(* Only its first name can be one of the answer's own fields.              *)
Inner(p) == p \in Seq(Letters) /\ \A i \in 2..Len(p) : p[i] \in Names \cup Separators

(* Before a message there is no path.                                      *)
LEMMA PathOfNone == PathOf(<< >>) = << >> /\ CountsOf(<< >>) = << >>
<1>1. Segments(<< >>) = << >> /\ CountParts(<< >>) = << >>
  BY DEF Segments, CountParts
<1>2. FlattenSeq(<< >>) = << >>
  <2>1. << >> \in Seq(Seq(Nat))
    OBVIOUS
  <2>2. PICK f \in [1..Len(<< >>) -> Seq(Nat)] : Concatenates(f, << >>)
    BY <2>1, ConcatenatesExists
  <2> QED
    BY <2>1, <2>2, FlattenIs
<1> QED
  BY <1>1, <1>2 DEF PathOf, CountsOf

(* What follows a first name may be any names and separators.              *)
LEMMA ConcatInner ==
  ASSUME NEW p, Inner(p), NEW q \in Seq(Names \cup Separators), p # << >>
  PROVE  Inner(p \o q) /\ p \o q # << >> /\ (p \o q)[1] = p[1] /\ Len(p \o q) = Len(p) + Len(q)
<1>1. p \in Seq(Letters) /\ q \in Seq(Letters) /\ Len(p) \in Nat /\ Len(p) >= 1 /\ Len(q) \in Nat
  BY DEF Inner, Letters, FieldNames
<1> DEFINE r == p \o q
<1>2. /\ r \in Seq(Letters) /\ Len(r) = Len(p) + Len(q)
      /\ \A i \in 1..Len(r) : r[i] = IF i <= Len(p) THEN p[i] ELSE q[i - Len(p)]
  BY <1>1
<1> HIDE DEF r
<1>3. ASSUME NEW i \in 2..Len(r) PROVE r[i] \in Names \cup Separators
  <2>1. i \in 1..Len(r) /\ i \in Nat /\ i >= 2
    BY <1>1, <1>2
  <2>2. CASE i <= Len(p)
    <3>1. i \in 2..Len(p) /\ r[i] = p[i]
      BY <1>1, <1>2, <2>1, <2>2
    <3> QED
      BY <3>1 DEF Inner
  <2>3. CASE ~(i <= Len(p))
    <3>1. i - Len(p) \in 1..Len(q) /\ r[i] = q[i - Len(p)]
      BY <1>1, <1>2, <2>1, <2>3
    <3> QED
      BY <3>1
  <2> QED
    BY <2>2, <2>3
<1>4. r[1] = p[1] /\ r # << >>
  <2>1. 1 \in 1..Len(r) /\ 1 <= Len(p)
    BY <1>1, <1>2
  <2> QED
    BY <1>2, <2>1
<1> QED
  BY <1>2, <1>3, <1>4 DEF Inner, r

(* A sequence is empty or has a first and a last place.                    *)
LEMMA NonEmpty ==
  ASSUME NEW S, NEW q \in Seq(S)
  PROVE  /\ Len(q) \in Nat /\ q # << >> => Len(q) >= 1 /\ 1 \in 1..Len(q) /\ Len(q) \in 1..Len(q)
         /\ q = << >> <=> Len(q) = 0
OBVIOUS

(* A sequence of one.                                                      *)
LEMMA OneSeq ==
  ASSUME NEW S, NEW a \in S
  PROVE  <<a>> \in Seq(S) /\ Len(<<a>>) = 1 /\ <<a>>[1] = a /\ <<a>> # << >> /\ << >> \o <<a>> = <<a>>
OBVIOUS

(* The id of a stack of n whose first object is at the field a.            *)
PathFact(n, a, p) ==
  /\ Inner(p)
  /\ a = "none" => p = << >> /\ n = 1
  /\ a # "none" => p # << >> /\ p[1] = a
  /\ n = 1 => Len(p) <= 1
  /\ n >= 2 => Len(p) >= 2

(* The path of a message that has just been opened.                        *)
LEMMA PathFactOne ==
  ASSUME NEW a, a = "none" \/ a \in Letters
  PROVE  PathFact(1, a, IF a = "none" THEN << >> ELSE <<a>>)
<1>1. \A i \in 2..1 : FALSE
  OBVIOUS
<1>2. \A i \in 2..0 : FALSE
  OBVIOUS
<1>3. CASE a = "none"
  <2>1. Len(<< >>) = 0 /\ << >> \in Seq(Letters)
    OBVIOUS
  <2>2. Inner(<< >>)
    BY <1>2, <2>1 DEF Inner
  <2> QED
    BY <1>3, <2>1, <2>2 DEF PathFact
<1>4. CASE a # "none"
  <2> DEFINE p == <<a>>
  <2>1. a \in Letters
    BY <1>4
  <2>2. p \in Seq(Letters) /\ Len(p) = 1 /\ p[1] = a /\ p # << >>
    BY <2>1, OneSeq
  <2>3. p = IF a = "none" THEN << >> ELSE <<a>>
    BY <1>4
  <2> HIDE DEF p
  <2>4. Inner(p)
    BY <1>1, <2>2 DEF Inner
  <2>5. PathFact(1, a, p)
    BY <1>4, <2>2, <2>4 DEF PathFact
  <2> QED
    BY <2>3, <2>5
<1> QED
  BY <1>3, <1>4

(* The path one level deeper.                                              *)
LEMMA PathFactMore ==
  ASSUME NEW n \in Nat, n >= 2, NEW a, a # "none", NEW p, PathFact(n - 1, a, p),
         NEW f \in Frames, f.name = "none" \/ f.name \in Names
  PROVE  PathFact(n, a, p \o Segment(n, f))
<1> DEFINE e == Segment(n, f)
           c == f.name
<1>1. (c = "none" \/ c \in Names) /\ f.kind \in {"object", "array"}
  BY DEF Frames
<1>2. e = <<"^">> \/ e = <<":">> \/ (c # "none" /\ e = <<":", c>>)
  BY <1>1, SegmentIs
<1> HIDE DEF e, c
<1>3. e \in Seq(Names \cup Separators) /\ Len(e) \in Nat /\ Len(e) >= 1
  <2> DEFINE S == Names \cup Separators
  <2>1. ":" \in S /\ "^" \in S /\ (c # "none" => c \in S)
    BY <1>1 DEF Separators
  <2>2. CASE e = <<"^">> \/ e = <<":">>
    <3> HIDE DEF S
    <3>1. e \in Seq(S) /\ Len(e) = 1
      BY <2>1, <2>2, OneSeq
    <3> QED
      BY <3>1 DEF S
  <2>3. CASE c # "none" /\ e = <<":", c>>
    <3> HIDE DEF S
    <3>1. e \in Seq(S) /\ Len(e) = 2
      BY <2>1, <2>3
    <3> QED
      BY <3>1 DEF S
  <2> QED
    BY <1>2, <2>2, <2>3
<1>4. Inner(p) /\ p # << >> /\ p[1] = a
  BY DEF PathFact
<1>5. Len(p) \in Nat /\ Len(p) >= 1
  <2>1. p \in Seq(Letters)
    BY <1>4 DEF Inner
  <2> QED
    BY <1>4, <2>1, NonEmpty
<1> DEFINE r == p \o e
<1>6. Inner(r) /\ r # << >> /\ r[1] = a /\ Len(r) = Len(p) + Len(e)
  BY <1>3, <1>4, ConcatInner
<1> HIDE DEF r
<1>7. Len(r) >= 2
  BY <1>3, <1>5, <1>6
<1>8. PathFact(n, a, r)
  BY <1>6, <1>7 DEF PathFact
<1> QED
  BY <1>8 DEF r, e

(* The path of a stack, whatever its depth: only its first name can be one *)
(* of the answer's own.                                                    *)
LEMMA PathIsGood ==
  ASSUME NEW s, GoodStack(s), s # << >>
  PROVE  LET p == PathOf(s)
         IN  /\ Inner(p)
             /\ s[1].name = "none" => p = << >> /\ Len(s) = 1
             /\ s[1].name # "none" => p # << >> /\ p[1] = s[1].name
             /\ Len(s) = 1 => Len(p) <= 1
             /\ Len(s) >= 2 => Len(p) >= 2
<1> DEFINE Part(n) == PathOf(SubSeq(s, 1, n))
           Fact(n) == PathFact(n, s[1].name, Part(n))
           Bad == {n \in 1..Len(s) : ~Fact(n)}
<1>1. /\ s \in Seq(Frames) /\ Len(s) \in Nat /\ Len(s) >= 1 /\ 1 \in 1..Len(s) /\ Len(s) \in 1..Len(s)
      /\ \A i \in 1..Len(s) : s[i] \in Frames
  <2>1. s \in Seq(Frames)
    BY DEF GoodStack
  <2> QED
    BY <2>1, NonEmpty
<1>2. ASSUME NEW n \in 1..Len(s)
      PROVE  /\ n - 1 \in Nat /\ SubSeq(s, 1, n - 1) \in Seq(Frames)
             /\ Part(n) = Part(n - 1) \o Segment(n, s[n])
             /\ Part(n - 1) \in Seq(Letters)
             /\ n \in Nat \ {0} /\ s[n] \in Frames
  <2> DEFINE t == SubSeq(s, 1, n - 1)
             u == SubSeq(s, 1, n)
  <2>1. n \in Nat /\ n - 1 \in Nat /\ n >= 1 /\ n <= Len(s) /\ s[n] \in Frames
    BY <1>1
  <2>2. t \in Seq(Frames) /\ Len(t) = n - 1 /\ \A i \in 1..(n - 1) : t[i] = s[i]
    BY <1>1, <2>1
  <2>3. u \in Seq(Frames) /\ Len(u) = n /\ \A i \in 1..n : u[i] = s[i]
    BY <1>1, <2>1
  <2> HIDE DEF t, u
  <2>4. u = Append(t, s[n])
    <3> DEFINE v == Append(t, s[n])
    <3>1. v \in Seq(Frames) /\ Len(v) = n /\ v[n] = s[n] /\ \A i \in 1..(n - 1) : v[i] = t[i]
      BY <2>1, <2>2
    <3>2. \A i \in 1..n : i = n \/ i \in 1..(n - 1)
      BY <2>1
    <3>3. n \in 1..n
      BY <2>1
    <3> HIDE DEF v
    <3>4. \A i \in 1..Len(u) : u[i] = v[i]
      BY <2>2, <2>3, <3>1, <3>2, <3>3
    <3>5. u = v
      BY <2>3, <3>1, <3>4, SeqEqual
    <3> QED
      BY <3>5 DEF v
  <2>5. PathOf(u) = PathOf(t) \o Segment(Len(t) + 1, s[n]) /\ PathOf(t) \in Seq(Letters)
    BY <2>1, <2>2, <2>4, PathAppend
  <2>6. Len(t) + 1 = n
    BY <2>1, <2>2
  <2> QED
    BY <2>1, <2>2, <2>5, <2>6 DEF t, u
<1>3. Fact(1)
  <2>1. Part(0) = << >>
    <3>1. SubSeq(s, 1, 0) = << >>
      BY <1>1
    <3> QED
      BY <3>1, PathOfNone
  <2>2. s[1].kind = "object" /\ s[1] \in Frames
    BY <1>1 DEF GoodStack
  <2>3. Part(1) = << >> \o Segment(1, s[1])
    <3>1. Part(1) = Part(1 - 1) \o Segment(1, s[1])
      BY <1>1, <1>2
    <3>2. 1 - 1 = 0
      OBVIOUS
    <3> QED
      BY <2>1, <3>1, <3>2
  <2> DEFINE a == s[1].name
  <2>4. Segment(1, s[1]) = IF a = "none" THEN << >> ELSE <<a>>
    <3>1. 1 \in Nat \ {0}
      OBVIOUS
    <3> QED
      BY <2>2, <3>1, SegmentIs
  <2>5. a \in Letters \cup {"none"}
    BY <2>2 DEF Frames, Letters
  <2> HIDE DEF a, Part
  <2>6. Part(1) = IF a = "none" THEN << >> ELSE <<a>>
    <3>1. << >> \o << >> = << >>
      OBVIOUS
    <3>2. << >> \o <<a>> = <<a>>
      BY OneSeq
    <3> QED
      BY <2>3, <2>4, <3>1, <3>2
  <2>7. PathFact(1, a, Part(1))
    BY <2>5, <2>6, PathFactOne
  <2> QED
    BY <2>7 DEF a
<1>4. \A n \in 1..Len(s) : n - 1 \notin Bad => n \notin Bad
  <2> SUFFICES ASSUME NEW n \in 1..Len(s), n - 1 \notin Bad PROVE Fact(n)
    OBVIOUS
  <2>1. CASE n = 1
    BY <1>3, <2>1
  <2>2. CASE n # 1
    <3>1. n - 1 \in 1..Len(s) /\ 1 < Len(s) /\ n \in Nat /\ n > 1 /\ n >= 2
      <4> HIDE DEF Bad, Fact, Part
      <4>1. Len(s) \in Nat /\ n \in 1..Len(s) /\ n # 1
        BY <1>1, <2>2
      <4> QED
        BY <4>1
    <3>2. Fact(n - 1)
      BY <3>1
    <3>3. s[1].kind = "object" /\ s[1].name # "none"
      BY <1>1, <3>1 DEF GoodStack
    <3>4. Part(n) = Part(n - 1) \o Segment(n, s[n])
      BY <1>2
    <3>5. s[n].name \in Names \cup {"none"} /\ s[n] \in Frames
      BY <1>2, <3>1 DEF GoodStack
    <3> HIDE DEF Part
    <3>6. PathFact(n, s[1].name, Part(n - 1) \o Segment(n, s[n]))
      BY <3>1, <3>2, <3>3, <3>5, PathFactMore
    <3> QED
      BY <3>4, <3>6
  <2> QED
    BY <2>1, <2>2
<1>5. Bad \subseteq 0..Len(s) /\ 0 \notin Bad
  <2>1. \A n \in 1..Len(s) : n \in 0..Len(s) /\ n # 0
    BY <1>1
  <2>2. \A n \in Bad : n \in 1..Len(s)
    OBVIOUS
  <2> HIDE DEF Bad
  <2> QED
    BY <2>1, <2>2
<1>6. Bad = {}
  <2> HIDE DEF Bad
  <2> QED
    BY <1>1, <1>4, <1>5, NoFirst
<1>7. Fact(Len(s))
  BY <1>1, <1>6
<1>8. SubSeq(s, 1, Len(s)) = s
  BY <1>1
<1> QED
  BY <1>1, <1>7, <1>8 DEF PathFact

-----------------------------------------------------------------------------
(* An id and its key.                                                      *)

KeyedBy(k, id) ==
  IF id = << >> \/ id[1] # "result" THEN id
  ELSE IF k = << >> THEN SubSeq(id, 3, Len(id))
  ELSE k \o Tail(id)

(* The sender's key and the decoder's are put into an id in the same way.  *)
LEMMA KeyedIs == \A id : Keyed(id) = KeyedBy(lineKey, id) /\ Named(id) = KeyedBy(m_key, id)
BY DEF Keyed, Named, KeyedBy

(* The path is an id.                                                      *)
LEMMA LettersAreParts == Letters \subseteq Parts /\ \A p \in Seq(Letters) : p \in Ids
BY DEF Letters, Parts, Ids

(* The key goes in front, whatever else the id grows by.                   *)
Splits(k, p) == p # << >> /\ (k = << >> /\ p[1] = "result" => Len(p) >= 2)

(* The key goes in front, whatever else the id grows by.                   *)
LEMMA KeyedAppend ==
  ASSUME NEW k \in Keys, NEW p \in Ids, NEW e \in Parts, Splits(k, p)
  PROVE  /\ KeyedBy(k, Append(p, e)) = Append(KeyedBy(k, p), e)
         /\ KeyedBy(k, p) \in Ids
<1> DEFINE q == Append(p, e)
<1>1. p \in Seq(Parts) /\ k \in Seq(Parts) /\ Len(p) \in Nat /\ Len(p) >= 1 /\ p # << >>
  <2>1. p \in Seq(Parts) /\ p # << >>
    BY DEF Splits, Ids
  <2> QED
    BY <2>1, NonEmpty, KeyIs DEF Ids
<1>2. q \in Seq(Parts) /\ Len(q) = Len(p) + 1 /\ q # << >> /\ q[1] = p[1] /\ Tail(q) = Append(Tail(p), e)
  <2>1. q \in Seq(Parts) /\ Len(q) = Len(p) + 1 /\ q[1] = p[1] /\ q # << >>
    BY <1>1
  <2>2. Tail(q) = Append(Tail(p), e)
    <3> DEFINE a == Tail(q)
               b == Append(Tail(p), e)
    <3>1. /\ a \in Seq(Parts) /\ Len(a) = Len(p) /\ \A i \in 1..Len(p) : a[i] = q[i + 1]
      BY <1>1, <2>1
    <3>2. /\ b \in Seq(Parts) /\ Len(b) = Len(p) /\ b[Len(p)] = e
          /\ \A i \in 1..(Len(p) - 1) : b[i] = p[i + 1]
      BY <1>1
    <3>3. q[Len(p) + 1] = e /\ \A i \in 1..Len(p) : q[i] = p[i]
      BY <1>1
    <3> HIDE DEF a, b, q
    <3>4. ASSUME NEW i \in 1..Len(p) PROVE a[i] = b[i]
      <4>1. CASE i = Len(p)
        BY <3>1, <3>2, <3>3, <4>1
      <4>2. CASE i # Len(p)
        <5>1. i \in 1..(Len(p) - 1) /\ i + 1 \in 1..Len(p)
          BY <1>1, <4>2
        <5> QED
          BY <3>1, <3>2, <3>3, <5>1
      <4> QED
        BY <4>1, <4>2
    <3>5. a = b
      BY <3>1, <3>2, <3>4, SeqEqual
    <3> QED
      BY <3>5 DEF a, b
  <2> QED
    BY <2>1, <2>2
<1> HIDE DEF q
<1>3. CASE p[1] # "result"
  <2>1. KeyedBy(k, q) = q /\ KeyedBy(k, p) = p
    BY <1>1, <1>2, <1>3 DEF KeyedBy
  <2> QED
    BY <1>1, <2>1 DEF Ids, q
<1>4. CASE p[1] = "result" /\ k # << >>
  <2>1. KeyedBy(k, q) = k \o Append(Tail(p), e) /\ KeyedBy(k, p) = k \o Tail(p)
    BY <1>1, <1>2, <1>4 DEF KeyedBy
  <2>2. Tail(p) \in Seq(Parts)
    BY <1>1
  <2>3. \A a, b \in Seq(Parts) : a \o b \in Seq(Parts) /\ a \o Append(b, e) = Append(a \o b, e)
    <3> SUFFICES ASSUME NEW a \in Seq(Parts), NEW b \in Seq(Parts)
                 PROVE  a \o b \in Seq(Parts) /\ a \o Append(b, e) = Append(a \o b, e)
      OBVIOUS
    <3> DEFINE x == a \o Append(b, e)
               y == Append(a \o b, e)
               n == Len(a) + Len(b) + 1
    <3>1. Len(a) \in Nat /\ Len(b) \in Nat /\ a \o b \in Seq(Parts) /\ Append(b, e) \in Seq(Parts)
      OBVIOUS
    <3>2. /\ x \in Seq(Parts) /\ Len(x) = n
          /\ \A i \in 1..n : x[i] = IF i <= Len(a) THEN a[i] ELSE Append(b, e)[i - Len(a)]
      BY <3>1
    <3>3. /\ y \in Seq(Parts) /\ Len(y) = n
          /\ \A i \in 1..n : y[i] = IF i = n THEN e ELSE (a \o b)[i]
      BY <3>1
    <3>4. \A i \in 1..(n - 1) : (a \o b)[i] = IF i <= Len(a) THEN a[i] ELSE b[i - Len(a)]
      BY <3>1
    <3>5. \A i \in 1..(Len(b) + 1) : Append(b, e)[i] = IF i = Len(b) + 1 THEN e ELSE b[i]
      BY <3>1
    <3> HIDE DEF x, y
    <3>6. ASSUME NEW i \in 1..n PROVE x[i] = y[i]
      <4>1. CASE i = n
        <5>1. ~(i <= Len(a)) /\ i - Len(a) = Len(b) + 1 /\ i - Len(a) \in 1..(Len(b) + 1)
          BY <3>1, <4>1
        <5> QED
          BY <3>2, <3>3, <3>5, <4>1, <5>1
      <4>2. CASE i # n
        <5>1. i \in 1..(n - 1)
          BY <3>1, <4>2
        <5>2. i <= Len(a) \/ (i - Len(a) \in 1..(Len(b) + 1) /\ i - Len(a) # Len(b) + 1)
          BY <3>1, <4>2
        <5> QED
          BY <3>2, <3>3, <3>4, <3>5, <4>2, <5>1, <5>2
      <4> QED
        BY <4>1, <4>2
    <3>7. x = y
      BY <3>2, <3>3, <3>6, SeqEqual
    <3> QED
      BY <3>1, <3>7 DEF x, y
  <2> QED
    BY <1>1, <2>1, <2>2, <2>3 DEF q, Ids
<1>5. CASE p[1] = "result" /\ k = << >>
  <2>1. Len(p) >= 2
    BY <1>5 DEF Splits
  <2>2. KeyedBy(k, q) = SubSeq(q, 3, Len(p) + 1) /\ KeyedBy(k, p) = SubSeq(p, 3, Len(p))
    BY <1>1, <1>2, <1>5 DEF KeyedBy
  <2> DEFINE a == SubSeq(q, 3, Len(p) + 1)
             b == SubSeq(p, 3, Len(p))
             c == Append(b, e)
             n == Len(p) - 1
  <2>3. /\ a \in Seq(Parts) /\ Len(a) = n /\ \A i \in 1..n : a[i] = q[i + 2]
    BY <1>1, <1>2, <2>1
  <2>4. /\ b \in Seq(Parts) /\ Len(b) = n - 1 /\ \A i \in 1..(n - 1) : b[i] = p[i + 2]
    <3>1. \A i \in 3..Len(p) : i \in 1..Len(p)
      BY <1>1
    <3>2. b \in Seq(Parts) /\ Len(b) = Len(p) - 2
      <4>1. CASE Len(p) = 2
        <5>1. b = << >>
          BY <1>1, <4>1
        <5> HIDE DEF b
        <5> QED
          BY <4>1, <5>1
      <4>2. CASE Len(p) >= 3
        BY <1>1, <4>2
      <4>3. Len(p) = 2 \/ Len(p) >= 3
        <5>1. Len(p) \in Nat
          BY <1>1
        <5>2. \A i \in Nat : i >= 2 => i = 2 \/ i >= 3
          OBVIOUS
        <5> QED
          BY <2>1, <5>1, <5>2
      <4> QED
        BY <4>1, <4>2, <4>3
    <3>3. \A i \in 1..(Len(p) - 2) : b[i] = p[i + 2]
      BY <1>1, <2>1, <3>2
    <3>4. n - 1 = Len(p) - 2
      BY <1>1
    <3> QED
      BY <3>2, <3>3, <3>4
  <2>5. q[Len(p) + 1] = e /\ \A i \in 1..Len(p) : q[i] = p[i]
    BY <1>1 DEF q
  <2> HIDE DEF a, b
  <2>6. c \in Seq(Parts) /\ Len(c) = n /\ c[n] = e /\ \A i \in 1..(n - 1) : c[i] = b[i]
    BY <1>1, <2>4
  <2> HIDE DEF c
  <2>7. ASSUME NEW i \in 1..n PROVE a[i] = c[i]
    <3>1. CASE i = n
      <4>1. i + 2 = Len(p) + 1
        BY <1>1, <3>1
      <4> QED
        BY <2>3, <2>5, <2>6, <3>1, <4>1
    <3>2. CASE i # n
      <4>1. i \in 1..(n - 1) /\ i + 2 \in 1..Len(p)
        BY <1>1, <3>2
      <4> QED
        BY <2>3, <2>4, <2>5, <2>6, <4>1
    <3> QED
      BY <3>1, <3>2
  <2>8. a = c
    BY <2>3, <2>6, <2>7, SeqEqual
  <2> QED
    BY <2>2, <2>4, <2>8 DEF a, b, c, q, Ids
<1> QED
  BY <1>3, <1>4, <1>5

(* An id with its key has no "result" left, nor does it become "key".      *)
LEMMA KeyedFirst ==
  ASSUME NEW k \in Keys, NEW p, Inner(p), p # << >>, p[1] = "result"
  PROVE  LET q == KeyedBy(k, p)
         IN  /\ q \in Ids /\ (q = << >> \/ q[1] \notin {"result", "key"})
             /\ Len(p) = 1 => q = k
<1>1. p \in Seq(Letters) /\ p \in Seq(Parts) /\ Len(p) \in Nat /\ Len(p) >= 1
  <2>1. p \in Seq(Letters)
    BY DEF Inner
  <2> QED
    BY <2>1, NonEmpty, LettersAreParts DEF Ids
<1> DEFINE q == KeyedBy(k, p)
<1>2. CASE k = << >>
  <2>1. q = SubSeq(p, 3, Len(p))
    BY <1>2 DEF KeyedBy
  <2>2. q \in Seq(Parts)
    BY <1>1, <2>1
  <2>3. CASE Len(p) < 3
    <3>1. q = << >>
      BY <1>1, <2>1, <2>3
    <3> QED
      BY <1>2, <2>2, <3>1 DEF Ids
  <2>4. CASE Len(p) >= 3
    <3>1. q[1] = p[3] /\ Len(p) # 1
      BY <1>1, <2>1, <2>4
    <3>2. 3 \in 2..Len(p)
      BY <1>1, <2>4
    <3>3. p[3] \in Names \cup Separators
      BY <3>2 DEF Inner
    <3>4. p[3] \notin {"result", "key"}
      BY <3>3, DecoderAssumption DEF Separators
    <3> QED
      BY <2>2, <3>1, <3>4 DEF Ids
  <2> QED
    BY <1>1, <2>3, <2>4
<1>3. CASE k # << >>
  <2>1. q = k \o Tail(p)
    BY <1>3 DEF KeyedBy
  <2>2. k \in Seq(Parts) /\ k[1] \notin {"result", "key"}
    BY <1>3, KeyIs, DecoderAssumption DEF Ids
  <2>3. Len(k) \in Nat /\ Len(k) >= 1 /\ Tail(p) \in Seq(Parts)
    BY <1>1, <1>3, <2>2, NonEmpty
  <2>4. q \in Seq(Parts) /\ q[1] = k[1]
    BY <2>1, <2>2, <2>3
  <2>5. Len(p) = 1 => q = k
    <3> SUFFICES ASSUME Len(p) = 1 PROVE q = k
      OBVIOUS
    <3>1. Tail(p) = << >>
      <4>1. Len(Tail(p)) = 0
        BY <1>1
      <4> QED
        BY <2>3, <4>1, NonEmpty
    <3> QED
      BY <2>1, <2>2, <3>1
  <2> QED
    BY <2>2, <2>4, <2>5 DEF Ids
<1> QED
  BY <1>2, <1>3

(* An id that is not under "result" stays as it is.                        *)
LEMMA KeyedOther ==
  ASSUME NEW k, NEW p, p = << >> \/ p[1] # "result"
  PROVE  KeyedBy(k, p) = p
BY DEF KeyedBy

(* The key is put in once: there is no "result" left to replace.           *)
LEMMA KeyedTwice ==
  ASSUME NEW k \in Keys, NEW p, Inner(p)
  PROVE  KeyedBy(k, p) \in Ids /\ KeyedBy(k, KeyedBy(k, p)) = KeyedBy(k, p)
<1>1. p \in Ids
  BY LettersAreParts DEF Inner
<1>2. CASE p = << >> \/ p[1] # "result"
  BY <1>1, <1>2, KeyedOther
<1>3. CASE ~(p = << >> \/ p[1] # "result")
  <2>0. p # << >> /\ p[1] = "result"
    BY <1>3
  <2> DEFINE q == KeyedBy(k, p)
  <2>1. q \in Ids /\ (q = << >> \/ q[1] # "result")
    <3>0. Inner(p) /\ k \in Keys
      OBVIOUS
    <3>1. KeyedBy(k, p) \in Ids
      BY <2>0, <3>0, KeyedFirst, Zenon
    <3>2. KeyedBy(k, p) = << >> \/ KeyedBy(k, p)[1] \notin {"result", "key"}
      BY <2>0, KeyedFirst
    <3> HIDE DEF KeyedBy
    <3> QED
      BY <3>1, <3>2
  <2> HIDE DEF q
  <2>2. KeyedBy(k, q) = q
    BY <2>1, KeyedOther
  <2> QED
    BY <2>1, <2>2 DEF q
<1> QED
  BY <1>2, <1>3

(* The key adds its length but for the name it replaces.                   *)
LEMMA KeyedLen ==
  ASSUME NEW k \in Keys, NEW p \in Ids
  PROVE  /\ Len(KeyedBy(k, p)) \in Nat
         /\ Len(KeyedBy(k, p)) <= Len(p) + (IF Len(k) > 1 THEN Len(k) - 1 ELSE 0)
<1>1. p \in Seq(Parts) /\ k \in Seq(Parts) /\ Len(p) \in Nat /\ Len(k) \in Nat
  BY KeyIs DEF Ids
<1>2. CASE p = << >> \/ p[1] # "result"
  <2>1. KeyedBy(k, p) = p
    BY <1>2, KeyedOther
  <2> QED
    BY <1>1, <2>1
<1>3. CASE p # << >> /\ p[1] = "result" /\ k = << >>
  <2>1. KeyedBy(k, p) = SubSeq(p, 3, Len(p))
    BY <1>3 DEF KeyedBy
  <2>2. Len(SubSeq(p, 3, Len(p))) = IF Len(p) < 3 THEN 0 ELSE Len(p) - 2
    BY <1>1
  <2>3. Len(k) = 0
    BY <1>3
  <2> QED
    BY <1>1, <2>1, <2>2, <2>3
<1>4. CASE p # << >> /\ p[1] = "result" /\ k # << >>
  <2>1. KeyedBy(k, p) = k \o Tail(p)
    BY <1>4 DEF KeyedBy
  <2>2. Len(p) >= 1 /\ Len(k) >= 1
    BY <1>1, <1>4, NonEmpty
  <2>3. Len(k \o Tail(p)) = Len(k) + (Len(p) - 1)
    BY <1>1, <2>2
  <2> QED
    BY <1>1, <2>1, <2>2, <2>3
<1> QED
  BY <1>2, <1>3, <1>4

-----------------------------------------------------------------------------
(* What is taken from an id.                                               *)

(* The maximum is the member that no other exceeds.                        *)
LEMMA MaxIs ==
  ASSUME NEW n \in Nat, NEW S, S \subseteq 0..n, NEW m \in S, \A i \in S : i <= m
  PROVE  Max(S) = m
<1>1. \A i \in S : i \in Nat
  OBVIOUS
<1>2. \A i \in S : m >= i
  BY <1>1
<1>3. \A x \in S : (\A y \in S : x >= y) => x = m
  <2> SUFFICES ASSUME NEW x \in S, \A y \in S : x >= y PROVE x = m
    OBVIOUS
  <2>1. x >= m /\ x <= m /\ x \in Nat /\ m \in Nat
    BY <1>1
  <2> QED
    BY <2>1
<1> QED
  BY <1>2, <1>3, Zenon DEF Max

Cuts(id) == {0} \cup {i \in DOMAIN id : id[i] \in Separators}

(* RemoveLastId cuts at the last separator.                                *)
LEMMA CutsAre ==
  ASSUME NEW id \in Ids
  PROVE  /\ Len(id) \in Nat /\ Cuts(id) \subseteq 0..Len(id) /\ Max(Cuts(id)) \in Cuts(id)
         /\ RemoveLastId(id) = SubSeq(id, 1, Max(Cuts(id)))
<1>1. Len(id) \in Nat /\ DOMAIN id = 1..Len(id)
  BY DEF Ids
<1>2. Cuts(id) \subseteq 0..Len(id) /\ Cuts(id) # {}
  BY <1>1 DEF Cuts
<1>3. Max(Cuts(id)) \in Cuts(id)
  BY <1>1, <1>2, Greatest
<1> QED
  BY <1>1, <1>2, <1>3 DEF RemoveLastId, Cuts

(* What was added to an id last can be taken off.                          *)
LEMMA AppendParts ==
  ASSUME NEW q \in Ids, NEW e \in Parts
  PROVE  /\ Append(q, e) \in Ids /\ Len(Append(q, e)) = Len(q) + 1 /\ Len(q) \in Nat
         /\ Append(q, e)[Len(q) + 1] = e /\ \A i \in 1..Len(q) : Append(q, e)[i] = q[i]
         /\ Append(q, e) # << >> /\ Last(Append(q, e)) = e /\ Front(Append(q, e)) = q
         /\ InArray(Append(q, e)) <=> e = "^"
         /\ RemoveLastIdChar(Append(q, e)) = q
<1> DEFINE r == Append(q, e)
<1>0. q \in Seq(Parts)
  BY DEF Ids
<1>1. /\ r \in Seq(Parts) /\ Len(r) = Len(q) + 1 /\ Len(q) \in Nat
      /\ r[Len(q) + 1] = e /\ \A i \in 1..Len(q) : r[i] = q[i]
      /\ r # << >>
  BY <1>0
<1>2. Last(r) = e
  <2> HIDE DEF r
  <2> QED
    BY <1>1 DEF Last
<1>3. Front(r) = q
  <2>1. Front(r) = SubSeq(r, 1, Len(q))
    <3> HIDE DEF r
    <3>1. Len(r) - 1 = Len(q)
      BY <1>1
    <3> QED
      BY <3>1 DEF Front
  <2> DEFINE t == SubSeq(r, 1, Len(q))
  <2>2. t \in Seq(Parts) /\ Len(t) = Len(q) /\ \A i \in 1..Len(q) : t[i] = r[i]
    <3> HIDE DEF r
    <3> QED
      BY <1>1
  <2> HIDE DEF t, r
  <2>3. \A i \in 1..Len(t) : t[i] = q[i]
    BY <1>1, <2>2
  <2>4. t = q
    BY <1>0, <2>2, <2>3, SeqEqual
  <2> QED
    BY <2>1, <2>4 DEF t
<1> HIDE DEF r
<1>4. InArray(r) <=> e = "^"
  BY <1>1, <1>2 DEF InArray
<1>5. RemoveLastIdChar(r) = q
  BY <1>1, <1>3 DEF RemoveLastIdChar
<1> QED
  BY <1>1, <1>2, <1>3, <1>4, <1>5 DEF r, Ids

(* A separator at the end stays, a name goes.                              *)
LEMMA RemoveNothing ==
  ASSUME NEW q \in Ids, NEW e \in Separators
  PROVE  RemoveLastId(Append(q, e)) = Append(q, e)
<1> DEFINE r == Append(q, e)
<1>1. e \in Parts
  BY DEF Parts
<1>2. r \in Ids /\ Len(r) = Len(q) + 1 /\ Len(q) \in Nat /\ r[Len(q) + 1] = e
  BY <1>1, AppendParts
<1> HIDE DEF r
<1>3. DOMAIN r = 1..Len(r) /\ Len(r) \in 1..Len(r)
  BY <1>2 DEF Ids
<1>4. Len(r) \in Cuts(r)
  BY <1>2, <1>3 DEF Cuts
<1>5. Cuts(r) \subseteq 0..Len(r) /\ RemoveLastId(r) = SubSeq(r, 1, Max(Cuts(r))) /\ Len(r) \in Nat
  BY <1>2, CutsAre
<1>6. \A i \in Cuts(r) : i <= Len(r)
  BY <1>5
<1>7. Max(Cuts(r)) = Len(r)
  BY <1>4, <1>5, <1>6, MaxIs
<1>8. SubSeq(r, 1, Len(r)) = r
  BY <1>2, SubSeqFull DEF Ids
<1> QED
  BY <1>5, <1>7, <1>8 DEF r

(* A last name is taken off with what it follows.                          *)
LEMMA RemoveName ==
  ASSUME NEW q \in Ids, NEW e \in Parts \ Separators
  PROVE  RemoveLastId(Append(q, e)) = RemoveLastId(q)
<1> DEFINE r == Append(q, e)
<1>1. /\ r \in Ids /\ Len(r) = Len(q) + 1 /\ Len(q) \in Nat /\ r[Len(q) + 1] = e
      /\ \A i \in 1..Len(q) : r[i] = q[i]
  BY AppendParts
<1> HIDE DEF r
<1>2. DOMAIN r = 1..(Len(q) + 1) /\ DOMAIN q = 1..Len(q)
  BY <1>1 DEF Ids
<1>3. Cuts(r) = Cuts(q)
  <2>1. \A i \in DOMAIN r : i = Len(q) + 1 \/ i \in DOMAIN q
    BY <1>1, <1>2
  <2>2. \A i \in DOMAIN q : i \in DOMAIN r
    BY <1>1, <1>2
  <2>3. {i \in DOMAIN r : r[i] \in Separators} = {i \in DOMAIN q : q[i] \in Separators}
    BY <1>1, <1>2, <2>1, <2>2
  <2> QED
    BY <2>3 DEF Cuts
<1> DEFINE m == Max(Cuts(q))
<1>4. /\ m \in 0..Len(q) /\ RemoveLastId(q) = SubSeq(q, 1, m) /\ RemoveLastId(r) = SubSeq(r, 1, m)
  <2>1. Cuts(q) \subseteq 0..Len(q) /\ m \in Cuts(q) /\ RemoveLastId(q) = SubSeq(q, 1, m)
    BY CutsAre
  <2>2. RemoveLastId(r) = SubSeq(r, 1, m)
    BY <1>1, <1>3, CutsAre
  <2> HIDE DEF m
  <2> QED
    BY <2>1, <2>2
<1> HIDE DEF m
<1>5. SubSeq(q, 1, m) = SubSeq(r, 1, m)
  <2> DEFINE a == SubSeq(q, 1, m)
             b == SubSeq(r, 1, m)
  <2>1. a \in Seq(Parts) /\ Len(a) = m /\ \A i \in 1..m : a[i] = q[i]
    BY <1>1, <1>4 DEF Ids
  <2>2. b \in Seq(Parts) /\ Len(b) = m /\ \A i \in 1..m : b[i] = r[i]
    BY <1>1, <1>4 DEF Ids
  <2>3. \A i \in 1..m : i \in 1..Len(q)
    BY <1>1, <1>4
  <2> HIDE DEF a, b
  <2>4. \A i \in 1..Len(a) : a[i] = b[i]
    BY <1>1, <2>1, <2>2, <2>3
  <2>5. a = b
    BY <2>1, <2>2, <2>4, SeqEqual
  <2> QED
    BY <2>5 DEF a, b
<1> QED
  BY <1>4, <1>5 DEF r

(* Nothing is taken off an empty id.                                       *)
LEMMA RemoveFromNone == RemoveLastId(<< >>) = << >>
<1>1. << >> \in Ids
  BY DEF Ids
<1>2. Cuts(<< >>) \subseteq 0..0 /\ Max(Cuts(<< >>)) \in Cuts(<< >>) /\ RemoveLastId(<< >>) = SubSeq(<< >>, 1, Max(Cuts(<< >>)))
  <2>1. Len(<< >>) = 0
    OBVIOUS
  <2> QED
    BY <1>1, <2>1, CutsAre
<1>3. Max(Cuts(<< >>)) = 0
  BY <1>2
<1>4. SubSeq(<< >>, 1, 0) = << >>
  OBVIOUS
<1> QED
  BY <1>2, <1>3, <1>4

(* Of a key without dots nothing stays, of one with dots less.             *)
LEMMA RemoveFromKey ==
  ASSUME NEW k \in Keys
  PROVE  /\ Len(k) <= 1 => RemoveLastId(k) = << >>
         /\ Len(k) > 1 => Len(RemoveLastId(k)) < Len(k)
<1>1. CASE k = << >>
  BY <1>1, RemoveFromNone
<1>2. CASE k # << >>
  <2>1. k \in Ids /\ Carets(k) = {} /\ k[1] # ":" /\ Last(k) # ":"
    BY <1>2, KeyIs, DecoderAssumption
  <2>2. k \in Seq(Parts) /\ Len(k) \in Nat /\ Len(k) >= 1 /\ Len(k) \in DOMAIN k /\ DOMAIN k = 1..Len(k)
    BY <1>2, <2>1, NonEmpty DEF Ids
  <2>3. k[Len(k)] # "^" /\ k[Len(k)] # ":"
    BY <2>1, <2>2 DEF Carets, Last
  <2> DEFINE m == Max(Cuts(k))
  <2>4. m \in Cuts(k) /\ Cuts(k) \subseteq 0..Len(k) /\ RemoveLastId(k) = SubSeq(k, 1, m)
    BY <2>1, CutsAre
  <2> HIDE DEF m
  <2>5. m \in 0..Len(k) /\ m # Len(k)
    <3>1. m = 0 \/ k[m] \in Separators
      BY <2>4 DEF Cuts
    <3>2. k[Len(k)] \notin Separators
      BY <2>3 DEF Separators
    <3> QED
      BY <2>2, <2>4, <3>1, <3>2
  <2>6. m < Len(k)
    <3>1. Len(k) \in Nat
      BY <2>2
    <3>2. \A a \in Nat : \A b \in 0..a : b # a => b < a
      OBVIOUS
    <3> QED
      BY <2>5, <3>1, <3>2
  <2>7. SubSeq(k, 1, m) \in Seq(Parts) /\ Len(SubSeq(k, 1, m)) = m
    <3>1. m \in 0..Len(k) /\ k \in Ids
      BY <2>1, <2>5
    <3> QED
      BY <3>1, PrefixIs DEF Ids
  <2>8. m = 0 => SubSeq(k, 1, m) = << >>
    BY <2>7, NonEmpty
  <2>9. Len(k) <= 1 => m = 0
    <3>1. Len(k) \in Nat
      BY <2>2
    <3>2. \A a \in Nat : \A b \in 0..a : b # a /\ a <= 1 => b = 0
      OBVIOUS
    <3> QED
      BY <2>5, <3>1, <3>2
  <2> QED
    BY <2>4, <2>6, <2>7, <2>8, <2>9
<1> QED
  BY <1>1, <1>2

-----------------------------------------------------------------------------
(* The object or array on top of the sender's stack.                       *)

UnderOf(s) == PathOf(Front(s))
BaseOf(s) == IF Len(s) = 1 THEN << >> ELSE Append(UnderOf(s), ":")

(* A stack is its top on what is below.                                    *)
LEMMA TopIs ==
  ASSUME NEW S, NEW s \in Seq(S), s # << >>
  PROVE  /\ s = Append(Front(s), Last(s)) /\ Last(s) \in S /\ Last(s) = s[Len(s)]
         /\ Front(s) \in Seq(S) /\ Len(Front(s)) = Len(s) - 1 /\ Len(s) \in Nat \ {0}
         /\ \A i \in 1..(Len(s) - 1) : Front(s)[i] = s[i]
<1>1. Len(s) \in Nat /\ Len(s) >= 1 /\ Len(s) \in 1..Len(s)
  BY NonEmpty
<1> DEFINE t == Front(s)
<1>2. t \in Seq(S) /\ Len(t) = Len(s) - 1 /\ \A i \in 1..(Len(s) - 1) : t[i] = s[i]
  <2>1. t = SubSeq(s, 1, Len(s) - 1)
    BY DEF Front
  <2>2. Len(s) - 1 \in Nat /\ \A i \in 1..(Len(s) - 1) : i \in 1..Len(s)
    BY <1>1
  <2>3. Len(t) = Len(s) - 1
    <3> DEFINE n == Len(s) - 1
    <3>1. n \in Int /\ 1 \in Int /\ n \in Nat /\ \A i \in 1..n : s[i] \in S
      BY <1>1, <2>2
    <3> HIDE DEF n
    <3>2. Len(SubSeq(s, 1, n)) = IF 1 <= n THEN n - 1 + 1 ELSE 0
      BY <3>1, SubSeqProperties
    <3>3. n - 1 + 1 = n /\ (1 <= n \/ n = 0)
      BY <3>1
    <3> QED
      BY <2>1, <3>2, <3>3 DEF n
  <2>4. t \in Seq(S) /\ \A i \in 1..(Len(s) - 1) : t[i] = s[i]
    BY <1>1, <2>1, <2>2
  <2> QED
    BY <2>3, <2>4
<1>3. Last(s) = s[Len(s)] /\ Last(s) \in S
  BY <1>1 DEF Last
<1> HIDE DEF t
<1> DEFINE u == Append(t, Last(s))
<1>4. u \in Seq(S) /\ Len(u) = Len(s) /\ u[Len(s)] = Last(s) /\ \A i \in 1..(Len(s) - 1) : u[i] = t[i]
  BY <1>1, <1>2, <1>3
<1> HIDE DEF u
<1>5. \A i \in 1..Len(s) : i = Len(s) \/ i \in 1..(Len(s) - 1)
  BY <1>1
<1>6. \A i \in 1..Len(s) : s[i] = u[i]
  BY <1>2, <1>3, <1>4, <1>5
<1>7. s = u
  BY <1>4, <1>6, SeqEqual
<1>8. Len(s) \in Nat \ {0}
  BY <1>1
<1> QED
  BY <1>2, <1>3, <1>7, <1>8 DEF t, u

(* The end of the path is made by the top of the stack.                    *)
LEMMA TopPath ==
  ASSUME NEW s, GoodStack(s), s # << >>
  PROVE  /\ Last(s).kind = "array" => Len(s) >= 2 /\ PathOf(s) = Append(UnderOf(s), "^")
         /\ Last(s).kind = "object" /\ Last(s).name = "none" => PathOf(s) = BaseOf(s)
         /\ Last(s).kind = "object" /\ Last(s).name # "none" => PathOf(s) = Append(BaseOf(s), Last(s).name)
         /\ UnderOf(s) \in Ids /\ BaseOf(s) \in Ids /\ Len(s) \in Nat \ {0}
         /\ Len(s) >= 2 => /\ UnderOf(s) # << >> /\ Inner(UnderOf(s)) /\ UnderOf(s)[1] = s[1].name
                           /\ s[1].name # "none"
         /\ Len(s) = 2 => Len(UnderOf(s)) = 1
         /\ Len(s) >= 3 => Len(UnderOf(s)) >= 2
<1> DEFINE f == Last(s)
           t == Front(s)
           U == UnderOf(s)
<1>1. s \in Seq(Frames)
  BY DEF GoodStack
<1>2. /\ s = Append(t, f) /\ f \in Frames /\ f = s[Len(s)] /\ t \in Seq(Frames) /\ Len(t) = Len(s) - 1
      /\ Len(s) \in Nat \ {0} /\ \A i \in 1..(Len(s) - 1) : t[i] = s[i]
  BY <1>1, TopIs
<1> HIDE DEF f, t
<1>3. PathOf(t) \in Seq(Letters) /\ PathOf(s) = PathOf(t) \o Segment(Len(s), f)
  <2>1. Len(t) + 1 = Len(s)
    BY <1>2
  <2>2. PathOf(t) \in Seq(Letters) /\ PathOf(Append(t, f)) = PathOf(t) \o Segment(Len(t) + 1, f)
    BY <1>2, PathAppend
  <2> QED
    BY <1>2, <2>1, <2>2
<1>4. U = PathOf(t) /\ U \in Seq(Letters) /\ U \in Ids
  BY <1>3, LettersAreParts DEF UnderOf, t
<1> HIDE DEF U
<1>5. f.kind \in {"array", "object"} /\ (f.name = "none" \/ f.name \in Letters)
  BY <1>2 DEF Frames, Letters
<1>6. ":" \in Letters /\ "^" \in Letters
  BY DEF Letters, Separators
<1>7. f.kind = "array" => Len(s) >= 2 /\ PathOf(s) = Append(U, "^")
  <2> SUFFICES ASSUME f.kind = "array" PROVE Len(s) >= 2 /\ PathOf(s) = Append(U, "^")
    OBVIOUS
  <2>1. Len(s) # 1
    <3>1. \A i \in 1..Len(s) : i = 1 => s[i].kind = "object"
      BY DEF GoodStack
    <3>2. Len(s) \in 1..Len(s)
      BY <1>2
    <3> QED
      BY <1>2, <3>1, <3>2
  <2>2. Segment(Len(s), f) = <<"^">>
    BY <1>2, SegmentIs
  <2>3. U \o <<"^">> = Append(U, "^")
    BY <1>4, <1>6
  <2> QED
    <3>1. \A n \in Nat \ {0} : n # 1 => n >= 2
      OBVIOUS
    <3> QED
      BY <1>2, <1>3, <1>4, <2>1, <2>2, <2>3, <3>1
<1>8. Len(s) = 1 => U = << >>
  <2> SUFFICES ASSUME Len(s) = 1 PROVE U = << >>
    OBVIOUS
  <2>1. Len(t) = 0
    BY <1>2
  <2>2. t = << >>
    BY <1>2, <2>1, NonEmpty
  <2> QED
    BY <1>4, <2>2, PathOfNone
<1>9. f.kind = "object" => PathOf(s) = IF f.name = "none" THEN BaseOf(s) ELSE Append(BaseOf(s), f.name)
  <2> SUFFICES ASSUME f.kind = "object"
               PROVE  PathOf(s) = IF f.name = "none" THEN BaseOf(s) ELSE Append(BaseOf(s), f.name)
    OBVIOUS
  <2>1. CASE Len(s) = 1
    <3>1. Segment(1, f) = IF f.name = "none" THEN << >> ELSE <<f.name>>
      BY <1>2, <2>1, SegmentIs
    <3>2. BaseOf(s) = << >>
      BY <2>1 DEF BaseOf
    <3>3. << >> \o << >> = << >> /\ << >> \o <<f.name>> = <<f.name>> /\ Append(<< >>, f.name) = <<f.name>>
      OBVIOUS
    <3> QED
      BY <1>3, <1>4, <1>8, <2>1, <3>1, <3>2, <3>3
  <2>2. CASE Len(s) # 1
    <3>1. Segment(Len(s), f) = IF f.name = "none" THEN <<":">> ELSE <<":", f.name>>
      BY <1>2, <2>2, SegmentIs
    <3>2. BaseOf(s) = Append(U, ":")
      BY <2>2 DEF BaseOf, U
    <3>3. U \o <<":">> = Append(U, ":")
      BY <1>4, <1>6
    <3>4. f.name # "none" => U \o <<":", f.name>> = Append(Append(U, ":"), f.name)
      <4> SUFFICES ASSUME f.name # "none" PROVE U \o <<":", f.name>> = Append(Append(U, ":"), f.name)
        OBVIOUS
      <4> DEFINE x == f.name
                 a == <<":", x>>
                 b == U \o a
                 c == Append(Append(U, ":"), x)
      <4>1. x \in Letters
        BY <1>5
      <4> HIDE DEF x
      <4>2. a \in Seq(Letters) /\ Len(a) = 2 /\ a[1] = ":" /\ a[2] = x
        BY <1>6, <4>1
      <4> HIDE DEF a
      <4>3. /\ b \in Seq(Letters) /\ Len(b) = Len(U) + 2 /\ Len(U) \in Nat
            /\ \A i \in 1..(Len(U) + 2) : b[i] = IF i <= Len(U) THEN U[i] ELSE a[i - Len(U)]
        <5>1. Len(U) \in Nat /\ U \o a \in Seq(Letters)
          BY <1>4, <4>2
        <5>2. \A p, q \in Seq(Letters) : \A i \in 1..(Len(p) + Len(q)) :
                (p \o q)[i] = IF i <= Len(p) THEN p[i] ELSE q[i - Len(p)]
          OBVIOUS
        <5>3. Len(U \o a) = Len(U) + Len(a)
          BY <1>4, <4>2, ConcatProperties
        <5> QED
          BY <1>4, <4>2, <5>1, <5>2, <5>3
      <4>4. /\ Append(U, ":") \in Seq(Letters) /\ Len(Append(U, ":")) = Len(U) + 1
            /\ \A i \in 1..(Len(U) + 1) : Append(U, ":")[i] = IF i <= Len(U) THEN U[i] ELSE ":"
        BY <1>4, <1>6
      <4>5. /\ c \in Seq(Letters) /\ Len(c) = Len(U) + 2
            /\ \A i \in 1..(Len(U) + 2) : c[i] = IF i <= Len(U) + 1 THEN Append(U, ":")[i] ELSE x
        BY <4>1, <4>3, <4>4
      <4> HIDE DEF b, c
      <4>6. ASSUME NEW i \in 1..(Len(U) + 2) PROVE b[i] = c[i]
        <5>1. CASE i <= Len(U)
          <6>1. i \in 1..(Len(U) + 1) /\ i <= Len(U) + 1
            BY <4>3, <5>1
          <6> QED
            BY <4>3, <4>4, <4>5, <5>1, <6>1
        <5>2. CASE i = Len(U) + 1
          <6>1. i \in 1..(Len(U) + 1) /\ ~(i <= Len(U)) /\ i - Len(U) = 1
            BY <4>3, <5>2
          <6> QED
            BY <4>2, <4>3, <4>4, <4>5, <5>2, <6>1
        <5>3. CASE i = Len(U) + 2
          <6>1. ~(i <= Len(U) + 1) /\ ~(i <= Len(U)) /\ i - Len(U) = 2
            BY <4>3, <5>3
          <6> QED
            BY <4>2, <4>3, <4>5, <6>1
        <5>4. i <= Len(U) \/ i = Len(U) + 1 \/ i = Len(U) + 2
          BY <4>3
        <5> QED
          BY <5>1, <5>2, <5>3, <5>4
      <4>7. b = c
        BY <4>3, <4>5, <4>6, SeqEqual
      <4> QED
        BY <4>7 DEF a, b, c, x
    <3> QED
      BY <1>3, <1>4, <3>1, <3>2, <3>3, <3>4
  <2> QED
    BY <2>1, <2>2
<1>10. BaseOf(s) \in Ids
  <2>1. << >> \in Ids /\ ":" \in Parts
    BY <1>6, LettersAreParts DEF Ids
  <2> QED
    BY <1>4, <2>1, AppendParts DEF BaseOf, U
<1>11. ASSUME Len(s) >= 2
       PROVE  /\ U # << >> /\ Inner(U) /\ U[1] = s[1].name /\ s[1].name # "none"
              /\ Len(s) = 2 => Len(U) = 1
              /\ Len(s) >= 3 => Len(U) >= 2
  <2>1. \A i \in 1..Len(t) : i \in 1..Len(s) /\ i < Len(s) /\ t[i] = s[i]
    BY <1>2
  <2>2. 1 \in 1..Len(t) /\ 1 \in 1..Len(s) /\ 1 < Len(s) /\ Len(t) \in Nat
    BY <1>2, <1>11
  <2>3. s[1].kind = "object" /\ s[1].name # "none" /\ t[1] = s[1]
    BY <2>1, <2>2 DEF GoodStack
  <2>4. GoodStack(t)
    <3>1. \A i \in 1..Len(t) : i < Len(t) => i < Len(s)
      BY <2>1
    <3> QED
      BY <1>2, <2>1, <3>1 DEF GoodStack
  <2>5. t # << >>
    BY <1>2, <2>2, NonEmpty
  <2>6. /\ Inner(PathOf(t)) /\ PathOf(t) # << >> /\ PathOf(t)[1] = t[1].name
        /\ (Len(t) = 1 => Len(PathOf(t)) <= 1) /\ (Len(t) >= 2 => Len(PathOf(t)) >= 2)
    BY <2>3, <2>4, <2>5, PathIsGood
  <2>7. Len(PathOf(t)) \in Nat /\ Len(PathOf(t)) >= 1
    BY <1>3, <2>6, NonEmpty
  <2>8. Len(PathOf(t)) <= 1 => Len(PathOf(t)) = 1
    <3>1. \A n \in Nat : n >= 1 /\ n <= 1 => n = 1
      OBVIOUS
    <3> QED
      BY <2>7, <3>1
  <2>9. (Len(s) = 2 => Len(t) = 1) /\ (Len(s) >= 3 => Len(t) >= 2)
    BY <1>2
  <2> QED
    BY <1>4, <2>3, <2>6, <2>8, <2>9
<1> QED
  BY <1>2, <1>4, <1>7, <1>9, <1>10, <1>11 DEF f, U

(* So are the counts.                                                      *)
LEMMA TopCounts ==
  ASSUME NEW s \in Seq(Frames), s # << >>
  PROVE  /\ CountsOf(Front(s)) \in Seq(Nat) /\ CountsOf(s) \in Seq(Nat)
         /\ CountsOf(s) = IF Last(s).kind = "array" THEN Append(CountsOf(Front(s)), Last(s).count)
                          ELSE CountsOf(Front(s))
<1>1. s = Append(Front(s), Last(s)) /\ Last(s) \in Frames /\ Front(s) \in Seq(Frames)
  BY TopIs
<1>2. CountsOf(s) \in Seq(Nat) /\ CountsOf(Front(s)) \in Seq(Nat)
  BY <1>1, CountsAppend
<1>3. CountsOf(Append(Front(s), Last(s)))
        = IF Last(s).kind = "array" THEN Append(CountsOf(Front(s)), Last(s).count) ELSE CountsOf(Front(s))
  BY <1>1, CountsAppend
<1> QED
  BY <1>1, <1>2, <1>3

(* The same stack with another top.                                        *)
Retopped(s, g) == [s EXCEPT ![Len(s)] = g]

(* The same stack with another top.                                        *)
LEMMA Retop ==
  ASSUME NEW S, NEW s \in Seq(S), s # << >>, NEW g \in S
  PROVE  /\ Retopped(s, g) = Append(Front(s), g) /\ Retopped(s, g) \in Seq(S)
         /\ Len(Retopped(s, g)) = Len(s) /\ Retopped(s, g) # << >>
         /\ Last(Retopped(s, g)) = g /\ Front(Retopped(s, g)) = Front(s) /\ Retopped(s, g)[Len(s)] = g
         /\ \A i \in 1..(Len(s) - 1) : Retopped(s, g)[i] = s[i]
<1> DEFINE t == Retopped(s, g)
           u == Append(Front(s), g)
<1>1. /\ Front(s) \in Seq(S) /\ Len(Front(s)) = Len(s) - 1 /\ Len(s) \in Nat \ {0}
      /\ \A i \in 1..(Len(s) - 1) : Front(s)[i] = s[i]
  BY TopIs
<1>2. /\ t \in Seq(S) /\ Len(t) = Len(s) /\ t[Len(s)] = g /\ t # << >>
      /\ \A i \in 1..(Len(s) - 1) : t[i] = s[i]
  <2>1. Len(s) \in 1..Len(s) /\ DOMAIN s = 1..Len(s)
    BY <1>1
  <2>2. t \in Seq(S) /\ Len(t) = Len(s) /\ t[Len(s)] = g /\ \A i \in 1..(Len(s) - 1) : t[i] = s[i]
    BY <1>1, <2>1 DEF Retopped
  <2> HIDE DEF t
  <2> QED
    BY <1>1, <2>2
<1>3. u \in Seq(S) /\ Len(u) = Len(s) /\ u[Len(s)] = g /\ \A i \in 1..(Len(s) - 1) : u[i] = s[i]
  BY <1>1
<1>4. \A i \in 1..Len(s) : i = Len(s) \/ i \in 1..(Len(s) - 1)
  BY <1>1
<1> HIDE DEF u, t
<1>5. \A i \in 1..Len(t) : t[i] = u[i]
  BY <1>2, <1>3, <1>4
<1>6. t = u
  BY <1>2, <1>3, <1>5, SeqEqual
<1>7. Last(t) = g
  BY <1>2 DEF Last
<1>8. Front(t) = Front(s)
  <2> DEFINE a == Front(t)
             b == Front(s)
  <2>1. a \in Seq(S) /\ Len(a) = Len(s) - 1 /\ \A i \in 1..(Len(s) - 1) : a[i] = t[i]
    BY <1>2, TopIs
  <2> HIDE DEF a, b
  <2>2. \A i \in 1..Len(a) : a[i] = b[i]
    BY <1>1, <1>2, <2>1 DEF b
  <2>3. a = b
    BY <1>1, <2>1, <2>2, SeqEqual DEF b
  <2> QED
    BY <2>3 DEF a, b
<1> QED
  BY <1>2, <1>6, <1>7, <1>8 DEF t, u

-----------------------------------------------------------------------------
(* What the sender writes.                                                 *)

FrameOK(i, f, n, a, w, k) ==
  /\ i < n /\ f.kind = "object" => f.name # "none"
  /\ i = 1 => /\ f.kind = "object" /\ (f.name = "key" => n = 1)
              /\ k = << >> \/ f.name \in {"result", "next"} \/ (f.name = "key" /\ w # "value")
  /\ i > 1 => f.name \in Names \cup {"none"}
  /\ i = 2 /\ a = "result" /\ k = << >> => f.kind = "object"

Grammar(s, w, k) ==
  /\ s \in Seq(Frames) /\ w \in {"first", "value", "after", "next"}
  /\ s = << >> => w \in {"first", "after"} /\ (w = "first" => k = << >>)
  /\ s # << >> => /\ w = "value" => Last(s).kind = "object"
                  /\ Last(s).kind = "object" => (Last(s).name = "none" <=> w = "first")
  /\ \A i \in 1..Len(s) : FrameOK(i, s[i], Len(s), s[1].name, w, k)

(* The grammar depends on what the sender keeps.                           *)
LEMMA GrammarIs ==
  /\ GrammarOK <=> Grammar(stack, want, lineKey)
  /\ GrammarOK' <=> Grammar(stack', want', lineKey')
<1>1. ASSUME GrammarOK PROVE Grammar(stack, want, lineKey)
  <2>1. stack \in Seq(Frames) /\ DOMAIN stack = 1..Len(stack)
    BY <1>1 DEF GrammarOK
  <2>2. \A i \in 1..Len(stack) : FrameOK(i, stack[i], Len(stack), stack[1].name, want, lineKey)
    BY <1>1, <2>1 DEF GrammarOK, FrameOK
  <2> QED
    BY <1>1, <2>2 DEF GrammarOK, Grammar, InObject, Top
<1>2. ASSUME Grammar(stack, want, lineKey) PROVE GrammarOK
  <2>1. stack \in Seq(Frames) /\ DOMAIN stack = 1..Len(stack)
    BY <1>2 DEF Grammar
  <2>2. \A i \in 1..Len(stack) : FrameOK(i, stack[i], Len(stack), stack[1].name, want, lineKey)
    BY <1>2 DEF Grammar
  <2> QED
    BY <1>2, <2>1, <2>2 DEF GrammarOK, Grammar, FrameOK, InObject, Top
<1>3. ASSUME GrammarOK' PROVE Grammar(stack', want', lineKey')
  <2>1. stack' \in Seq(Frames) /\ DOMAIN stack' = 1..Len(stack')
    BY <1>3 DEF GrammarOK
  <2>2. \A i \in 1..Len(stack') : FrameOK(i, stack'[i], Len(stack'), stack'[1].name, want', lineKey')
    BY <1>3, <2>1 DEF GrammarOK, FrameOK
  <2> QED
    BY <1>3, <2>2 DEF GrammarOK, Grammar, InObject, Top
<1>4. ASSUME Grammar(stack', want', lineKey') PROVE GrammarOK'
  <2>1. stack' \in Seq(Frames) /\ DOMAIN stack' = 1..Len(stack')
    BY <1>4 DEF Grammar
  <2>2. \A i \in 1..Len(stack') : FrameOK(i, stack'[i], Len(stack'), stack'[1].name, want', lineKey')
    BY <1>4 DEF Grammar
  <2> QED
    BY <1>4, <2>1, <2>2 DEF GrammarOK, Grammar, FrameOK, InObject, Top
<1> QED
  BY <1>1, <1>2, <1>3, <1>4

(* A stack that the grammar allows has a good path.                        *)
LEMMA GrammarStack ==
  ASSUME NEW s, NEW w, NEW k, Grammar(s, w, k)
  PROVE  GoodStack(s)
<1>1. \A i \in 1..Len(s) : FrameOK(i, s[i], Len(s), s[1].name, w, k)
  BY DEF Grammar
<1> QED
  BY <1>1 DEF Grammar, GoodStack, FrameOK

(* A field's own name is none of the names with a meaning.                 *)
LEMMA NamesApart ==
  /\ \A x \in Names : x \notin {"key", "result", "next", "string", "none"} \cup Separators \cup Marks
  /\ \A x \in FieldNames : x \notin {"string", "none"} \cup Separators \cup Marks
BY DecoderAssumption DEF FieldNames, Separators, Marks

(* What the sender can open, and where.                                    *)
LEMMA GrammarOpen ==
  ASSUME GrammarOK, NEW c, Open(c)
  PROVE  /\ GrammarOK' /\ want' = "first" /\ lineKey' = lineKey
         /\ \E f \in Frames : /\ stack' = Append(stack, f) /\ f.name = "none" /\ f.count = 0
                              /\ f.kind = IF c.is = "[" THEN "array" ELSE "object"
         /\ c.is \in {"[", "{"}
         /\ stack = << >> => c.is = "{" /\ want = "first"
         /\ stack # << >> => MaySendValue /\ ~(Len(stack) = 1 /\ Top.name = "key")
<1>1. Grammar(stack, want, lineKey)
  BY GrammarIs
<1>2. /\ stack \in Seq(Frames) /\ want' = "first" /\ lineKey' = lineKey
  BY <1>1 DEF Grammar, Open, After
<1>3. PICK f \in Frames : /\ stack' = Append(stack, f) /\ f.name = "none" /\ f.count = 0
                          /\ f.kind = IF c.is = "[" THEN "array" ELSE "object"
  <2>1. CASE c.is = "{" /\ stack' = Append(stack, [kind |-> "object", name |-> "none", count |-> 0])
    <3> DEFINE f == [kind |-> "object", name |-> "none", count |-> 0]
    <3>1. f \in Frames /\ f.name = "none" /\ f.count = 0 /\ f.kind = IF c.is = "[" THEN "array" ELSE "object"
      BY <2>1 DEF Frames
    <3> HIDE DEF f
    <3>2. stack' = Append(stack, f)
      BY <2>1 DEF f
    <3> QED
      BY <3>1, <3>2
  <2>2. CASE c.is = "[" /\ stack' = Append(stack, [kind |-> "array", name |-> "none", count |-> 0])
    <3> DEFINE f == [kind |-> "array", name |-> "none", count |-> 0]
    <3>1. f \in Frames /\ f.name = "none" /\ f.count = 0 /\ f.kind = IF c.is = "[" THEN "array" ELSE "object"
      BY <2>2 DEF Frames
    <3> HIDE DEF f
    <3>2. stack' = Append(stack, f)
      BY <2>2 DEF f
    <3> QED
      BY <3>1, <3>2
  <2> QED
    BY <2>1, <2>2 DEF Open
<1>4. /\ c.is \in {"[", "{"} /\ (c.is = "[" => MayOpenArray) /\ (c.is = "{" => MayOpenObject)
  BY DEF Open
<1>5. stack = << >> => c.is = "{" /\ want = "first"
  BY <1>4 DEF MayOpenArray, MayOpenObject, MaySendValue, InObject, InList
<1>6. stack # << >> => MaySendValue /\ ~(Len(stack) = 1 /\ Top.name = "key")
  BY <1>4 DEF MayOpenArray, MayOpenObject
<1>7. stack # << >> /\ Last(stack).kind = "object" => want = "value" /\ Last(stack).name # "none"
  <2>1. stack # << >> /\ Last(stack).kind = "object" => want = "value"
    BY <1>6 DEF MaySendValue, InObject, InList, Top
  <2> QED
    BY <1>1, <2>1 DEF Grammar
<1> DEFINE n == Len(stack)
           t == Append(stack, f)
<1>8. /\ t \in Seq(Frames) /\ Len(t) = n + 1 /\ t[n + 1] = f /\ n \in Nat /\ t # << >>
      /\ \A i \in 1..n : t[i] = stack[i] /\ FrameOK(i, stack[i], n, stack[1].name, want, lineKey)
  BY <1>1, <1>2, AppendProperties DEF Grammar
<1>9. Last(t) = f
  BY <1>8 DEF Last
<1>10. n # 0 => stack # << >> /\ stack[n] = Last(stack)
  BY <1>2, NonEmpty DEF Last
<1>11. n = 0 => stack = << >>
  BY <1>2, NonEmpty
<1> HIDE DEF t, n
<1>12. t[1].name = IF n = 0 THEN "none" ELSE stack[1].name
  <2>1. n = 0 => t[1] = f
    BY <1>8
  <2>2. n # 0 => t[1] = stack[1]
    BY <1>8
  <2> QED
    BY <1>3, <2>1, <2>2
<1>13. ASSUME NEW i \in 1..n
       PROVE  FrameOK(i, t[i], n + 1, t[1].name, "first", lineKey)
  <2>1. FrameOK(i, stack[i], n, stack[1].name, want, lineKey) /\ t[i] = stack[i] /\ n # 0 /\ i \in Nat
    BY <1>8
  <2>2. i < n \/ i = n
    BY <1>8
  <2>3. i = n /\ stack[i].kind = "object" => stack[i].name # "none" /\ want = "value"
    BY <1>7, <1>10, <2>1
  <2>4. ASSUME i = 1 PROVE stack[i].name # "key"
    <3>1. n = 1 => Last(stack).name # "key"
      BY <1>6, <1>10 DEF Top, n
    <3>2. n # 1 => stack[i].name # "key"
      BY <2>1, <2>4 DEF FrameOK
    <3>3. n = 1 => stack[i] = Last(stack)
      BY <1>10, <2>4
    <3> QED
      BY <3>1, <3>2, <3>3
  <2>5. stack[i].kind = "object" => stack[i].name # "none"
    BY <2>1, <2>2, <2>3 DEF FrameOK
  <2>6. i = 1 => stack[i].kind = "object" /\ (lineKey = << >> \/ stack[i].name \in {"result", "next"})
    BY <2>1, <2>4 DEF FrameOK
  <2>7. /\ i > 1 => stack[i].name \in Names \cup {"none"}
        /\ i = 2 /\ stack[1].name = "result" /\ lineKey = << >> => stack[i].kind = "object"
    BY <2>1 DEF FrameOK
  <2> QED
    BY <1>12, <2>1, <2>4, <2>5, <2>6, <2>7 DEF FrameOK
<1>14. FrameOK(n + 1, f, n + 1, t[1].name, "first", lineKey)
  <2>1. n = 0 => f.kind = "object" /\ lineKey = << >>
    <3> SUFFICES ASSUME n = 0 PROVE f.kind = "object" /\ lineKey = << >>
      OBVIOUS
    <3>1. stack = << >> /\ c.is = "{" /\ want = "first"
      BY <1>5, <1>11
    <3> QED
      BY <1>1, <1>3, <3>1 DEF Grammar
  <2>2. n = 1 /\ t[1].name = "result" /\ lineKey = << >> => f.kind = "object"
    <3> SUFFICES ASSUME n = 1, t[1].name = "result", lineKey = << >> PROVE f.kind = "object"
      OBVIOUS
    <3>1. stack # << >> /\ Last(stack).name = "result"
      BY <1>10, <1>12
    <3>2. AtResult
      BY <3>1 DEF AtResult, Top, n
    <3>3. c.is # "["
      BY <1>4, <3>2 DEF MayOpenArray
    <3> QED
      BY <1>3, <3>3
  <2>3. ~(n + 1 < n + 1) /\ (n + 1 = 1 => n = 0) /\ (n + 1 = 2 => n = 1)
    BY <1>8
  <2> QED
    BY <1>3, <2>1, <2>2, <2>3 DEF FrameOK
<1>15. Grammar(t, "first", lineKey)
  <2>1. \A i \in 1..(n + 1) : i = n + 1 \/ i \in 1..n
    BY <1>8
  <2>2. \A i \in 1..Len(t) : FrameOK(i, t[i], Len(t), t[1].name, "first", lineKey)
    BY <1>8, <1>13, <1>14, <2>1
  <2> QED
    BY <1>3, <1>8, <1>9, <2>2 DEF Grammar
<1>16. GrammarOK'
  BY <1>2, <1>3, <1>15, GrammarIs DEF t
<1> QED
  BY <1>2, <1>3, <1>4, <1>5, <1>6, <1>16

(* Which field it can name: the result comes after the key, and only       *)
(* "next" after the result.                                                *)
LEMMA GrammarField ==
  ASSUME GrammarOK, NEW c, Field(c)
  PROVE  /\ GrammarOK' /\ want' = "value" /\ lineKey' = lineKey /\ want \in {"first", "next"}
         /\ stack # << >> /\ Top.kind = "object"
         /\ c.is \in FieldNames /\ (Len(stack) # 1 => c.is \in Names)
         /\ Len(stack) = 1 /\ c.is = "result" => Top.name = "key"
         /\ Len(stack) = 1 /\ Top.name = "result" => c.is = "next"
         /\ \E f \in Frames : /\ stack' = Append(Front(stack), f) /\ Front(stack') = Front(stack)
                              /\ Last(stack') = f /\ Len(stack') = Len(stack)
                              /\ stack'[1] = IF Len(stack) = 1 THEN f ELSE stack[1]
                              /\ f.name = c.is /\ f.kind = "object"
<1>1. Grammar(stack, want, lineKey)
  BY GrammarIs
<1>2. /\ stack \in Seq(Frames) /\ want' = "value" /\ lineKey' = lineKey /\ want \in {"first", "next"}
      /\ stack # << >> /\ Last(stack).kind = "object" /\ c.is \in NextFields
      /\ stack' = [stack EXCEPT ![Len(stack)].name = c.is]
  BY <1>1 DEF Grammar, Field, After, InObject, Top
<1> DEFINE n == Len(stack)
           g == Last(stack)
           x == c.is
           t == [stack EXCEPT ![n].name = x]
           f == [g EXCEPT !.name = x]
<1>3. /\ n \in Nat \ {0} /\ g \in Frames /\ g = stack[n]
  BY <1>2, TopIs
<1>4. /\ x \in FieldNames /\ (n # 1 => x \in Names)
      /\ n = 1 => \/ g.name = "none" /\ x \in Names \cup {"key"}
                  \/ g.name = "key" /\ x = "result"
                  \/ g.name = "result" /\ x = "next"
                  \/ g.name \notin {"none", "key", "result", "next"} /\ x \in Names
  <2>1. CASE n > 1
    BY <1>2, <1>3, <2>1 DEF NextFields, FieldNames
  <2>2. CASE n = 1
    <3>1. g.name \in {"none", "key", "result", "next"} \/ g.name \notin {"none", "key", "result", "next"}
      OBVIOUS
    <3>2. CASE g.name = "none"
      BY <1>2, <2>2, <3>2 DEF NextFields, FieldNames, Top
    <3>3. CASE g.name = "key"
      BY <1>2, <2>2, <3>3 DEF NextFields, FieldNames, Top
    <3>4. CASE g.name = "result"
      BY <1>2, <2>2, <3>4 DEF NextFields, FieldNames, Top
    <3>5. CASE g.name = "next"
      BY <1>2, <2>2, <3>5 DEF NextFields, FieldNames, Top
    <3>6. CASE g.name \notin {"none", "key", "result", "next"}
      BY <1>2, <2>2, <3>6 DEF NextFields, FieldNames, Top
    <3> QED
      BY <2>2, <3>1, <3>2, <3>3, <3>4, <3>5, <3>6
  <2>3. \A m \in Nat \ {0} : m = 1 \/ m > 1
    OBVIOUS
  <2>4. n = 1 \/ n > 1
    BY <1>3, <2>3
  <2> HIDE DEF n, x, g, t, f
  <2>5. ~(n = 1 /\ n > 1)
    BY <1>3
  <2> QED
    BY <2>1, <2>2, <2>4, <2>5
<1>5. f \in Frames /\ f.name = x /\ f.kind = "object"
  BY <1>2, <1>3, <1>4 DEF Frames
<1>6. t = Retopped(stack, f)
  BY <1>3 DEF Retopped
<1> HIDE DEF f, t, n, x
<1>7. /\ t = Append(Front(stack), f) /\ t \in Seq(Frames) /\ Len(t) = n /\ t # << >>
      /\ Last(t) = f /\ Front(t) = Front(stack) /\ t[n] = f
      /\ \A i \in 1..(n - 1) : t[i] = stack[i]
  <2>1. stack \in Seq(Frames) /\ stack # << >> /\ f \in Frames
    BY <1>2, <1>5
  <2> DEFINE u == Retopped(stack, f)
  <2>2. u = Append(Front(stack), f)
    BY <2>1, Retop
  <2>3. u \in Seq(Frames) /\ Len(u) = Len(stack) /\ u # << >>
    BY <2>1, Retop
  <2>4. Last(u) = f /\ Front(u) = Front(stack)
    BY <2>1, Retop
  <2>5. u[Len(stack)] = f /\ \A i \in 1..(Len(stack) - 1) : u[i] = stack[i]
    BY <2>1, Retop
  <2> QED
    BY <1>6, <2>2, <2>3, <2>4, <2>5 DEF n
<1> HIDE DEF g
<1>8. t[1] = IF n = 1 THEN f ELSE stack[1]
  <2>1. n # 1 => 1 \in 1..(n - 1)
    BY <1>3
  <2> QED
    BY <1>7, <2>1
<1>9. ASSUME NEW i \in 1..n
      PROVE  FrameOK(i, t[i], n, t[1].name, "value", lineKey)
  <2>1. FrameOK(i, stack[i], n, stack[1].name, want, lineKey) /\ i \in Nat
    BY <1>1, <1>3 DEF Grammar, n
  <2>2. CASE i # n
    <3>1. t[i] = stack[i] /\ n # 1 /\ t[1] = stack[1]
      <4>1. i \in 1..(n - 1) /\ n # 1
        BY <1>3, <2>2
      <4> QED
        BY <1>7, <1>8, <4>1
    <3>2. i = 1 => stack[i].name # "key"
      BY <2>1, <3>1 DEF FrameOK
    <3> QED
      BY <2>1, <3>1, <3>2 DEF FrameOK
  <2>3. CASE i = n
    <3>1. n > 1 => x \in Names
      BY <1>3, <1>4
    <3>2. n = 1 => lineKey = << >> \/ x \in {"result", "next"}
      <4> SUFFICES ASSUME n = 1 PROVE lineKey = << >> \/ x \in {"result", "next"}
        OBVIOUS
      <4>1. lineKey = << >> \/ g.name \in {"result", "next", "key"}
        BY <1>3, <2>1, <2>3 DEF FrameOK
      <4> QED
        BY <1>4, <4>1
    <3>3. ~(n < n) /\ ~(n = 1 /\ n > 1)
      BY <1>3
    <3> QED
      BY <1>5, <1>7, <2>3, <3>1, <3>2, <3>3 DEF FrameOK
  <2> QED
    BY <2>2, <2>3
<1>10. x # "none"
  BY <1>4, NamesApart
<1>11. Grammar(t, "value", lineKey)
  <2>1. Last(t).kind = "object" /\ Last(t).name # "none"
    BY <1>5, <1>7, <1>10
  <2>2. \A i \in 1..Len(t) : FrameOK(i, t[i], Len(t), t[1].name, "value", lineKey)
    BY <1>7, <1>9
  <2> QED
    BY <1>7, <2>1, <2>2 DEF Grammar
<1>12. stack' = t
  BY <1>2 DEF t, n, x
<1>13. GrammarOK'
  BY <1>2, <1>11, <1>12, GrammarIs
<1>14. n = 1 /\ x = "result" => g.name = "key"
  BY <1>4, NamesApart
<1>15. n = 1 /\ g.name = "result" => x = "next"
  BY <1>4
<1> QED
  BY <1>2, <1>4, <1>5, <1>7, <1>8, <1>12, <1>13, <1>14, <1>15 DEF n, g, x, Top

(* Where it can send a number or a string.                                 *)
LEMMA GrammarScalar ==
  ASSUME GrammarOK, NEW c, Scalar(c)
  PROVE  /\ GrammarOK' /\ want' = "after" /\ stack' = stack /\ stack # << >>
         /\ (Top.kind = "object" => want = "value" /\ Top.name # "none")
         /\ (Top.kind # "object" => want \in {"first", "next"})
<1>1. Grammar(stack, want, lineKey)
  BY GrammarIs
<1>2. MaySendValue /\ stack # << >> /\ want' = "after" /\ stack' = stack
  BY DEF Scalar, MaySendValue, InObject, InList
<1>3. /\ (Last(stack).kind = "object" => want = "value")
      /\ (Last(stack).kind # "object" => want \in {"first", "next"})
  BY <1>2 DEF MaySendValue, InObject, InList, Top
<1>4. Last(stack).kind = "object" => Last(stack).name # "none"
  BY <1>1, <1>2, <1>3 DEF Grammar
<1>5. lineKey' = lineKey \/ (Len(stack) = 1 /\ Last(stack).name = "key")
  BY DEF Scalar, Top
<1>6. stack \in Seq(Frames) /\ Len(stack) \in Nat \ {0} /\ Last(stack) = stack[Len(stack)]
  <2>1. stack \in Seq(Frames)
    BY <1>1 DEF Grammar
  <2> QED
    BY <1>2, <2>1, TopIs
<1>7. ASSUME NEW i \in 1..Len(stack)
      PROVE  FrameOK(i, stack[i], Len(stack), stack[1].name, "after", lineKey')
  <2>1. FrameOK(i, stack[i], Len(stack), stack[1].name, want, lineKey)
    BY <1>1 DEF Grammar
  <2>2. CASE lineKey' = lineKey
    BY <2>1, <2>2 DEF FrameOK
  <2>3. CASE Len(stack) = 1 /\ Last(stack).name = "key"
    <3>1. i = 1 /\ stack[i].name = "key" /\ ~(1 < 1) /\ ~(1 > 1)
      BY <1>6, <2>3
    <3> QED
      BY <2>1, <2>3, <3>1 DEF FrameOK
  <2> QED
    BY <1>5, <2>2, <2>3
<1>8. Grammar(stack, "after", lineKey')
  BY <1>2, <1>4, <1>6, <1>7 DEF Grammar
<1> QED
  BY <1>2, <1>3, <1>4, <1>8, GrammarIs DEF Top

(* Where it can go on, and what counts.                                    *)
LEMMA GrammarComma ==
  ASSUME GrammarOK, NEW c, Comma(c)
  PROVE  /\ GrammarOK' /\ want' = "next" /\ lineKey' = lineKey /\ want = "after" /\ c.is = ","
         /\ stack # << >> /\ Len(stack') = Len(stack) /\ stack' # << >> /\ Front(stack') = Front(stack)
         /\ Top.kind = "object" => stack' = stack /\ NextFields # {} /\ Top.name # "none"
         /\ Top.kind # "object" => Last(stack').kind = "array" /\ Last(stack').count = Top.count + 1
                                   /\ stack'[1].name = stack[1].name
         /\ Last(stack').kind = Top.kind /\ Last(stack').name = Top.name
<1>1. Grammar(stack, want, lineKey)
  BY GrammarIs
<1>2. /\ stack \in Seq(Frames) /\ want' = "next" /\ lineKey' = lineKey /\ want = "after" /\ c.is = ","
      /\ stack # << >>
      /\ \/ Last(stack).kind = "array" /\ stack' = [stack EXCEPT ![Len(stack)].count = @ + 1]
         \/ Last(stack).kind = "object" /\ NextFields # {} /\ stack' = stack
  BY <1>1 DEF Grammar, Comma, After, InObject, InList, Top
<1> DEFINE n == Len(stack)
           g == Last(stack)
<1>3. n \in Nat \ {0} /\ g \in Frames /\ g = stack[n]
  BY <1>2, TopIs
<1>4. \A i \in 1..n : FrameOK(i, stack[i], n, stack[1].name, want, lineKey)
  BY <1>1 DEF Grammar
<1>5. CASE Last(stack).kind = "object" /\ NextFields # {} /\ stack' = stack
  <2>1. Last(stack).name # "none"
    BY <1>1, <1>2, <1>5 DEF Grammar
  <2>2. \A i \in 1..n : FrameOK(i, stack[i], n, stack[1].name, "next", lineKey)
    BY <1>2, <1>4 DEF FrameOK
  <2>3. Grammar(stack, "next", lineKey)
    BY <1>2, <1>5, <2>1, <2>2 DEF Grammar
  <2>4. GrammarOK'
    BY <1>2, <1>5, <2>3, GrammarIs
  <2> QED
    BY <1>2, <1>5, <2>1, <2>4 DEF Top
<1>6. CASE Last(stack).kind = "array" /\ stack' = [stack EXCEPT ![Len(stack)].count = @ + 1]
  <2> DEFINE f == [g EXCEPT !.count = @ + 1]
             t == [stack EXCEPT ![n].count = @ + 1]
  <2>1. f \in Frames /\ f.name = g.name /\ f.kind = g.kind /\ f.count = g.count + 1
    BY <1>3 DEF Frames
  <2>2. t = Retopped(stack, f)
    BY <1>3 DEF Retopped
  <2> HIDE DEF f, t, n
  <2>3. /\ t = Append(Front(stack), f) /\ t \in Seq(Frames) /\ Len(t) = n /\ t # << >>
        /\ Last(t) = f /\ Front(t) = Front(stack) /\ t[n] = f
        /\ \A i \in 1..(n - 1) : t[i] = stack[i]
    <3>1. stack \in Seq(Frames) /\ stack # << >> /\ f \in Frames
      BY <1>2, <2>1
    <3> DEFINE u == Retopped(stack, f)
    <3>2. u = Append(Front(stack), f)
      BY <3>1, Retop
    <3>3. u \in Seq(Frames) /\ Len(u) = Len(stack) /\ u # << >>
      BY <3>1, Retop
    <3>4. Last(u) = f /\ Front(u) = Front(stack)
      BY <3>1, Retop
    <3>5. u[Len(stack)] = f /\ \A i \in 1..(Len(stack) - 1) : u[i] = stack[i]
      BY <3>1, Retop
    <3> QED
      BY <2>2, <3>2, <3>3, <3>4, <3>5 DEF n
  <2>4. stack' = t
    BY <1>6 DEF t, n
  <2> HIDE DEF g
  <2>5. \A i \in 1..n : t[i].kind = stack[i].kind /\ t[i].name = stack[i].name
    <3>1. \A i \in 1..n : i = n \/ i \in 1..(n - 1)
      BY <1>3
    <3> QED
      BY <1>3, <2>1, <2>3, <3>1
  <2>6. 1 \in 1..n
    BY <1>3
  <2>7. \A i \in 1..n : FrameOK(i, t[i], n, t[1].name, "next", lineKey)
    BY <1>2, <1>4, <2>5, <2>6 DEF FrameOK
  <2>8. Last(t).kind = "array"
    BY <1>6, <2>1, <2>3 DEF g
  <2>9. Grammar(t, "next", lineKey)
    BY <2>3, <2>7, <2>8 DEF Grammar
  <2>10. GrammarOK'
    BY <1>2, <2>4, <2>9, GrammarIs
  <2> QED
    BY <1>2, <1>6, <2>1, <2>3, <2>4, <2>5, <2>6, <2>8, <2>10 DEF Top, n, g
<1> QED
  BY <1>2, <1>5, <1>6

(* What it can close is the top, when that is complete.                    *)
LEMMA GrammarClose ==
  ASSUME GrammarOK, NEW c, CloseSent(c)
  PROVE  /\ GrammarOK' /\ want' = "after" /\ lineKey' = lineKey /\ want \in {"first", "after"}
         /\ stack # << >> /\ stack' = Front(stack) /\ Len(stack') = Len(stack) - 1
         /\ Top.kind = IF c.is = "}" THEN "object" ELSE "array"
         /\ c.is \in {"}", "]"}
         /\ Len(stack) >= 2 => stack' # << >> /\ stack'[1] = stack[1] /\ stack[1].name # "key"
         /\ Len(stack) = 1 <=> stack' = << >>
         /\ stack' \in Seq(Frames)
<1>1. Grammar(stack, want, lineKey)
  BY GrammarIs
<1>2. /\ stack \in Seq(Frames) /\ want' = "after" /\ lineKey' = lineKey /\ want \in {"first", "after"}
      /\ stack # << >> /\ stack' = Front(stack) /\ c.is \in {"}", "]"}
      /\ Last(stack).kind = IF c.is = "}" THEN "object" ELSE "array"
  BY <1>1 DEF Grammar, CloseSent, After, InObject, InList, Top
<1> DEFINE n == Len(stack)
           t == Front(stack)
<1>3. /\ n \in Nat \ {0} /\ t \in Seq(Frames) /\ Len(t) = n - 1
      /\ \A i \in 1..(n - 1) : t[i] = stack[i]
  BY <1>2, TopIs
<1>4. \A i \in 1..n : FrameOK(i, stack[i], n, stack[1].name, want, lineKey)
  BY <1>1 DEF Grammar
<1> HIDE DEF t, n
<1>5. n = 1 <=> t = << >>
  <2>1. t = << >> <=> n - 1 = 0
    BY <1>3, NonEmpty
  <2> QED
    BY <1>3, <2>1
<1>6. ASSUME NEW i \in 1..(n - 1)
      PROVE  /\ FrameOK(i, t[i], n - 1, t[1].name, "after", lineKey)
             /\ t[i].kind = "object" => t[i].name # "none"
             /\ i = 1 => t[i].name # "key" /\ t[i] = stack[i]
  <2>1. i \in 1..n /\ i < n /\ n # 1 /\ 1 \in 1..(n - 1)
    BY <1>3
  <2>2. FrameOK(i, stack[i], n, stack[1].name, want, lineKey) /\ t[i] = stack[i] /\ t[1] = stack[1]
    BY <1>3, <1>4, <2>1
  <2> QED
    BY <2>1, <2>2 DEF FrameOK
<1>7. n # 1 => 1 \in 1..(n - 1) /\ n - 1 \in 1..(n - 1)
  BY <1>3
<1>8. Grammar(t, "after", lineKey)
  <2>1. t # << >> /\ Last(t).kind = "object" => Last(t).name # "none"
    <3> SUFFICES ASSUME t # << >>, Last(t).kind = "object" PROVE Last(t).name # "none"
      OBVIOUS
    <3>1. n - 1 \in 1..(n - 1) /\ Last(t) = t[n - 1]
      BY <1>3, <1>5, <1>7 DEF Last
    <3> QED
      BY <1>6, <3>1
  <2>2. \A i \in 1..Len(t) : FrameOK(i, t[i], Len(t), t[1].name, "after", lineKey)
    BY <1>3, <1>6
  <2> QED
    BY <1>3, <2>1, <2>2 DEF Grammar
<1>9. GrammarOK'
  BY <1>2, <1>8, GrammarIs DEF t
<1>10. n >= 2 => t # << >> /\ t[1] = stack[1] /\ stack[1].name # "key"
  <2> SUFFICES ASSUME n >= 2 PROVE t # << >> /\ t[1] = stack[1] /\ stack[1].name # "key"
    OBVIOUS
  <2>1. 1 \in 1..(n - 1) /\ n # 1
    BY <1>3
  <2> QED
    BY <1>5, <1>6, <2>1
<1> QED
  BY <1>2, <1>3, <1>5, <1>9, <1>10 DEF t, n, Top

(* The sender keeps to the grammar.                                        *)
LEMMA GrammarNext ==
  ASSUME GrammarOK, [Next]_vars
  PROVE  GrammarOK'
<1>1. ASSUME NEW c, Send(c) PROVE GrammarOK'
  BY <1>1, GrammarOpen, GrammarField, GrammarScalar, GrammarComma, GrammarClose DEF Send
<1>2. CASE EndLine
  <2>1. stack' = << >> /\ want' = "first" /\ lineKey' = << >>
    BY <1>2 DEF EndLine
  <2>2. Grammar(<< >>, "first", << >>)
    <3>1. << >> \in Seq(Frames) /\ \A i \in 1..Len(<< >>) : FALSE
      OBVIOUS
    <3> QED
      BY <3>1 DEF Grammar
  <2> QED
    BY <2>1, <2>2, GrammarIs
<1>3. CASE UNCHANGED vars
  BY <1>3, GrammarIs DEF vars, sender
<1> QED
  BY <1>1, <1>2, <1>3 DEF Next, Deliver, Damage

-----------------------------------------------------------------------------
(* What is reported and what was meant.                                    *)

(* What is reported is named with the decoder's key.                       *)
LEMMA RenamedIs ==
  /\ Renamed(<< >>) = << >>
  /\ \A id, ix : Renamed(<<Value(id, ix)>>) = <<Value(Named(id), ix)>>
  /\ \A id, ix : Renamed(<<ArrayEnd(id, ix)>>) = <<ArrayEnd(Named(id), ix)>>
  /\ \A id, ix, jx : Renamed(<<Value(id, ix), ArrayEnd(id, jx)>>)
                       = <<Value(Named(id), ix), ArrayEnd(Named(id), jx)>>
<1>1. Renamed(<< >>) = << >>
  BY DEF Renamed
<1>2. ASSUME NEW id, NEW ix PROVE Renamed(<<Value(id, ix)>>) = <<Value(Named(id), ix)>>
  BY DEF Renamed, Value
<1>3. ASSUME NEW id, NEW ix PROVE Renamed(<<ArrayEnd(id, ix)>>) = <<ArrayEnd(Named(id), ix)>>
  BY DEF Renamed, ArrayEnd
<1>4. ASSUME NEW id, NEW ix, NEW jx
      PROVE  Renamed(<<Value(id, ix), ArrayEnd(id, jx)>>) = <<Value(Named(id), ix), ArrayEnd(Named(id), jx)>>
  BY DEF Renamed, Value, ArrayEnd
<1> QED
  BY <1>1, <1>2, <1>3, <1>4

(* All that is due is told at once, in order.                              *)
LEMMA CompareAll ==
  ASSUME NEW c, Compare(c), ~wrong, NEW S, NEW due \in Seq(S),
         owed \o Meaning(c) = due, Renamed(reports') = due, due # << >> => ended = 0
  PROVE  ~wrong' /\ owed' = << >>
<1> DEFINE right == IsPrefix(due, due) /\ (due # << >> => ended = 0)
<1>1. IsPrefix(due, due)
  BY DEF IsPrefix
<1>2. right
  BY <1>1
<1>3. wrong' = (wrong \/ ~right)
  BY DEF Compare
<1>4. owed' = IF wrong' \/ state' = "jsError" THEN << >> ELSE SubSeq(due, Len(due) + 1, Len(due))
  BY DEF Compare
<1>5. SubSeq(due, Len(due) + 1, Len(due)) = << >>
  BY SubSeqEmpty
<1> HIDE DEF right
<1>6. ~wrong'
  BY <1>2, <1>3, Zenon
<1> QED
  BY <1>4, <1>5, <1>6

(* Nothing is told yet.                                                    *)
LEMMA CompareLater ==
  ASSUME NEW c, Compare(c), ~wrong, NEW S, NEW due \in Seq(S),
         owed \o Meaning(c) = due, Renamed(reports') = << >>
  PROVE  ~wrong' /\ owed' = IF state' = "jsError" THEN << >> ELSE due
<1> DEFINE right == IsPrefix(<< >>, due) /\ (<< >> # << >> => ended = 0)
<1>1. IsPrefix(<< >>, due)
  <2>1. SubSeq(<< >>, 1, 0) = << >> /\ SubSeq(due, 1, 0) = << >>
    BY SubSeqEmpty
  <2> QED
    BY <2>1 DEF IsPrefix
<1>2. right
  BY <1>1
<1>3. wrong' = (wrong \/ ~right)
  BY DEF Compare
<1>4. owed' = IF wrong' \/ state' = "jsError" THEN << >> ELSE SubSeq(due, Len(<< >>) + 1, Len(due))
  BY DEF Compare
<1>5. SubSeq(due, Len(<< >>) + 1, Len(due)) = due
  <2>1. Len(<< >>) + 1 = 1
    OBVIOUS
  <2> QED
    BY <2>1, SubSeqFull
<1> HIDE DEF right
<1>6. ~wrong'
  BY <1>2, <1>3, Zenon
<1> QED
  BY <1>4, <1>5, <1>6

-----------------------------------------------------------------------------
(* The decoder, state by state.                                            *)

(* One step of the automaton for each state.                               *)
LEMMA DecoderAt ==
  ASSUME NEW c, CheckInput(c)
  PROVE  /\ state = "jsBegin" => Begin(c)
         /\ state = "jsExpectId" => ExpectId(c)
         /\ state = "jsVal" => Val(c)
         /\ state = "jsIntVal" => IntVal(c)
         /\ state = "jsEndVal" => EndVal(c)
         /\ state = "jsError" => InError(c)
BY DEF CheckInput, Begin, ExpectId, HadId, Val, IntVal, EndVal, InError

(* Before a message only its brace counts.                                 *)
LEMMA BeginIs ==
  ASSUME NEW c, CheckInput(c), state = "jsBegin"
  PROVE  /\ reports' = << >> /\ arrayIndices' = arrayIndices /\ m_key' = m_key /\ ended' = ended
         /\ c.is = "{" => state' = "jsExpectId" /\ fieldId' = << >> /\ arrayDepth' = 0
         /\ c.is # "{" => state' = state /\ fieldId' = fieldId /\ arrayDepth' = arrayDepth
<1>1. Begin(c)
  BY DecoderAt
<1>2. CASE c.is = "{"
  BY <1>1, <1>2 DEF Begin, Report, Become
<1>3. CASE c.is # "{"
  BY <1>1, <1>3 DEF Begin, Report, Become
<1> QED
  BY <1>2, <1>3

(* In an object: a name, or the end.                                       *)
LEMMA ExpectIdIs ==
  ASSUME NEW c, CheckInput(c), state = "jsExpectId"
  PROVE  /\ reports' = << >>
         /\ c.is \in FieldNames => /\ Extend(c.is, "jsVal")
                                   /\ UNCHANGED <<arrayIndices, arrayDepth, m_key, ended>>
         /\ c.is = "}" => CloseObject(fieldId)
<1>1. ExpectId(c)
  BY DecoderAt
<1>2. c.is \in FieldNames => c.is \notin Marks /\ c.is # "string" /\ c.is # "}"
  BY NamesApart DEF Marks
<1> QED
  BY <1>1, <1>2 DEF ExpectId, Report

(* Before a value.                                                         *)
LEMMA ValIs ==
  ASSUME NEW c, CheckInput(c), state = "jsVal"
  PROVE  /\ c.is = "string" => state' = "jsEndVal" /\ StringVal(c)
         /\ c.is = "[" => reports' = << >> /\ OpenArray
         /\ c.is = "]" /\ InArray(fieldId) =>
              /\ reports' = <<EndOf(fieldId, arrayIndices)>> /\ state' = "jsEndVal"
              /\ EndArray(fieldId, arrayIndices)
         /\ c.is = "number" => /\ reports' = << >> /\ state' = "jsIntVal"
                               /\ UNCHANGED <<fieldId, arrayIndices, arrayDepth, m_key, ended>>
         /\ c.is = "{" => /\ reports' = << >> /\ Extend(":", "jsExpectId")
                          /\ UNCHANGED <<arrayIndices, arrayDepth, m_key, ended>>
<1>1. Val(c)
  BY DecoderAt
<1>2. c.is \in {"string", "[", "]", "number", "{"} => c.is \notin FieldNames
  BY NamesApart DEF Marks
<1> QED
  BY <1>1, <1>2 DEF Val, Report, Become

(* After a value: process says that a number is still to be reported.      *)
LEMMA CompletedIs ==
  ASSUME NEW c, CheckInput(c), state \in {"jsIntVal", "jsEndVal"}, c.is \in {",", "]", "}"}
  PROVE  LET process == state = "jsIntVal"
             id == IF process THEN Named(fieldId) ELSE fieldId
             value == IF process THEN <<Value(id, Indices)>> ELSE << >>
         IN  /\ c.is = "," =>
                  /\ reports' = value /\ UNCHANGED <<arrayDepth, m_key, ended>>
                  /\ IF InArray(id)
                     THEN state' = "jsVal" /\ arrayIndices' = CountedUp /\ fieldId' = id
                     ELSE state' = "jsExpectId" /\ fieldId' = RemoveLastId(id) /\ UNCHANGED arrayIndices
             /\ c.is = "]" /\ InArray(fieldId) =>
                  /\ reports' = Append(value, EndOf(id, CountedUp))
                  /\ state' = "jsEndVal" /\ EndArray(id, CountedUp)
             /\ c.is = "}" /\ ~InArray(fieldId) => reports' = value /\ CloseObject(id)
<1>1. CASE state = "jsIntVal"
  <2> DEFINE process == TRUE
  <2>1. CheckValueCompleted(c, process)
    BY <1>1, DecoderAt DEF IntVal
  <2>2. process <=> state = "jsIntVal"
    BY <1>1
  <2> HIDE DEF process
  <2> QED
    BY <1>1, <2>1, <2>2 DEF CheckValueCompleted, Report, Become
<1>2. CASE state = "jsEndVal"
  <2> DEFINE process == FALSE
  <2>1. CheckValueCompleted(c, process)
    BY <1>2, DecoderAt DEF EndVal
  <2>2. process <=> state = "jsIntVal"
    BY <1>2
  <2> HIDE DEF process
  <2> QED
    BY <1>2, <2>1, <2>2 DEF CheckValueCompleted, Report, Become
<1> QED
  BY <1>1, <1>2

(* An error lasts to the end of the line.                                  *)
LEMMA ErrorIs ==
  ASSUME NEW c, CheckInput(c), state = "jsError"
  PROVE  reports' = << >> /\ state' = "jsError"
BY DecoderAt DEF InError, Report, Fail, Become

(* The id grows or is too long.                                            *)
LEMMA ExtendIs ==
  ASSUME NEW part, NEW next, Extend(part, next)
  PROVE  \/ state' = next /\ fieldId' = Append(fieldId, part)
         \/ state' = "jsError" /\ fieldId' = fieldId /\ ~(Len(fieldId) < MAX_JSON_ID_LENGTH)
BY DEF Extend, Become

-----------------------------------------------------------------------------
(* The decoder's place beside the sender's.                                *)

StateAt(s, w, st) ==
  st \in CASE w = "after" -> {"jsIntVal", "jsEndVal"}
           [] w = "value" \/ (Last(s).kind = "array" /\ w # "after") -> {"jsVal"}
           [] OTHER -> {"jsExpectId"}

OwedAt(s, k, st, o) ==
  o = IF st = "jsIntVal" THEN <<Value(KeyedBy(k, PathOf(s)), CountsOf(s))>> ELSE << >>

ExpectedAt(s, w) == IF Last(s).kind = "object" /\ w = "next" THEN Front(PathOf(s)) ELSE PathOf(s)

PlaceAt(s, w, k, id) ==
  /\ \/ id = ExpectedAt(s, w) \/ id = KeyedBy(k, ExpectedAt(s, w))
     \/ Len(k) > 1 /\ Len(s) = 1 /\ Last(s).name = "result" /\ w = "next" /\ Len(id) < Len(k)
  /\ (Len(s) = 1 /\ w = "value") \/ (Len(s) = 2 /\ w = "first") => id = PathOf(s)

IndicesAt(s, ix, d) == d = Len(CountsOf(s)) /\ SubSeq(ix, 1, d) = CountsOf(s)

KeyAt(s, w, k, mk) == s[1].name = "result" \/ (s[1].name = "key" /\ w # "value") => mk = k

(* What holds inside a message, by the variables it is about.              *)
LEMMA InsideIs ==
  FollowsInside <=> /\ stack # << >> /\ ended = 0
                    /\ StateAt(stack, want, state) /\ OwedAt(stack, lineKey, state, owed)
                    /\ PlaceAt(stack, want, lineKey, fieldId)
                    /\ IndicesAt(stack, arrayIndices, arrayDepth)
                    /\ KeyAt(stack, want, lineKey, m_key)
<1>1. /\ Path = PathOf(stack) /\ Counts = CountsOf(stack) /\ Meant = KeyedBy(lineKey, PathOf(stack))
      /\ \A id : Keyed(id) = KeyedBy(lineKey, id)
  BY PathIs, KeyedIs DEF Meant
<1>2. stack # << >> => /\ (InObject <=> Last(stack).kind = "object") /\ (InList <=> Last(stack).kind = "array")
                       /\ Expected = ExpectedAt(stack, want)
  BY <1>1 DEF InObject, InList, Top, Expected, ExpectedAt
<1>3. stack # << >> =>
        (StateAt(stack, want, state) <=>
           state \in CASE want = "after" -> {"jsIntVal", "jsEndVal"}
                       [] want = "value" \/ (InList /\ want # "after") -> {"jsVal"}
                       [] OTHER -> {"jsExpectId"})
  BY <1>2 DEF StateAt
<1>4. OwedAt(stack, lineKey, state, owed) <=> owed = IF state = "jsIntVal" THEN <<Value(Meant, Counts)>> ELSE << >>
  BY <1>1 DEF OwedAt
<1>5. stack # << >> =>
        (PlaceAt(stack, want, lineKey, fieldId) <=>
           /\ fieldId \in {Expected, Keyed(Expected)} \/ (AfterDotted /\ Len(fieldId) < Len(lineKey))
           /\ (Len(stack) = 1 /\ want = "value") \/ (Len(stack) = 2 /\ want = "first") => fieldId = Path)
  BY <1>1, <1>2 DEF PlaceAt, AfterDotted, Dotted, Top
<1>6. IndicesAt(stack, arrayIndices, arrayDepth) <=> arrayDepth = Len(Counts) /\ Indices = Counts
  BY <1>1 DEF IndicesAt, Indices
<1>7. KeyAt(stack, want, lineKey, m_key)
        <=> (stack[1].name = "result" \/ (stack[1].name = "key" /\ want # "value") => m_key = lineKey)
  BY DEF KeyAt
<1> QED
  BY <1>3, <1>4, <1>5, <1>6, <1>7, Zenon DEF FollowsInside

(* It holds after a step that keeps each of these.                         *)
LEMMA InsideNext ==
  ASSUME stack' # << >>, ended' = 0,
         StateAt(stack', want', state'), OwedAt(stack', lineKey', state', owed'),
         PlaceAt(stack', want', lineKey', fieldId'),
         IndicesAt(stack', arrayIndices', arrayDepth'),
         KeyAt(stack', want', lineKey', m_key')
  PROVE  FollowsInside'
<1>1. (FollowsInside <=> /\ stack # << >> /\ ended = 0
                        /\ StateAt(stack, want, state) /\ OwedAt(stack, lineKey, state, owed)
                        /\ PlaceAt(stack, want, lineKey, fieldId)
                        /\ IndicesAt(stack, arrayIndices, arrayDepth)
                        /\ KeyAt(stack, want, lineKey, m_key))'
  BY InsideIs, PTL
<1> QED
  BY <1>1

-----------------------------------------------------------------------------
(* The indices of the open arrays.                                         *)

(* The open indices.                                                       *)
LEMMA SubSeqIs ==
  ASSUME NEW N \in Nat, NEW ix \in [1..N -> Nat], NEW d \in 0..N
  PROVE  SubSeq(ix, 1, d) \in Seq(Nat) /\ Len(SubSeq(ix, 1, d)) = d /\ \A i \in 1..d : SubSeq(ix, 1, d)[i] = ix[i]
<1>1. ix \in Seq(Nat) /\ Len(ix) = N
  OBVIOUS
<1>2. \A i \in 1..d : i \in 1..N
  OBVIOUS
<1>3. d \in Int /\ 1 \in Int /\ \A i \in 1..d : ix[i] \in Nat
  BY <1>2
<1>4. /\ SubSeq(ix, 1, d) \in Seq(Nat)
      /\ Len(SubSeq(ix, 1, d)) = IF 1 <= d THEN d - 1 + 1 ELSE 0
      /\ \A i \in 1..(d - 1 + 1) : SubSeq(ix, 1, d)[i] = ix[1 + i - 1]
  BY <1>3, SubSeqProperties
<1>5. d - 1 + 1 = d /\ (1 <= d \/ d = 0) /\ \A i \in 1..d : 1 + i - 1 = i
  OBVIOUS
<1> QED
  BY <1>4, <1>5

(* A new array starts at 0, above those that are open.                     *)
LEMMA IndicesGrow ==
  ASSUME NEW N \in Nat, NEW ix \in [1..N -> Nat], NEW n \in Seq(Nat), Len(n) < N,
         SubSeq(ix, 1, Len(n)) = n
  PROVE  SubSeq([ix EXCEPT ![Len(n) + 1] = 0], 1, Len(n) + 1) = Append(n, 0)
<1> DEFINE d == Len(n)
           jx == [ix EXCEPT ![d + 1] = 0]
           a == SubSeq(jx, 1, d + 1)
           b == Append(n, 0)
<1>1. d \in 0..N /\ d + 1 \in 1..N /\ d + 1 \in 0..N /\ d \in Nat
  OBVIOUS
<1>2. jx \in [1..N -> Nat] /\ jx[d + 1] = 0 /\ \A i \in 1..d : jx[i] = ix[i]
  BY <1>1
<1> HIDE DEF jx
<1>3. a \in Seq(Nat) /\ Len(a) = d + 1 /\ \A i \in 1..(d + 1) : a[i] = jx[i]
  BY <1>1, <1>2, SubSeqIs
<1>4. \A i \in 1..d : n[i] = ix[i]
  BY <1>1, SubSeqIs
<1>5. b \in Seq(Nat) /\ Len(b) = d + 1 /\ b[d + 1] = 0 /\ \A i \in 1..d : b[i] = n[i]
  BY <1>1
<1> HIDE DEF a, b
<1>6. \A i \in 1..(d + 1) : i = d + 1 \/ i \in 1..d
  BY <1>1
<1>7. \A i \in 1..Len(a) : a[i] = b[i]
  BY <1>2, <1>3, <1>4, <1>5, <1>6
<1>8. a = b
  BY <1>3, <1>5, <1>7, SeqEqual
<1> QED
  BY <1>8 DEF a, b, jx

UpAt(ix, d) == [ix EXCEPT ![d] = @ + 1]
ZeroAt(ix, d) == [ix EXCEPT ![d] = 0]

(* The last of d open arrays has had x elements, those around it m.          *)
LastIndex(N, ix, m, x, d) ==
  /\ N \in Nat /\ ix \in [1..N -> Nat] /\ m \in Seq(Nat) /\ x \in Nat /\ d \in 0..N
  /\ d = Len(m) + 1 /\ SubSeq(ix, 1, d) = Append(m, x)

(* A comma counts the innermost index.                                     *)
LEMMA IndicesUp ==
  ASSUME NEW N, NEW ix, NEW m, NEW x, NEW d, LastIndex(N, ix, m, x, d)
  PROVE  LastIndex(N, UpAt(ix, d), m, x + 1, d)
<1> DEFINE jx == [ix EXCEPT ![d] = @ + 1]
           a == SubSeq(jx, 1, d)
           b == Append(m, x + 1)
           c == Append(m, x)
<1>0. /\ N \in Nat /\ ix \in [1..N -> Nat] /\ m \in Seq(Nat) /\ x \in Nat /\ d \in 0..N
      /\ d = Len(m) + 1 /\ SubSeq(ix, 1, d) = c
  BY DEF LastIndex
<1>1. d \in 1..N /\ d - 1 \in 0..N /\ d - 1 = Len(m) /\ Len(m) \in Nat
  BY <1>0
<1>2. /\ c \in Seq(Nat) /\ c[d] = x /\ \A i \in 1..(d - 1) : c[i] = m[i]
  BY <1>0, <1>1
<1>3. \A i \in 1..d : c[i] = ix[i]
  BY <1>0, <1>1, SubSeqIs
<1>4. \A i \in 1..(d - 1) : i \in 1..d /\ i # d /\ i \in 1..N
  BY <1>0, <1>1
<1>5. ix[d] = x /\ \A i \in 1..(d - 1) : ix[i] = m[i]
  BY <1>0, <1>1, <1>2, <1>3, <1>4
<1>6. jx \in [1..N -> Nat] /\ jx[d] = x + 1 /\ \A i \in 1..(d - 1) : jx[i] = m[i]
  BY <1>0, <1>1, <1>4, <1>5
<1> HIDE DEF c, jx
<1>7. a \in Seq(Nat) /\ Len(a) = d /\ \A i \in 1..d : a[i] = jx[i]
  BY <1>0, <1>1, <1>6, SubSeqIs
<1>8. b \in Seq(Nat) /\ Len(b) = d /\ b[d] = x + 1 /\ \A i \in 1..(d - 1) : b[i] = m[i]
  BY <1>0, <1>1
<1> HIDE DEF a, b
<1>9. \A i \in 1..d : i = d \/ i \in 1..(d - 1)
  BY <1>0, <1>1
<1>10. \A i \in 1..Len(a) : a[i] = b[i]
  BY <1>6, <1>7, <1>8, <1>9
<1>11. a = b
  BY <1>7, <1>8, <1>10, SeqEqual
<1>12. jx = UpAt(ix, d)
  BY DEF jx, UpAt
<1>13. x + 1 \in Nat
  BY <1>0
<1> QED
  BY <1>0, <1>6, <1>11, <1>12, <1>13 DEF a, b, LastIndex

Closed(ix, m, d) == SubSeq(ZeroAt(ix, d), 1, d - 1) = m

(* A bracket closes the innermost index.                                   *)
LEMMA IndicesDown ==
  ASSUME NEW N, NEW ix, NEW m, NEW x, NEW d, LastIndex(N, ix, m, x, d)
  PROVE  Closed(ix, m, d)
<1> DEFINE lx == [ix EXCEPT ![d] = 0]
           e == SubSeq(lx, 1, d - 1)
           c == Append(m, x)
<1>0. /\ N \in Nat /\ ix \in [1..N -> Nat] /\ m \in Seq(Nat) /\ x \in Nat /\ d \in 0..N
      /\ d = Len(m) + 1 /\ SubSeq(ix, 1, d) = c
  BY DEF LastIndex
<1>1. d \in 1..N /\ d - 1 \in 0..N /\ d - 1 = Len(m) /\ Len(m) \in Nat
  BY <1>0
<1>2. c \in Seq(Nat) /\ \A i \in 1..(d - 1) : c[i] = m[i]
  BY <1>0, <1>1
<1>3. \A i \in 1..d : c[i] = ix[i]
  BY <1>0, <1>1, SubSeqIs
<1>4. \A i \in 1..(d - 1) : i \in 1..d /\ i # d /\ i \in 1..N
  BY <1>0, <1>1
<1>5. \A i \in 1..(d - 1) : ix[i] = m[i]
  BY <1>0, <1>1, <1>2, <1>3, <1>4
<1>6. lx \in [1..N -> Nat] /\ \A i \in 1..(d - 1) : lx[i] = m[i]
  BY <1>0, <1>1, <1>4, <1>5
<1> HIDE DEF lx, c
<1>7. e \in Seq(Nat) /\ Len(e) = d - 1 /\ \A i \in 1..(d - 1) : e[i] = lx[i]
  BY <1>0, <1>1, <1>6, SubSeqIs
<1> HIDE DEF e
<1>8. \A i \in 1..Len(e) : e[i] = m[i]
  BY <1>6, <1>7
<1>9. e = m
  BY <1>0, <1>1, <1>7, <1>8, SeqEqual
<1> QED
  BY <1>9 DEF e, lx, ZeroAt, Closed

-----------------------------------------------------------------------------
(* What is known inside a message.                                         *)

(* What the lemmas about single tokens start from.                         *)
LEMMA InsideFacts ==
  ASSUME TypeOK, GrammarOK, FollowsInside
  PROVE  /\ Grammar(stack, want, lineKey) /\ GoodStack(stack) /\ stack \in Seq(Frames) /\ stack # << >>
         /\ Len(stack) \in Nat \ {0}
         /\ Last(stack) \in Frames /\ (Last(stack).kind = "object" \/ Last(stack).kind = "array")
         /\ Last(stack).kind = "array" => Len(stack) >= 2
         /\ Len(stack) = 1 => Last(stack) = stack[1]
         /\ lineKey \in Keys /\ fieldId \in Ids /\ m_key \in Keys
         /\ arrayIndices \in [1..MAX_ARRAY_NESTING -> Nat] /\ arrayDepth \in 0..MAX_ARRAY_NESTING
         /\ ended = 0 /\ CountsOf(stack) \in Seq(Nat)
         /\ StateAt(stack, want, state) /\ OwedAt(stack, lineKey, state, owed)
         /\ PlaceAt(stack, want, lineKey, fieldId)
         /\ IndicesAt(stack, arrayIndices, arrayDepth)
         /\ KeyAt(stack, want, lineKey, m_key)
         /\ PathOf(stack) \in Ids /\ Inner(PathOf(stack))
         /\ PathOf(stack) # << >> => PathOf(stack)[1] = stack[1].name
         /\ Len(stack) >= 2 => \A k : Splits(k, PathOf(stack))
<1>1. Grammar(stack, want, lineKey) /\ stack # << >>
  BY GrammarIs, InsideIs
<1>2. GoodStack(stack) /\ stack \in Seq(Frames)
  BY <1>1, GrammarStack DEF Grammar
<1>3. Len(stack) \in Nat \ {0} /\ Last(stack) \in Frames /\ Last(stack) = stack[Len(stack)]
  BY <1>1, <1>2, TopIs
<1>4. Last(stack).kind = "object" \/ Last(stack).kind = "array"
  BY <1>3 DEF Frames
<1>5. Last(stack).kind = "array" => Len(stack) >= 2
  BY <1>1, <1>2, TopPath
<1>6. /\ Inner(PathOf(stack))
      /\ PathOf(stack) # << >> => PathOf(stack)[1] = stack[1].name
      /\ Len(stack) >= 2 => Len(PathOf(stack)) >= 2
  BY <1>1, <1>2, PathIsGood
<1>7. PathOf(stack) \in Ids /\ PathOf(stack) \in Seq(Letters)
  BY <1>6, LettersAreParts DEF Inner
<1>8. Len(stack) >= 2 => \A k : Splits(k, PathOf(stack))
  <2>1. Len(PathOf(stack)) >= 2 => PathOf(stack) # << >>
    BY <1>7, NonEmpty
  <2> QED
    BY <1>6, <2>1 DEF Splits
<1>9. CountsOf(stack) \in Seq(Nat)
  BY <1>1, <1>2, TopCounts
<1>10. DecoderOK /\ OtherOK
  BY TypesSplit
<1> QED
  BY <1>1, <1>2, <1>3, <1>4, <1>5, <1>6, <1>7, <1>8, <1>9, <1>10, InsideIs DEF DecoderOK, OtherOK

(* Where a value is meant to be: at the counts, and the innermost is one   *)
(* more for the length of an array that is not empty.                      *)
LEMMA PlacesAre ==
  ASSUME CountsOf(stack) \in Seq(Nat)
  PROVE  /\ Places(0) = CountsOf(stack)
         /\ \A m \in Seq(Nat), x \in Nat : CountsOf(stack) = Append(m, x) => Places(1) = Append(m, x + 1)
<1> DEFINE n == CountsOf(stack)
<1>1. Counts = n /\ n \in Seq(Nat) /\ Len(n) \in Nat /\ DOMAIN n = 1..Len(n)
  BY PathIs
<1> HIDE DEF n
<1>2. \A more \in Nat : Places(more) = [i \in 1..Len(n) |-> n[i] + (IF i = Len(n) THEN more ELSE 0)]
  BY <1>1 DEF Places
<1>3. Places(0) = n
  <2> DEFINE a == Places(0)
  <2>1. a = [i \in 1..Len(n) |-> n[i] + (IF i = Len(n) THEN 0 ELSE 0)]
    BY <1>2
  <2>2. \A i \in 1..Len(n) : n[i] + (IF i = Len(n) THEN 0 ELSE 0) = n[i] /\ n[i] \in Nat
    BY <1>1
  <2>3. a = [i \in 1..Len(n) |-> n[i]]
    BY <2>1, <2>2
  <2>4. n = [i \in 1..Len(n) |-> n[i]]
    BY <1>1
  <2> QED
    BY <2>3, <2>4
<1>4. ASSUME NEW m \in Seq(Nat), NEW x \in Nat, n = Append(m, x)
      PROVE  Places(1) = Append(m, x + 1)
  <2> DEFINE a == Places(1)
             b == Append(m, x + 1)
             d == Len(m) + 1
  <2>1. Len(n) = d /\ d \in Nat /\ n[d] = x /\ \A i \in 1..(d - 1) : n[i] = m[i] /\ m[i] \in Nat
    BY <1>4
  <2>2. a = [i \in 1..d |-> n[i] + (IF i = d THEN 1 ELSE 0)]
    BY <1>2, <2>1
  <2>3. b \in Seq(Nat) /\ Len(b) = d /\ b[d] = x + 1 /\ \A i \in 1..(d - 1) : b[i] = m[i]
    OBVIOUS
  <2>4. \A i \in 1..d : i = d \/ (i \in 1..(d - 1) /\ i # d)
    BY <2>1
  <2> HIDE DEF b, d
  <2>5. \A i \in 1..d : n[i] + (IF i = d THEN 1 ELSE 0) = b[i]
    <3> SUFFICES ASSUME NEW i \in 1..d PROVE n[i] + (IF i = d THEN 1 ELSE 0) = b[i]
      OBVIOUS
    <3>1. CASE i = d
      BY <2>1, <2>3, <3>1
    <3>2. CASE i \in 1..(d - 1) /\ i # d
      <4>1. n[i] = m[i] /\ m[i] \in Nat /\ b[i] = m[i]
        BY <2>1, <2>3, <3>2
      <4> QED
        BY <3>2, <4>1
    <3> QED
      BY <2>4, <3>1, <3>2
  <2>6. a = [i \in 1..d |-> b[i]]
    BY <2>2, <2>5
  <2>7. b = [i \in 1..d |-> b[i]]
    BY <2>3
  <2> QED
    BY <2>6, <2>7 DEF b
<1> QED
  BY <1>3, <1>4 DEF n

(* What a token means, by what it is.                                      *)
LEMMA MeaningIs ==
  ASSUME NEW c
  PROVE  /\ c.is = "]" => Meaning(c) = <<ArrayEnd(KeyedBy(lineKey, PathOf(stack)),
                                                  IF want = "after" THEN Places(1) ELSE Places(0))>>
         /\ c.is \in {"number", "string"} =>
              Meaning(c) = <<Value(KeyedBy(lineKey, PathOf(stack)), Places(0))>>
         /\ c.is \notin {"]", "number", "string"} => Meaning(c) = << >>
BY PathIs, KeyedIs DEF Meaning, Meant

(* Once the decoder has the sender's key it names what the sender means,   *)
(* however often the key is put in.                                        *)
LEMMA NamedPath ==
  ASSUME TypeOK, GrammarOK, stack # << >>, stack[1].name = "result" => m_key = lineKey
  PROVE  LET p == PathOf(stack)
             q == KeyedBy(lineKey, p)
         IN  /\ q \in Ids /\ Named(p) = q /\ Named(q) = q
             /\ ~(Len(stack) = 1 /\ stack[1].name = "key") => q # <<"key">>
<1> DEFINE p == PathOf(stack)
           q == KeyedBy(lineKey, p)
<1>1. Grammar(stack, want, lineKey) /\ stack \in Seq(Frames) /\ GoodStack(stack) /\ lineKey \in Keys
  BY GrammarIs, GrammarStack DEF Grammar, TypeOK
<1>2. /\ Inner(p) /\ (p # << >> => p[1] = stack[1].name)
      /\ Len(stack) >= 2 => Len(p) >= 2
  BY <1>1, PathIsGood
<1>3. q \in Ids /\ KeyedBy(lineKey, q) = q
  BY <1>1, <1>2, KeyedTwice
<1>4. CASE p # << >> /\ p[1] = "result"
  <2>1. Named(p) = q /\ Named(q) = q
    BY <1>2, <1>3, <1>4, KeyedIs
  <2>2. q = << >> \/ q[1] \notin {"result", "key"}
    BY <1>1, <1>2, <1>4, KeyedFirst
  <2>3. q # <<"key">>
    BY <2>2
  <2> QED
    BY <1>3, <2>1, <2>3
<1>5. CASE p = << >> \/ p[1] # "result"
  <2>1. q = p /\ Named(p) = p
    BY <1>5, KeyedIs, KeyedOther
  <2>2. ~(Len(stack) = 1 /\ stack[1].name = "key") => p # <<"key">>
    <3> SUFFICES ASSUME p = <<"key">> PROVE Len(stack) = 1 /\ stack[1].name = "key"
      OBVIOUS
    <3>1. Len(p) = 1 /\ p # << >> /\ p[1] = "key"
      OBVIOUS
    <3> HIDE DEF p
    <3>2. ~(Len(stack) >= 2) /\ stack[1].name = "key"
      BY <1>2, <3>1
    <3>3. Len(stack) \in Nat \ {0}
      BY <1>1, TopIs
    <3>4. \A n \in Nat \ {0} : ~(n >= 2) => n = 1
      OBVIOUS
    <3> QED
      BY <3>2, <3>3, <3>4
  <2> QED
    BY <1>3, <2>1, <2>2
<1> QED
  BY <1>4, <1>5

-----------------------------------------------------------------------------
(* One token of a line that arrives whole, case by case.                   *)

KeyExcess(k) == IF Len(k) > 1 THEN Len(k) - 1 ELSE 0

Deep(s, k) ==
  \/ Len(CountsOf(s)) > MAX_ARRAY_NESTING
  \/ Len(PathOf(s)) + KeyExcess(k) > MAX_JSON_ID_LENGTH

(* A stack with one level more.                                            *)
LEMMA Pushed ==
  ASSUME NEW s \in Seq(Frames), NEW f \in Frames
  PROVE  LET t == Append(s, f)
         IN  /\ t \in Seq(Frames) /\ t # << >> /\ Len(t) = Len(s) + 1 /\ Len(s) \in Nat
             /\ Last(t) = f /\ Front(t) = s /\ UnderOf(t) = PathOf(s)
             /\ t[1] = IF s = << >> THEN f ELSE s[1]
<1> DEFINE t == Append(s, f)
<1>1. t \in Seq(Frames) /\ t # << >> /\ Len(t) = Len(s) + 1 /\ Len(s) \in Nat
  BY AppendProperties
<1>2. t[Len(s) + 1] = f /\ \A i \in 1..Len(s) : t[i] = s[i]
  OBVIOUS
<1>3. Last(t) = f
  BY <1>1, <1>2 DEF Last
<1> HIDE DEF t
<1>4. Front(t) \in Seq(Frames) /\ Len(Front(t)) = Len(s) /\ \A i \in 1..Len(s) : Front(t)[i] = t[i]
  <2>1. /\ Front(t) \in Seq(Frames) /\ Len(Front(t)) = Len(t) - 1
        /\ \A i \in 1..(Len(t) - 1) : Front(t)[i] = t[i]
    BY <1>1, TopIs
  <2>2. Len(t) - 1 = Len(s)
    BY <1>1
  <2> QED
    BY <2>1, <2>2
<1>5. \A i \in 1..Len(s) : Front(t)[i] = s[i]
  BY <1>2, <1>4
<1>6. Front(t) = s
  <2> DEFINE u == Front(t)
  <2>1. u \in Seq(Frames) /\ Len(u) = Len(s) /\ \A i \in 1..Len(u) : u[i] = s[i]
    BY <1>4, <1>5
  <2> HIDE DEF u
  <2>2. u = s
    BY <2>1, SeqEqual
  <2> QED
    BY <2>2 DEF u
<1>7. t[1] = IF s = << >> THEN f ELSE s[1]
  <2>1. s = << >> => Len(s) = 0
    BY NonEmpty
  <2>2. s # << >> => 1 \in 1..Len(s)
    BY NonEmpty
  <2> QED
    BY <1>2, <2>1, <2>2
<1> QED
  BY <1>1, <1>3, <1>6, <1>7 DEF t, UnderOf

(* Nothing was owed, nothing is meant and nothing is told.                 *)
LEMMA CompareNothing ==
  ASSUME NEW c, Compare(c), ~wrong, owed = << >>, c.is \notin {"]", "number", "string"},
         reports' = << >>
  PROVE  ~wrong' /\ owed' = << >>
<1>1. Meaning(c) = << >>
  BY MeaningIs
<1>2. << >> \in Seq({}) /\ << >> \o << >> = << >>
  OBVIOUS
<1>3. Renamed(reports') = << >>
  BY RenamedIs
<1>4. owed \o Meaning(c) = << >>
  BY <1>1, <1>2
<1> QED
  BY <1>2, <1>3, <1>4, CompareAll

(* The first brace starts the message, whatever an earlier one left        *)
(* behind.                                                                 *)
LEMMA StartsMessage ==
  ASSUME TypeOK, GrammarOK, FollowsBefore, ~wrong, NEW c, Open(c), CheckInput(c), Compare(c)
  PROVE  ~wrong' /\ state' # "jsError" /\ FollowsInside'
<1>1. /\ stack = << >> /\ want = "first" /\ state = "jsBegin" /\ owed = << >> /\ ended = 0
  BY DEF FollowsBefore
<1>2. /\ GrammarOK' /\ want' = "first" /\ lineKey' = lineKey /\ c.is = "{"
  BY <1>1, GrammarOpen
<1>3. PICK f \in Frames : stack' = Append(stack, f) /\ f.name = "none" /\ f.kind = "object"
  BY <1>2, GrammarOpen
<1>4. stack \in Seq(Frames)
  BY DEF GrammarOK
<1>5. /\ stack' \in Seq(Frames) /\ stack' # << >> /\ Len(stack') = Len(stack) + 1
      /\ Last(stack') = f /\ Front(stack') = stack
      /\ stack'[1] = f
  BY <1>1, <1>3, <1>4, Pushed
<1>6. Len(stack') = 1
  BY <1>1, <1>5
<1>7. Grammar(stack', want', lineKey')
  BY <1>2, GrammarIs
<1>8. GoodStack(stack')
  BY <1>7, GrammarStack
<1>9. PathOf(stack') = << >>
  BY <1>3, <1>5, <1>6, <1>8, TopPath DEF BaseOf
<1>10. CountsOf(stack') = << >>
  <2>1. CountsOf(stack') = CountsOf(Front(stack'))
    BY <1>3, <1>5, TopCounts
  <2> QED
    BY <1>1, <1>5, <2>1, PathOfNone
<1>11. /\ reports' = << >> /\ arrayIndices' = arrayIndices /\ m_key' = m_key /\ ended' = 0
       /\ state' = "jsExpectId" /\ fieldId' = << >> /\ arrayDepth' = 0
  BY <1>1, <1>2, BeginIs
<1>12. ~wrong' /\ owed' = << >>
  BY <1>1, <1>2, <1>11, CompareNothing
<1>13. StateAt(stack', want', state')
  BY <1>2, <1>3, <1>5, <1>11 DEF StateAt
<1>14. OwedAt(stack', lineKey', state', owed')
  BY <1>11, <1>12 DEF OwedAt
<1>15. PlaceAt(stack', want', lineKey', fieldId')
  BY <1>2, <1>6, <1>9, <1>11 DEF PlaceAt, ExpectedAt
<1>16. IndicesAt(stack', arrayIndices', arrayDepth')
  <2>1. Len(<< >>) = 0 /\ SubSeq(arrayIndices', 1, 0) = << >>
    BY SubSeqEmpty
  <2> QED
    BY <1>10, <1>11, <2>1 DEF IndicesAt
<1>17. KeyAt(stack', want', lineKey', m_key')
  BY <1>3, <1>5 DEF KeyAt
<1> QED
  BY <1>5, <1>11, <1>12, <1>13, <1>14, <1>15, <1>16, <1>17, InsideNext

(* An id that is too long comes from a line that is too deep.              *)
LEMMA TooLong ==
  ASSUME NEW k \in Keys, NEW p \in Ids, NEW id, id = p \/ id = KeyedBy(k, p),
         ~(Len(id) < MAX_JSON_ID_LENGTH), NEW s, PathOf(s) \in Ids,
         Len(PathOf(s)) = Len(p) + 1
  PROVE  Deep(s, k)
<1> DEFINE x == KeyExcess(k)
           n == Len(p)
           m == Len(id)
<1>1. k \in Seq(Parts) /\ Len(k) \in Nat /\ x \in Nat
  BY KeyIs DEF Ids, KeyExcess
<1>2. n \in Nat
  BY DEF Ids
<1>3. m \in Nat /\ m <= n + x
  <2>1. CASE id = p
    BY <1>1, <1>2, <2>1
  <2>2. CASE id = KeyedBy(k, p)
    BY <1>1, <1>2, <2>2, KeyedLen DEF KeyExcess
  <2> QED
    BY <2>1, <2>2
<1> HIDE DEF x, n, m
<1>4. MAX_JSON_ID_LENGTH \in Nat
  BY Limits
<1>5. \A a, b, d, z \in Nat : a <= b + d /\ ~(a < z) => b + 1 + d > z
  OBVIOUS
<1>6. ~(m < MAX_JSON_ID_LENGTH)
  BY DEF m
<1>7. n + 1 + x > MAX_JSON_ID_LENGTH
  BY <1>1, <1>2, <1>3, <1>4, <1>5, <1>6
<1> QED
  BY <1>7 DEF Deep, n, x

(* Opening an object or an array moves the id along with the path.         *)
LEMMA PushPlace ==
  ASSUME TypeOK, GrammarOK, FollowsInside, NEW c, Open(c), NEW e, e = (IF c.is = "[" THEN "^" ELSE ":")
  PROVE  /\ state = "jsVal" /\ owed = << >> /\ stack' # << >> /\ Last(stack').kind = IF c.is = "[" THEN "array" ELSE "object"
         /\ want' = "first"
         /\ ~(Len(fieldId) < MAX_JSON_ID_LENGTH) => Deep(stack', lineKey)
         /\ fieldId' = Append(fieldId, e) => PlaceAt(stack', want', lineKey', fieldId')
         /\ CountsOf(stack') = IF c.is = "[" THEN Append(CountsOf(stack), 0) ELSE CountsOf(stack)
         /\ m_key' = m_key => KeyAt(stack', want', lineKey', m_key')
<1> DEFINE P == PathOf(stack)
           Q == PathOf(stack')
<1>1. /\ Grammar(stack, want, lineKey) /\ GoodStack(stack) /\ stack \in Seq(Frames) /\ stack # << >>
      /\ Len(stack) \in Nat \ {0}
      /\ Last(stack).kind = "object" \/ Last(stack).kind = "array"
      /\ Last(stack).kind = "array" => Len(stack) >= 2
      /\ Len(stack) = 1 => Last(stack) = stack[1]
      /\ lineKey \in Keys /\ fieldId \in Ids
      /\ P \in Ids
      /\ Len(stack) >= 2 => Splits(lineKey, P)
      /\ StateAt(stack, want, state) /\ OwedAt(stack, lineKey, state, owed)
      /\ PlaceAt(stack, want, lineKey, fieldId)
      /\ KeyAt(stack, want, lineKey, m_key)
  BY InsideFacts
<1>2. /\ GrammarOK' /\ want' = "first" /\ lineKey' = lineKey /\ c.is \in {"[", "{"}
      /\ MaySendValue /\ ~(Len(stack) = 1 /\ Top.name = "key")
  BY <1>1, GrammarOpen
<1>3. PICK f \in Frames : /\ stack' = Append(stack, f) /\ f.name = "none" /\ f.count = 0
                          /\ f.kind = IF c.is = "[" THEN "array" ELSE "object"
  BY GrammarOpen
<1>4. /\ Last(stack).kind = "object" => want = "value"
      /\ Last(stack).kind = "array" => want \in {"first", "next"}
  BY <1>1, <1>2 DEF MaySendValue, InObject, InList, Top
<1>5. state = "jsVal"
  BY <1>1, <1>4 DEF StateAt
<1>6. owed = << >>
  BY <1>1, <1>5 DEF OwedAt
<1>7. /\ stack' \in Seq(Frames) /\ stack' # << >> /\ Len(stack') = Len(stack) + 1
      /\ Last(stack') = f /\ Front(stack') = stack /\ UnderOf(stack') = P
      /\ stack'[1] = stack[1]
  BY <1>1, <1>3, Pushed
<1>8. ExpectedAt(stack, want) = P
  BY <1>4 DEF ExpectedAt
<1>9. fieldId = P \/ fieldId = KeyedBy(lineKey, P)
  <2>1. Len(stack) = 1 => want = "value"
    <3>1. Len(stack) = 1 => ~(Len(stack) >= 2)
      OBVIOUS
    <3> QED
      BY <1>1, <1>4, <3>1
  <2> QED
    BY <1>1, <1>8, <2>1 DEF PlaceAt
<1>10. Len(stack) = 1 => fieldId = P
  <2>1. Len(stack) = 1 => want = "value"
    <3>1. Len(stack) = 1 => ~(Len(stack) >= 2)
      OBVIOUS
    <3> QED
      BY <1>1, <1>4, <3>1
  <2> QED
    BY <1>1, <2>1 DEF PlaceAt
<1> HIDE DEF P, Q
<1>11. Len(stack') >= 2 /\ Len(stack') # 1 /\ (Len(stack') = 2 <=> Len(stack) = 1) /\ (Len(stack) # 1 => Len(stack) >= 2)
  <2>1. \A n \in Nat \ {0} : n + 1 >= 2 /\ n + 1 # 1 /\ (n + 1 = 2 <=> n = 1) /\ (n # 1 => n >= 2)
    OBVIOUS
  <2>2. Len(stack) \in Nat \ {0} /\ Len(stack') = Len(stack) + 1
    BY <1>1, <1>7
  <2> QED
    BY <2>1, <2>2
<1>12. GoodStack(stack')
  BY <1>2, GrammarIs, GrammarStack
<1>13. Q = Append(P, e)
  <2>1. CASE c.is = "["
    BY <1>3, <1>7, <1>12, <2>1, TopPath DEF Q
  <2>2. CASE c.is = "{"
    <3>1. Q = BaseOf(stack')
      BY <1>3, <1>7, <1>12, <2>2, TopPath DEF Q
    <3> QED
      BY <1>7, <1>11, <2>2, <3>1 DEF BaseOf
  <2> QED
    BY <1>2, <2>1, <2>2
<1>14. e \in Parts
  BY Limits DEF Separators
<1>15. Q \in Ids /\ Len(Q) = Len(P) + 1
  BY <1>1, <1>13, <1>14, AppendParts
<1>16. ~(Len(fieldId) < MAX_JSON_ID_LENGTH) => Deep(stack', lineKey)
  <2> SUFFICES ASSUME ~(Len(fieldId) < MAX_JSON_ID_LENGTH) PROVE Deep(stack', lineKey)
    OBVIOUS
  <2>1. PathOf(stack') \in Ids /\ Len(PathOf(stack')) = Len(P) + 1
    BY <1>15 DEF Q
  <2> QED
    BY <1>1, <1>9, <2>1, TooLong
<1>17. fieldId' = Append(fieldId, e) => PlaceAt(stack', want', lineKey', fieldId')
  <2> SUFFICES ASSUME fieldId' = Append(fieldId, e) PROVE PlaceAt(stack', want', lineKey', fieldId')
    OBVIOUS
  <2>1. ExpectedAt(stack', want') = Q
    BY <1>2 DEF ExpectedAt, Q
  <2>2. fieldId' = Q \/ fieldId' = KeyedBy(lineKey, Q)
    <3>1. CASE fieldId = P
      BY <1>13, <3>1
    <3>2. CASE fieldId = KeyedBy(lineKey, P) /\ fieldId # P
      <4>1. Splits(lineKey, P)
        BY <1>1, <1>10, <1>11, <3>2
      <4>2. KeyedBy(lineKey, Append(P, e)) = Append(KeyedBy(lineKey, P), e)
        BY <1>1, <1>14, <4>1, KeyedAppend
      <4> QED
        BY <1>13, <3>2, <4>2
    <3> QED
      BY <1>9, <3>1, <3>2
  <2>3. Len(stack') = 2 => fieldId' = Q
    BY <1>10, <1>11, <1>13
  <2> QED
    BY <1>2, <1>11, <2>1, <2>2, <2>3 DEF PlaceAt, Q
<1>18. CountsOf(stack') = IF c.is = "[" THEN Append(CountsOf(stack), 0) ELSE CountsOf(stack)
  <2>1. CountsOf(stack') = IF Last(stack').kind = "array" THEN Append(CountsOf(Front(stack')), Last(stack').count)
                           ELSE CountsOf(Front(stack'))
    BY <1>7, TopCounts
  <2> QED
    BY <1>3, <1>7, <2>1
<1>19. m_key' = m_key => KeyAt(stack', want', lineKey', m_key')
  <2>1. stack[1].name # "key"
    <3> SUFFICES ASSUME stack[1].name = "key" PROVE FALSE
      OBVIOUS
    <3>1. FrameOK(1, stack[1], Len(stack), stack[1].name, want, lineKey)
      BY <1>1 DEF Grammar
    <3>2. Len(stack) = 1
      BY <3>1 DEF FrameOK
    <3> QED
      BY <1>1, <1>2, <3>2 DEF Top
  <2> QED
    BY <1>1, <1>2, <1>7, <2>1 DEF KeyAt
<1> QED
  BY <1>2, <1>3, <1>5, <1>6, <1>7, <1>16, <1>17, <1>18, <1>19

(* An object or an array is opened: it is followed, or the line is too     *)
(* deep.                                                                   *)
LEMMA StepOpen ==
  ASSUME TypeOK, GrammarOK, FollowsInside, ~wrong, NEW c, Open(c), CheckInput(c), Compare(c)
  PROVE  ~wrong' /\ IF state' = "jsError" THEN Deep(stack', lineKey) ELSE FollowsInside'
<1>1. c.is \in {"[", "{"} /\ want' = "first"
  BY GrammarOpen
<1>2. /\ arrayIndices \in [1..MAX_ARRAY_NESTING -> Nat] /\ arrayDepth \in 0..MAX_ARRAY_NESTING
      /\ ended = 0 /\ CountsOf(stack) \in Seq(Nat) /\ IndicesAt(stack, arrayIndices, arrayDepth)
  BY InsideFacts
<1>3. CASE c.is = "{"
  <2>1. /\ state = "jsVal" /\ owed = << >> /\ stack' # << >> /\ Last(stack').kind = "object"
        /\ ~(Len(fieldId) < MAX_JSON_ID_LENGTH) => Deep(stack', lineKey)
        /\ fieldId' = Append(fieldId, ":") => PlaceAt(stack', want', lineKey', fieldId')
        /\ CountsOf(stack') = CountsOf(stack)
        /\ m_key' = m_key => KeyAt(stack', want', lineKey', m_key')
    BY <1>3, PushPlace
  <2>2. reports' = << >> /\ Extend(":", "jsExpectId") /\ UNCHANGED <<arrayIndices, arrayDepth, m_key, ended>>
    BY <1>3, <2>1, ValIs
  <2>3. ~wrong' /\ owed' = << >>
    BY <1>3, <2>1, <2>2, CompareNothing
  <2>4. CASE state' = "jsError" /\ ~(Len(fieldId) < MAX_JSON_ID_LENGTH)
    BY <2>1, <2>3, <2>4
  <2>5. CASE state' = "jsExpectId" /\ fieldId' = Append(fieldId, ":")
    <3>1. StateAt(stack', want', state')
      BY <1>1, <2>1, <2>5 DEF StateAt
    <3>2. OwedAt(stack', lineKey', state', owed')
      BY <2>3, <2>5 DEF OwedAt
    <3>3. IndicesAt(stack', arrayIndices', arrayDepth')
      BY <1>2, <2>1, <2>2 DEF IndicesAt
    <3> QED
      BY <1>2, <2>1, <2>2, <2>3, <2>5, <3>1, <3>2, <3>3, InsideNext
  <2> QED
    BY <2>2, <2>4, <2>5, ExtendIs
<1>4. CASE c.is = "["
  <2>1. /\ state = "jsVal" /\ owed = << >> /\ stack' # << >> /\ Last(stack').kind = "array"
        /\ ~(Len(fieldId) < MAX_JSON_ID_LENGTH) => Deep(stack', lineKey)
        /\ fieldId' = Append(fieldId, "^") => PlaceAt(stack', want', lineKey', fieldId')
        /\ CountsOf(stack') = Append(CountsOf(stack), 0)
        /\ m_key' = m_key => KeyAt(stack', want', lineKey', m_key')
    BY <1>4, PushPlace
  <2>2. reports' = << >> /\ OpenArray
    BY <1>4, <2>1, ValIs
  <2>3. ~wrong' /\ owed' = << >>
    BY <1>4, <2>1, <2>2, CompareNothing
  <2>4. CASE ~(arrayDepth < MAX_ARRAY_NESTING)
    <3>1. state' = "jsError"
      BY <2>2, <2>4 DEF OpenArray, Fail, Become
    <3>2. Len(CountsOf(stack')) = arrayDepth + 1
      BY <1>2, <2>1 DEF IndicesAt
    <3>3. Len(CountsOf(stack')) > MAX_ARRAY_NESTING
      <4>1. MAX_ARRAY_NESTING \in Nat
        BY Limits
      <4> QED
        BY <1>2, <2>4, <3>2, <4>1
    <3> QED
      BY <2>3, <3>1, <3>3 DEF Deep
  <2>5. CASE arrayDepth < MAX_ARRAY_NESTING
    <3>1. Extend("^", "jsVal") /\ UNCHANGED <<m_key, ended>>
      BY <2>2, <2>5 DEF OpenArray
    <3>2. CASE ~(Len(fieldId) < MAX_JSON_ID_LENGTH)
      <4>1. state' = "jsError"
        BY <3>1, <3>2 DEF Extend, Become
      <4> QED
        BY <2>1, <2>3, <3>2, <4>1
    <3>3. CASE Len(fieldId) < MAX_JSON_ID_LENGTH
      <4>1. state' = "jsVal" /\ fieldId' = Append(fieldId, "^")
        BY <3>1, <3>3 DEF Extend, Become
      <4>2. arrayIndices' = [arrayIndices EXCEPT ![arrayDepth + 1] = 0] /\ arrayDepth' = arrayDepth + 1
        BY <2>2, <2>5, <3>3 DEF OpenArray
      <4>3. StateAt(stack', want', state')
        BY <1>1, <2>1, <4>1 DEF StateAt
      <4>4. OwedAt(stack', lineKey', state', owed')
        BY <2>3, <4>1 DEF OwedAt
      <4>5. IndicesAt(stack', arrayIndices', arrayDepth')
        <5> DEFINE n == CountsOf(stack)
                   N == MAX_ARRAY_NESTING
                   ix == arrayIndices
        <5>1. n \in Seq(Nat) /\ arrayDepth = Len(n) /\ SubSeq(ix, 1, Len(n)) = n
          BY <1>2 DEF IndicesAt
        <5>2. N \in Nat /\ ix \in [1..N -> Nat] /\ Len(n) < N
          BY <1>2, <2>5, <5>1, Limits
        <5> HIDE DEF n, N, ix
        <5>3. SubSeq([ix EXCEPT ![Len(n) + 1] = 0], 1, Len(n) + 1) = Append(n, 0)
          BY <5>1, <5>2, IndicesGrow
        <5>4. Len(Append(n, 0)) = Len(n) + 1
          BY <5>1
        <5>5. CountsOf(stack') = Append(n, 0) /\ arrayDepth' = Len(n) + 1
          BY <2>1, <4>2, <5>1 DEF n
        <5>6. arrayIndices' = [ix EXCEPT ![Len(n) + 1] = 0]
          BY <4>2, <5>1 DEF ix
        <5> QED
          BY <5>3, <5>4, <5>5, <5>6 DEF IndicesAt
      <4> QED
        BY <1>2, <2>1, <2>3, <3>1, <4>1, <4>3, <4>4, <4>5, InsideNext
    <3> QED
      BY <3>2, <3>3
  <2> QED
    BY <2>4, <2>5
<1> QED
  BY <1>1, <1>3, <1>4

(* A field is named: it is followed, or the line is too deep.              *)
LEMMA StepField ==
  ASSUME TypeOK, GrammarOK, FollowsInside, ~wrong, NEW c, Field(c), CheckInput(c), Compare(c),
         ~(Len(lineKey) > 1 /\ Len(stack) = 1 /\ Last(stack).name = "result")
  PROVE  ~wrong' /\ IF state' = "jsError" THEN Deep(stack', lineKey) ELSE FollowsInside'
<1> DEFINE B == BaseOf(stack)
           Q == PathOf(stack')
<1>1. /\ Grammar(stack, want, lineKey) /\ GoodStack(stack) /\ stack \in Seq(Frames) /\ stack # << >>
      /\ Len(stack) \in Nat \ {0} /\ ended = 0
      /\ Len(stack) = 1 => Last(stack) = stack[1]
      /\ lineKey \in Keys /\ fieldId \in Ids
      /\ StateAt(stack, want, state) /\ OwedAt(stack, lineKey, state, owed)
      /\ PlaceAt(stack, want, lineKey, fieldId)
      /\ IndicesAt(stack, arrayIndices, arrayDepth)
      /\ KeyAt(stack, want, lineKey, m_key)
  BY InsideFacts
<1>2. /\ GrammarOK' /\ want' = "value" /\ lineKey' = lineKey /\ want \in {"first", "next"}
      /\ Last(stack).kind = "object"
      /\ c.is \in FieldNames /\ (Len(stack) # 1 => c.is \in Names)
      /\ Len(stack) = 1 /\ c.is = "result" => Last(stack).name = "key"
      /\ Len(stack) = 1 /\ Last(stack).name = "result" => c.is = "next"
  BY GrammarField DEF Top
<1>3. PICK f \in Frames : /\ stack' = Append(Front(stack), f) /\ Front(stack') = Front(stack)
                          /\ Last(stack') = f /\ Len(stack') = Len(stack)
                          /\ stack'[1] = IF Len(stack) = 1 THEN f ELSE stack[1]
                          /\ f.name = c.is /\ f.kind = "object"
  BY GrammarField
<1>4. stack' # << >> /\ stack' \in Seq(Frames)
  <2>1. Front(stack) \in Seq(Frames)
    BY <1>1, TopIs
  <2> QED
    BY <1>3, <2>1, Pushed
<1>5. state = "jsExpectId"
  BY <1>2 , <1>1 DEF StateAt
<1>6. owed = << >>
  BY <1>1, <1>5 DEF OwedAt
<1>7. B \in Ids /\ (Len(stack) >= 2 => UnderOf(stack) # << >> /\ UnderOf(stack) \in Ids)
  BY <1>1, TopPath
<1>8. ExpectedAt(stack, want) = B
  <2>1. CASE want = "first"
    <3>1. Last(stack).name = "none"
      BY <1>1, <1>2, <2>1 DEF Grammar
    <3> QED
      BY <1>1, <1>2, <2>1, <3>1, TopPath DEF ExpectedAt
  <2>2. CASE want = "next"
    <3>1. Last(stack).name # "none" /\ Last(stack) \in Frames
      BY <1>1, <1>2, <2>2, TopIs DEF Grammar
    <3>2. PathOf(stack) = Append(B, Last(stack).name)
      BY <1>1, <1>2, <3>1, TopPath
    <3>3. Last(stack).name \in Parts
      BY <3>1, Limits DEF Frames
    <3> QED
      BY <1>2, <1>7, <2>2, <3>2, <3>3, AppendParts DEF ExpectedAt
  <2> QED
    BY <1>2, <2>1, <2>2
<1>9. fieldId = B \/ fieldId = KeyedBy(lineKey, B)
  BY <1>1, <1>8 DEF PlaceAt
<1>10. BaseOf(stack') = B
  BY <1>3 DEF BaseOf, UnderOf
<1> HIDE DEF B, Q
<1>11. c.is # "none"
  BY <1>2, NamesApart
<1>12. GoodStack(stack')
  BY <1>2, GrammarIs, GrammarStack
<1>13. Q = Append(B, c.is)
  BY <1>3, <1>4, <1>10, <1>11, <1>12, TopPath DEF Q
<1>14. c.is \in Parts
  BY <1>2, Limits
<1>15. Q \in Ids /\ Len(Q) = Len(B) + 1
  BY <1>7, <1>13, <1>14, AppendParts
<1>16. ~(Len(fieldId) < MAX_JSON_ID_LENGTH) => Deep(stack', lineKey)
  <2> SUFFICES ASSUME ~(Len(fieldId) < MAX_JSON_ID_LENGTH) PROVE Deep(stack', lineKey)
    OBVIOUS
  <2>1. PathOf(stack') \in Ids /\ Len(PathOf(stack')) = Len(B) + 1
    BY <1>15 DEF Q
  <2> QED
    BY <1>1, <1>7, <1>9, <2>1, TooLong
<1>17. Len(stack) = 1 => fieldId = B
  <2>1. Len(stack) = 1 => B = << >>
    BY DEF BaseOf, B
  <2>2. KeyedBy(lineKey, << >>) = << >>
    BY KeyedOther
  <2> QED
    BY <1>9, <2>1, <2>2
<1>18. Len(stack) # 1 => Len(stack) >= 2
  <2>1. \A n \in Nat \ {0} : n # 1 => n >= 2
    OBVIOUS
  <2> QED
    BY <1>1, <2>1
<1>19. Len(stack) # 1 => Splits(lineKey, B)
  <2> SUFFICES ASSUME Len(stack) # 1 PROVE Splits(lineKey, B)
    OBVIOUS
  <2>1. B = Append(UnderOf(stack), ":") /\ UnderOf(stack) # << >> /\ UnderOf(stack) \in Ids /\ ":" \in Parts
    BY <1>7, <1>18, Limits DEF B, BaseOf, Separators
  <2>2. Len(B) = Len(UnderOf(stack)) + 1 /\ Len(UnderOf(stack)) \in Nat /\ B # << >>
    BY <2>1, AppendParts
  <2>3. Len(UnderOf(stack)) >= 1
    BY <2>1, NonEmpty DEF Ids
  <2>4. \A n \in Nat : n >= 1 => n + 1 >= 2
    OBVIOUS
  <2> QED
    BY <2>2, <2>3, <2>4 DEF Splits
<1>20. fieldId' = Append(fieldId, c.is) => PlaceAt(stack', want', lineKey', fieldId')
  <2> SUFFICES ASSUME fieldId' = Append(fieldId, c.is) PROVE PlaceAt(stack', want', lineKey', fieldId')
    OBVIOUS
  <2>1. ExpectedAt(stack', want') = Q
    BY <1>2 DEF ExpectedAt, Q
  <2>2. fieldId' = Q \/ fieldId' = KeyedBy(lineKey, Q)
    <3>1. CASE fieldId = B
      BY <1>13, <3>1
    <3>2. CASE fieldId = KeyedBy(lineKey, B) /\ fieldId # B
      <4>1. Splits(lineKey, B)
        BY <1>17, <1>19, <3>2
      <4>2. KeyedBy(lineKey, Append(B, c.is)) = Append(KeyedBy(lineKey, B), c.is)
        BY <1>1, <1>7, <1>14, <4>1, KeyedAppend
      <4> QED
        BY <1>13, <3>2, <4>2
    <3> QED
      BY <1>9, <3>1, <3>2
  <2>3. Len(stack') = 1 => fieldId' = Q
    BY <1>3, <1>13, <1>17
  <2> QED
    BY <1>2, <2>1, <2>2, <2>3 DEF PlaceAt, Q
<1>21. CountsOf(stack') = CountsOf(stack)
  <2>1. CountsOf(stack') = CountsOf(Front(stack'))
    BY <1>3, <1>4, TopCounts
  <2>2. CountsOf(stack) = CountsOf(Front(stack))
    BY <1>1, <1>2, TopCounts
  <2> QED
    BY <1>3, <2>1, <2>2
<1>22. reports' = << >> /\ Extend(c.is, "jsVal") /\ UNCHANGED <<arrayIndices, arrayDepth, m_key, ended>>
  BY <1>2, <1>5, ExpectIdIs
<1>23. KeyAt(stack', want', lineKey', m_key')
  <2>1. want # "value"
    BY <1>2
  <2>2. stack'[1].name = "result" => m_key = lineKey
    <3>1. CASE Len(stack) = 1
      BY <1>1, <1>2, <1>3, <2>1, <3>1 DEF KeyAt
    <3>2. CASE Len(stack) # 1
      BY <1>1, <1>3, <3>2 DEF KeyAt
    <3> QED
      BY <3>1, <3>2
  <2> QED
    BY <1>2, <1>22, <2>2 DEF KeyAt
<1>24. ~wrong' /\ owed' = << >>
  <2>1. c.is \notin {"]", "number", "string"}
    BY <1>2, NamesApart DEF Marks
  <2> QED
    BY <1>6, <1>22, <2>1, CompareNothing
<1>25. CASE state' = "jsError" /\ ~(Len(fieldId) < MAX_JSON_ID_LENGTH)
  BY <1>16, <1>24, <1>25
<1>26. CASE state' = "jsVal" /\ fieldId' = Append(fieldId, c.is)
  <2>1. StateAt(stack', want', state')
    BY <1>2, <1>26 DEF StateAt
  <2>2. OwedAt(stack', lineKey', state', owed')
    BY <1>24, <1>26 DEF OwedAt
  <2>3. IndicesAt(stack', arrayIndices', arrayDepth')
    BY <1>1, <1>21, <1>22 DEF IndicesAt
  <2> QED
    BY <1>1, <1>4, <1>20, <1>22, <1>23, <1>24, <1>26, <2>1, <2>2, <2>3, InsideNext
<1> QED
  BY <1>22, <1>25, <1>26, ExtendIs

(* Where a value goes.                                                     *)
LEMMA ValuePlace ==
  ASSUME TypeOK, GrammarOK, FollowsInside, NEW c, Scalar(c)
  PROVE  /\ state = "jsVal" /\ owed = << >>
         /\ fieldId = PathOf(stack) \/ fieldId = KeyedBy(lineKey, PathOf(stack))
         /\ Len(stack) = 1 => fieldId = PathOf(stack) /\ Last(stack).kind = "object"
         /\ Indices = CountsOf(stack) /\ Places(0) = CountsOf(stack)
         /\ stack[1].name = "key" => Len(stack) = 1 /\ Top.name = "key"
         /\ stack[1].name = "result" => m_key = lineKey
<1>1. /\ Grammar(stack, want, lineKey) /\ Len(stack) \in Nat \ {0}
      /\ Last(stack).kind = "object" \/ Last(stack).kind = "array"
      /\ Last(stack).kind = "array" => Len(stack) >= 2
      /\ Len(stack) = 1 => Last(stack) = stack[1]
      /\ StateAt(stack, want, state) /\ OwedAt(stack, lineKey, state, owed)
      /\ PlaceAt(stack, want, lineKey, fieldId)
      /\ IndicesAt(stack, arrayIndices, arrayDepth)
      /\ KeyAt(stack, want, lineKey, m_key)
      /\ CountsOf(stack) \in Seq(Nat) /\ stack # << >>
  BY InsideFacts
<1>2. /\ Last(stack).kind = "object" => want = "value"
      /\ Last(stack).kind = "array" => want \in {"first", "next"}
  BY GrammarScalar DEF Top
<1>3. state = "jsVal"
  BY <1>1, <1>2 DEF StateAt
<1>4. owed = << >>
  BY <1>1, <1>3 DEF OwedAt
<1>5. ExpectedAt(stack, want) = PathOf(stack)
  BY <1>1, <1>2 DEF ExpectedAt
<1>6. Len(stack) = 1 => Last(stack).kind = "object"
  <2>1. Len(stack) = 1 => ~(Len(stack) >= 2)
    OBVIOUS
  <2> QED
    BY <1>1, <2>1
<1>7. Len(stack) = 1 => fieldId = PathOf(stack)
  BY <1>1, <1>2, <1>6 DEF PlaceAt
<1>8. fieldId = PathOf(stack) \/ fieldId = KeyedBy(lineKey, PathOf(stack))
  BY <1>1, <1>5, <1>7 DEF PlaceAt
<1>9. Indices = CountsOf(stack) /\ Places(0) = CountsOf(stack)
  BY <1>1, PlacesAre DEF IndicesAt, Indices
<1>10. stack[1].name = "key" => Len(stack) = 1
  <2>1. FrameOK(1, stack[1], Len(stack), stack[1].name, want, lineKey)
    BY <1>1 DEF Grammar
  <2> QED
    BY <2>1 DEF FrameOK
<1> QED
  BY <1>1, <1>3, <1>4, <1>6, <1>7, <1>8, <1>9, <1>10 DEF Top, KeyAt

(* After a value the id may have its key or not yet.                       *)
LEMMA AfterValue ==
  ASSUME TypeOK, FollowsInside, want' = "after", stack' = stack, ended' = ended,
         arrayIndices' = arrayIndices, arrayDepth' = arrayDepth,
         fieldId' = PathOf(stack) \/ fieldId' = KeyedBy(lineKey', PathOf(stack)),
         state' \in {"jsIntVal", "jsEndVal"}, OwedAt(stack', lineKey', state', owed'),
         KeyAt(stack', want', lineKey', m_key')
  PROVE  FollowsInside'
<1>1. stack # << >> /\ ended = 0 /\ IndicesAt(stack, arrayIndices, arrayDepth)
  BY InsideIs
<1>2. StateAt(stack', want', state')
  BY DEF StateAt
<1>3. PlaceAt(stack', want', lineKey', fieldId')
  BY DEF PlaceAt, ExpectedAt
<1>4. IndicesAt(stack', arrayIndices', arrayDepth')
  BY <1>1
<1> QED
  BY <1>1, <1>2, <1>3, <1>4, InsideNext

(* A number or a string is reported as it was meant, a number when its end *)
(* is seen.                                                                *)
LEMMA StepScalar ==
  ASSUME TypeOK, GrammarOK, FollowsInside, ~wrong, NEW c, Scalar(c), CheckInput(c), Compare(c)
  PROVE  ~wrong' /\ state' # "jsError" /\ FollowsInside'
<1> DEFINE P == PathOf(stack)
           q == KeyedBy(lineKey, P)
           n == CountsOf(stack)
<1>1. /\ state = "jsVal" /\ owed = << >>
      /\ fieldId = P \/ fieldId = q
      /\ Len(stack) = 1 => fieldId = P /\ Last(stack).kind = "object"
      /\ Indices = n /\ Places(0) = n
      /\ stack[1].name = "key" => Len(stack) = 1 /\ Top.name = "key"
      /\ stack[1].name = "result" => m_key = lineKey
  BY ValuePlace
<1>2. want' = "after" /\ stack' = stack /\ stack # << >>
  BY GrammarScalar
<1>3. Named(P) = q /\ Named(q) = q /\ (~(Len(stack) = 1 /\ stack[1].name = "key") => q # <<"key">>)
  BY <1>1, <1>2, NamedPath
<1>4. c.is \in {"number", "string"} => Meaning(c) = <<Value(q, n)>>
  BY <1>1, MeaningIs
<1>5. \A v : <<v>> \in Seq({v}) /\ << >> \o <<v>> = <<v>> /\ <<v>> # << >>
  OBVIOUS
<1>6. ended = 0
  BY InsideIs
<1>7. CASE Len(stack) = 1 /\ Top.name = "key"
  <2>1. c.is = "string" /\ lineKey' = c.text
    BY <1>7 DEF Scalar
  <2>2. P = <<"key">>
    <3>1. GoodStack(stack)
      BY InsideFacts
    <3>2. P = Append(BaseOf(stack), "key") /\ BaseOf(stack) = << >>
      BY <1>1, <1>2, <1>7, <3>1, TopPath DEF Top, BaseOf
    <3> QED
      BY <3>2
  <2>3. q = <<"key">>
    <3>1. P = << >> \/ P[1] # "result"
      BY <2>2
    <3> QED
      BY <2>2, <3>1, KeyedOther
  <2>4. fieldId = <<"key">> /\ Named(fieldId) = <<"key">>
    BY <1>1, <1>3, <1>7, <2>2, <2>3
  <2>5. state' = "jsEndVal" /\ StringVal(c)
    BY <1>1, <2>1, ValIs
  <2>6. /\ reports' = <<Value(<<"key">>, Indices)>> /\ fieldId' = <<"key">> /\ m_key' = c.text
        /\ UNCHANGED <<arrayIndices, arrayDepth, ended>>
    BY <2>1, <2>4, <2>5 DEF StringVal, Report
  <2>7. reports' = <<Value(q, n)>>
    BY <1>1, <2>3, <2>6
  <2>8. Renamed(reports') = <<Value(q, n)>>
    BY <1>3, <2>7, RenamedIs
  <2>9. owed \o Meaning(c) = <<Value(q, n)>>
    BY <1>1, <1>4, <1>5, <2>1
  <2> HIDE DEF q, n, P
  <2>10. ~wrong' /\ owed' = << >>
    BY <1>5, <1>6, <2>8, <2>9, CompareAll
  <2>11. OwedAt(stack', lineKey', state', owed')
    BY <2>5, <2>10 DEF OwedAt
  <2>12. KeyAt(stack', want', lineKey', m_key')
    BY <2>1, <2>6 DEF KeyAt
  <2>13. fieldId' = PathOf(stack)
    BY <2>2, <2>6 DEF P
  <2> QED
    BY <1>2, <2>5, <2>6, <2>10, <2>11, <2>12, <2>13, AfterValue
<1>8. CASE ~(Len(stack) = 1 /\ Top.name = "key")
  <2>1. c \in {Token("number"), Token("string")} /\ lineKey' = lineKey
    BY <1>8 DEF Scalar
  <2>2. c.is = "number" \/ c.is = "string"
    BY <2>1 DEF Token
  <2>3. stack[1].name # "key"
    BY <1>1, <1>8
  <2>4. m_key' = m_key => KeyAt(stack', want', lineKey', m_key')
    BY <1>1, <1>2, <2>1, <2>3 DEF KeyAt
  <2>5. owed \o Meaning(c) = <<Value(q, n)>>
    BY <1>1, <1>4, <1>5, <2>2
  <2>6. CASE c.is = "number"
    <3>1. reports' = << >> /\ state' = "jsIntVal" /\ UNCHANGED <<fieldId, arrayIndices, arrayDepth, m_key, ended>>
      BY <1>1, <2>6, ValIs
    <3>2. Renamed(reports') = << >>
      BY <3>1, RenamedIs
    <3>3. ~wrong' /\ owed' = <<Value(q, n)>>
      <4> HIDE DEF q, n
      <4>1. state' # "jsError"
        BY <3>1
      <4>2. ~wrong' /\ owed' = IF state' = "jsError" THEN << >> ELSE <<Value(q, n)>>
        BY <1>5, <2>5, <3>2, CompareLater
      <4> QED
        BY <4>1, <4>2
    <3>4. OwedAt(stack', lineKey', state', owed')
      BY <1>2, <2>1, <3>1, <3>3 DEF OwedAt
    <3>5. fieldId' = PathOf(stack) \/ fieldId' = KeyedBy(lineKey', PathOf(stack))
      BY <1>1, <2>1, <3>1
    <3> QED
      BY <1>2, <2>4, <3>1, <3>3, <3>4, <3>5, AfterValue
  <2>7. CASE c.is = "string"
    <3>1. state' = "jsEndVal" /\ StringVal(c)
      BY <1>1, <2>7, ValIs
    <3>2. Named(fieldId) = q
      BY <1>1, <1>3
    <3>3. q # <<"key">>
      BY <1>3, <2>3
    <3> HIDE DEF q, n, P
    <3>4. /\ reports' = <<Value(q, n)>> /\ fieldId' = q /\ m_key' = m_key
          /\ UNCHANGED <<arrayIndices, arrayDepth, ended>>
      BY <1>1, <3>1, <3>2, <3>3 DEF StringVal, Report
    <3>5. Renamed(reports') = <<Value(q, n)>>
      BY <1>3, <3>4, RenamedIs
    <3>6. ~wrong' /\ owed' = << >>
      BY <1>5, <1>6, <2>5, <3>5, CompareAll
    <3>7. OwedAt(stack', lineKey', state', owed')
      BY <3>1, <3>6 DEF OwedAt
    <3>8. fieldId' = KeyedBy(lineKey', PathOf(stack))
      BY <2>1, <3>4 DEF q, P
    <3> QED
      BY <1>2, <2>4, <3>1, <3>4, <3>6, <3>7, <3>8, AfterValue
  <2> QED
    BY <2>2, <2>6, <2>7
<1> QED
  BY <1>7, <1>8

(* At the top of the stack is an array: the id ends with its mark, and its *)
(* index is the innermost.                                                 *)
LEMMA ArrayPlace ==
  ASSUME TypeOK, GrammarOK, FollowsInside, Last(stack).kind = "array"
  PROVE  LET U == UnderOf(stack)
             P == PathOf(stack)
             m == CountsOf(Front(stack))
             x == Last(stack).count
         IN  /\ Len(stack) >= 2 /\ U \in Ids /\ KeyedBy(lineKey, U) \in Ids
             /\ P = Append(U, "^") /\ KeyedBy(lineKey, P) = Append(KeyedBy(lineKey, U), "^")
             /\ m \in Seq(Nat) /\ x \in Nat /\ CountsOf(stack) = Append(m, x)
             /\ arrayDepth = Len(m) + 1 /\ SubSeq(arrayIndices, 1, arrayDepth) = Append(m, x)
<1> DEFINE U == UnderOf(stack)
           P == PathOf(stack)
           m == CountsOf(Front(stack))
           x == Last(stack).count
<1>1. /\ Grammar(stack, want, lineKey) /\ GoodStack(stack) /\ stack \in Seq(Frames) /\ stack # << >>
      /\ Len(stack) \in Nat \ {0} /\ Last(stack) \in Frames /\ Len(stack) >= 2
      /\ lineKey \in Keys /\ IndicesAt(stack, arrayIndices, arrayDepth)
  BY InsideFacts
<1>2. /\ P = Append(U, "^") /\ U \in Ids /\ U # << >> /\ U[1] = stack[1].name
      /\ Len(stack) >= 3 => Len(U) >= 2
  BY <1>1, TopPath
<1>3. m \in Seq(Nat) /\ CountsOf(stack) = Append(m, x)
  BY <1>1, TopCounts
<1>4. x \in Nat
  BY <1>1 DEF Frames
<1> HIDE DEF U, P, m, x
<1>5. Splits(lineKey, U)
  <2>1. lineKey = << >> /\ U[1] = "result" => Len(stack) # 2
    <3> SUFFICES ASSUME lineKey = << >>, U[1] = "result", Len(stack) = 2 PROVE FALSE
      OBVIOUS
    <3>0. Last(stack) = stack[Len(stack)]
      <4>1. stack \in Seq(Frames) /\ stack # << >>
        BY <1>1
      <4> QED
        BY <4>1, TopIs
    <3>1. 2 \in 1..Len(stack) /\ Last(stack) = stack[2]
      BY <3>0
    <3>2. FrameOK(2, stack[2], Len(stack), stack[1].name, want, lineKey)
      BY <1>1, <3>1 DEF Grammar
    <3>3. stack[2].kind = "object"
      BY <1>2, <3>2 DEF FrameOK
    <3> QED
      BY <3>1, <3>3
  <2>2. Len(stack) # 2 => Len(stack) >= 3
    <3>1. \A n \in Nat \ {0} : n >= 2 /\ n # 2 => n >= 3
      OBVIOUS
    <3> QED
      BY <1>1, <3>1
  <2> QED
    BY <1>2, <2>1, <2>2 DEF Splits
<1>6. "^" \in Parts
  BY Limits DEF Separators
<1>7. KeyedBy(lineKey, Append(U, "^")) = Append(KeyedBy(lineKey, U), "^") /\ KeyedBy(lineKey, U) \in Ids
  BY <1>1, <1>2, <1>5, <1>6, KeyedAppend
<1>8. arrayDepth = Len(m) + 1
  <2>1. arrayDepth = Len(Append(m, x))
    BY <1>1, <1>3 DEF IndicesAt
  <2> QED
    BY <1>3, <1>4, <2>1
<1>9. SubSeq(arrayIndices, 1, arrayDepth) = Append(m, x)
  BY <1>1, <1>3 DEF IndicesAt
<1> QED
  BY <1>1, <1>2, <1>3, <1>4, <1>7, <1>8, <1>9 DEF U, P, m, x

(* The id up to the last separator.                                        *)
LEMMA BasePlace ==
  ASSUME TypeOK, GrammarOK, stack # << >>
  PROVE  LET U == UnderOf(stack)
             B == BaseOf(stack)
             k == lineKey
         IN  /\ B \in Ids /\ KeyedBy(k, B) \in Ids
             /\ Len(stack) = 1 => B = << >> /\ KeyedBy(k, B) = << >>
             /\ RemoveLastId(B) = B /\ RemoveLastId(KeyedBy(k, B)) = KeyedBy(k, B)
             /\ Len(stack) # 1 =>
                  /\ Len(stack) >= 2 /\ U \in Ids /\ KeyedBy(k, U) \in Ids /\ Splits(k, B)
                  /\ B = Append(U, ":")
                  /\ \/ KeyedBy(k, B) = Append(KeyedBy(k, U), ":")
                     \/ /\ KeyedBy(k, B) = << >> /\ k = << >> /\ stack[1].name = "result"
                        /\ Len(stack) = 2
<1> DEFINE U == UnderOf(stack)
           B == BaseOf(stack)
           k == lineKey
<1>1. /\ Grammar(stack, want, lineKey) /\ k \in Keys
  BY GrammarIs DEF TypeOK
<1>2. GoodStack(stack)
  BY <1>1, GrammarStack
<1>3. /\ U \in Ids /\ B \in Ids /\ Len(stack) \in Nat \ {0}
      /\ Len(stack) >= 2 => U # << >> /\ U[1] = stack[1].name /\ Inner(U)
      /\ Len(stack) >= 3 => Len(U) >= 2
  BY <1>2, TopPath
<1>4. Len(stack) # 1 => Len(stack) >= 2
  <2>1. \A n \in Nat \ {0} : n # 1 => n >= 2
    OBVIOUS
  <2> QED
    BY <1>3, <2>1
<1>5. (Len(stack) = 1 => B = << >>) /\ (Len(stack) # 1 => B = Append(U, ":"))
  BY DEF BaseOf
<1>6. KeyedBy(k, << >>) = << >>
  BY KeyedOther
<1>7. ":" \in Parts /\ ":" \in Separators
  BY Limits DEF Separators
<1> HIDE DEF U, B
<1>8. CASE Len(stack) = 1
  BY <1>3, <1>5, <1>6, <1>8, RemoveFromNone DEF U, B
<1>9. CASE Len(stack) # 1
  <2>1. B = Append(U, ":") /\ U # << >> /\ Len(stack) >= 2 /\ U[1] = stack[1].name
    BY <1>3, <1>4, <1>5, <1>9
  <2>2. RemoveLastId(B) = B
    BY <1>3, <1>7, <2>1, RemoveNothing
  <2>3. Len(B) = Len(U) + 1 /\ Len(U) \in Nat /\ B # << >>
    BY <1>3, <1>7, <2>1, AppendParts
  <2>4. Len(U) >= 1
    BY <1>3, <2>1, NonEmpty DEF Ids
  <2>5. Splits(k, B)
    <3>1. \A n \in Nat : n >= 1 => n + 1 >= 2
      OBVIOUS
    <3> QED
      BY <2>3, <2>4, <3>1 DEF Splits
  <2>6. KeyedBy(k, U) \in Ids
    <3>1. Inner(U)
      BY <1>3, <2>1
    <3> QED
      BY <1>1, <3>1, KeyedTwice
  <2>7. CASE Splits(k, U)
    <3>1. KeyedBy(k, B) = Append(KeyedBy(k, U), ":")
      BY <1>1, <1>3, <1>7, <2>1, <2>7, KeyedAppend
    <3>2. RemoveLastId(KeyedBy(k, B)) = KeyedBy(k, B)
      BY <1>7, <2>6, <3>1, RemoveNothing
    <3>3. KeyedBy(k, B) \in Ids
      BY <1>7, <2>6, <3>1, AppendParts
    <3> QED
      BY <1>3, <1>9, <2>1, <2>2, <2>5, <2>6, <3>1, <3>2, <3>3 DEF U, B
  <2>8. CASE ~Splits(k, U)
    <3>1. k = << >> /\ U[1] = "result" /\ ~(Len(U) >= 2)
      BY <2>1, <2>8 DEF Splits
    <3>2. Len(stack) = 2
      <4>1. ~(Len(stack) >= 3)
        BY <1>3, <3>1
      <4>2. \A n \in Nat \ {0} : ~(n >= 3) /\ n >= 2 => n = 2
        OBVIOUS
      <4> QED
        BY <1>3, <2>1, <4>1, <4>2
    <3>3. Len(B) = 2
      <4>1. \A n \in Nat : n >= 1 /\ ~(n >= 2) => n + 1 = 2
        OBVIOUS
      <4> QED
        BY <2>3, <2>4, <3>1, <4>1
    <3>4. B[1] = "result"
      <4>1. 1 \in 1..Len(U)
        BY <1>3, <2>1, NonEmpty DEF Ids
      <4>2. \A i \in 1..Len(U) : Append(U, ":")[i] = U[i]
        BY <1>3, <1>7, AppendParts
      <4> QED
        BY <2>1, <3>1, <4>1, <4>2
    <3>5. KeyedBy(k, B) = SubSeq(B, 3, Len(B))
      BY <2>3, <3>1, <3>4 DEF KeyedBy
    <3>6. SubSeq(B, 3, 2) = << >>
      <4>1. \A b : SubSeq(b, 3, 2) = << >>
        BY SubSeqEmpty
      <4> QED
        BY <4>1
    <3>7. KeyedBy(k, B) = << >>
      BY <3>3, <3>5, <3>6
    <3>8. << >> \in Ids /\ RemoveLastId(<< >>) = << >>
      BY RemoveFromNone, NoId
    <3> QED
      BY <1>3, <1>9, <2>1, <2>2, <2>5, <2>6, <3>1, <3>2, <3>7, <3>8 DEF U, B
  <2> QED
    BY <2>7, <2>8
<1> QED
  BY <1>8, <1>9

(* An object at one of its fields: no id of it ends in an array, and the field goes.  *)
LEMMA FieldGoes ==
  ASSUME TypeOK, GrammarOK, stack # << >>, Last(stack).kind = "object", Last(stack).name # "none"
  PROVE  LET P == PathOf(stack)
             B == BaseOf(stack)
             k == lineKey
             q == KeyedBy(k, P)
         IN  /\ ~InArray(P) /\ ~InArray(q) /\ Front(P) = B
             /\ RemoveLastId(P) = B
             /\ \/ RemoveLastId(q) = KeyedBy(k, B)
                \/ /\ Len(k) > 1 /\ Len(stack) = 1 /\ Last(stack).name = "result"
                   /\ Len(RemoveLastId(q)) < Len(k)
<1> DEFINE P == PathOf(stack)
           B == BaseOf(stack)
           k == lineKey
           q == KeyedBy(k, P)
           x == Last(stack).name
<1>1. /\ Grammar(stack, want, lineKey) /\ k \in Keys
  BY GrammarIs DEF TypeOK
<1>2. GoodStack(stack) /\ stack \in Seq(Frames)
  BY <1>1, GrammarStack DEF Grammar
<1>3. P = Append(B, x) /\ Len(stack) \in Nat \ {0}
  BY <1>2, TopPath
<1>4. x \in FieldNames /\ x \in Parts \ Separators /\ x # "^"
  <2>1. Last(stack) \in Frames
    BY <1>2, TopIs
  <2>2. x \in FieldNames
    BY <2>1 DEF Frames
  <2> QED
    BY <2>2, Limits, NamesApart DEF Separators
<1>5. /\ B \in Ids /\ KeyedBy(k, B) \in Ids
      /\ Len(stack) = 1 => B = << >> /\ KeyedBy(k, B) = << >>
      /\ RemoveLastId(B) = B /\ RemoveLastId(KeyedBy(k, B)) = KeyedBy(k, B)
      /\ Len(stack) # 1 => Splits(k, B)
  BY BasePlace
<1> HIDE DEF P, B, x
<1>6. ~InArray(P) /\ Front(P) = B
  BY <1>3, <1>4, <1>5, AppendParts
<1>7. RemoveLastId(P) = B
  BY <1>3, <1>4, <1>5, RemoveName
<1>8. CASE Len(stack) # 1 \/ x # "result"
  <2>1. q = Append(KeyedBy(k, B), x)
    <3>1. CASE Len(stack) # 1
      BY <1>1, <1>3, <1>4, <1>5, <3>1, KeyedAppend
    <3>2. CASE Len(stack) = 1
      <4>1. P = <<x>> /\ B = << >>
        BY <1>3, <1>5, <3>2
      <4>2. P[1] # "result"
        BY <1>8, <3>2, <4>1
      <4>3. q = P
        BY <4>2, KeyedOther
      <4> QED
        BY <1>3, <1>5, <3>2, <4>3
    <3> QED
      BY <3>1, <3>2
  <2> HIDE DEF q
  <2>2. ~InArray(q)
    BY <1>4, <1>5, <2>1, AppendParts
  <2>3. RemoveLastId(q) = KeyedBy(k, B)
    BY <1>4, <1>5, <2>1, RemoveName
  <2> QED
    BY <1>6, <1>7, <2>2, <2>3 DEF P, B, q
<1>9. CASE Len(stack) = 1 /\ x = "result"
  <2>1. P = <<x>> /\ B = << >> /\ P # << >> /\ P[1] = "result" /\ Len(P) = 1
    BY <1>3, <1>5, <1>9
  <2>2. Inner(P)
    BY <1>2, PathIsGood DEF P
  <2>3. q = k
    BY <1>1, <2>1, <2>2, KeyedFirst
  <2> HIDE DEF q
  <2>4. ~InArray(k)
    <3>1. k \in Ids /\ Carets(k) = {}
      BY <1>1, KeyIs
    <3> SUFFICES ASSUME k # << >>, Last(k) = "^" PROVE FALSE
      BY DEF InArray
    <3>2. Len(k) \in DOMAIN k /\ k[Len(k)] = "^"
      BY <3>1, NonEmpty DEF Ids, Last
    <3> QED
      BY <3>1, <3>2 DEF Carets
  <2>5. RemoveLastId(k) = << >> \/ (Len(k) > 1 /\ Len(RemoveLastId(k)) < Len(k))
    <3>1. Len(k) \in Nat
      BY <1>1, KeyIs DEF Ids
    <3>2. \A n \in Nat : n <= 1 \/ n > 1
      OBVIOUS
    <3> QED
      BY <1>1, <3>1, <3>2, RemoveFromKey
  <2> QED
    BY <1>5, <1>6, <1>7, <1>9, <2>3, <2>4, <2>5 DEF P, B, x, q
<1> QED
  BY <1>8, <1>9

(* After a value.                                                          *)
LEMMA AfterFacts ==
  ASSUME TypeOK, GrammarOK, FollowsInside, want = "after"
  PROVE  LET P == PathOf(stack)
             q == KeyedBy(lineKey, P)
         IN  /\ state \in {"jsIntVal", "jsEndVal"} /\ Indices = CountsOf(stack)
             /\ owed = IF state = "jsIntVal" THEN <<Value(q, CountsOf(stack))>> ELSE << >>
             /\ fieldId = P \/ fieldId = q
             /\ Named(P) = q /\ Named(q) = q
             /\ stack[1].name \in {"result", "key"} => m_key = lineKey
<1>1. /\ Grammar(stack, want, lineKey) /\ stack # << >>
      /\ StateAt(stack, want, state) /\ OwedAt(stack, lineKey, state, owed)
      /\ PlaceAt(stack, want, lineKey, fieldId)
      /\ IndicesAt(stack, arrayIndices, arrayDepth)
      /\ KeyAt(stack, want, lineKey, m_key)
  BY InsideFacts
<1>2. want # "value" /\ want # "next"
  OBVIOUS
<1>3. stack[1].name \in {"result", "key"} => m_key = lineKey
  BY <1>1, <1>2 DEF KeyAt
<1>4. Named(PathOf(stack)) = KeyedBy(lineKey, PathOf(stack))
      /\ Named(KeyedBy(lineKey, PathOf(stack))) = KeyedBy(lineKey, PathOf(stack))
  BY <1>1, <1>3, NamedPath
<1>5. fieldId = PathOf(stack) \/ fieldId = KeyedBy(lineKey, PathOf(stack))
  BY <1>1, <1>2 DEF PlaceAt, ExpectedAt
<1>6. state \in {"jsIntVal", "jsEndVal"}
  BY <1>1 DEF StateAt
<1> QED
  BY <1>1, <1>3, <1>4, <1>5, <1>6 DEF OwedAt, IndicesAt, Indices

(* A number is told when the character after it has come.                  *)
LEMMA CompareNumber ==
  ASSUME TypeOK, GrammarOK, FollowsInside, want = "after", NEW c, Compare(c), ~wrong,
         c.is \notin {"]", "number", "string"}, NEW q, q = KeyedBy(lineKey, PathOf(stack)),
         reports' = (IF state = "jsIntVal" THEN <<Value(q, Indices)>> ELSE << >>)
  PROVE  ~wrong' /\ owed' = << >>
<1> DEFINE n == CountsOf(stack)
           v == Value(q, n)
<1>1. /\ Indices = n /\ owed = (IF state = "jsIntVal" THEN <<v>> ELSE << >>)
      /\ Named(q) = q /\ ended = 0
  BY AfterFacts, InsideIs
<1>2. Meaning(c) = << >>
  BY MeaningIs
<1> HIDE DEF n, v
<1>3. CASE state = "jsIntVal"
  <2>1. owed \o Meaning(c) = <<v>> /\ <<v>> \in Seq({v})
    BY <1>1, <1>2, <1>3
  <2>2. Renamed(reports') = <<v>>
    <3>1. reports' = <<Value(q, n)>>
      BY <1>1, <1>3
    <3>2. Renamed(reports') = <<Value(Named(q), n)>>
      BY <3>1, RenamedIs
    <3> QED
      BY <1>1, <3>2 DEF v
  <2> QED
    BY <1>1, <2>1, <2>2, CompareAll
<1>4. CASE state # "jsIntVal"
  BY <1>1, <1>4, CompareNothing
<1> QED
  BY <1>3, <1>4

(* Arithmetic.                                                             *)
LEMMA Small == \A n : (n = 0 => n + 1 = 1) /\ (n = 2 => n - 1 = 1 /\ n >= 2)
OBVIOUS

(* A comma reports a number and counts, or takes the name off.             *)
LEMMA StepComma ==
  ASSUME TypeOK, GrammarOK, FollowsInside, ~wrong, NEW c, Comma(c), CheckInput(c), Compare(c)
  PROVE  ~wrong' /\ state' # "jsError" /\ FollowsInside'
<1> DEFINE P == PathOf(stack)
           q == KeyedBy(lineKey, P)
           id == IF state = "jsIntVal" THEN Named(fieldId) ELSE fieldId
<1>1. /\ GrammarOK' /\ want' = "next" /\ lineKey' = lineKey /\ want = "after" /\ c.is = ","
      /\ stack # << >> /\ Len(stack') = Len(stack) /\ stack' # << >> /\ Front(stack') = Front(stack)
      /\ Last(stack').kind = Last(stack).kind /\ Last(stack').name = Last(stack).name
  BY GrammarComma DEF Top
<1>2. /\ Last(stack).kind = "object" => stack' = stack /\ Last(stack).name # "none"
      /\ Last(stack).kind # "object" => Last(stack').count = Last(stack).count + 1
                                        /\ stack'[1].name = stack[1].name
  BY GrammarComma DEF Top
<1>3. /\ state \in {"jsIntVal", "jsEndVal"} /\ (fieldId = P \/ fieldId = q)
      /\ Named(P) = q /\ Named(q) = q
      /\ stack[1].name \in {"result", "key"} => m_key = lineKey
  BY <1>1, AfterFacts
<1>4. (id = P \/ id = q) /\ (state = "jsIntVal" => id = q)
  BY <1>3
<1>5. /\ reports' = (IF state = "jsIntVal" THEN <<Value(id, Indices)>> ELSE << >>)
      /\ UNCHANGED <<arrayDepth, m_key, ended>>
      /\ IF InArray(id)
         THEN state' = "jsVal" /\ arrayIndices' = CountedUp /\ fieldId' = id
         ELSE state' = "jsExpectId" /\ fieldId' = RemoveLastId(id) /\ UNCHANGED arrayIndices
  BY <1>1, <1>3, CompletedIs
<1> HIDE DEF id
<1>6. ~wrong' /\ owed' = << >>
  <2>1. reports' = (IF state = "jsIntVal" THEN <<Value(q, Indices)>> ELSE << >>)
    BY <1>4, <1>5
  <2>2. c.is \notin {"]", "number", "string"}
    BY <1>1
  <2> HIDE DEF q
  <2>3. q = KeyedBy(lineKey, PathOf(stack))
    BY DEF q, P
  <2> QED
    BY <1>1, <2>1, <2>2, <2>3, CompareNumber
<1>7. state' # "jsError" /\ OwedAt(stack', lineKey', state', owed')
  BY <1>5, <1>6 DEF OwedAt
<1>8. stack'[1].name = stack[1].name
  BY <1>2
<1>9. KeyAt(stack', want', lineKey', m_key')
  BY <1>1, <1>3, <1>5, <1>8 DEF KeyAt
<1>10. ended' = 0
  BY <1>5, InsideIs
<1>11. /\ Last(stack).kind = "object" \/ Last(stack).kind = "array"
       /\ arrayIndices \in [1..MAX_ARRAY_NESTING -> Nat] /\ arrayDepth \in 0..MAX_ARRAY_NESTING
       /\ IndicesAt(stack, arrayIndices, arrayDepth)
  BY InsideFacts
<1>12. CASE Last(stack).kind = "array"
  <2> DEFINE U == UnderOf(stack)
             m == CountsOf(Front(stack))
             x == Last(stack).count
             N == MAX_ARRAY_NESTING
             ix == arrayIndices
             d == arrayDepth
  <2>1. /\ Len(stack) >= 2 /\ U \in Ids /\ KeyedBy(lineKey, U) \in Ids
        /\ P = Append(U, "^") /\ q = Append(KeyedBy(lineKey, U), "^")
        /\ m \in Seq(Nat) /\ x \in Nat
        /\ d = Len(m) + 1 /\ SubSeq(ix, 1, d) = Append(m, x)
    BY <1>12, ArrayPlace
  <2>2. "^" \in Parts
    BY Limits DEF Separators
  <2> DEFINE V == KeyedBy(lineKey, U)
  <2> HIDE DEF U, V, P, q, m, x, N, ix, d
  <2>3. InArray(P) /\ InArray(q)
    BY <2>1, <2>2, AppendParts DEF V
  <2>4. state' = "jsVal" /\ arrayIndices' = CountedUp /\ fieldId' = id
    BY <1>4, <1>5, <2>3
  <2>5. PathOf(stack') = P
    <3>1. GoodStack(stack')
      BY <1>1, GrammarIs, GrammarStack
    <3>2. PathOf(stack') = Append(UnderOf(stack'), "^")
      BY <1>1, <1>12, <3>1, TopPath
    <3>3. UnderOf(stack') = U
      BY <1>1 DEF UnderOf, U
    <3> QED
      BY <2>1, <3>2, <3>3
  <2>6. PlaceAt(stack', want', lineKey', fieldId')
    <3>1. ExpectedAt(stack', want') = P
      BY <1>1, <1>12, <2>5 DEF ExpectedAt
    <3> QED
      BY <1>1, <1>4, <2>4, <3>1 DEF PlaceAt, q
  <2>7. StateAt(stack', want', state')
    BY <1>1, <1>12, <2>4 DEF StateAt
  <2>8. CountsOf(stack') = Append(m, x + 1)
    <3>1. stack' \in Seq(Frames)
      BY <1>1 DEF GrammarOK
    <3>2. CountsOf(stack') = Append(CountsOf(Front(stack')), Last(stack').count)
      BY <1>1, <1>12, <3>1, TopCounts
    <3>3. Last(stack').count = x + 1
      BY <1>2, <1>12 DEF x
    <3> QED
      BY <1>1, <3>2, <3>3 DEF m
  <2>9. IndicesAt(stack', arrayIndices', arrayDepth')
    <3>1. N \in Nat /\ ix \in [1..N -> Nat] /\ d \in 0..N
      BY <1>11, Limits DEF N, ix, d
    <3>2. SubSeq(UpAt(ix, d), 1, d) = Append(m, x + 1)
      <4>1. LastIndex(N, ix, m, x, d)
        BY <2>1, <3>1 DEF LastIndex
      <4>2. LastIndex(N, UpAt(ix, d), m, x + 1, d)
        BY <4>1, IndicesUp
      <4> QED
        BY <4>2 DEF LastIndex
    <3>3. arrayIndices' = UpAt(ix, d) /\ arrayDepth' = d
      BY <1>5, <2>4 DEF CountedUp, UpAt, ix, d
    <3>4. Len(Append(m, x + 1)) = d
      BY <2>1
    <3> QED
      BY <2>8, <3>2, <3>3, <3>4 DEF IndicesAt
  <2> QED
    BY <1>1, <1>6, <1>7, <1>9, <1>10, <2>6, <2>7, <2>9, InsideNext
<1>13. CASE Last(stack).kind = "object"
  <2> DEFINE B == BaseOf(stack)
  <2>1. stack' = stack /\ Last(stack).name # "none"
    BY <1>2, <1>13
  <2>2. /\ ~InArray(P) /\ ~InArray(q) /\ Front(P) = B
        /\ RemoveLastId(P) = B
        /\ \/ RemoveLastId(q) = KeyedBy(lineKey, B)
           \/ /\ Len(lineKey) > 1 /\ Len(stack) = 1 /\ Last(stack).name = "result"
              /\ Len(RemoveLastId(q)) < Len(lineKey)
    BY <1>1, <1>13, <2>1, FieldGoes
  <2> HIDE DEF P, q, B
  <2>3. state' = "jsExpectId" /\ fieldId' = RemoveLastId(id) /\ UNCHANGED arrayIndices
    BY <1>4, <1>5, <2>2
  <2>4. PlaceAt(stack', want', lineKey', fieldId')
    <3>1. ExpectedAt(stack', want') = B
      BY <1>1, <1>13, <2>1, <2>2 DEF ExpectedAt, P
    <3> QED
      BY <1>1, <1>4, <2>1, <2>2, <2>3, <3>1 DEF PlaceAt
  <2>5. StateAt(stack', want', state')
    BY <1>1, <1>13, <2>1, <2>3 DEF StateAt
  <2>6. IndicesAt(stack', arrayIndices', arrayDepth')
    BY <1>5, <1>11, <2>1, <2>3
  <2> QED
    BY <1>1, <1>6, <1>7, <1>9, <1>10, <2>4, <2>5, <2>6, InsideNext
<1> QED
  BY <1>11, <1>12, <1>13

(* The brace: rest is what CloseObject leaves of the id.                   *)
LEMMA BraceCloses ==
  ASSUME TypeOK, GrammarOK, FollowsInside, NEW c, CloseSent(c), c.is = "}", NEW id, CloseObject(id),
         ~wrong', owed' = << >>,
         \/ RemoveLastId(id) = BaseOf(stack) \/ RemoveLastId(id) = KeyedBy(lineKey, BaseOf(stack)),
         stack[1].name \in {"result", "key"} => m_key = lineKey
  PROVE  ~wrong' /\ state' # "jsError" /\ (FollowsInside' \/ FollowsAfter')
<1> DEFINE U == UnderOf(stack)
           B == BaseOf(stack)
           rest == RemoveLastId(id)
<1>1. /\ GrammarOK' /\ want' = "after" /\ lineKey' = lineKey
      /\ stack # << >> /\ stack' = Front(stack) /\ Len(stack') = Len(stack) - 1
      /\ Last(stack).kind = "object" /\ stack' \in Seq(Frames)
      /\ Len(stack) >= 2 => stack' # << >> /\ stack'[1] = stack[1] /\ stack[1].name # "key"
      /\ Len(stack) = 1 <=> stack' = << >>
  BY GrammarClose DEF Top
<1>2. /\ Len(stack) = 1 => B = << >> /\ KeyedBy(lineKey, B) = << >>
      /\ Len(stack) # 1 =>
            /\ Len(stack) >= 2 /\ U \in Ids /\ KeyedBy(lineKey, U) \in Ids
            /\ B = Append(U, ":")
            /\ \/ KeyedBy(lineKey, B) = Append(KeyedBy(lineKey, U), ":")
               \/ /\ KeyedBy(lineKey, B) = << >> /\ lineKey = << >> /\ stack[1].name = "result"
                  /\ Len(stack) = 2
  BY <1>1, BasePlace
<1>3. ended = 0 /\ IndicesAt(stack, arrayIndices, arrayDepth) /\ stack \in Seq(Frames) /\ Len(stack) \in Nat \ {0}
  BY InsideFacts
<1>4. UNCHANGED <<arrayIndices, arrayDepth>>
  BY DEF CloseObject
<1>5. /\ rest = << >> => state' = "jsBegin" /\ ended' = 1
      /\ rest # << >> => /\ state' = "jsEndVal" /\ fieldId' = RemoveLastIdChar(rest)
                         /\ m_key' = m_key /\ ended' = ended
  <2>1. IF rest = << >>
        THEN m_key' = << >> /\ ended' = ended + 1 /\ state' = "jsBegin" /\ fieldId' = rest
        ELSE /\ state' = "jsEndVal" /\ fieldId' = RemoveLastIdChar(rest)
             /\ UNCHANGED <<m_key, ended>>
    BY DEF CloseObject, EndReceivedMessage, Become
  <2>2. ended + 1 = 1
    BY <1>3, Small
  <2> HIDE DEF rest
  <2> QED
    BY <2>1, <2>2
<1>6. rest = B \/ rest = KeyedBy(lineKey, B)
  OBVIOUS
<1>7. ":" \in Parts
  BY Limits DEF Separators
<1>8. CASE Len(stack) = 1
  <2>1. rest = << >> /\ stack' = << >>
    BY <1>1, <1>2, <1>6, <1>8
  <2> HIDE DEF rest
  <2>2. FollowsAfter'
    BY <1>1, <1>5, <2>1 DEF FollowsAfter
  <2> QED
    BY <1>5, <2>1, <2>2
<1>9. CASE Len(stack) # 1 /\ rest = << >>
  <2> DEFINE V == KeyedBy(lineKey, U)
  <2> HIDE DEF rest, U, B, V
  <2>1. Append(U, ":") # << >> /\ Append(V, ":") # << >>
    BY <1>2, <1>7, <1>9, AppendParts DEF V
  <2>2. lineKey = << >> /\ stack[1].name = "result" /\ Len(stack) = 2
    BY <1>2, <1>6, <1>9, <2>1 DEF V
  <2>3. Len(stack') = 1 /\ stack' # << >> /\ stack'[1].name = "result"
    <3>1. Len(stack) - 1 = 1 /\ Len(stack) >= 2
      BY <2>2, Small
    <3> QED
      BY <1>1, <2>2, <3>1
  <2>4. Last(stack') = stack'[1]
    BY <2>3 DEF Last
  <2>5. FollowsAfter'
    BY <1>1, <1>5, <1>9, <2>2, <2>3, <2>4 DEF FollowsAfter, Top
  <2> QED
    BY <1>5, <1>9, <2>5
<1>10. CASE Len(stack) # 1 /\ rest # << >>
  <2> DEFINE V == KeyedBy(lineKey, U)
             K == KeyedBy(lineKey, B)
  <2>1. rest = Append(U, ":") \/ rest = Append(V, ":")
    <3> HIDE DEF rest, U, B, V, K
    <3>1. rest = B \/ rest = K
      BY <1>6 DEF K
    <3> QED
      BY <1>2, <1>10, <3>1 DEF V, K
  <2> HIDE DEF rest, U, B, V, K
  <2>2. fieldId' = U \/ fieldId' = V
    <3>1. U \in Ids /\ V \in Ids
      BY <1>2, <1>10 DEF V
    <3>2. RemoveLastIdChar(Append(U, ":")) = U /\ RemoveLastIdChar(Append(V, ":")) = V
      BY <1>7, <3>1, AppendParts
    <3>3. fieldId' = RemoveLastIdChar(rest)
      BY <1>5, <1>10
    <3> QED
      BY <2>1, <3>2, <3>3
  <2>3. PlaceAt(stack', want', lineKey', fieldId')
    <3>1. ExpectedAt(stack', want') = U
      BY <1>1 DEF ExpectedAt, UnderOf, U
    <3> QED
      BY <1>1, <2>2, <3>1 DEF PlaceAt, V
  <2>4. StateAt(stack', want', state')
    BY <1>1, <1>5, <1>10 DEF StateAt
  <2>5. OwedAt(stack', lineKey', state', owed')
    BY <1>5, <1>10 DEF OwedAt
  <2>6. IndicesAt(stack', arrayIndices', arrayDepth')
    <3>1. CountsOf(stack') = CountsOf(stack)
      BY <1>1, <1>3, TopCounts
    <3> QED
      BY <1>3, <1>4, <3>1 DEF IndicesAt
  <2>7. KeyAt(stack', want', lineKey', m_key')
    BY <1>1, <1>2, <1>5, <1>10 DEF KeyAt
  <2>8. stack' # << >> /\ ended' = 0 /\ state' # "jsError"
    BY <1>1, <1>2, <1>3, <1>5, <1>10
  <2> QED
    BY <2>3, <2>4, <2>5, <2>6, <2>7, <2>8, InsideNext
<1> QED
  BY <1>8, <1>9, <1>10

(* The end of an object: of the message too.                               *)
LEMMA StepBrace ==
  ASSUME TypeOK, GrammarOK, FollowsInside, ~wrong, NEW c, CloseSent(c), c.is = "}",
         CheckInput(c), Compare(c), ~(Len(lineKey) > 1 /\ Len(stack) = 1)
  PROVE  ~wrong' /\ state' # "jsError" /\ (FollowsInside' \/ FollowsAfter')
<1> DEFINE P == PathOf(stack)
           q == KeyedBy(lineKey, P)
           B == BaseOf(stack)
<1>1. /\ want' = "after" /\ lineKey' = lineKey /\ want \in {"first", "after"}
      /\ stack # << >> /\ Last(stack).kind = "object"
      /\ Len(stack) = 1 <=> stack' = << >>
  BY GrammarClose DEF Top
<1>2. /\ Grammar(stack, want, lineKey) /\ GoodStack(stack)
      /\ StateAt(stack, want, state) /\ OwedAt(stack, lineKey, state, owed)
      /\ PlaceAt(stack, want, lineKey, fieldId) /\ KeyAt(stack, want, lineKey, m_key)
  BY InsideFacts
<1>3. /\ RemoveLastId(B) = B /\ RemoveLastId(KeyedBy(lineKey, B)) = KeyedBy(lineKey, B)
  BY <1>1, BasePlace
<1>4. c.is \notin {"]", "number", "string"}
  OBVIOUS
<1>5. stack[1].name \in {"result", "key"} => m_key = lineKey
  BY <1>1, <1>2 DEF KeyAt
<1>6. CASE want = "first"
  <2>1. Last(stack).name = "none"
    BY <1>1, <1>2, <1>6 DEF Grammar
  <2>2. P = B
    BY <1>1, <1>2, <2>1, TopPath
  <2>3. fieldId = B \/ fieldId = KeyedBy(lineKey, B)
    BY <1>2, <1>6, <2>2 DEF PlaceAt, ExpectedAt
  <2>4. state = "jsExpectId"
    BY <1>1, <1>2, <1>6 DEF StateAt
  <2>5. reports' = << >> /\ CloseObject(fieldId)
    BY <2>4, ExpectIdIs
  <2>6. owed = << >>
    BY <1>2, <2>4 DEF OwedAt
  <2>7. ~wrong' /\ owed' = << >>
    BY <1>4, <2>5, <2>6, CompareNothing
  <2>8. RemoveLastId(fieldId) = BaseOf(stack) \/ RemoveLastId(fieldId) = KeyedBy(lineKey, BaseOf(stack))
    BY <1>3, <2>3
  <2> QED
    BY <1>5, <2>5, <2>7, <2>8, BraceCloses
<1>7. CASE want = "after"
  <2> DEFINE id == IF state = "jsIntVal" THEN Named(fieldId) ELSE fieldId
  <2>1. Last(stack).name # "none"
    BY <1>1, <1>2, <1>7 DEF Grammar
  <2>2. /\ state \in {"jsIntVal", "jsEndVal"} /\ (fieldId = P \/ fieldId = q)
        /\ Named(P) = q /\ Named(q) = q
    BY <1>7, AfterFacts
  <2>3. (id = P \/ id = q) /\ (state = "jsIntVal" => id = q)
    BY <2>2
  <2>4. /\ ~InArray(P) /\ ~InArray(q) /\ RemoveLastId(P) = B
        /\ \/ RemoveLastId(q) = KeyedBy(lineKey, B)
           \/ Len(lineKey) > 1 /\ Len(stack) = 1
    BY <1>1, <2>1, FieldGoes
  <2>5. ~(Len(lineKey) > 1 /\ Len(stack) = 1)
    OBVIOUS
  <2> HIDE DEF P, q, B
  <2>6. ~InArray(fieldId)
    BY <2>2, <2>4
  <2>7. reports' = (IF state = "jsIntVal" THEN <<Value(id, Indices)>> ELSE << >>) /\ CloseObject(id)
    BY <2>2, <2>6, CompletedIs
  <2> HIDE DEF id
  <2>8. ~wrong' /\ owed' = << >>
    <3>1. reports' = (IF state = "jsIntVal" THEN <<Value(q, Indices)>> ELSE << >>)
      BY <2>3, <2>7
    <3>2. q = KeyedBy(lineKey, PathOf(stack))
      BY DEF q, P
    <3> QED
      BY <1>4, <1>7, <3>1, <3>2, CompareNumber
  <2>9. RemoveLastId(id) = BaseOf(stack) \/ RemoveLastId(id) = KeyedBy(lineKey, BaseOf(stack))
    BY <2>3, <2>4, <2>5 DEF B
  <2> QED
    BY <1>5, <2>7, <2>8, <2>9, BraceCloses
<1> QED
  BY <1>1, <1>6, <1>7

(* The bracket: what EndArray leaves, whether or not the last element was counted first.  *)
LEMMA BracketCloses ==
  ASSUME TypeOK, GrammarOK, FollowsInside, NEW c, CloseSent(c), c.is = "]", NEW id, NEW ix, EndArray(id, ix),
         id = PathOf(stack) \/ id = KeyedBy(lineKey, PathOf(stack)),
         ix = arrayIndices \/ ix = UpAt(arrayIndices, arrayDepth),
         ~wrong', owed' = << >>, state' = "jsEndVal", stack[1].name \in {"result", "key"} => m_key = lineKey
  PROVE  FollowsInside'
<1> DEFINE U == UnderOf(stack)
           V == KeyedBy(lineKey, U)
           m == CountsOf(Front(stack))
           x == Last(stack).count
           d == arrayDepth
           N == MAX_ARRAY_NESTING
<1>1. /\ want' = "after" /\ lineKey' = lineKey
      /\ stack # << >> /\ stack' = Front(stack)
      /\ Last(stack).kind = "array"
      /\ Len(stack) >= 2 => stack' # << >> /\ stack'[1] = stack[1] /\ stack[1].name # "key"
  BY GrammarClose DEF Top
<1>2. /\ Len(stack) >= 2 /\ U \in Ids /\ V \in Ids
      /\ PathOf(stack) = Append(U, "^") /\ KeyedBy(lineKey, PathOf(stack)) = Append(V, "^")
      /\ m \in Seq(Nat) /\ x \in Nat
      /\ d = Len(m) + 1 /\ SubSeq(arrayIndices, 1, d) = Append(m, x)
  BY <1>1, ArrayPlace
<1>3. ended = 0 /\ arrayIndices \in [1..N -> Nat] /\ d \in 0..N /\ N \in Nat
  BY InsideFacts, Limits
<1> HIDE DEF U, V, m, x, d, N
<1>4. LastIndex(N, arrayIndices, m, x, d)
  BY <1>2, <1>3 DEF LastIndex
<1>5. LastIndex(N, UpAt(arrayIndices, d), m, x + 1, d)
  BY <1>4, IndicesUp
<1>6. Closed(arrayIndices, m, d) /\ Closed(UpAt(arrayIndices, d), m, d)
  BY <1>4, <1>5, IndicesDown
<1>7. Closed(ix, m, d)
  BY <1>6 DEF d
<1>8. d # 0 /\ d - 1 = Len(m)
  BY <1>2
<1>9. arrayIndices' = ZeroAt(ix, d) /\ d' = d - 1 /\ fieldId' = RemoveLastIdChar(id) /\ UNCHANGED <<m_key, ended>>
  BY <1>8 DEF EndArray, ZeroAt, d
<1>10. fieldId' = U \/ fieldId' = V
  <2>1. "^" \in Parts
    BY Limits DEF Separators
  <2>2. RemoveLastIdChar(Append(U, "^")) = U /\ RemoveLastIdChar(Append(V, "^")) = V
    BY <1>2, <2>1, AppendParts
  <2> QED
    BY <1>2, <1>9, <2>2
<1>11. stack' # << >> /\ stack'[1] = stack[1] /\ stack[1].name # "key" /\ ended' = 0
  BY <1>1, <1>2, <1>3, <1>9
<1>12. StateAt(stack', want', state')
  BY <1>1 DEF StateAt
<1>13. OwedAt(stack', lineKey', state', owed')
  BY DEF OwedAt
<1>14. PlaceAt(stack', want', lineKey', fieldId')
  <2>1. ExpectedAt(stack', want') = U
    BY <1>1 DEF ExpectedAt, UnderOf, U
  <2> QED
    BY <1>1, <1>10, <2>1 DEF PlaceAt, V
<1>15. IndicesAt(stack', arrayIndices', arrayDepth')
  <2>1. CountsOf(stack') = m
    BY <1>1 DEF m
  <2>2. arrayDepth' = d - 1
    BY <1>9 DEF d
  <2>3. SubSeq(ZeroAt(ix, d), 1, d - 1) = m
    BY <1>7 DEF Closed
  <2> QED
    BY <1>8, <1>9, <2>1, <2>2, <2>3 DEF IndicesAt
<1>16. KeyAt(stack', want', lineKey', m_key')
  BY <1>1, <1>9, <1>11 DEF KeyAt
<1> QED
  BY <1>11, <1>12, <1>13, <1>14, <1>15, <1>16, InsideNext

(* The end of an array is reported with its length and its name.           *)
LEMMA StepBracket ==
  ASSUME TypeOK, GrammarOK, FollowsInside, ~wrong, NEW c, CloseSent(c), c.is = "]",
         CheckInput(c), Compare(c)
  PROVE  ~wrong' /\ state' # "jsError" /\ FollowsInside'
<1> DEFINE P == PathOf(stack)
           q == KeyedBy(lineKey, P)
           n == CountsOf(stack)
           U == UnderOf(stack)
           V == KeyedBy(lineKey, U)
<1>1. /\ want' = "after" /\ lineKey' = lineKey /\ want \in {"first", "after"}
      /\ stack # << >> /\ Last(stack).kind = "array"
  BY GrammarClose DEF Top
<1>2. /\ StateAt(stack, want, state) /\ OwedAt(stack, lineKey, state, owed)
      /\ PlaceAt(stack, want, lineKey, fieldId) /\ KeyAt(stack, want, lineKey, m_key)
      /\ IndicesAt(stack, arrayIndices, arrayDepth) /\ n \in Seq(Nat) /\ ended = 0
      /\ arrayIndices \in [1..MAX_ARRAY_NESTING -> Nat] /\ arrayDepth \in 0..MAX_ARRAY_NESTING
  BY InsideFacts
<1>3. /\ U \in Ids /\ V \in Ids /\ P = Append(U, "^") /\ q = Append(V, "^")
  BY <1>1, ArrayPlace
<1>4. InArray(P) /\ InArray(q)
  <2>1. "^" \in Parts
    BY Limits DEF Separators
  <2> HIDE DEF P, q, U, V
  <2> QED
    BY <1>3, <2>1, AppendParts
<1>5. stack[1].name \in {"result", "key"} => m_key = lineKey
  BY <1>1, <1>2 DEF KeyAt
<1>6. Named(P) = q /\ Named(q) = q
  BY <1>1, <1>5, NamedPath
<1>7. \A v : <<v>> \in Seq({v}) /\ << >> \o <<v>> = <<v>> /\ <<v>> # << >> /\ Append(<< >>, v) = <<v>>
  OBVIOUS
<1>8. fieldId = P \/ fieldId = q
  BY <1>1, <1>2 DEF PlaceAt, ExpectedAt
<1> HIDE DEF P, q, U, V, n
<1>9. CASE want = "first"
  <2>1. state = "jsVal"
    BY <1>1, <1>2, <1>9 DEF StateAt
  <2>2. owed = << >>
    BY <1>2, <2>1 DEF OwedAt
  <2>3. reports' = <<EndOf(fieldId, arrayIndices)>> /\ state' = "jsEndVal" /\ EndArray(fieldId, arrayIndices)
    BY <1>4, <1>8, <2>1, ValIs
  <2>4. EndOf(fieldId, arrayIndices) = ArrayEnd(fieldId, n)
    BY <1>2 DEF EndOf, IndicesAt, n
  <2>5. Renamed(reports') = <<ArrayEnd(q, n)>>
    <3>1. Renamed(reports') = <<ArrayEnd(Named(fieldId), n)>>
      BY <2>3, <2>4, RenamedIs
    <3> QED
      BY <1>6, <1>8, <3>1
  <2>6. Meaning(c) = <<ArrayEnd(q, n)>>
    <3>1. Places(0) = n
      BY <1>2, PlacesAre DEF n
    <3>2. Meaning(c) = <<ArrayEnd(q, IF want = "after" THEN Places(1) ELSE Places(0))>>
      BY MeaningIs DEF q, P
    <3> QED
      BY <1>9, <3>1, <3>2
  <2>7. owed \o Meaning(c) = <<ArrayEnd(q, n)>>
    BY <1>7, <2>2, <2>6
  <2>8. ~wrong' /\ owed' = << >>
    BY <1>2, <1>7, <2>5, <2>7, CompareAll
  <2>9. fieldId = PathOf(stack) \/ fieldId = KeyedBy(lineKey, PathOf(stack))
    BY <1>8 DEF P, q
  <2> QED
    BY <1>5, <2>3, <2>8, <2>9, BracketCloses
<1>10. CASE want = "after"
  <2> DEFINE id == IF state = "jsIntVal" THEN Named(fieldId) ELSE fieldId
             n1 == Places(1)
             e == ArrayEnd(q, n1)
             v == Value(q, n)
  <2>1. /\ state \in {"jsIntVal", "jsEndVal"} /\ Indices = n
        /\ owed = IF state = "jsIntVal" THEN <<v>> ELSE << >>
    BY <1>10, AfterFacts DEF n, q, P
  <2>2. (id = P \/ id = q) /\ (state = "jsIntVal" => id = q) /\ InArray(fieldId) /\ Named(id) = q
    BY <1>4, <1>6, <1>8
  <2>3. /\ reports' = Append(IF state = "jsIntVal" THEN <<Value(id, Indices)>> ELSE << >>, EndOf(id, CountedUp))
        /\ state' = "jsEndVal" /\ EndArray(id, CountedUp)
    BY <2>1, <2>2, CompletedIs
  <2> HIDE DEF id, n1, e, v
  <2>4. CountedUp = UpAt(arrayIndices, arrayDepth)
    BY DEF CountedUp, UpAt
  <2>5. SubSeq(CountedUp, 1, arrayDepth) = n1
    <3> DEFINE m == CountsOf(Front(stack))
               x == Last(stack).count
               N == MAX_ARRAY_NESTING
    <3>1. /\ m \in Seq(Nat) /\ x \in Nat /\ CountsOf(stack) = Append(m, x)
          /\ arrayDepth = Len(m) + 1 /\ SubSeq(arrayIndices, 1, arrayDepth) = Append(m, x)
      BY <1>1, ArrayPlace
    <3>2. N \in Nat /\ arrayIndices \in [1..N -> Nat] /\ arrayDepth \in 0..N
      BY <1>2, Limits
    <3> HIDE DEF m, x, N
    <3>3. LastIndex(N, arrayIndices, m, x, arrayDepth)
      BY <3>1, <3>2 DEF LastIndex
    <3>4. LastIndex(N, UpAt(arrayIndices, arrayDepth), m, x + 1, arrayDepth)
      BY <3>3, IndicesUp
    <3>5. SubSeq(UpAt(arrayIndices, arrayDepth), 1, arrayDepth) = Append(m, x + 1)
      BY <3>4 DEF LastIndex
    <3>6. Places(1) = Append(m, x + 1)
      <4>1. CountsOf(stack) \in Seq(Nat)
        BY <1>2 DEF n
      <4> QED
        BY <3>1, <4>1, PlacesAre
    <3> QED
      BY <2>4, <3>5, <3>6 DEF n1
  <2>6. EndOf(id, CountedUp) = ArrayEnd(id, n1)
    BY <2>5 DEF EndOf
  <2>7. Meaning(c) = <<e>>
    <3>1. Meaning(c) = <<ArrayEnd(q, IF want = "after" THEN Places(1) ELSE Places(0))>>
      BY MeaningIs DEF q, P
    <3> QED
      BY <1>10, <3>1 DEF e, n1
  <2>8. ~wrong' /\ owed' = << >>
    <3>1. CASE state = "jsIntVal"
      <4>1. /\ <<v, e>> \in Seq({v, e}) /\ <<v>> \o <<e>> = <<v, e>>
            /\ \A a : Append(<<a>>, ArrayEnd(id, n1)) = <<a, ArrayEnd(id, n1)>>
        <5>1. \A a, b : <<a, b>> \in Seq({a, b}) /\ <<a>> \o <<b>> = <<a, b>> /\ Append(<<a>>, b) = <<a, b>>
          <6> SUFFICES ASSUME NEW a, NEW b
                       PROVE  <<a, b>> \in Seq({a, b}) /\ <<a>> \o <<b>> = <<a, b>> /\ Append(<<a>>, b) = <<a, b>>
            OBVIOUS
          <6> DEFINE S == {a, b}
          <6>1. a \in S /\ b \in S
            OBVIOUS
          <6> HIDE DEF S
          <6>2. <<a, b>> \in Seq(S) /\ <<a>> \o <<b>> = <<a, b>> /\ Append(<<a>>, b) = <<a, b>>
            BY <6>1, ShortSeqs
          <6> QED
            BY <6>2 DEF S
        <5> QED
          BY <5>1
      <4>2. reports' = <<Value(q, n), ArrayEnd(q, n1)>>
        BY <2>1, <2>2, <2>3, <2>6, <3>1, <4>1
      <4>3. Renamed(reports') = <<v, e>>
        <5>1. Renamed(reports') = <<Value(Named(q), n), ArrayEnd(Named(q), n1)>>
          BY <4>2, RenamedIs
        <5> QED
          BY <1>6, <5>1 DEF v, e
      <4>4. owed \o Meaning(c) = <<v, e>>
        BY <2>1, <2>7, <3>1, <4>1
      <4> QED
        BY <1>2, <4>1, <4>3, <4>4, CompareAll
    <3>2. CASE state # "jsIntVal"
      <4>1. reports' = <<ArrayEnd(id, n1)>>
        BY <1>7, <2>3, <2>6, <3>2
      <4>2. Renamed(reports') = <<e>>
        <5>1. Renamed(reports') = <<ArrayEnd(Named(id), n1)>>
          BY <4>1, RenamedIs
        <5> QED
          BY <2>2, <5>1 DEF e
      <4>3. owed \o Meaning(c) = <<e>>
        BY <1>7, <2>1, <2>7, <3>2
      <4> QED
        BY <1>2, <1>7, <4>2, <4>3, CompareAll
    <3> QED
      BY <3>1, <3>2
  <2>9. id = PathOf(stack) \/ id = KeyedBy(lineKey, PathOf(stack))
    BY <2>2 DEF P, q
  <2> QED
    BY <1>5, <2>3, <2>4, <2>8, <2>9, BracketCloses
<1> QED
  BY <1>1, <1>9, <1>10

(* Past the result of a dotted key: the id may have no room for "next", and the brace
   always finds its object.                                                *)
LEMMA PastField ==
  ASSUME TypeOK, GrammarOK, FollowsInside, NEW c, Field(c), CheckInput(c), state' = "jsError",
         Len(lineKey) > 1, Len(stack) = 1, Last(stack).name = "result"
  PROVE  Deep(stack', lineKey)
<1>1. /\ Grammar(stack, want, lineKey) /\ GoodStack(stack) /\ stack # << >>
      /\ lineKey \in Keys /\ fieldId \in Ids
      /\ StateAt(stack, want, state) /\ PlaceAt(stack, want, lineKey, fieldId)
  BY InsideFacts
<1>2. /\ want \in {"first", "next"} /\ Last(stack).kind = "object" /\ c.is = "next" /\ GrammarOK'
  BY GrammarField DEF Top
<1>3. PICK f \in Frames : /\ Last(stack') = f /\ Len(stack') = Len(stack) /\ f.name = c.is /\ f.kind = "object"
                          /\ stack' = Append(Front(stack), f)
  BY GrammarField
<1>4. state = "jsExpectId"
  BY <1>1, <1>2 DEF StateAt
<1>5. want = "next"
  BY <1>1, <1>2 DEF Grammar
<1>6. ~(Len(fieldId) < MAX_JSON_ID_LENGTH)
  <2>1. Extend(c.is, "jsVal")
    BY <1>2, <1>4, ExpectIdIs DEF FieldNames
  <2> QED
    BY <2>1, ExtendIs
<1>7. PathOf(stack) = <<"result">> /\ Front(PathOf(stack)) = << >>
  <2>1. PathOf(stack) = Append(<< >>, "result")
    BY <1>1, <1>2, TopPath DEF BaseOf
  <2>2. << >> \in Ids /\ "result" \in Parts
    BY Limits, NoId DEF FieldNames
  <2>3. Front(Append(<< >>, "result")) = << >>
    BY <2>2, AppendParts
  <2> QED
    BY <2>1, <2>3
<1>8. Len(fieldId) < Len(lineKey) \/ fieldId = << >>
  <2>1. KeyedBy(lineKey, << >>) = << >>
    BY KeyedOther
  <2> QED
    BY <1>1, <1>2, <1>5, <1>7, <2>1 DEF PlaceAt, ExpectedAt
<1>9. Len(PathOf(stack')) = 1
  <2>1. stack' \in Seq(Frames) /\ stack' # << >>
    <3>1. Front(stack) \in Seq(Frames)
      BY <1>1, TopIs DEF Grammar
    <3> QED
      BY <1>3, <3>1, Pushed
  <2>2. GoodStack(stack')
    BY <1>2, GrammarIs, GrammarStack
  <2>3. PathOf(stack') = Append(<< >>, "next")
    BY <1>2, <1>3, <2>1, <2>2, TopPath DEF BaseOf
  <2> QED
    BY <2>3
<1>10. KeyExcess(lineKey) = Len(lineKey) - 1
  BY DEF KeyExcess
<1>11. Len(lineKey) \in Nat /\ Len(fieldId) \in Nat /\ MAX_JSON_ID_LENGTH \in Nat /\ Len(<< >>) = 0
  BY <1>1, KeyIs, Limits DEF Ids
<1>12. \A a, b, z \in Nat : b > 1 /\ (a < b \/ a = 0) /\ ~(a < z) => 1 + (b - 1) > z
  OBVIOUS
<1>13. 1 + (Len(lineKey) - 1) > MAX_JSON_ID_LENGTH
  <2>1. Len(fieldId) < Len(lineKey) \/ Len(fieldId) = 0
    BY <1>8, <1>11
  <2> QED
    BY <1>6, <1>11, <1>12, <2>1
<1> QED
  BY <1>9, <1>10, <1>13 DEF Deep

(* A brace is no error where one is due.                                   *)
LEMMA PastBrace ==
  ASSUME TypeOK, GrammarOK, FollowsInside, NEW c, CloseSent(c), c.is = "}", CheckInput(c)
  PROVE  state' # "jsError"
<1>1. /\ want \in {"first", "after"} /\ stack # << >> /\ Last(stack).kind = "object"
  BY GrammarClose DEF Top
<1>2. \A id : CloseObject(id) => state' # "jsError"
  BY DEF CloseObject, Become
<1>3. Grammar(stack, want, lineKey) /\ StateAt(stack, want, state)
  BY InsideFacts
<1>4. CASE want = "first"
  <2>1. state = "jsExpectId"
    BY <1>1, <1>3, <1>4 DEF StateAt
  <2> QED
    BY <1>2, <2>1, ExpectIdIs
<1>5. CASE want = "after"
  <2> DEFINE P == PathOf(stack)
             q == KeyedBy(lineKey, P)
  <2>1. Last(stack).name # "none"
    BY <1>1, <1>3, <1>5 DEF Grammar
  <2>2. ~InArray(P) /\ ~InArray(q)
    BY <1>1, <2>1, FieldGoes
  <2>3. state \in {"jsIntVal", "jsEndVal"} /\ (fieldId = P \/ fieldId = q)
    BY <1>5, AfterFacts
  <2>4. ~InArray(fieldId)
    BY <2>2, <2>3
  <2> DEFINE id == IF state = "jsIntVal" THEN Named(fieldId) ELSE fieldId
  <2>5. CloseObject(id)
    BY <2>3, <2>4, CompletedIs
  <2> HIDE DEF id
  <2> QED
    BY <1>2, <2>5
<1> QED
  BY <1>1, <1>4, <1>5

(* The end of an answer with a key of several parts is one of the places   *)
(* that are left out (PastDottedResult).                                   *)
LEMMA NoPast == ASSUME NEW c, CloseSent(c), Len(stack) = 1, stack # << >>, GrammarOK, Len(lineKey) > 1
                PROVE  PastDottedResult'
<1>1. stack' = << >> /\ want' = "after" /\ lineKey' = lineKey
  BY GrammarClose
<1> QED
  BY <1>1 DEF PastDottedResult, Dotted, Done

(* So is the field that follows its result.                                *)
LEMMA NextIsPast ==
  ASSUME GrammarOK, NEW c, Field(c), Len(stack) = 1, Last(stack).name = "result", Len(lineKey) > 1
  PROVE  PastDottedResult'
<1>1. lineKey' = lineKey /\ stack # << >> /\ c.is = "next"
  BY GrammarField DEF Top
<1>2. PICK f \in Frames : /\ stack' = Append(Front(stack), f) /\ stack'[1] = f /\ f.name = c.is
  BY GrammarField
<1>3. stack' # << >>
  <2>1. Front(stack) \in Seq(Frames)
    BY <1>1, TopIs DEF GrammarOK
  <2> QED
    BY <1>2, <2>1, Pushed
<1> QED
  BY <1>1, <1>2, <1>3 DEF PastDottedResult, Dotted

(* A token inside a message.                                               *)
LEMMA InsideStep ==
  ASSUME TypeOK, GrammarOK, FollowsInside, ~wrong, NEW c, Send(c), CheckInput(c), Compare(c)
  PROVE  /\ state' = "jsError" => Deep(stack', lineKey)
         /\ ~PastDottedResult' => ~wrong' /\ (state' # "jsError" => FollowsInside' \/ FollowsAfter')
<1> DEFINE Goal == /\ state' = "jsError" => Deep(stack', lineKey)
                   /\ ~PastDottedResult' => ~wrong' /\ (state' # "jsError" => FollowsInside' \/ FollowsAfter')
<1>1. CASE Open(c)
  BY <1>1, StepOpen
<1>2. CASE Field(c)
  <2>1. CASE Len(lineKey) > 1 /\ Len(stack) = 1 /\ Last(stack).name = "result"
    BY <1>2, <2>1, PastField, NextIsPast
  <2>2. CASE ~(Len(lineKey) > 1 /\ Len(stack) = 1 /\ Last(stack).name = "result")
    BY <1>2, <2>2, StepField
  <2> QED
    BY <2>1, <2>2
<1>3. CASE Scalar(c)
  BY <1>3, StepScalar
<1>4. CASE Comma(c)
  BY <1>4, StepComma
<1>5. CASE CloseSent(c)
  <2>1. c.is \in {"}", "]"} /\ stack # << >>
    BY <1>5, GrammarClose
  <2>2. CASE c.is = "]"
    BY <1>5, <2>2, StepBracket
  <2>3. CASE c.is = "}" /\ ~(Len(lineKey) > 1 /\ Len(stack) = 1)
    BY <1>5, <2>3, StepBrace
  <2>4. CASE c.is = "}" /\ Len(lineKey) > 1 /\ Len(stack) = 1
    BY <1>5, <2>1, <2>4, PastBrace, NoPast
  <2> QED
    BY <2>1, <2>2, <2>3, <2>4
<1> QED
  BY <1>1, <1>2, <1>3, <1>4, <1>5 DEF Send

(* Only a brace starts a message, and only braces are left after its end.  *)
LEMMA BeforeStep ==
  ASSUME FollowsBefore, NEW c, Send(c)
  PROVE  Open(c)
BY DEF FollowsBefore, Send, Field, Scalar, Comma, CloseSent, MaySendValue, InObject, InList

(* After the end of the message nothing is reported any more.              *)
LEMMA AfterStep ==
  ASSUME TypeOK, GrammarOK, FollowsAfter, ~wrong, NEW c, Send(c), CheckInput(c), Compare(c)
  PROVE  ~wrong' /\ state' # "jsError" /\ FollowsAfter'
<1>1. /\ want = "after" /\ state = "jsBegin" /\ owed = << >> /\ ended = 1
      /\ stack = << >> \/ (Len(stack) = 1 /\ Last(stack).name = "result" /\ lineKey = << >>)
  BY DEF FollowsAfter, Top
<1>2. ~MaySendValue
  BY <1>1 DEF MaySendValue
<1>3. ~Open(c)
  BY <1>1, <1>2 DEF Open, MayOpenObject, MayOpenArray
<1>4. ~Field(c) /\ ~Scalar(c)
  BY <1>1, <1>2 DEF Field, Scalar
<1>5. ~Comma(c)
  <2> SUFFICES ASSUME Comma(c) PROVE FALSE
    OBVIOUS
  <2>1. stack # << >>
    BY GrammarComma
  <2>2. Grammar(stack, want, lineKey) /\ stack \in Seq(Frames)
    BY GrammarIs DEF Grammar
  <2>3. Last(stack).kind = "object"
    <3>1. 1 \in 1..Len(stack) /\ Last(stack) = stack[1]
      BY <1>1, <2>1 DEF Last
    <3>2. FrameOK(1, stack[1], Len(stack), stack[1].name, want, lineKey)
      BY <2>2, <3>1 DEF Grammar
    <3> QED
      BY <3>1, <3>2 DEF FrameOK
  <2>4. NextFields # {}
    BY <2>3, GrammarComma DEF Top
  <2>5. NextFields = {}
    <3>1. Len(stack) = 1 /\ Top.name = "result" /\ lineKey = << >> /\ ~(1 > 1)
      BY <1>1, <2>1 DEF Top
    <3> QED
      BY <3>1 DEF NextFields
  <2> QED
    BY <2>4, <2>5
<1>6. CloseSent(c)
  BY <1>3, <1>4, <1>5 DEF Send
<1>7. want' = "after" /\ stack # << >> /\ (Len(stack) = 1 <=> stack' = << >>)
  BY <1>6, GrammarClose
<1>8. stack' = << >>
  BY <1>1, <1>7
<1>9. c.is = "}"
  <2>1. c.is \in {"}", "]"} /\ (c.is = "]" => Last(stack).kind = "array")
    BY <1>6, GrammarClose DEF Top
  <2>2. Grammar(stack, want, lineKey) /\ stack \in Seq(Frames)
    BY GrammarIs DEF Grammar
  <2>3. Last(stack).kind = "object"
    <3>1. 1 \in 1..Len(stack) /\ Last(stack) = stack[1]
      BY <1>1, <1>7 DEF Last
    <3>2. FrameOK(1, stack[1], Len(stack), stack[1].name, want, lineKey)
      BY <2>2, <3>1 DEF Grammar
    <3> QED
      BY <3>1, <3>2 DEF FrameOK
  <2> QED
    BY <2>1, <2>3
<1>10. reports' = << >> /\ ended' = ended /\ state' = state
  BY <1>1, <1>9, BeginIs
<1>11. ~wrong' /\ owed' = << >>
  BY <1>1, <1>9, <1>10, CompareNothing
<1> QED
  BY <1>1, <1>7, <1>8, <1>10, <1>11 DEF FollowsAfter

(* What is left out stays left out to the end of the line.                 *)
LEMMA PastStays ==
  ASSUME GrammarOK, NEW c, Send(c), PastDottedResult
  PROVE  PastDottedResult'
<1>1. Grammar(stack, want, lineKey) /\ stack \in Seq(Frames)
  BY GrammarIs DEF Grammar
<1>2. stack # << >> /\ stack[1].name = "next" /\ Len(lineKey) > 1
  <2>1. ~Done
    <3> SUFFICES ASSUME stack = << >>, want = "after" PROVE FALSE
      BY DEF Done
    <3> QED
      BY DEF Send, Open, Field, Scalar, Comma, CloseSent, MayOpenObject, MayOpenArray, MaySendValue, InObject, InList
  <2> QED
    BY <2>1 DEF PastDottedResult, Dotted
<1>3. Len(stack) = 1 => Last(stack).name = "next"
  BY <1>2 DEF Last
<1>4. CASE Open(c)
  <2>1. PICK f \in Frames : stack' = Append(stack, f)
    BY <1>4, GrammarOpen
  <2>2. lineKey' = lineKey
    BY <1>4, GrammarOpen
  <2>3. stack' # << >> /\ stack'[1] = stack[1]
    BY <1>1, <1>2, <2>1, Pushed
  <2> QED
    BY <1>2, <2>2, <2>3 DEF PastDottedResult, Dotted
<1>5. CASE Field(c)
  <2>1. Len(stack) # 1
    <3> SUFFICES ASSUME Len(stack) = 1 PROVE FALSE
      OBVIOUS
    <3>1. NextFields = {}
      BY <1>3 DEF NextFields, Top
    <3> QED
      BY <1>5, <3>1 DEF Field
  <2>2. PICK f \in Frames : stack' = Append(Front(stack), f) /\ stack'[1] = stack[1]
    BY <1>5, <2>1, GrammarField
  <2>3. lineKey' = lineKey
    BY <1>5, GrammarField
  <2>4. stack' # << >>
    <3>1. Front(stack) \in Seq(Frames)
      BY <1>1, <1>2, TopIs
    <3> QED
      BY <2>2, <3>1, Pushed
  <2> QED
    BY <1>2, <2>2, <2>3, <2>4 DEF PastDottedResult, Dotted
<1>6. CASE Scalar(c)
  <2>1. stack' = stack
    BY <1>6, GrammarScalar
  <2>2. lineKey' = lineKey
    BY <1>3, <1>6 DEF Scalar, Top
  <2> QED
    BY <1>2, <2>1, <2>2 DEF PastDottedResult, Dotted
<1>7. CASE Comma(c)
  <2>1. lineKey' = lineKey /\ stack' # << >> /\ stack'[1].name = stack[1].name
    BY <1>7, GrammarComma
  <2> QED
    BY <1>2, <2>1 DEF PastDottedResult, Dotted
<1>8. CASE CloseSent(c)
  <2>1. /\ lineKey' = lineKey /\ want' = "after" /\ (Len(stack) = 1 <=> stack' = << >>)
        /\ Len(stack) >= 2 => stack' # << >> /\ stack'[1] = stack[1]
    BY <1>8, GrammarClose
  <2>2. Len(stack) = 1 \/ Len(stack) >= 2
    <3>1. \A n \in Nat \ {0} : n = 1 \/ n >= 2
      OBVIOUS
    <3>2. Len(stack) \in Nat \ {0}
      BY <1>1, <1>2, TopIs
    <3> QED
      BY <3>1, <3>2
  <2> QED
    BY <1>2, <2>1, <2>2 DEF PastDottedResult, Dotted, Done
<1> QED
  BY <1>4, <1>5, <1>6, <1>7, <1>8 DEF Send

(* A step of nothing.                                                      *)
LEMMA Unmoved ==
  ASSUME Follows, UNCHANGED vars
  PROVE  Follows'
<1>1. UNCHANGED <<stack, want, lineKey, spoiled, state, fieldId, arrayIndices, arrayDepth, m_key, reports,
                  owed, wrong, unnamed, ended>>
  BY DEF vars, sender, decoder, monitor
<1>2. FollowsInside => FollowsInside'
  <2> SUFFICES ASSUME FollowsInside PROVE FollowsInside'
    OBVIOUS
  <2>1. /\ stack # << >> /\ ended = 0
        /\ StateAt(stack, want, state) /\ OwedAt(stack, lineKey, state, owed)
        /\ PlaceAt(stack, want, lineKey, fieldId)
        /\ IndicesAt(stack, arrayIndices, arrayDepth)
        /\ KeyAt(stack, want, lineKey, m_key)
    BY InsideIs
  <2>2. stack' # << >> /\ ended' = 0
    BY <1>1, <2>1
  <2>3. StateAt(stack', want', state') /\ OwedAt(stack', lineKey', state', owed')
    BY <1>1, <2>1
  <2>4. PlaceAt(stack', want', lineKey', fieldId')
    BY <1>1, <2>1
  <2>5. IndicesAt(stack', arrayIndices', arrayDepth') /\ KeyAt(stack', want', lineKey', m_key')
    BY <1>1, <2>1
  <2> QED
    BY <2>2, <2>3, <2>4, <2>5, InsideNext
<1>3. FollowsBefore => FollowsBefore'
  BY <1>1 DEF FollowsBefore
<1>4. FollowsAfter => FollowsAfter'
  BY <1>1 DEF FollowsAfter, Top
<1>5. PastDottedResult => PastDottedResult'
  BY <1>1 DEF PastDottedResult, Dotted, Done
<1> QED
  BY <1>1, <1>2, <1>3, <1>4, <1>5 DEF Follows

(* A token that arrives as it was sent, in a line without a fault so far.  *)
LEMMA DeliverStep ==
  ASSUME TypeOK, GrammarOK, Follows, spoiled = 0, ~PastDottedResult, NEW c, Deliver(c)
  PROVE  /\ state # "jsError" /\ state' = "jsError" => Deep(stack', lineKey)
         /\ ~PastDottedResult' =>
              ~wrong' /\ IF state' = "jsError" THEN owed' = << >>
                         ELSE FollowsBefore' \/ FollowsInside' \/ FollowsAfter'
<1>1. Send(c) /\ CheckInput(c) /\ Compare(c)
  BY DEF Deliver
<1>2. state' = "jsError" => owed' = << >>
  BY <1>1 DEF Compare
<1>3. ~wrong /\ IF state = "jsError" THEN owed = << >> ELSE FollowsBefore \/ FollowsInside \/ FollowsAfter
  BY DEF Follows
<1>4. CASE state = "jsError"
  <2>1. reports' = << >> /\ state' = "jsError"
    BY <1>1, <1>4, ErrorIs
  <2>2. Renamed(reports') = << >>
    BY <2>1, RenamedIs
  <2> DEFINE S == {Meaning(c)[1]}
             due == Meaning(c)
  <2>3. due \in Seq(S)
    <3>1. \A e : <<e>> \in Seq({<<e>>[1]}) /\ << >> \in Seq({e})
      OBVIOUS
    <3> QED
      BY <3>1 DEF Meaning
  <2>4. owed \o Meaning(c) = due
    <3>1. \A e : << >> \o <<e>> = <<e>>
      OBVIOUS
    <3>2. << >> \o << >> = << >>
      OBVIOUS
    <3> QED
      BY <1>3, <1>4, <3>1, <3>2 DEF Meaning
  <2> HIDE DEF S, due
  <2>5. ~wrong'
    BY <1>1, <1>3, <2>2, <2>3, <2>4, CompareLater
  <2> QED
    BY <1>2, <1>4, <2>1, <2>5
<1>5. CASE state # "jsError" /\ FollowsBefore
  <2>1. Open(c)
    BY <1>1, <1>5, BeforeStep
  <2>2. ~wrong' /\ state' # "jsError" /\ FollowsInside'
    BY <1>1, <1>3, <1>5, <2>1, StartsMessage
  <2> QED
    BY <2>2
<1>6. CASE state # "jsError" /\ FollowsInside
  <2>1. /\ state' = "jsError" => Deep(stack', lineKey)
        /\ ~PastDottedResult' => ~wrong' /\ (state' # "jsError" => FollowsInside' \/ FollowsAfter')
    BY <1>1, <1>3, <1>6, InsideStep
  <2> QED
    BY <1>2, <2>1
<1>7. CASE state # "jsError" /\ FollowsAfter
  BY <1>1, <1>3, <1>7, AfterStep
<1> QED
  BY <1>3, <1>4, <1>5, <1>6, <1>7

(* A line that was damaged counts as such.                                 *)
LEMMA SpoiledUp ==
  ASSUME TypeOK, spoiled' = spoiled + 1
  PROVE  spoiled' # 0
<1>1. spoiled \in 0..MaxSpoiled /\ MaxSpoiled \in Nat
  BY Limits DEF TypeOK
<1> QED
  BY <1>1

(* The decoder follows the sender on every whole line, and a line starts   *)
(* anew whatever came before.                                              *)
LEMMA FollowsNext ==
  ASSUME TypeOK, GrammarOK, Follows, [Next]_vars
  PROVE  Follows'
<1>1. ASSUME NEW c, Deliver(c) PROVE Follows'
  <2>1. CASE spoiled = 0
    <3>1. spoiled' = 0 /\ Send(c)
      BY <1>1, <2>1 DEF Deliver
    <3>2. ~PastDottedResult' => ~PastDottedResult
      BY <3>1, PastStays
    <3>3. ~PastDottedResult' =>
            ~wrong' /\ IF state' = "jsError" THEN owed' = << >>
                       ELSE FollowsBefore' \/ FollowsInside' \/ FollowsAfter'
      BY <1>1, <2>1, <3>2, DeliverStep
    <3> QED
      BY <3>1, <3>3 DEF Follows
  <2>2. CASE spoiled # 0
    <3>1. spoiled' = spoiled + 1 /\ wrong' = wrong /\ ~wrong
      BY <1>1, <2>2 DEF Deliver, Follows
    <3>2. spoiled' # 0
      BY <3>1, SpoiledUp
    <3> QED
      BY <3>1, <3>2 DEF Follows
  <2> QED
    BY <2>1, <2>2
<1>2. ASSUME NEW c, Damage(c) PROVE Follows'
  <2>1. spoiled' = spoiled + 1 /\ ~wrong'
    BY <1>2 DEF Damage
  <2>2. spoiled' # 0
    BY <2>1, SpoiledUp
  <2> QED
    BY <2>1, <2>2 DEF Follows
<1>3. CASE EndLine
  <2>1. FollowsBefore' /\ ~wrong' /\ spoiled' = 0 /\ state' = "jsBegin"
    BY <1>3 DEF EndLine, NewLine, Become, FollowsBefore
  <2> QED
    BY <2>1 DEF Follows
<1> QED
  BY <1>1, <1>2, <1>3, Unmoved DEF Next

(* At the start there is nothing to follow.                                *)
LEMMA FollowsInit == Init => GrammarOK /\ Follows
<1> SUFFICES ASSUME Init PROVE GrammarOK /\ Follows
  OBVIOUS
<1>1. /\ stack = << >> /\ want = "first" /\ lineKey = << >> /\ spoiled = 0 /\ state = "jsBegin"
      /\ owed = << >> /\ wrong = FALSE /\ ended = 0
  BY DEF Init
<1>2. FollowsBefore
  BY <1>1 DEF FollowsBefore
<1>3. Grammar(<< >>, "first", << >>)
  <2>1. << >> \in Seq(Frames) /\ \A i \in 1..Len(<< >>) : FALSE
    OBVIOUS
  <2> QED
    BY <2>1 DEF Grammar
<1> QED
  BY <1>1, <1>2, <1>3, GrammarIs DEF Follows

(* The decoder's place follows the sender's, token by token, on every line. *)
THEOREM PlacesFollow == Spec => []DecoderInv
<1>1. Init => DecoderInv
  BY DecoderInit, FollowsInit DEF DecoderInv
<1>2. DecoderInv /\ [Next]_vars => DecoderInv'
  BY DecoderNext, GrammarNext, FollowsNext DEF DecoderInv
<1> QED
  BY <1>1, <1>2, PTL DEF Spec

(* Whatever line arrives whole, after whatever broken ones, and however deep it nests within  *)
(* the limits: each value and each end of an array is reported, in order, under the id its    *)
(* subscribers are registered for and with the right places (CheckInput, ProcessReceivedValue,*)
(* ProcessArrayEnd).                                                                          *)
THEOREM LinesAreReported == Spec => []ReportsAreMeant
<1>1. DecoderInv => ReportsAreMeant
  BY DEF DecoderInv, Follows, ReportsAreMeant
<1> QED
  BY <1>1, PlacesFollow, PTL

(* At the end of a line that arrived whole nothing is left to report, and EndReceivedMessage  *)
(* has run once, whether the last brace ended the message or, with an empty key, an earlier   *)
(* one.                                                                                       *)
THEOREM MessagesEndOnce == Spec => []EndsOnce
<1>1. DecoderInv => EndsOnce
  <2> SUFFICES ASSUME DecoderInv, Done, spoiled = 0, ~Dotted, state # "jsError" PROVE owed = << >> /\ ended = 1
    BY DEF EndsOnce
  <2>1. FollowsBefore \/ FollowsInside \/ FollowsAfter
    BY DEF DecoderInv, Follows, PastDottedResult
  <2>2. stack = << >> /\ want = "after"
    BY DEF Done
  <2> QED
    BY <2>1, <2>2 DEF FollowsBefore, FollowsInside, FollowsAfter
<1> QED
  BY <1>1, PlacesFollow, PTL

(* A line that arrives whole is given up (jsError) only where it nests deeper than            *)
(* m_arrayIndices or m_fieldId has room for.                                                  *)
THEOREM OnlyTheDeepAreRejected == Spec => RejectsOnlyTheDeep
<1> DEFINE A == state' = "jsError" /\ state # "jsError" /\ spoiled' = 0 /\ ~PastDottedResult =>
                  \/ Len(Counts') > MAX_ARRAY_NESTING
                  \/ Len(Path') + (IF Dotted THEN Len(lineKey) - 1 ELSE 0) > MAX_JSON_ID_LENGTH
<1>1. DecoderInv /\ [Next]_vars => [A]_vars
  <2> SUFFICES ASSUME DecoderInv, Next, state' = "jsError", state # "jsError", spoiled' = 0, ~PastDottedResult
               PROVE  \/ Len(Counts') > MAX_ARRAY_NESTING
                      \/ Len(Path') + (IF Dotted THEN Len(lineKey) - 1 ELSE 0) > MAX_JSON_ID_LENGTH
    OBVIOUS
  <2>1. ~EndLine
    BY DEF EndLine, NewLine, Become
  <2>2. \A c : ~Damage(c)
    BY SpoiledUp DEF Damage, DecoderInv
  <2>3. PICK c \in Tokens : Deliver(c)
    BY <2>1, <2>2 DEF Next
  <2>4. spoiled = 0
    BY <2>3, SpoiledUp DEF Deliver, DecoderInv
  <2>5. Deep(stack', lineKey)
    BY <2>3, <2>4, DeliverStep DEF DecoderInv
  <2> QED
    BY <2>5, PathIs DEF Deep, KeyExcess, Dotted
<1>2. Spec => [][A]_vars
  BY <1>1, PlacesFollow, PTL DEF Spec
<1> QED
  BY <1>2 DEF RejectsOnlyTheDeep
=============================================================================
