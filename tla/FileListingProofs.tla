------------------------- MODULE FileListingProofs -------------------------
(***************************************************************************)
(* Proofs about the folders: for every content of the Duet, every size of  *)
(* a page and every number of requests, however they replace each other    *)
(* and whatever is lost, a callback is given the whole of what was listed, *)
(* no list grows beyond its folder and what cut answers left, and what is  *)
(* shown is sorted.                                                        *)
(*                                                                         *)
(* SortFilesBy is a fold of folds.  A fold is the value of a function that *)
(* is chosen by an equation (Folding), so first there must be one          *)
(* (FoldingExists); then its values for the indices up to k, k = 0, 1, ... *)
(* are the steps of a pass (PassSwaps) and of the sort (SortPasses), whose *)
(* invariants no step is the first to break (NoFirst).                     *)
(***************************************************************************)
EXTENDS FileListing, SequenceTheorems, WellFoundedInduction, TLAPS

Request == [folder : Folders, viewer : Viewers \cup {"none"}, items : Seq(PartItems), next : Nat]
Question == [folder : Folders, first : Nat]

-----------------------------------------------------------------------------
(* What a list of items has of a folder.                                   *)

(* All of its first n items.                                               *)
Covers(s, f, n) == n <= Len(Content[f]) /\ \A k \in 1..n : \E i \in 1..Len(s) : s[i] = Content[f][k]

(* Nothing but its first n, or a part of them.                             *)
Within(s, f, n) ==
    \A i \in 1..Len(s) : \E k \in 1..Len(Content[f]) : k <= n /\ s[i] \in Parts(Content[f][k])

(* Exactly its first n, in order.                                          *)
StartOf(s, f, n) ==
    /\ n <= Len(Content[f]) /\ Len(s) = n
    /\ \A k \in 1..n : s[k] = Content[f][k]

(* How many items a request with this next has listed.                     *)
Listed(f, next) == IF next = 0 THEN Len(Content[f]) ELSE next

-----------------------------------------------------------------------------
(* The inductive invariant.                                                *)

RxType(n) ==
    [stage : {"idle", "dir", "first", "files", "callback"}, folder : Folders, first : Nat,
     got : Nat, field : {"type", "name", "key"}, id : 0..n]

CallType(n) ==
    [viewer : Viewers \cup {"none"}, folder : Folders, old : 0..n,
     stage : {"none", "cached", "ask"}]

Types ==
    /\ requests \in Seq(Request)
    /\ table \in [Folders -> 0..Len(requests)]
    /\ calling \in CallType(Len(requests))
    /\ calling.stage = "cached" => calling.old # NoId
    /\ folder \in Folders
    /\ wire \in Seq(Question)
    /\ rx \in RxType(Len(requests))
    /\ rx.stage \in {"first", "files", "callback"} => rx.id # NoId
    /\ rx.stage \in {"dir", "first"} => rx.got = 0 /\ rx.field = "type"
    /\ rx.field # "type" => rx.got # 0 /\ rx.first + rx.got \in 1..Len(Content[rx.folder])

(* A request that is referred to is one for the folder it is found under.  *)
OwnFolder ==
    /\ \A f \in Folders : table[f] # NoId => requests[table[f]].folder = f
    /\ calling.old # NoId => requests[calling.old].folder = calling.folder
    /\ rx.stage \in {"first", "files"} /\ Alive(rx.id) => requests[rx.id].folder = rx.folder
    /\ rx.stage = "callback" => requests[rx.id].folder = rx.folder

(* A request between two pages, with what a cut one added.                 *)
Between(r) ==
    r.next # 0 => /\ Covers(r.items, r.folder, r.next)
                  /\ Within(r.items, r.folder, r.next + PageSize)

(* How many items of the answer are complete, and the list without the one *)
(* that is being filled in.                                                *)
Filled == IF rx.field = "type" THEN rx.got ELSE rx.got - 1
Whole(s) == SubSeq(s, 1, Len(s) - 1)
Complete(s) == IF rx.field = "type" THEN s ELSE Whole(s)

(* The pages of the requests that are referred to.                         *)
Pages ==
    /\ \A id \in Ids : Alive(id) => Between(requests[id])
    /\ rx.stage = "files" /\ Alive(rx.id) =>
           /\ requests[rx.id].next = rx.first
           /\ rx.got <= PageLength(rx.folder, rx.first)
           /\ rx.field # "type" => Len(requests[rx.id].items) > 0
           /\ Covers(Complete(requests[rx.id].items), rx.folder, rx.first + Filled)
           /\ Within(requests[rx.id].items, rx.folder, rx.first + PageSize)
    /\ rx.stage = "callback" =>
           LET r == requests[rx.id] IN
           /\ Covers(r.items, rx.folder, Listed(rx.folder, r.next))
           /\ Within(r.items, rx.folder, Listed(rx.folder, r.next))

(* The question for a page is on its way, or its answer has just begun.    *)
Wanted(f, n) ==
    \/ \E i \in 1..Len(wire) : wire[i].folder = f /\ wire[i].first = n
    \/ rx.stage = "dir" /\ rx.folder = f /\ rx.first = n

(* A request that took the place of the one being answered has no page.    *)
Fresh ==
    rx.stage \in {"first", "files", "callback"} /\ table[rx.folder] \notin {NoId, rx.id} =>
        requests[table[rx.folder]].next = 0

(* Unless answers are cut, a page that is still asked for continues the    *)
(* list just where it ends: when the line breaks in the middle of a page,  *)
(* nobody asks for that page again.                                        *)
Exact ==
    /\ \A f \in Folders :
           table[f] # NoId /\ ~(rx.stage = "files" /\ rx.id = table[f]) =>
               LET r == requests[table[f]] IN
               r.next # 0 /\ Wanted(f, r.next) => StartOf(r.items, f, r.next)
    /\ rx.stage = "first" /\ Alive(rx.id) =>
           LET r == requests[rx.id] IN
           rx.first # 0 /\ r.next = rx.first => StartOf(r.items, rx.folder, rx.first)
    /\ rx.stage = "files" /\ Alive(rx.id) =>
           StartOf(Complete(requests[rx.id].items), rx.folder, rx.first + Filled)
    /\ rx.stage = "callback" =>
           LET r == requests[rx.id] IN
           StartOf(r.items, rx.folder, Listed(rx.folder, r.next))

ListInv == Types /\ OwnFolder /\ Pages
ExactInv == Types /\ OwnFolder /\ Pages /\ Fresh /\ ("cut" \notin world.faults => Exact)

-----------------------------------------------------------------------------
(* Facts about the data.                                                   *)

(* The content of a folder is a sequence of items.                         *)
LEMMA ContentIsItems ==
  ASSUME NEW f \in Folders
  PROVE  Content[f] \in Seq(Items)
<1>1. Content[f] \in Seq([name : STRING, dir : BOOLEAN, key : Nat])
  BY FileListingAssumption
<1>2. \A i \in 1..Len(Content[f]) : Content[f][i] \in ToSet(Content[f])
  BY <1>1 DEF ToSet
<1>3. \A i \in 1..Len(Content[f]) : Content[f][i] \in Items
  BY <1>2 DEF Items
<1> QED
  BY <1>1, <1>3

(* An answer has room for at least one item.                               *)
LEMMA PageSizeIsPositive == PageSize \in Nat /\ PageSize > 0
  BY FileListingAssumption

(* What is left when one question is answered was asked before.            *)
LEMMA RemoveAtKeeps ==
  ASSUME NEW S, NEW s \in Seq(S), NEW i \in 1..Len(s)
  PROVE  /\ RemoveAt(s, i) \in Seq(S)
         /\ \A j \in 1..Len(RemoveAt(s, i)) : \E k \in 1..Len(s) : RemoveAt(s, i)[j] = s[k]
<1> DEFINE a == SubSeq(s, 1, i - 1)
           b == SubSeq(s, i + 1, Len(s))
<1>1. a \in Seq(S) /\ Len(a) = i - 1 /\ \A j \in 1..(i - 1) : a[j] = s[j]
  OBVIOUS
<1>2. b \in Seq(S) /\ Len(b) = Len(s) - i /\ \A j \in 1..(Len(s) - i) : b[j] = s[i + j]
  OBVIOUS
<1>3. RemoveAt(s, i) = a \o b
  BY DEF RemoveAt
<1> HIDE DEF a, b
<1>4. a \o b \in Seq(S) /\ Len(a \o b) = Len(a) + Len(b)
  <2>1. a \in Seq(S) /\ b \in Seq(S)
    BY <1>1, <1>2
  <2> QED
    BY <2>1, ConcatProperties
<1>5. Len(a \o b) = Len(s) - 1
  BY <1>1, <1>2, <1>4
<1>6. \A j \in 1..(Len(s) - 1) : (a \o b)[j] = IF j <= i - 1 THEN s[j] ELSE s[j + 1]
  BY <1>1, <1>2
<1>7. ASSUME NEW j \in 1..(Len(s) - 1)
      PROVE  \E k \in 1..Len(s) : (a \o b)[j] = s[k]
  <2>1. j \in 1..Len(s) /\ j + 1 \in 1..Len(s)
    OBVIOUS
  <2> QED
    BY <1>6, <2>1
<1> QED
  BY <1>3, <1>4, <1>5, <1>7

(* An item is the last of its parts.                                       *)
LEMMA PartsOfItems ==
    /\ Items \subseteq PartItems
    /\ \A item \in Items : Parts(item) \subseteq PartItems /\ item \in Parts(item)
  BY DEF PartItems, Parts

(* A list to which something is added is the list before it, and has what  *)
(* that has.                                                               *)
LEMMA OneAdded ==
  ASSUME NEW S, NEW s \in Seq(S), NEW x \in S
  PROVE  LET t == Append(s, x) IN
         /\ t \in Seq(S) /\ Len(t) = Len(s) + 1 /\ t[Len(s) + 1] = x
         /\ \A i \in 1..Len(s) : t[i] = s[i]
         /\ Whole(t) = s
  BY DEF Whole

(* Without its last item a list is shorter by one.                         *)
LEMMA WholeLength ==
  ASSUME NEW S, NEW s \in Seq(S), Len(s) > 0
  PROVE  Whole(s) \in Seq(S) /\ Len(Whole(s)) = Len(s) - 1
<1>1. Len(s) \in Nat /\ Len(s) - 1 \in 0..Len(s)
  OBVIOUS
<1>2. Len(s) - 1 \in Int /\ 1 \in Int /\ \A i \in 1..(Len(s) - 1) : s[i] \in S
  BY <1>1
<1>3. Len(SubSeq(s, 1, Len(s) - 1)) = IF 1 <= Len(s) - 1 THEN Len(s) - 1 - 1 + 1 ELSE 0
  BY <1>2, SubSeqProperties
<1>4. PICK n \in Nat : n = Len(s)
  BY <1>1
<1>5. n > 0 => (IF 1 <= n - 1 THEN n - 1 - 1 + 1 ELSE 0) = n - 1
  OBVIOUS
<1>6. Len(Whole(s)) = IF 1 <= n - 1 THEN n - 1 - 1 + 1 ELSE 0
  BY <1>3, <1>4 DEF Whole
<1>7. Whole(s) \in Seq(S)
  BY DEF Whole
<1> QED
  BY <1>4, <1>5, <1>6, <1>7

(* To change the last item is to put another in its place.                 *)
LEMMA LastChanged ==
  ASSUME NEW S, NEW s \in Seq(S), NEW x \in S
  PROVE  /\ Whole(s) \in Seq(S)
         /\ \A i \in 1..Len(Whole(s)) : i \in 1..Len(s) /\ Whole(s)[i] = s[i]
         /\ [s EXCEPT ![Len(s)] = x] \in Seq(S)
         /\ Len([s EXCEPT ![Len(s)] = x]) = Len(s)
         /\ Len(s) > 0 => [s EXCEPT ![Len(s)] = x] = Append(Whole(s), x)
<1>1. Whole(s) \in Seq(S) /\ \A i \in 1..Len(Whole(s)) : i \in 1..Len(s) /\ Whole(s)[i] = s[i]
  BY DEF Whole
<1> DEFINE t == [s EXCEPT ![Len(s)] = x]
<1>2. t \in Seq(S) /\ Len(t) = Len(s)
  <2>1. CASE Len(s) \in 1..Len(s)
    BY <2>1, ExceptSeq
  <2>2. CASE Len(s) \notin 1..Len(s)
    <3>1. t = s
      BY <2>2
    <3> QED
      BY <3>1
  <2> QED
    BY <2>1, <2>2
<1>3. ASSUME Len(s) > 0 PROVE t = Append(Whole(s), x)
  <2> DEFINE u == Append(Whole(s), x)
  <2>1. Len(Whole(s)) = Len(s) - 1
    BY <1>3, WholeLength
  <2>2. u \in Seq(S) /\ Len(u) = Len(s) /\ u[Len(s)] = x
        /\ \A i \in 1..(Len(s) - 1) : u[i] = s[i]
    BY <1>1, <1>3, <2>1
  <2>3. t[Len(s)] = x /\ \A i \in 1..(Len(s) - 1) : t[i] = s[i]
    BY <1>3
  <2> HIDE DEF t, u
  <2>4. \A i \in 1..Len(s) : i = Len(s) \/ i \in 1..(Len(s) - 1)
    OBVIOUS
  <2>5. \A i \in 1..Len(s) : t[i] = u[i]
    BY <2>2, <2>3, <2>4
  <2> HIDE DEF Whole
  <2>6. t = u
    BY <1>2, <2>2, <2>5, SeqEqual
  <2> QED
    BY <2>6 DEF u
<1> QED
  BY <1>1, <1>2, <1>3

(* A list grows by the next item of its folder, or a part of it.           *)
LEMMA OneMore ==
  ASSUME NEW f \in Folders, NEW s \in Seq(PartItems), NEW n \in Nat, NEW m \in Nat,
         n < Len(Content[f]), n < m, NEW x \in Parts(Content[f][n + 1])
  PROVE  LET t == Append(s, x) IN
         /\ t \in Seq(PartItems) /\ Whole(t) = s /\ Len(t) > 0
         /\ Covers(s, f, n) => Covers(t, f, n)
         /\ Covers(s, f, n) /\ x = Content[f][n + 1] => Covers(t, f, n + 1)
         /\ Within(s, f, m) => Within(t, f, m)
         /\ StartOf(s, f, n) /\ x = Content[f][n + 1] => StartOf(t, f, n + 1)
<1> DEFINE t == Append(s, x)
<1>0. Content[f] \in Seq(Items) /\ Len(Content[f]) \in Nat
  BY ContentIsItems
<1>00. Content[f][n + 1] \in Items /\ x \in PartItems
  BY <1>0, PartsOfItems
<1>1. t \in Seq(PartItems) /\ Len(t) = Len(s) + 1 /\ t[Len(s) + 1] = x /\ Whole(t) = s
  BY <1>00, OneAdded
<1>2. \A i \in 1..Len(s) : t[i] = s[i]
  BY <1>00, OneAdded
<1>21. Len(s) \in Nat
  OBVIOUS
<1> HIDE DEF t
<1>3. ASSUME NEW k \in 1..n, Covers(s, f, n) PROVE \E i \in 1..Len(t) : t[i] = Content[f][k]
  <2>1. PICK i \in 1..Len(s) : s[i] = Content[f][k]
    BY <1>3 DEF Covers
  <2> QED
    BY <1>1, <1>2, <2>1
<1>31. Covers(s, f, n) => Covers(t, f, n)
  BY <1>3 DEF Covers
<1>32. ASSUME Covers(s, f, n), x = Content[f][n + 1] PROVE Covers(t, f, n + 1)
  <2>1. \A k \in 1..(n + 1) : k = n + 1 \/ k \in 1..n
    OBVIOUS
  <2>2. Len(s) + 1 \in 1..Len(t)
    BY <1>1, <1>21
  <2>3. \A k \in 1..(n + 1) : \E i \in 1..Len(t) : t[i] = Content[f][k]
    BY <1>1, <1>3, <1>32, <2>1, <2>2
  <2>4. n + 1 <= Len(Content[f])
    BY <1>0
  <2> QED
    BY <2>3, <2>4 DEF Covers
<1>4. Within(s, f, m) => Within(t, f, m)
  <2>1. ASSUME Within(s, f, m), NEW i \in 1..Len(t)
        PROVE  \E k \in 1..Len(Content[f]) : k <= m /\ t[i] \in Parts(Content[f][k])
    <3>1. CASE i = Len(s) + 1
      <4>1. n + 1 \in 1..Len(Content[f]) /\ n + 1 <= m
        BY <1>0
      <4> QED
        BY <1>1, <3>1, <4>1
    <3>2. CASE i \in 1..Len(s)
      BY <1>2, <2>1, <3>2 DEF Within
    <3> QED
      BY <1>1, <1>21, <3>1, <3>2
  <2> QED
    BY <2>1 DEF Within
<1>5. StartOf(s, f, n) /\ x = Content[f][n + 1] => StartOf(t, f, n + 1)
  BY <1>0, <1>1, <1>2 DEF StartOf
<1> QED
  BY <1>1, <1>21, <1>31, <1>32, <1>4, <1>5 DEF t

(* What is within a folder still is, without its last item.                *)
LEMMA WithinWhole ==
  ASSUME NEW S, NEW s \in Seq(S), NEW f, NEW n, Within(s, f, n)
  PROVE  Within(Whole(s), f, n)
<1>1. \A i \in 1..Len(Whole(s)) : i \in 1..Len(s) /\ Whole(s)[i] = s[i]
  BY DEF Whole
<1> QED
  BY <1>1 DEF Within

(* A list that has a page has what was before it.                          *)
LEMMA CoversLess ==
  ASSUME NEW s, NEW f \in Folders, NEW n \in Nat, NEW m \in Nat, m <= n, Covers(s, f, n)
  PROVE  Covers(s, f, m)
<1>1. Len(Content[f]) \in Nat
  BY ContentIsItems
<1> QED
  BY <1>1 DEF Covers

(* A list within the first items of a folder is within more of them.       *)
LEMMA WithinMore ==
  ASSUME NEW s, NEW f \in Folders, NEW n \in Nat, NEW m \in Nat, n <= m, Within(s, f, n)
  PROVE  Within(s, f, m)
<1>1. Len(Content[f]) \in Nat
  BY ContentIsItems
<1> QED
  BY <1>1 DEF Within

-----------------------------------------------------------------------------
(* The steps of Next, those alike together.                                *)

Asking ==
    /\ \E v \in Viewers, f \in Folders : RequestFiles(v, f)
    /\ folder' \in Folders
    /\ UNCHANGED <<world, wire, rx>>

Quiet == folder' \in Folders /\ UNCHANGED <<world, requests, table, calling, wire, rx>>

Fill == SetType \/ SetName \/ SetKey
GiveUp == Cut \/ IgnoreNext
Clearing == Reset \/ RemoveAll

(* Every step is one of those that matter to the requests, or none.        *)
LEMMA Steps ==
  ASSUME Types, [Next]_vars
  PROVE  \/ Quiet \/ Asking \/ RunCached \/ AskDuet
         \/ (\E i \in DOMAIN wire : Receive(i) \/ Lose(i))
         \/ SetCurrentDirectory \/ SetFirstIndex \/ Fill \/ SetNextIndex \/ RunCallback
         \/ GiveUp \/ Disconnect \/ Clearing
<1>0. Gcodes \in Folders /\ Filaments \in Folders /\ folder \in Folders
  BY FileListingAssumption DEF Types
<1>1. CASE ItemClicked
  BY <1>0, <1>1 DEF ItemClicked, Click, Asking, Viewers
<1>2. CASE Back
  BY <1>0, <1>2 DEF Back, Click, Asking, Viewers
<1>3. CASE Refresh
  BY <1>0, <1>3 DEF Refresh, Click, Asking, Viewers
<1>4. ASSUME NEW v \in {"names", "multi"}, AskFilaments(v) PROVE Asking
  BY <1>0, <1>4 DEF AskFilaments, Click, Asking, Viewers
<1>5. CASE SetSort
  BY <1>0, <1>5 DEF SetSort, Quiet
<1>6. CASE OnDisconnect
  BY <1>0, <1>6 DEF OnDisconnect, Quiet
<1>7. CASE OnConnect
  BY <1>0, <1>7 DEF OnConnect, Quiet, Asking, Viewers
<1>8. CASE NewUniqueId
  BY <1>0, <1>8 DEF NewUniqueId, Asking, Viewers
<1>9. CASE Disconnected \/ Connect \/ SetPrinterUniqueId
  BY <1>0, <1>9 DEF Disconnected, Connect, SetPrinterUniqueId, Moves, Quiet
<1>10. CASE UNCHANGED vars
  BY <1>0, <1>10 DEF vars, Quiet
<1> QED
  BY <1>1, <1>2, <1>3, <1>4, <1>5, <1>6, <1>7, <1>8, <1>9, <1>10
  DEF Next, ReceivingThread, EventLoop, Fill, GiveUp, Clearing

(* The requests that nothing points to are emptied, the others stay.       *)
LEMMA ReferredKeeps ==
  ASSUME Types, NEW tab, NEW call, NEW answer
  PROVE  /\ Referred(tab, call, answer) \in Seq(Request)
         /\ Len(Referred(tab, call, answer)) = Len(requests)
         /\ \A id \in 1..Len(requests) :
                Refers(id, tab, call, answer) => Referred(tab, call, answer)[id] = requests[id]
<1>1. Destroyed \in Request
  BY FileListingAssumption DEF Destroyed, Request
<1>2. \A id \in 1..Len(requests) : requests[id] \in Request
  BY DEF Types
<1>3. Len(requests) \in Nat /\ DOMAIN requests = 1..Len(requests)
  BY DEF Types
<1> QED
  BY <1>1, <1>2, <1>3 DEF Referred

(* A question is put behind the others, while there is a connection.       *)
LEMMA AskedQuestions ==
  ASSUME wire \in Seq(Question), NEW f \in Folders, NEW n \in Nat
  PROVE  /\ Asked(f, n) \in Seq(Question)
         /\ \A j \in 1..Len(Asked(f, n)) :
                \/ Asked(f, n)[j].folder = f /\ Asked(f, n)[j].first = n
                \/ \E k \in 1..Len(wire) : Asked(f, n)[j] = wire[k]
<1> DEFINE q == [folder |-> f, first |-> n]
           w == Append(wire, q)
<1>1. q \in Question /\ q.folder = f /\ q.first = n
  BY DEF Question
<1> HIDE DEF q
<1>2. w \in Seq(Question) /\ Len(w) = Len(wire) + 1 /\ w[Len(wire) + 1] = q
      /\ \A k \in 1..Len(wire) : w[k] = wire[k]
  BY <1>1
<1> HIDE DEF w
<1>3. ASSUME NEW j \in 1..Len(w)
      PROVE  \/ w[j].folder = f /\ w[j].first = n
             \/ \E k \in 1..Len(wire) : w[j] = wire[k]
  <2>1. CASE j = Len(wire) + 1
    BY <1>1, <1>2, <2>1
  <2>2. CASE j \in 1..Len(wire)
    BY <1>2, <2>2
  <2> QED
    BY <1>2, <2>1, <2>2
<1>4. Asked(f, n) = w \/ Asked(f, n) = wire
  BY DEF Asked, w, q
<1> QED
  BY <1>2, <1>3, <1>4

(* One request changes, the others do not.                                 *)
LEMMA ChangedRequest ==
  ASSUME NEW s \in Seq(Request), NEW id \in 1..Len(s), NEW r \in Request
  PROVE  LET t == [s EXCEPT ![id] = r] IN
         /\ t \in Seq(Request) /\ Len(t) = Len(s) /\ t[id] = r
         /\ \A j \in 1..Len(s) : j # id => t[j] = s[j]
  OBVIOUS

(* The items of one request change, and nothing else of it.                *)
LEMMA ChangedItems ==
  ASSUME Types, NEW id \in 1..Len(requests), NEW items \in Seq(PartItems)
  PROVE  LET t == [requests EXCEPT ![id].items = items] IN
         /\ t \in Seq(Request) /\ Len(t) = Len(requests)
         /\ t[id].items = items /\ t[id].next = requests[id].next
         /\ t[id].folder = requests[id].folder
         /\ \A j \in 1..Len(requests) : j # id => t[j] = requests[j]
<1> DEFINE r == [requests[id] EXCEPT !.items = items]
<1>0. requests \in Seq(Request) /\ requests[id] \in Request
  BY DEF Types
<1>1. r \in Request /\ r.items = items /\ r.next = requests[id].next
      /\ r.folder = requests[id].folder
  BY <1>0 DEF Request
<1>2. [requests EXCEPT ![id].items = items] = [requests EXCEPT ![id] = r]
  OBVIOUS
<1> HIDE DEF r
<1>3. LET t == [requests EXCEPT ![id] = r] IN
      /\ t \in Seq(Request) /\ Len(t) = Len(requests) /\ t[id] = r
      /\ \A j \in 1..Len(requests) : j # id => t[j] = requests[j]
  BY <1>0, <1>1, ChangedRequest
<1> QED
  BY <1>1, <1>2, <1>3

(* The next page of one request changes, and nothing else of it.           *)
LEMMA ChangedNext ==
  ASSUME Types, NEW id \in 1..Len(requests), NEW n \in Nat
  PROVE  LET t == [requests EXCEPT ![id].next = n] IN
         /\ t \in Seq(Request) /\ Len(t) = Len(requests)
         /\ t[id].next = n /\ t[id].items = requests[id].items
         /\ t[id].folder = requests[id].folder
         /\ \A j \in 1..Len(requests) : j # id => t[j] = requests[j]
<1> DEFINE r == [requests[id] EXCEPT !.next = n]
<1>0. requests \in Seq(Request) /\ requests[id] \in Request
  BY DEF Types
<1>1. r \in Request /\ r.next = n /\ r.items = requests[id].items
      /\ r.folder = requests[id].folder
  BY <1>0 DEF Request
<1>2. [requests EXCEPT ![id].next = n] = [requests EXCEPT ![id] = r]
  OBVIOUS
<1> HIDE DEF r
<1>3. LET t == [requests EXCEPT ![id] = r] IN
      /\ t \in Seq(Request) /\ Len(t) = Len(requests) /\ t[id] = r
      /\ \A j \in 1..Len(requests) : j # id => t[j] = requests[j]
  BY <1>0, <1>1, ChangedRequest
<1> QED
  BY <1>1, <1>2, <1>3

(* Another item of a page is an item of the folder.                        *)
LEMMA InPage ==
  ASSUME NEW f \in Folders, NEW n \in Nat, NEW got \in Nat, got < PageLength(f, n)
  PROVE  n + got + 1 \in 1..Len(Content[f])
<1> DEFINE length == Len(Content[f])
<1>1. length \in Nat
  BY ContentIsItems
<1>2. got < IF n + PageSize <= length THEN PageSize ELSE length - n
  BY DEF PageLength
<1> HIDE DEF length
<1>3. n + got + 1 \in 1..length
  BY <1>1, <1>2, PageSizeIsPositive
<1> QED
  BY <1>3 DEF length

(* Where an item of a page comes, there is room for it.                    *)
LEMMA FillRoom ==
  ASSUME NEW f \in Folders, NEW first \in Nat, NEW filled \in Nat,
         first + filled + 1 \in 1..Len(Content[f])
  PROVE  /\ first + filled \in Nat /\ first <= first + filled /\ first + PageSize \in Nat
         /\ first + filled < Len(Content[f]) /\ first <= Len(Content[f])
         /\ filled + 1 <= PageLength(f, first) => first + filled < first + PageSize
<1>1. Len(Content[f]) \in Nat
  BY ContentIsItems
<1>2. first + filled < Len(Content[f]) /\ first <= Len(Content[f])
  BY <1>1
<1>3. PageLength(f, first) = IF first + PageSize <= Len(Content[f]) THEN PageSize
                             ELSE Len(Content[f]) - first
  BY DEF PageLength
<1> QED
  BY <1>1, <1>2, <1>3, PageSizeIsPositive

(* The subscribers of an item put a part of it in the place of what there  *)
(* is of it, and the last of them all of it.                               *)
LEMMA FillIs ==
  ASSUME Types, Fill, Alive(rx.id)
  PROVE  LET s == requests[rx.id].items
             n == rx.first + Filled
         IN  /\ rx.stage = "files" /\ rx.id \in 1..Len(requests)
             /\ Filled \in Nat /\ n + 1 \in 1..Len(Content[rx.folder])
             /\ \E part \in Parts(Content[rx.folder][n + 1]), t \in Seq(PartItems) :
                    /\ (rx.field = "type" \/ Len(s) > 0) => t = Append(Complete(s), part)
                    /\ rx'.field = "type" => part = Content[rx.folder][n + 1]
                    /\ requests' = [requests EXCEPT ![rx.id].items = t]
             /\ rx' \in RxType(Len(requests)) /\ rx'.stage = "files" /\ rx'.got = Filled + 1
             /\ rx'.id = rx.id /\ rx'.folder = rx.folder /\ rx'.first = rx.first
             /\ rx.field = "type" => rx.got < PageLength(rx.folder, rx.first)
             /\ UNCHANGED <<world, table, calling, wire>>
<1> DEFINE s == requests[rx.id].items
           n == rx.first + Filled
           item == Content[rx.folder][n + 1]
<1>0. rx \in RxType(Len(requests)) /\ rx.folder \in Folders /\ rx.first \in Nat /\ rx.got \in Nat
  BY DEF Types, RxType
<1>1. rx.stage = "files" /\ UNCHANGED <<world, table, calling, wire>>
  BY DEF Fill, SetType, SetName, SetKey, SetLast, Receiving
<1>2. rx.id \in 1..Len(requests)
  BY <1>1 DEF Types, RxType, NoId
<1>3. s \in Seq(PartItems)
  <2>1. requests[rx.id] \in Request
    BY <1>2 DEF Types
  <2> QED
    BY <2>1 DEF Request
<1>4. CASE SetType
  <2>1. /\ rx.field = "type" /\ rx.got < PageLength(rx.folder, rx.first)
        /\ requests' = [requests EXCEPT ![rx.id].items =
                             Append(s, Unnamed(Content[rx.folder][rx.first + rx.got + 1]))]
        /\ rx' = [rx EXCEPT !.got = @ + 1, !.field = "name"]
    BY <1>4 DEF SetType, Adding, Receiving
  <2>2. Filled = rx.got /\ Complete(s) = s
    BY <2>1 DEF Filled, Complete
  <2>3. n + 1 \in 1..Len(Content[rx.folder])
    BY <1>0, <2>1, <2>2, InPage
  <2>4. item \in Items
    BY <1>0, <2>3, ContentIsItems
  <2>5. requests' = [requests EXCEPT ![rx.id].items = Append(s, Unnamed(item))]
    BY <2>1, <2>2
  <2>6. /\ rx' \in RxType(Len(requests)) /\ rx'.stage = "files" /\ rx'.got = Filled + 1
        /\ rx'.field = "name"
        /\ rx'.id = rx.id /\ rx'.folder = rx.folder /\ rx'.first = rx.first
    <3> HIDE DEF item, n, s
    <3>1. rx' = [rx EXCEPT !.got = rx.got + 1, !.field = "name"]
      BY <2>1
    <3>2. rx.got + 1 \in Nat
      BY <1>0
    <3> QED
      BY ONLY <1>0, <1>1, <2>2, <3>1, <3>2 DEF RxType
  <2> HIDE DEF item, n, s
  <2>7. Unnamed(item) \in Parts(item) /\ Unnamed(item) \in PartItems
    BY <2>4, PartsOfItems DEF Parts
  <2>8. Append(s, Unnamed(item)) \in Seq(PartItems)
    BY <1>3, <2>7
  <2> QED
    BY <1>0, <1>1, <1>2, <2>1, <2>2, <2>3, <2>5, <2>6, <2>7, <2>8 DEF item, n, s
<1>5. ASSUME NEW part, rx.field # "type", Incoming \in Items => part \in Parts(Incoming),
             requests' = [requests EXCEPT ![rx.id].items = [s EXCEPT ![Len(s)] = part]],
             NEW field \in {"key", "type"}, rx' = [rx EXCEPT !.field = field],
             field = "type" => part = Incoming
      PROVE  /\ Filled \in Nat /\ n + 1 \in 1..Len(Content[rx.folder])
             /\ \E x \in Parts(item), t \in Seq(PartItems) :
                    /\ (rx.field = "type" \/ Len(s) > 0) => t = Append(Complete(s), x)
                    /\ rx'.field = "type" => x = item
                    /\ requests' = [requests EXCEPT ![rx.id].items = t]
             /\ rx' \in RxType(Len(requests)) /\ rx'.stage = "files" /\ rx'.got = Filled + 1
             /\ rx'.id = rx.id /\ rx'.folder = rx.folder /\ rx'.first = rx.first
  <2>1. rx.got # 0 /\ rx.first + rx.got \in 1..Len(Content[rx.folder])
    BY <1>5 DEF Types
  <2>2. Filled = rx.got - 1 /\ Complete(s) = Whole(s)
    BY <1>5 DEF Filled, Complete
  <2>3. Filled \in Nat /\ Filled + 1 = rx.got /\ n + 1 = rx.first + rx.got
    <3>1. rx.got \in Nat /\ rx.first \in Nat /\ rx.got # 0
      BY <1>0, <2>1
    <3>2. Filled \in Nat /\ Filled + 1 = rx.got
      BY ONLY <2>2, <3>1
    <3>3. n + 1 = rx.first + Filled + 1
      OBVIOUS
    <3> QED
      BY ONLY <3>1, <3>2, <3>3
  <2>4. item \in Items /\ item = Incoming
    <3>1. item = Content[rx.folder][rx.first + rx.got]
      BY ONLY <2>3 DEF item
    <3> QED
      BY <1>0, <2>1, <3>1, ContentIsItems DEF Incoming
  <2>5. part \in Parts(item) /\ part \in PartItems
    BY <1>5, <2>4, PartsOfItems
  <2>6. /\ rx' \in RxType(Len(requests)) /\ rx'.stage = "files" /\ rx'.got = rx.got
        /\ rx'.field = field
        /\ rx'.id = rx.id /\ rx'.folder = rx.folder /\ rx'.first = rx.first
    BY <1>0, <1>1, <1>5 DEF RxType
  <2> HIDE DEF item, n, s
  <2>7. [s EXCEPT ![Len(s)] = part] \in Seq(PartItems)
        /\ (Len(s) > 0 => [s EXCEPT ![Len(s)] = part] = Append(Whole(s), part))
    BY <1>3, <2>5, LastChanged
  <2>8. n + 1 \in 1..Len(Content[rx.folder]) /\ rx'.got = Filled + 1
    BY <2>1, <2>3, <2>6
  <2>9. (rx.field = "type" \/ Len(s) > 0)
            => [s EXCEPT ![Len(s)] = part] = Append(Complete(s), part)
    BY <1>5, <2>2, <2>7
  <2>10. rx'.field = "type" => part = item
    BY <1>5, <2>4, <2>6
  <2> QED
    BY <1>5, <2>3, <2>5, <2>6, <2>7, <2>8, <2>9, <2>10
<1>6. CASE SetName
  <2>1. /\ rx.field # "type"
        /\ requests' = [requests EXCEPT ![rx.id].items = [s EXCEPT ![Len(s)] = Named(Incoming)]]
        /\ rx' = [rx EXCEPT !.field = "key"]
    BY <1>6 DEF SetName, SetLast, Adding, Receiving
  <2>2. Named(Incoming) \in Parts(Incoming)
    BY DEF Parts
  <2> HIDE DEF item, n, s
  <2> QED
    BY <1>1, <1>2, <1>5, <2>1, <2>2 DEF item, n, s
<1>7. CASE SetKey
  <2>1. /\ rx.field # "type"
        /\ requests' = [requests EXCEPT ![rx.id].items = [s EXCEPT ![Len(s)] = Incoming]]
        /\ rx' = [rx EXCEPT !.field = "type"]
    BY <1>7 DEF SetKey, SetLast, Adding, Receiving
  <2>2. Incoming \in Items => Incoming \in Parts(Incoming)
    BY PartsOfItems
  <2> HIDE DEF item, n, s
  <2> QED
    BY <1>1, <1>2, <1>5, <2>1, <2>2 DEF item, n, s
<1> QED
  BY <1>4, <1>6, <1>7 DEF Fill

(* A subscriber that finds the request gone changes nothing.               *)
LEMMA FillFails ==
  ASSUME Fill, ~Alive(rx.id)
  PROVE  rx' = Idle /\ UNCHANGED <<world, requests, table, calling, wire>>
  BY DEF Fill, SetType, SetName, SetKey, SetLast, Receiving

(* Where the pages of a folder end.                                        *)
LEMMA PageBounds ==
  ASSUME NEW f \in Folders, NEW n \in Nat, n <= Len(Content[f])
  PROVE  /\ PageLength(f, n) \in Nat /\ PageLength(f, n) <= PageSize
         /\ n + PageLength(f, n) <= Len(Content[f])
         /\ NextPage(f, n) \in Nat
         /\ Listed(f, NextPage(f, n)) = n + PageLength(f, n)
<1>1. Len(Content[f]) \in Nat
  BY ContentIsItems
<1> QED
  BY <1>1, PageSizeIsPositive DEF PageLength, NextPage, Listed

(* A page that is there to its end is what its next says.                  *)
LEMMA PageIsListed ==
  ASSUME NEW s, NEW f \in Folders, NEW n \in Nat, n <= Len(Content[f]),
         Within(s, f, n + PageSize)
  PROVE  Within(s, f, Listed(f, NextPage(f, n)))
<1> DEFINE length == Len(Content[f])
<1>1. length \in Nat
  BY ContentIsItems
<1>2. Listed(f, NextPage(f, n)) = IF n + PageSize < length THEN n + PageSize ELSE length
  BY <1>1, PageSizeIsPositive DEF NextPage, Listed
<1> HIDE DEF length
<1>3. \A k \in 1..length : k <= n + PageSize => k <= Listed(f, NextPage(f, n))
  BY <1>1, <1>2, PageSizeIsPositive
<1> QED
  BY <1>3 DEF Within, length

-----------------------------------------------------------------------------
(* Every step keeps the types.                                             *)

(* Every step keeps the types, and ids are ids of requests.                *)
LEMMA TypesStep ==
  ASSUME Types, [Next]_vars
  PROVE  Types'
<1>0. /\ requests \in Seq(Request) /\ Len(requests) \in Nat
      /\ rx.folder \in Folders /\ rx.first \in Nat /\ rx.got \in Nat /\ rx.id \in 0..Len(requests)
      /\ rx.stage \in {"first", "files", "callback"} => rx.id \in 1..Len(requests)
      /\ \A id \in 1..Len(requests) : requests[id] \in Request
      /\ wire \in Seq(Question)
      /\ calling.folder \in Folders
  BY DEF Types, RxType, CallType, NoId
<1>1. CASE Quiet
  BY <1>1 DEF Quiet, Types
<1>2. CASE Asking
  <2>1. PICK v \in Viewers, f \in Folders : RequestFiles(v, f)
    BY <1>2 DEF Asking
  <2>2. [folder |-> f, viewer |-> v, items |-> <<>>, next |-> 0] \in Request
    BY DEF Request
  <2>3. requests' \in Seq(Request) /\ Len(requests') = Len(requests) + 1
    BY <1>0, <2>1, <2>2 DEF RequestFiles
  <2>4. table[f] \in 0..(Len(requests) + 1) /\ table' = [table EXCEPT ![f] = Len(requests) + 1]
    BY <1>0, <2>1 DEF RequestFiles, Types
  <2>5. table' \in [Folders -> 0..Len(requests')]
    BY <1>0, <2>3, <2>4 DEF Types
  <2>6. calling' \in CallType(Len(requests')) /\ (calling'.stage = "cached" => calling'.old # NoId)
    BY <2>1, <2>3, <2>4 DEF RequestFiles, CallType
  <2>7. rx \in RxType(Len(requests'))
    BY <1>0, <2>3 DEF Types, RxType
  <2> QED
    BY <1>2, <2>3, <2>5, <2>6, <2>7 DEF Asking, Types
<1>3. CASE RunCached
  <2>1. calling' = [calling EXCEPT !.stage = "ask"] /\ calling \in CallType(Len(requests))
    BY <1>3 DEF RunCached, Types
  <2>2. calling' \in CallType(Len(requests)) /\ calling'.stage = "ask"
    BY <2>1 DEF CallType
  <2> QED
    BY <1>3, <2>2 DEF RunCached, Types
<1>31. CASE AskDuet
  <2>1. requests' \in Seq(Request) /\ Len(requests') = Len(requests)
    BY <1>31, ReferredKeeps DEF AskDuet
  <2>2. NoCall \in CallType(Len(requests)) /\ NoCall.stage = "none"
    BY <1>0, FileListingAssumption DEF NoCall, NoId, CallType
  <2>3. wire' \in Seq(Question)
    BY <1>0, <1>31, AskedQuestions DEF AskDuet
  <2> QED
    BY <1>31, <2>1, <2>2, <2>3 DEF AskDuet, Types
<1>4. ASSUME NEW i \in DOMAIN wire, Receive(i) PROVE Types'
  <2>1. wire' \in Seq(Question) /\ wire[i] \in Question
    <3>1. i \in 1..Len(wire) /\ wire' = RemoveAt(wire, i)
      BY <1>4 DEF Receive
    <3> QED
      BY <1>0, <3>1, RemoveAtKeeps
  <2>2. wire[i].folder \in Folders /\ wire[i].first \in Nat
    BY <2>1 DEF Question
  <2>3. rx' = [stage |-> "dir", folder |-> wire[i].folder, first |-> wire[i].first, got |-> 0,
               field |-> "type", id |-> 0]
    BY <1>4 DEF Receive, Receiving, Idle, NoId
  <2>4. rx' \in RxType(Len(requests)) /\ rx'.stage = "dir" /\ rx'.got = 0 /\ rx'.field = "type"
    BY <1>0, <2>2, <2>3 DEF RxType
  <2> QED
    BY <1>4, <2>1, <2>4 DEF Receive, Receiving, Types
<1>5. ASSUME NEW i \in DOMAIN wire, Lose(i) PROVE Types'
  <2>1. wire' \in Seq(Question)
    <3>1. i \in 1..Len(wire) /\ wire' = RemoveAt(wire, i)
      BY <1>0, <1>5 DEF Lose
    <3> QED
      BY <1>0, <3>1, RemoveAtKeeps
  <2> QED
    BY <1>5, <2>1 DEF Lose, Types
<1>6. Idle \in RxType(Len(requests)) /\ Idle.stage = "idle" /\ Idle.field = "type"
  BY <1>0, FileListingAssumption DEF Idle, NoId, RxType
<1>7. CASE SetCurrentDirectory
  BY <1>6, <1>7 DEF SetCurrentDirectory, Receiving, Types, RxType
<1>8. CASE SetFirstIndex
  <2>1. requests' \in Seq(Request) /\ Len(requests') = Len(requests)
    <3> DEFINE items == IF rx.first = 0 THEN <<>> ELSE requests[rx.id].items
    <3>1. rx.id \in 1..Len(requests)
      BY <1>0, <1>8 DEF SetFirstIndex
    <3>2. items \in Seq(PartItems)
      BY <1>0, <3>1 DEF Request
    <3>3. requests' = requests \/ requests' = [requests EXCEPT ![rx.id].items = items]
      BY <1>8 DEF SetFirstIndex
    <3> HIDE DEF items
    <3>4. CASE requests' = requests
      BY <1>0, <3>4
    <3>5. CASE requests' = [requests EXCEPT ![rx.id].items = items]
      BY <3>1, <3>2, <3>5, ChangedItems
    <3> QED
      BY <3>3, <3>4, <3>5
  <2> QED
    BY <1>6, <1>8, <2>1 DEF SetFirstIndex, Receiving, Types, RxType
<1>9. CASE Fill
  <2>0. folder' = folder
    BY <1>9 DEF Fill, SetType, SetName, SetKey, SetLast, Receiving
  <2>1. CASE Alive(rx.id)
    <3>1. /\ rx.id \in 1..Len(requests) /\ Filled \in Nat
          /\ rx.first + Filled + 1 \in 1..Len(Content[rx.folder])
          /\ rx' \in RxType(Len(requests)) /\ rx'.stage = "files" /\ rx'.got = Filled + 1
          /\ rx'.id = rx.id /\ rx'.folder = rx.folder /\ rx'.first = rx.first
          /\ UNCHANGED <<table, calling, wire>>
      BY <1>9, <2>1, FillIs
    <3>2. PICK t \in Seq(PartItems) : requests' = [requests EXCEPT ![rx.id].items = t]
      BY <1>9, <2>1, FillIs
    <3>3. requests' \in Seq(Request) /\ Len(requests') = Len(requests)
      BY <3>1, <3>2, ChangedItems
    <3>4. rx'.got # 0 /\ rx'.first + rx'.got \in 1..Len(Content[rx'.folder]) /\ rx'.id # NoId
      <4>1. rx'.first + rx'.got = rx.first + Filled + 1
        <5>1. PICK a \in Nat, b \in Nat : a = rx.first /\ b = Filled
          BY <1>0, <3>1
        <5>2. a + (b + 1) = a + b + 1
          OBVIOUS
        <5> QED
          BY <3>1, <5>1, <5>2
      <4> QED
        BY <3>1, <4>1 DEF NoId
    <3> QED
      BY <2>0, <3>1, <3>3, <3>4 DEF Types
  <2>2. CASE ~Alive(rx.id)
    BY <1>6, <1>9, <2>0, <2>2, FillFails DEF Types
  <2> QED
    BY <2>1, <2>2
<1>10. CASE SetNextIndex
  <2>1. NextPage(rx.folder, rx.first) \in Nat
    BY <1>0, PageSizeIsPositive DEF NextPage
  <2>2. requests' \in Seq(Request) /\ Len(requests') = Len(requests)
    <3>1. rx.id \in 1..Len(requests)
      BY <1>0, <1>10 DEF SetNextIndex
    <3>2. requests' = requests
          \/ requests' = [requests EXCEPT ![rx.id].next = NextPage(rx.folder, rx.first)]
      BY <1>10 DEF SetNextIndex
    <3> QED
      BY <1>0, <2>1, <3>1, <3>2, ChangedNext
  <2> QED
    BY <1>6, <1>10, <2>2 DEF SetNextIndex, Receiving, Types, RxType
<1>11. CASE RunCallback
  <2>1. requests' \in Seq(Request) /\ Len(requests') = Len(requests)
    BY <1>11, ReferredKeeps DEF RunCallback
  <2>2. wire' \in Seq(Question)
    <3>1. requests[rx.id] \in Request
      BY <1>0, <1>11 DEF RunCallback
    <3>2. Asked(requests[rx.id].folder, requests[rx.id].next) \in Seq(Question)
      BY <1>0, <3>1, AskedQuestions DEF Request
    <3> QED
      BY <1>0, <1>11, <3>2 DEF RunCallback
  <2> QED
    BY <1>6, <1>11, <2>1, <2>2 DEF RunCallback, Receiving, Types
<1>12. CASE GiveUp
  BY <1>6, <1>12 DEF GiveUp, Cut, IgnoreNext, Types
<1>13. CASE Disconnect
  BY <1>6, <1>13 DEF Disconnect, Moves, Types
<1>14. CASE Clearing
  <2>1. requests' \in Seq(Request) /\ Len(requests') = Len(requests)
    BY <1>14, ReferredKeeps DEF Clearing, Reset, RemoveAll, Clear
  <2> QED
    BY <1>14, <2>1 DEF Clearing, Reset, RemoveAll, Clear, Moves, NoId, Types
<1> QED
  BY Steps, <1>1, <1>2, <1>3, <1>31, <1>4, <1>5, <1>7, <1>8, <1>9, <1>10, <1>11, <1>12, <1>13,
     <1>14

-----------------------------------------------------------------------------
(* What is referred to stays.                                              *)

(* Nothing becomes referred to, and what is stays as it is.                *)
Kept ==
    /\ Len(requests') = Len(requests)
    /\ \A f \in Folders : table'[f] \in {table[f], NoId}
    /\ calling'.old # NoId => calling'.old = calling.old /\ calling'.folder = calling.folder
    /\ \A id \in 1..Len(requests) :
           Refers(id, table', calling', rx') => requests'[id] = requests[id]
    /\ rx'.stage \in {"files", "callback"} => rx' = rx

(* A request is alive in the table or in RequestFiles.                     *)
LEMMA AliveIs ==
  ASSUME NEW id
  PROVE  /\ Alive(id) <=> (\E f \in Folders : table[f] = id) \/ calling.old = id
         /\ Alive(id)' <=> (\E f \in Folders : table'[f] = id) \/ calling'.old = id
         /\ Alive(id)' => Refers(id, table', calling', rx')
         /\ rx'.stage = "callback" => Refers(rx'.id, table', calling', rx')
  BY DEF Alive, Refers, Idle

(* What is alive after such a step was before, and is unchanged.           *)
LEMMA KeptAlive ==
  ASSUME Kept, NEW id \in 1..Len(requests), Alive(id)'
  PROVE  Alive(id) /\ requests'[id] = requests[id]
<1>1. id # NoId
  BY DEF NoId
<1>2. Alive(id)
  BY <1>1, AliveIs DEF Kept
<1>3. Refers(id, table', calling', rx')
  BY AliveIs
<1> QED
  BY <1>2, <1>3 DEF Kept

(* An answer begins.                                                       *)
LEMMA ReceiveIs ==
  ASSUME NEW i, Receive(i)
  PROVE  rx.stage = "idle" /\ rx'.stage = "dir" /\ rx' # rx
  BY DEF Receive, Receiving, Idle

(* The steps that neither add a request nor change one.                    *)
LEMMA KeptSteps ==
  ASSUME Types
  PROVE  /\ Quiet => Kept
         /\ RunCached => Kept
         /\ AskDuet => Kept
         /\ \A i \in DOMAIN wire : Receive(i) \/ Lose(i) => Kept
         /\ SetCurrentDirectory => Kept
         /\ RunCallback => Kept
         /\ GiveUp => Kept
         /\ Disconnect => Kept
         /\ Clearing => Kept
<1>0. table \in [Folders -> 0..Len(requests)] /\ Len(requests) \in Nat /\ requests \in Seq(Request)
  BY DEF Types
<1>1. ASSUME Quiet PROVE Kept
  BY <1>0, <1>1 DEF Quiet, Kept
<1>11. ASSUME RunCached PROVE Kept
  <2>1. calling \in CallType(Len(requests))
    BY DEF Types
  <2>2. calling'.old = calling.old /\ calling'.folder = calling.folder
    BY <1>11, <2>1 DEF RunCached, CallType
  <2> QED
    BY <1>0, <1>11, <2>2 DEF RunCached, Kept
<1>2. ASSUME AskDuet PROVE Kept
  <2>1. requests' = Referred(table', calling', rx') /\ rx' = rx /\ table' = table /\ calling'.old = NoId
    <3>1. /\ requests' = Referred(table, NoCall, rx) /\ rx' = rx /\ table' = table
          /\ calling' = NoCall
      BY <1>2 DEF AskDuet
    <3> QED
      BY <3>1 DEF NoCall
  <2> QED
    BY <1>0, <2>1, ReferredKeeps DEF Kept
<1>3. ASSUME NEW i \in DOMAIN wire, Receive(i) \/ Lose(i) PROVE Kept
  BY <1>0, <1>3 DEF Receive, Lose, Receiving, Idle, Kept
<1>4. ASSUME SetCurrentDirectory PROVE Kept
  BY <1>0, <1>4 DEF SetCurrentDirectory, Receiving, Idle, Kept
<1>5. ASSUME RunCallback PROVE Kept
  <2>1. requests' = Referred(table', calling', rx') /\ rx' = Idle /\ table' = table /\ calling' = calling
    BY <1>5 DEF RunCallback, Receiving
  <2> QED
    BY <1>0, <2>1, ReferredKeeps DEF Kept, Idle
<1>6. ASSUME GiveUp PROVE Kept
  BY <1>0, <1>6 DEF GiveUp, Cut, IgnoreNext, Idle, Kept
<1>7. ASSUME Disconnect PROVE Kept
  BY <1>0, <1>7 DEF Disconnect, Moves, Idle, Kept
<1>8. ASSUME Clearing PROVE Kept
  <2>1. requests' = Referred(table', calling', rx') /\ rx' = rx /\ calling' = calling
        /\ table' = [f \in Folders |-> NoId]
    BY <1>8 DEF Clearing, Reset, RemoveAll, Clear, Moves
  <2> QED
    BY <1>0, <2>1, ReferredKeeps DEF Kept
<1> QED
  BY <1>1, <1>11, <1>2, <1>3, <1>4, <1>5, <1>6, <1>7, <1>8

(* A request that is asked is new, and everything else is as it was.       *)
LEMMA NewRequest ==
  ASSUME Types, Asking
  PROVE  \E v \in Viewers, f \in Folders :
            /\ Len(requests') = Len(requests) + 1
            /\ \A id \in 1..Len(requests) : requests'[id] = requests[id]
            /\ requests'[Len(requests) + 1] =
                   [folder |-> f, viewer |-> v, items |-> <<>>, next |-> 0]
            /\ table' = [table EXCEPT ![f] = Len(requests) + 1]
            /\ calling.old = NoId
            /\ calling'.folder = f /\ calling'.old = table[f]
            /\ UNCHANGED <<world, wire, rx>>
<1>0. requests \in Seq(Request) /\ Len(requests) \in Nat
  BY DEF Types
<1>1. PICK v \in Viewers, f \in Folders : RequestFiles(v, f)
  BY DEF Asking
<1>2. [folder |-> f, viewer |-> v, items |-> <<>>, next |-> 0] \in Request
  BY DEF Request
<1>3. calling.old = NoId
  BY <1>1 DEF RequestFiles, NoCall
<1>4. /\ Len(requests') = Len(requests) + 1
      /\ \A id \in 1..Len(requests) : requests'[id] = requests[id]
      /\ requests'[Len(requests) + 1] =
             [folder |-> f, viewer |-> v, items |-> <<>>, next |-> 0]
  BY <1>0, <1>1, <1>2 DEF RequestFiles
<1> QED
  BY <1>1, <1>3, <1>4 DEF RequestFiles, Asking

(* What was referred to before a new request still is, or is the new one.  *)
LEMMA NewAlive ==
  ASSUME Types, Asking, NEW id, Alive(id)', id # NoId
  PROVE  id = Len(requests) + 1 \/ Alive(id)
<1>0. table \in [Folders -> 0..Len(requests)]
  BY DEF Types
<1>1. PICK v \in Viewers, f \in Folders :
         /\ table' = [table EXCEPT ![f] = Len(requests) + 1]
         /\ calling'.old = table[f]
  BY NewRequest
<1>2. CASE calling'.old = id
  BY <1>1, <1>2, AliveIs
<1>3. ASSUME NEW g \in Folders, table'[g] = id PROVE id = Len(requests) + 1 \/ Alive(id)
  BY <1>0, <1>1, <1>3, AliveIs
<1> QED
  BY <1>2, <1>3, AliveIs

-----------------------------------------------------------------------------
(* A request that is referred to is one for the folder it is found under.  *)

(* The types that the other lemmas use.                                    *)
LEMMA BasicTypes ==
  ASSUME Types
  PROVE  /\ requests \in Seq(Request) /\ Len(requests) \in Nat
         /\ table \in [Folders -> 0..Len(requests)]
         /\ calling.old \in 0..Len(requests)
         /\ \A id \in 1..Len(requests) : requests[id] \in Request
         /\ rx.stage \in {"first", "files", "callback"} => rx.id \in 1..Len(requests)
         /\ rx.folder \in Folders /\ rx.first \in Nat /\ rx.got \in Nat
         /\ rx.stage = "first" => rx.got = 0 /\ rx.field = "type"
         /\ rx \in RxType(Len(requests))
         /\ wire \in Seq(Question)
  BY DEF Types, RxType, CallType, NoId

(* Every step keeps requests where their folder is.                        *)
LEMMA OwnFolderStep ==
  ASSUME Types, Types', OwnFolder, [Next]_vars
  PROVE  OwnFolder'
<1>0. /\ table \in [Folders -> 0..Len(requests)] /\ Len(requests) \in Nat
      /\ rx.stage \in {"first", "files", "callback"} => rx.id \in 1..Len(requests)
      /\ calling.old \in 0..Len(requests)
      /\ rx.folder \in Folders
  BY BasicTypes
<1>1. ASSUME Kept PROVE (\A f \in Folders : table'[f] # NoId => requests'[table'[f]].folder = f)
                        /\ (calling'.old # NoId => requests'[calling'.old].folder = calling'.folder)
  <2>1. ASSUME NEW f \in Folders, table'[f] # NoId PROVE requests'[table'[f]].folder = f
    <3>1. table'[f] = table[f] /\ table[f] \in 1..Len(requests)
      BY <1>0, <1>1, <2>1 DEF Kept, NoId
    <3>2. Alive(table[f])'
      BY <3>1, AliveIs
    <3> QED
      BY <1>1, <3>1, <3>2, KeptAlive, <2>1 DEF OwnFolder
  <2>2. ASSUME calling'.old # NoId PROVE requests'[calling'.old].folder = calling'.folder
    <3>1. /\ calling'.old = calling.old /\ calling'.folder = calling.folder
          /\ calling.old \in 1..Len(requests)
      BY <1>0, <1>1, <2>2 DEF Kept, NoId
    <3>2. Alive(calling.old)'
      BY <3>1, AliveIs
    <3> QED
      BY <1>1, <2>2, <3>1, <3>2, KeptAlive DEF OwnFolder
  <2> QED
    BY <2>1, <2>2
<1>2. ASSUME Kept, rx' = rx \/ rx'.stage \notin {"first", "files", "callback"} PROVE OwnFolder'
  <2>1. ASSUME rx' = rx, rx.stage \in {"first", "files"}, Alive(rx.id)'
        PROVE  requests'[rx.id].folder = rx.folder
    BY <1>0, <1>2, <2>1, KeptAlive DEF OwnFolder
  <2>2. ASSUME rx' = rx, rx.stage = "callback" PROVE requests'[rx.id].folder = rx.folder
    <3>1. requests'[rx.id] = requests[rx.id]
      BY <1>0, <1>2, <2>2, AliveIs DEF Kept
    <3> QED
      BY <2>2, <3>1 DEF OwnFolder
  <2>3. rx' = rx /\ rx.stage \in {"first", "files"} /\ Alive(rx.id)' => requests'[rx.id].folder = rx.folder
    BY <2>1
  <2> QED
    BY <1>1, <1>2, <2>2, <2>3 DEF OwnFolder
<1>3. CASE Quiet
  BY <1>2, <1>3, KeptSteps DEF Quiet
<1>4. CASE Asking
  <2>1. PICK v \in Viewers, f \in Folders :
            /\ Len(requests') = Len(requests) + 1
            /\ \A id \in 1..Len(requests) : requests'[id] = requests[id]
            /\ requests'[Len(requests) + 1] =
                   [folder |-> f, viewer |-> v, items |-> <<>>, next |-> 0]
            /\ table' = [table EXCEPT ![f] = Len(requests) + 1]
            /\ calling.old = NoId
            /\ calling'.folder = f /\ calling'.old = table[f]
            /\ rx' = rx
    BY <1>4, NewRequest
  <2>2. \A g \in Folders : table'[g] # NoId => requests'[table'[g]].folder = g
    BY <1>0, <2>1 DEF OwnFolder, NoId
  <2>3. calling'.old # NoId => requests'[calling'.old].folder = calling'.folder
    BY <1>0, <2>1 DEF OwnFolder, NoId
  <2>4. ASSUME rx.stage \in {"first", "files"}, Alive(rx.id)'
        PROVE  requests'[rx.id].folder = rx.folder
    <3>1. Alive(rx.id)
      BY <1>0, <2>1, <2>4, AliveIs
    <3> QED
      BY <1>0, <2>1, <2>4, <3>1 DEF OwnFolder
  <2>5. rx.stage = "callback" => requests'[rx.id].folder = rx.folder
    BY <1>0, <2>1 DEF OwnFolder
  <2> QED
    BY <2>1, <2>2, <2>3, <2>4, <2>5 DEF OwnFolder
<1>50. CASE RunCached
  BY <1>2, <1>50, KeptSteps DEF RunCached
<1>5. CASE AskDuet
  BY <1>2, <1>5, KeptSteps DEF AskDuet
<1>6. ASSUME NEW i \in DOMAIN wire, Receive(i) PROVE OwnFolder'
  BY <1>2, <1>6, KeptSteps, ReceiveIs
<1>7. ASSUME NEW i \in DOMAIN wire, Lose(i) PROVE OwnFolder'
  BY <1>2, <1>7, KeptSteps DEF Lose
<1>8. CASE SetCurrentDirectory
  <2>1. requests' = requests /\ Kept
    BY <1>8, KeptSteps DEF SetCurrentDirectory
  <2>2. rx'.stage \in {"first", "files", "callback"} =>
            /\ rx'.stage = "first" /\ rx'.folder = rx.folder /\ rx'.id = table[rx.folder]
            /\ table[rx.folder] # NoId
    BY <1>8 DEF SetCurrentDirectory, Receiving, Idle
  <2> QED
    BY <1>0, <1>1, <2>1, <2>2 DEF OwnFolder
<1>9. CASE SetFirstIndex \/ Fill \/ SetNextIndex
  <2>1. table' = table /\ calling' = calling
    BY <1>9 DEF SetFirstIndex, Fill, SetType, SetName, SetKey, SetLast, SetNextIndex, Receiving
  <2>2. rx.id \in 1..Len(requests) /\ rx.stage \in {"first", "files"}
    BY <1>0, <1>9 DEF SetFirstIndex, Fill, SetType, SetName, SetKey, SetLast, SetNextIndex
  <2>3. \A id \in 1..Len(requests) : requests'[id].folder = requests[id].folder
    <3>1. \A id \in 1..Len(requests) : requests[id] \in Request
      BY BasicTypes
    <3>2. requests' = requests
          \/ (\E x : requests' = [requests EXCEPT ![rx.id].items = x])
          \/ (\E x : requests' = [requests EXCEPT ![rx.id].next = x])
      BY <1>9, FillIs, FillFails DEF SetFirstIndex, SetNextIndex
    <3>3. requests \in Seq(Request)
      BY BasicTypes
    <3>4. ASSUME NEW x, requests' = [requests EXCEPT ![rx.id].items = x],
                 NEW id \in 1..Len(requests)
          PROVE  requests'[id].folder = requests[id].folder
      <4>1. CASE id = rx.id
        <5>1. requests'[id] = [requests[id] EXCEPT !.items = x]
          BY <2>2, <3>3, <3>4, <4>1
        <5> QED
          BY <3>1, <5>1 DEF Request
      <4>2. CASE id # rx.id
        BY <2>2, <3>3, <3>4, <4>2
      <4> QED
        BY <4>1, <4>2
    <3>5. ASSUME NEW x, requests' = [requests EXCEPT ![rx.id].next = x],
                 NEW id \in 1..Len(requests)
          PROVE  requests'[id].folder = requests[id].folder
      <4>1. CASE id = rx.id
        <5>1. requests'[id] = [requests[id] EXCEPT !.next = x]
          BY <2>2, <3>3, <3>5, <4>1
        <5> QED
          BY <3>1, <5>1 DEF Request
      <4>2. CASE id # rx.id
        BY <2>2, <3>3, <3>5, <4>2
      <4> QED
        BY <4>1, <4>2
    <3> QED
      BY <3>2, <3>4, <3>5
  <2>4. rx' = Idle \/ (rx'.folder = rx.folder /\ rx'.id = rx.id /\ rx.stage \in {"first", "files"}
                       /\ Alive(rx.id))
    <3>1. CASE Fill
      BY <2>2, <3>1, FillIs, FillFails
    <3>2. CASE SetFirstIndex \/ SetNextIndex
      BY <2>2, <3>2 DEF SetFirstIndex, SetNextIndex, Receiving, Expected, Types, RxType
    <3> QED
      BY <1>9, <3>1, <3>2
  <2>5. \A id : Alive(id)' <=> Alive(id)
    BY <2>1, AliveIs
  <2>6. ASSUME rx' # Idle PROVE requests'[rx'.id].folder = rx'.folder
    BY <2>2, <2>3, <2>4, <2>6 DEF OwnFolder
  <2>7. Idle.stage = "idle"
    BY DEF Idle
  <2>8. \A f \in Folders : table'[f] # NoId => requests'[table'[f]].folder = f
    BY <1>0, <2>1, <2>3 DEF OwnFolder, NoId
  <2>9. calling'.old # NoId => requests'[calling'.old].folder = calling'.folder
    BY <1>0, <2>1, <2>3 DEF OwnFolder, NoId
  <2> QED
    BY <2>6, <2>7, <2>8, <2>9 DEF OwnFolder
<1>10. CASE RunCallback
  BY <1>2, <1>10, KeptSteps DEF RunCallback, Receiving, Idle
<1>11. CASE GiveUp
  BY <1>2, <1>11, KeptSteps DEF GiveUp, Cut, IgnoreNext, Idle
<1>12. CASE Disconnect
  BY <1>2, <1>12, KeptSteps DEF Disconnect, Idle
<1>13. CASE Clearing
  BY <1>2, <1>13, KeptSteps DEF Clearing, Reset, RemoveAll
<1> QED
  BY Steps, <1>3, <1>4, <1>50, <1>5, <1>6, <1>7, <1>8, <1>9, <1>10, <1>11, <1>12, <1>13

-----------------------------------------------------------------------------
(* What a request has listed, page after page.                             *)

(* Every step keeps the lists whole up to their next page.                 *)
LEMMA PagesStep ==
  ASSUME Types, Types', OwnFolder, OwnFolder', Pages, [Next]_vars
  PROVE  Pages'
<1>0. /\ Len(requests) \in Nat /\ requests \in Seq(Request)
      /\ \A id \in 1..Len(requests) : requests[id] \in Request
      /\ rx.stage \in {"first", "files", "callback"} => rx.id \in 1..Len(requests)
      /\ rx.folder \in Folders /\ rx.first \in Nat /\ rx.got \in Nat
      /\ rx.stage = "first" => rx.got = 0
      /\ DOMAIN requests = 1..Len(requests)
  BY BasicTypes
<1>00. DOMAIN requests' = 1..Len(requests')
  BY DEF Types
<1>1. ASSUME Kept, rx' = rx \/ rx'.stage \notin {"files", "callback"} PROVE Pages'
  <2>1. ASSUME NEW id \in 1..Len(requests), Alive(id)' PROVE Between(requests'[id])
    BY <1>0, <1>1, <2>1, KeptAlive DEF Pages, Ids
  <2>2. ASSUME rx' = rx, rx.stage = "files", Alive(rx.id)'
        PROVE  Alive(rx.id) /\ requests'[rx.id] = requests[rx.id]
    BY <1>0, <1>1, <2>2, KeptAlive
  <2>3. ASSUME rx' = rx, rx.stage = "callback" PROVE requests'[rx.id] = requests[rx.id]
    BY <1>0, <1>1, <2>3, AliveIs DEF Kept
  <2>4. rx' = rx /\ rx.stage = "files" /\ Alive(rx.id)'
            => Alive(rx.id) /\ requests'[rx.id] = requests[rx.id]
    BY <2>2
  <2>5. \A id \in DOMAIN requests' : Alive(id)' => Between(requests'[id])
    BY <1>0, <1>00, <1>1, <2>1 DEF Kept
  <2> QED
    BY <1>1, <2>3, <2>4, <2>5 DEF Pages, Ids, Between, Complete, Filled
<1>2. CASE Quiet
  BY <1>1, <1>2, KeptSteps DEF Quiet
<1>3. CASE Asking
  <2>1. PICK v \in Viewers, f \in Folders :
            /\ Len(requests') = Len(requests) + 1
            /\ \A id \in 1..Len(requests) : requests'[id] = requests[id]
            /\ requests'[Len(requests) + 1] =
                   [folder |-> f, viewer |-> v, items |-> <<>>, next |-> 0]
            /\ table' = [table EXCEPT ![f] = Len(requests) + 1]
            /\ calling'.folder = f /\ calling'.old = table[f]
            /\ rx' = rx
    BY <1>3, NewRequest
  <2>2. ASSUME NEW id \in 1..(Len(requests) + 1), Alive(id)' PROVE Between(requests'[id])
    <3>1. CASE id = Len(requests) + 1
      BY <2>1, <3>1 DEF Between
    <3>2. CASE id \in 1..Len(requests)
      <4>1. Alive(id)
        BY <1>0, <1>3, <2>2, <3>2, NewAlive DEF NoId
      <4> QED
        BY <1>0, <2>1, <3>2, <4>1 DEF Pages, Ids
    <3> QED
      BY <1>0, <3>1, <3>2
  <2>3. ASSUME rx.stage = "files", Alive(rx.id)' PROVE Alive(rx.id)
    <3>1. table \in [Folders -> 0..Len(requests)]
      BY BasicTypes
    <3> QED
      BY <1>0, <2>1, <2>3, <3>1, AliveIs
  <2>4. rx.stage \in {"files", "callback"} => requests'[rx.id] = requests[rx.id]
    BY <1>0, <2>1
  <2> QED
    BY <1>00, <2>1, <2>2, <2>3, <2>4 DEF Pages, Ids, Between, Complete, Filled
<1>40. CASE RunCached
  BY <1>1, <1>40, KeptSteps DEF RunCached
<1>4. CASE AskDuet
  BY <1>1, <1>4, KeptSteps DEF AskDuet
<1>5. ASSUME NEW i \in DOMAIN wire, Receive(i) PROVE Pages'
  BY <1>1, <1>5, KeptSteps, ReceiveIs
<1>6. ASSUME NEW i \in DOMAIN wire, Lose(i) PROVE Pages'
  BY <1>1, <1>6, KeptSteps DEF Lose
<1>7. CASE SetCurrentDirectory
  BY <1>1, <1>7, KeptSteps DEF SetCurrentDirectory, Receiving, Idle
<1>8. CASE RunCallback
  BY <1>1, <1>8, KeptSteps DEF RunCallback, Receiving, Idle
<1>9. CASE GiveUp
  BY <1>1, <1>9, KeptSteps DEF GiveUp, Cut, IgnoreNext, Idle
<1>10. CASE Disconnect
  BY <1>1, <1>10, KeptSteps DEF Disconnect, Idle
<1>11. CASE Clearing
  BY <1>1, <1>11, KeptSteps DEF Clearing, Reset, RemoveAll
<1>12. ASSUME UNCHANGED <<requests, table, calling>>, rx' = Idle PROVE Pages'
  <2>1. Kept
    BY <1>12 DEF Kept, Idle
  <2> QED
    BY <1>1, <1>12, <2>1 DEF Idle
<1>13. ASSUME table' = table, calling' = calling, Len(requests') = Len(requests),
              rx.id \in 1..Len(requests), rx'.id = rx.id, rx'.folder = rx.folder,
              rx'.first = rx.first,
              \A j \in 1..Len(requests) : j # rx.id => requests'[j] = requests[j],
              Between(requests'[rx.id]),
              rx'.stage = "files" =>
                  /\ requests'[rx.id].next = rx.first
                  /\ rx'.got <= PageLength(rx.folder, rx.first)
                  /\ rx'.field # "type" => Len(requests'[rx.id].items) > 0
                  /\ Covers(Complete(requests[rx.id].items)', rx.folder, rx.first + Filled')
                  /\ Within(requests'[rx.id].items, rx.folder, rx.first + PageSize),
              rx'.stage = "callback" =>
                  LET r == requests'[rx.id] IN
                  /\ Covers(r.items, rx.folder, Listed(rx.folder, r.next))
                  /\ Within(r.items, rx.folder, Listed(rx.folder, r.next))
       PROVE  Pages'
  <2>1. ASSUME NEW id \in 1..Len(requests), Alive(id)' PROVE Between(requests'[id])
    <3>1. CASE id = rx.id
      BY <1>13, <3>1
    <3>2. CASE id # rx.id
      <4>1. Alive(id)
        BY <1>13, <2>1, AliveIs
      <4> QED
        BY <1>0, <1>13, <3>2, <4>1 DEF Pages, Ids
    <3> QED
      BY <3>1, <3>2
  <2>2. \A id \in DOMAIN requests' : Alive(id)' => Between(requests'[id])
    BY <1>00, <1>13, <2>1
  <2>3. requests'[rx'.id] = requests'[rx.id]
    BY <1>13
  <2> QED
    BY <1>13, <2>2, <2>3 DEF Pages, Ids, Between, PageLength, Covers, Within, Listed, Complete
<1>14. CASE SetFirstIndex
  <2> DEFINE r == requests[rx.id]
  <2>1. CASE ~Expected(rx.id, rx.first)
    BY <1>12, <1>14, <2>1 DEF SetFirstIndex, Receiving
  <2>2. CASE Expected(rx.id, rx.first)
    <3> DEFINE items == IF rx.first = 0 THEN <<>> ELSE r.items
    <3>1. /\ rx.stage = "first" /\ rx.id \in 1..Len(requests) /\ rx.got = 0
          /\ requests' = [requests EXCEPT ![rx.id].items = items]
          /\ rx' = [rx EXCEPT !.stage = "files"]
          /\ table' = table /\ calling' = calling
          /\ Alive(rx.id) /\ r.next = rx.first
      BY <1>0, <1>14, <2>2 DEF SetFirstIndex, Receiving, Expected
    <3>2. items \in Seq(PartItems) /\ r.items \in Seq(PartItems) /\ r.next \in Nat
      BY <1>0, <3>1 DEF Request
    <3>3. /\ Len(requests') = Len(requests)
          /\ requests'[rx.id].items = items /\ requests'[rx.id].next = r.next
          /\ requests'[rx.id].folder = r.folder
          /\ \A j \in 1..Len(requests) : j # rx.id => requests'[j] = requests[j]
      BY <3>1, <3>2, ChangedItems
    <3>4. r.folder = rx.folder /\ Between(r)
      BY <1>0, <3>1 DEF OwnFolder, Pages, Ids
    <3>5. Between(requests'[rx.id])
      BY <3>1, <3>3, <3>4 DEF Between
    <3>6. rx.first <= Len(Content[rx.folder]) /\ Covers(items, rx.folder, rx.first)
          /\ Within(items, rx.folder, rx.first + PageSize)
      <4>1. CASE rx.first = 0
        <5>1. Len(items) = 0
          BY <4>1
        <5> QED
          BY <1>0, <4>1, <5>1, ContentIsItems DEF Covers, Within
      <4>2. CASE rx.first # 0
        BY <3>1, <3>4, <4>2 DEF Between, Covers
      <4> QED
        BY <4>1, <4>2
    <3>7. 0 <= PageLength(rx.folder, rx.first)
      BY <1>0, <3>6, PageBounds
    <3>8. rx' \in RxType(Len(requests)) /\ rx'.id = rx.id /\ rx'.folder = rx.folder
          /\ rx'.first = rx.first /\ rx'.stage = "files" /\ rx'.got = 0 /\ rx'.field = "type"
      <4>1. rx \in RxType(Len(requests)) /\ rx' = [rx EXCEPT !.stage = "files"] /\ rx.stage = "first"
        BY <3>1, BasicTypes
      <4>2. rx.got = 0 /\ rx.field = "type"
        BY <4>1, BasicTypes
      <4> QED
        BY ONLY <4>1, <4>2 DEF RxType
    <3> HIDE DEF items
    <3>9. Complete(requests[rx.id].items)' = items /\ Filled' = 0
      BY <3>3, <3>8 DEF Complete, Filled
    <3>10. rx.first + Filled' = rx.first
      BY <1>0, <3>9
    <3> QED
      BY <1>0, <1>13, <3>1, <3>3, <3>5, <3>6, <3>7, <3>8, <3>9, <3>10
  <2> QED
    BY <2>1, <2>2
<1>15. CASE Fill
  <2> DEFINE r == requests[rx.id]
             n == rx.first + Filled
             done == Complete(r.items)
  <2>1. CASE ~Alive(rx.id)
    BY <1>12, <1>15, <2>1, FillFails
  <2>2. CASE Alive(rx.id)
    <3>1. /\ rx.stage = "files" /\ rx.id \in 1..Len(requests)
          /\ Filled \in Nat /\ n + 1 \in 1..Len(Content[rx.folder])
          /\ rx' \in RxType(Len(requests)) /\ rx'.stage = "files" /\ rx'.got = Filled + 1
          /\ rx'.id = rx.id /\ rx'.folder = rx.folder /\ rx'.first = rx.first
          /\ rx.field = "type" => rx.got < PageLength(rx.folder, rx.first)
          /\ table' = table /\ calling' = calling
      BY <1>15, <2>2, FillIs
    <3>2. /\ r.next = rx.first /\ r.folder = rx.folder /\ Between(r)
          /\ rx.got <= PageLength(rx.folder, rx.first)
          /\ rx.field = "type" \/ Len(r.items) > 0
          /\ Covers(done, rx.folder, n) /\ Within(r.items, rx.folder, rx.first + PageSize)
      BY <1>0, <2>2, <3>1 DEF OwnFolder, Pages, Ids
    <3>3. PICK part \in Parts(Content[rx.folder][n + 1]), t \in Seq(PartItems) :
             /\ t = Append(done, part)
             /\ rx'.field = "type" => part = Content[rx.folder][n + 1]
             /\ requests' = [requests EXCEPT ![rx.id].items = t]
      BY <1>15, <2>2, <3>2, FillIs
    <3>4. r.items \in Seq(PartItems) /\ r.next \in Nat
      BY <1>0, <3>1 DEF Request
    <3>5. done \in Seq(PartItems) /\ Within(done, rx.folder, rx.first + PageSize)
      <4>1. CASE rx.field = "type"
        BY <3>2, <3>4, <4>1 DEF Complete
      <4>2. CASE rx.field # "type"
        <5>1. done = Whole(r.items)
          BY <4>2 DEF Complete
        <5>2. PartItems # {} => Whole(r.items) \in Seq(PartItems)
          BY <3>4, LastChanged
        <5>3. part \in PartItems
          <6> HIDE DEF n
          <6>1. Content[rx.folder][n + 1] \in Items
            BY <1>0, <3>1, ContentIsItems
          <6> QED
            BY <6>1, PartsOfItems
        <5> QED
          BY <3>2, <3>4, <5>1, <5>2, <5>3, WithinWhole
      <4> QED
        BY <4>1, <4>2
    <3>6. rx.first + PageSize \in Nat /\ n \in Nat /\ n < Len(Content[rx.folder])
          /\ Filled + 1 <= PageLength(rx.folder, rx.first) /\ n < rx.first + PageSize
          /\ rx.first <= n
      <4>1. rx.got \in Nat /\ rx.first \in Nat /\ Filled \in Nat
        BY <1>0, <3>1
      <4>2. Filled + 1 <= PageLength(rx.folder, rx.first)
        <5>1. rx.first <= Len(Content[rx.folder])
          BY <1>0, <3>1, <4>1, FillRoom
        <5>2. PageLength(rx.folder, rx.first) \in Nat
          BY <1>0, <5>1, PageBounds
        <5>3. Filled = IF rx.field = "type" THEN rx.got ELSE rx.got - 1
          BY DEF Filled
        <5>4. rx.got <= PageLength(rx.folder, rx.first)
              /\ (rx.field = "type" => rx.got < PageLength(rx.folder, rx.first))
          BY <3>1, <3>2
        <5> QED
          BY ONLY <4>1, <5>2, <5>3, <5>4
      <4> QED
        BY <1>0, <3>1, <4>1, <4>2, FillRoom
    <3> HIDE DEF done, n
    <3>7. /\ t \in Seq(PartItems) /\ Whole(t) = done /\ Len(t) > 0
          /\ Covers(t, rx.folder, n)
          /\ rx'.field = "type" => Covers(t, rx.folder, n + 1)
          /\ Within(t, rx.folder, rx.first + PageSize)
      BY <1>0, <3>2, <3>3, <3>5, <3>6, OneMore
    <3>8. /\ Len(requests') = Len(requests)
          /\ requests'[rx.id].items = t /\ requests'[rx.id].next = r.next
          /\ requests'[rx.id].folder = r.folder
          /\ \A j \in 1..Len(requests) : j # rx.id => requests'[j] = requests[j]
      BY <3>1, <3>3, ChangedItems
    <3>9. Covers(t, rx.folder, rx.first)
      BY <1>0, <3>6, <3>7, CoversLess
    <3>10. Between(requests'[rx.id])
      BY <3>2, <3>7, <3>8, <3>9 DEF Between
    <3>11. Complete(requests[rx.id].items)' = IF rx'.field = "type" THEN t ELSE done
      <4>1. Complete(requests[rx.id].items)' =
                IF rx'.field = "type" THEN requests'[rx.id].items ELSE Whole(requests'[rx.id].items)
        BY <3>1 DEF Complete
      <4> QED
        BY <3>7, <3>8, <4>1
    <3>12. rx.first + Filled' = IF rx'.field = "type" THEN n + 1 ELSE n
      <4>1. Filled' = IF rx'.field = "type" THEN rx'.got ELSE rx'.got - 1
        BY DEF Filled
      <4>2. Filled' = IF rx'.field = "type" THEN Filled + 1 ELSE Filled
        BY <3>1, <4>1
      <4> QED
        BY <1>0, <3>1, <4>2 DEF n
    <3>13. Covers(Complete(requests[rx.id].items)', rx.folder, rx.first + Filled')
      <4>1. CASE rx'.field = "type"
        BY <3>7, <3>11, <3>12, <4>1
      <4>2. CASE rx'.field # "type"
        BY <3>2, <3>11, <3>12, <4>2
      <4> QED
        BY <4>1, <4>2
    <3>14. rx'.got <= PageLength(rx.folder, rx.first) /\ requests'[rx.id].next = rx.first
      BY <3>1, <3>2, <3>6, <3>8
    <3> HIDE DEF r
    <3> QED
      BY <1>13, <3>1, <3>7, <3>8, <3>10, <3>13, <3>14
  <2> QED
    BY <2>1, <2>2
<1>16. CASE SetNextIndex
  <2> DEFINE r == requests[rx.id]
             next == NextPage(rx.folder, rx.first)
  <2>1. CASE ~Alive(rx.id)
    BY <1>12, <1>16, <2>1 DEF SetNextIndex, Receiving
  <2>2. CASE Alive(rx.id)
    <3>1. /\ rx.stage = "files" /\ rx.id \in 1..Len(requests)
          /\ rx.got = PageLength(rx.folder, rx.first) /\ rx.field = "type"
          /\ requests' = [requests EXCEPT ![rx.id].next = next]
          /\ rx' = [rx EXCEPT !.stage = "callback"]
          /\ table' = table /\ calling' = calling
      BY <1>0, <1>16, <2>2 DEF SetNextIndex, Receiving
    <3>2. /\ r.next = rx.first /\ r.folder = rx.folder
          /\ Covers(r.items, rx.folder, rx.first + rx.got)
          /\ Within(r.items, rx.folder, rx.first + PageSize)
      BY <2>2, <3>1 DEF OwnFolder, Pages, Complete, Filled
    <3>3. rx.first <= Len(Content[rx.folder])
      BY <1>0, <3>2, ContentIsItems DEF Covers
    <3>4. next \in Nat /\ Listed(rx.folder, next) = rx.first + rx.got
      BY <1>0, <3>1, <3>3, PageBounds
    <3>5. /\ Covers(r.items, rx.folder, Listed(rx.folder, next))
          /\ Within(r.items, rx.folder, Listed(rx.folder, next))
      BY <1>0, <3>2, <3>3, <3>4, PageIsListed
    <3>6. /\ Len(requests') = Len(requests)
          /\ requests'[rx.id].items = r.items /\ requests'[rx.id].next = next
          /\ requests'[rx.id].folder = r.folder
          /\ \A j \in 1..Len(requests) : j # rx.id => requests'[j] = requests[j]
      BY <3>1, <3>4, ChangedNext
    <3>7. rx' \in RxType(Len(requests)) /\ rx'.id = rx.id /\ rx'.folder = rx.folder
          /\ rx'.first = rx.first /\ rx'.stage = "callback"
      BY <1>0, <3>1, <3>6 DEF Types, RxType
    <3>8. next # 0 => Within(r.items, rx.folder, next + PageSize)
      <4>1. next # 0 => Within(r.items, rx.folder, next)
        BY <3>5 DEF Listed
      <4>2. next <= next + PageSize /\ next + PageSize \in Nat
        BY <3>4, PageSizeIsPositive
      <4> QED
        BY <1>0, <3>4, <4>1, <4>2, WithinMore
    <3>9. Between(requests'[rx.id])
      BY <3>2, <3>5, <3>6, <3>8 DEF Between, Listed
    <3> HIDE DEF next
    <3> QED
      BY <1>0, <1>13, <3>1, <3>2, <3>5, <3>6, <3>7, <3>9
  <2> QED
    BY <2>1, <2>2
<1> QED
  BY Steps, <1>2, <1>3, <1>40, <1>4, <1>5, <1>6, <1>7, <1>8, <1>9, <1>10, <1>11, <1>14, <1>15, <1>16

-----------------------------------------------------------------------------
(* Order, and nothing twice.                                               *)

(* A request that replaces the one being answered has had no page, since   *)
(* only the answer being decoded gives a request a page.                   *)
LEMMA FreshStep ==
  ASSUME Types, Fresh, [Next]_vars
  PROVE  Fresh'
<1>0. /\ Len(requests) \in Nat /\ requests \in Seq(Request)
      /\ table \in [Folders -> 0..Len(requests)]
      /\ rx.stage \in {"first", "files", "callback"} => rx.id \in 1..Len(requests)
      /\ rx.folder \in Folders
  BY BasicTypes
<1>1. ASSUME Kept, rx' = rx \/ rx'.stage \notin {"first", "files", "callback"} PROVE Fresh'
  <2>1. ASSUME rx' = rx, table'[rx.folder] # NoId
        PROVE  table'[rx.folder] = table[rx.folder]
               /\ requests'[table[rx.folder]] = requests[table[rx.folder]]
    <3>1. table'[rx.folder] = table[rx.folder] /\ table[rx.folder] \in 1..Len(requests)
      BY <1>0, <1>1, <2>1 DEF Kept, NoId
    <3>2. Alive(table[rx.folder])'
      BY <1>0, <2>1, <3>1, AliveIs
    <3> QED
      BY <1>0, <1>1, <2>1, <3>1, AliveIs DEF Kept
  <2> QED
    BY <1>1, <2>1 DEF Fresh
<1>2. CASE Quiet
  BY <1>1, <1>2, KeptSteps DEF Quiet
<1>3. CASE Asking
  <2>1. PICK v \in Viewers, f \in Folders :
            /\ \A id \in 1..Len(requests) : requests'[id] = requests[id]
            /\ requests'[Len(requests) + 1] =
                   [folder |-> f, viewer |-> v, items |-> <<>>, next |-> 0]
            /\ table' = [table EXCEPT ![f] = Len(requests) + 1]
            /\ rx' = rx
    BY <1>3, NewRequest
  <2> QED
    BY <1>0, <2>1 DEF Fresh, NoId
<1>40. CASE RunCached
  BY <1>1, <1>40, KeptSteps DEF RunCached
<1>4. CASE AskDuet
  BY <1>1, <1>4, KeptSteps DEF AskDuet
<1>5. ASSUME NEW i \in DOMAIN wire, Receive(i) PROVE Fresh'
  BY <1>1, <1>5, KeptSteps, ReceiveIs
<1>6. ASSUME NEW i \in DOMAIN wire, Lose(i) PROVE Fresh'
  BY <1>1, <1>6, KeptSteps DEF Lose
<1>7. CASE SetCurrentDirectory
  <2>1. /\ table' = table
        /\ rx'.stage \in {"first", "files", "callback"} =>
                rx'.folder = rx.folder /\ rx'.id = table[rx.folder]
    BY <1>7, BasicTypes DEF SetCurrentDirectory, Receiving, Idle, Types, RxType
  <2> QED
    BY <2>1 DEF Fresh
<1>8. CASE RunCallback
  BY <1>1, <1>8, KeptSteps DEF RunCallback, Receiving, Idle
<1>9. CASE GiveUp
  BY <1>1, <1>9, KeptSteps DEF GiveUp, Cut, IgnoreNext, Idle
<1>10. CASE Disconnect
  BY <1>1, <1>10, KeptSteps DEF Disconnect, Idle
<1>11. CASE Clearing
  BY <1>1, <1>11, KeptSteps DEF Clearing, Reset, RemoveAll
<1>12. CASE SetFirstIndex \/ Fill \/ SetNextIndex
  <2>1. table' = table /\ rx.stage \in {"first", "files"}
    BY <1>12 DEF SetFirstIndex, Fill, SetType, SetName, SetKey, SetLast, SetNextIndex, Receiving
  <2>2. rx' = Idle \/ (rx'.folder = rx.folder /\ rx'.id = rx.id)
    <3>1. CASE Fill
      BY <3>1, FillIs, FillFails
    <3>2. CASE SetFirstIndex \/ SetNextIndex
      BY <3>2 DEF SetFirstIndex, SetNextIndex, Receiving, Types, RxType
    <3> QED
      BY <1>12, <3>1, <3>2
  <2>3. \A id \in 1..Len(requests) : id # rx.id => requests'[id] = requests[id]
    <3>1. requests' = requests
          \/ (\E x : requests' = [requests EXCEPT ![rx.id].items = x])
          \/ (\E x : requests' = [requests EXCEPT ![rx.id].next = x])
      BY <1>12, FillIs, FillFails DEF SetFirstIndex, SetNextIndex
    <3>2. ASSUME NEW x, requests' = [requests EXCEPT ![rx.id].items = x], NEW id \in 1..Len(requests),
                 id # rx.id
          PROVE  requests'[id] = requests[id]
      BY <1>0, <3>2
    <3>3. ASSUME NEW x, requests' = [requests EXCEPT ![rx.id].next = x], NEW id \in 1..Len(requests),
                 id # rx.id
          PROVE  requests'[id] = requests[id]
      BY <1>0, <3>3
    <3> QED
      BY <3>1, <3>2, <3>3
  <2>4. Idle.stage = "idle"
    BY DEF Idle
  <2> QED
    BY <1>0, <2>1, <2>2, <2>3, <2>4 DEF Fresh, NoId
<1> QED
  BY Steps, <1>2, <1>3, <1>40, <1>4, <1>5, <1>6, <1>7, <1>8, <1>9, <1>10, <1>11, <1>12

(* Unless answers are cut, every step keeps the lists in order and without *)
(* repetitions: a page that is asked for continues its list.               *)
LEMMA ExactStep ==
  ASSUME ListInv, Types', OwnFolder', Fresh, Exact, "cut" \notin world.faults, [Next]_vars
  PROVE  Exact'
<1>0. /\ Len(requests) \in Nat /\ requests \in Seq(Request)
      /\ \A id \in 1..Len(requests) : requests[id] \in Request
      /\ table \in [Folders -> 0..Len(requests)]
      /\ rx.stage \in {"first", "files", "callback"} => rx.id \in 1..Len(requests)
      /\ rx.folder \in Folders /\ rx.first \in Nat /\ rx.got \in Nat
      /\ rx.stage = "first" => rx.got = 0
      /\ wire \in Seq(Question)
  BY BasicTypes DEF ListInv
<1>00. Types /\ OwnFolder /\ Pages
  BY DEF ListInv
<1> DEFINE Page(f) == LET r == requests[table[f]] IN
                      r.next # 0 /\ Wanted(f, r.next) => StartOf(r.items, f, r.next)
           Spared(f) == rx.stage = "files" /\ rx.id = table[f]
           Begun == rx.stage = "first" /\ Alive(rx.id) =>
                        LET r == requests[rx.id] IN
                        rx.first # 0 /\ r.next = rx.first => StartOf(r.items, rx.folder, rx.first)
           Going == rx.stage = "files" /\ Alive(rx.id) =>
                        StartOf(Complete(requests[rx.id].items), rx.folder, rx.first + Filled)
           Ended == rx.stage = "callback" =>
                        LET r == requests[rx.id] IN
                        StartOf(r.items, rx.folder, Listed(rx.folder, r.next))
<1>1. Exact <=> (\A f \in Folders : table[f] # NoId /\ ~Spared(f) => Page(f)) /\ Begun /\ Going /\ Ended
  BY DEF Exact
<1>2. Exact' <=> /\ \A f \in Folders : table'[f] # NoId /\ ~Spared(f)' => Page(f)'
                 /\ Begun' /\ Going' /\ Ended'
  BY DEF Exact
(* Nothing changes for what is being answered.                             *)
<1>3. ASSUME Kept, rx' = rx \/ rx'.stage \notin {"first", "files", "callback"}
      PROVE  Begun' /\ Going' /\ Ended'
  <2>1. ASSUME rx' = rx, rx.stage \in {"first", "files"}, Alive(rx.id)'
        PROVE  Alive(rx.id) /\ requests'[rx.id] = requests[rx.id]
    BY <1>0, <1>3, <2>1, KeptAlive
  <2>2. ASSUME rx' = rx, rx.stage = "callback" PROVE requests'[rx.id] = requests[rx.id]
    BY <1>0, <1>3, <2>2, AliveIs DEF Kept
  <2>3. rx' = rx /\ rx.stage \in {"first", "files"} /\ Alive(rx.id)'
            => Alive(rx.id) /\ requests'[rx.id] = requests[rx.id]
    BY <2>1
  <2>4. Begun'
    BY <1>1, <1>3, <2>3 DEF StartOf
  <2>5. Going'
    BY <1>1, <1>3, <2>3 DEF StartOf, Complete, Filled
  <2>6. Ended'
    BY <1>1, <1>3, <2>2 DEF StartOf, Listed
  <2> QED
    BY <2>4, <2>5, <2>6
(* Nor for the folders that are not asked for anew.                        *)
<1>4. ASSUME Kept, NEW f \in Folders, table'[f] # NoId, ~Spared(f),
             \A n \in Nat : n # 0 /\ Wanted(f, n)' => Wanted(f, n)
      PROVE  Page(f)'
  <2>1. table'[f] = table[f] /\ table[f] \in 1..Len(requests)
    BY <1>0, <1>4 DEF Kept, NoId
  <2>2. Alive(table[f])'
    BY <2>1, AliveIs
  <2>3. requests'[table[f]] = requests[table[f]]
    BY <1>4, <2>1, AliveIs DEF Kept
  <2>4. requests[table[f]].next \in Nat
    BY <1>0, <2>1 DEF Request
  <2> QED
    BY <1>1, <1>4, <2>1, <2>3, <2>4 DEF StartOf
(* A step that asks for nothing.                                           *)
<1>5. ASSUME Kept, \/ rx' = rx
                   \/ rx.stage # "files" /\ rx'.stage \notin {"first", "files", "callback"},
             \A f \in Folders, n \in Nat : n # 0 /\ Wanted(f, n)' => Wanted(f, n)
      PROVE  Exact'
  <2>1. ASSUME NEW f \in Folders, table'[f] # NoId, ~Spared(f)' PROVE Page(f)'
    <3>1. table'[f] = table[f]
      BY <1>5, <2>1 DEF Kept
    <3>2. ~Spared(f)
      BY <1>5, <2>1, <3>1
    <3> QED
      BY <1>4, <1>5, <2>1, <3>2
  <2>2. Begun' /\ Going' /\ Ended'
    BY <1>3, <1>5
  <2> QED
    BY <1>2, <2>1, <2>2
<1>6. CASE Quiet
  <2>1. Kept /\ rx' = rx /\ wire' = wire
    BY <1>00, <1>6, KeptSteps DEF Quiet
  <2> QED
    BY <1>5, <2>1 DEF Wanted
<1>70. CASE RunCached
  <2>1. Kept /\ rx' = rx /\ wire' = wire
    BY <1>00, <1>70, KeptSteps DEF RunCached
  <2> QED
    BY <1>5, <2>1 DEF Wanted
<1>7. CASE AskDuet
  <2>1. Kept /\ rx' = rx /\ wire' = Asked(calling.folder, 0)
    BY <1>00, <1>7, KeptSteps DEF AskDuet
  <2>2. calling.folder \in Folders
    BY <1>00 DEF Types, CallType
  <2>3. ASSUME NEW f \in Folders, NEW n \in Nat, n # 0, Wanted(f, n)' PROVE Wanted(f, n)
    <3>1. ASSUME NEW j \in 1..Len(wire'), wire'[j].folder = f, wire'[j].first = n
          PROVE  \E k \in 1..Len(wire) : wire[k].folder = f /\ wire[k].first = n
      <4>1. \E k \in 1..Len(wire) : wire'[j] = wire[k]
        BY <1>0, <2>1, <2>2, <2>3, <3>1, AskedQuestions
      <4> QED
        BY <3>1, <4>1
    <3> QED
      BY <2>1, <2>3, <3>1 DEF Wanted
  <2> QED
    BY <1>5, <2>1, <2>3
<1>8. ASSUME NEW i \in DOMAIN wire, Receive(i) \/ Lose(i) PROVE Exact'
  <2>0. Kept
    BY <1>00, <1>8, KeptSteps
  <2>1. Kept /\ i \in 1..Len(wire) /\ wire' = RemoveAt(wire, i)
    BY <1>0, <1>8, <2>0 DEF Receive, Lose
  <2>2. \A j \in 1..Len(wire') : \E k \in 1..Len(wire) : wire'[j] = wire[k]
    BY <1>0, <2>1, RemoveAtKeeps
  <2>3. \/ rx' = rx
        \/ /\ rx.stage = "idle" /\ rx'.stage = "dir"
           /\ rx'.folder = wire[i].folder /\ rx'.first = wire[i].first
    BY <1>8 DEF Receive, Lose, Receiving, Idle
  <2>4. ASSUME NEW f \in Folders, NEW n \in Nat, n # 0, Wanted(f, n)' PROVE Wanted(f, n)
    BY <2>1, <2>2, <2>3, <2>4 DEF Wanted
  <2> QED
    BY <1>5, <2>1, <2>3, <2>4
<1>9. CASE SetCurrentDirectory
  <2>1. /\ Kept /\ rx.stage = "dir" /\ requests' = requests /\ wire' = wire /\ table' = table
        /\ calling' = calling
        /\ \/ rx' = Idle
           \/ rx' = [rx EXCEPT !.stage = "first", !.id = table[rx.folder]]
              /\ table[rx.folder] # NoId
    BY <1>00, <1>9, KeptSteps DEF SetCurrentDirectory, Receiving
  <2>2. rx'.stage \in {"idle", "first"}
        /\ (rx'.stage = "first" => /\ rx'.id = table[rx.folder] /\ table[rx.folder] # NoId
                                   /\ rx'.folder = rx.folder /\ rx'.first = rx.first)
    <3>0. rx \in RxType(Len(requests))
      BY <1>00 DEF Types
    <3>1. CASE rx' = Idle
      BY <3>1 DEF Idle
    <3>2. CASE rx' = [rx EXCEPT !.stage = "first", !.id = table[rx.folder]]
               /\ table[rx.folder] # NoId
      BY <3>0, <3>2 DEF RxType
    <3> QED
      BY <2>1, <3>1, <3>2
  <2>3. ASSUME NEW f \in Folders, NEW n \in Nat, n # 0, Wanted(f, n)' PROVE Wanted(f, n)
    BY <2>1, <2>2, <2>3 DEF Wanted
  <2>4. ASSUME NEW f \in Folders, table'[f] # NoId PROVE Page(f)'
    BY <1>4, <2>1, <2>3, <2>4
  <2>5. ASSUME rx'.stage = "first", rx.first # 0, requests[table[rx.folder]].next = rx.first
        PROVE  StartOf(requests[table[rx.folder]].items, rx.folder, rx.first)
    <3>1. Wanted(rx.folder, rx.first)
      BY <2>1 DEF Wanted
    <3>2. Page(rx.folder)
      BY <1>0, <1>1, <2>1, <2>2, <2>5
    <3> QED
      BY <2>5, <3>1, <3>2
  <2>6. Begun'
    BY <2>1, <2>2, <2>5 DEF StartOf
  <2> QED
    BY <1>2, <2>2, <2>4, <2>6
<1>10. CASE Disconnect
  <2>1. Kept /\ rx' = Idle /\ wire' = <<>>
    BY <1>00, <1>10, KeptSteps DEF Disconnect
  <2>2. rx'.stage = "idle"
    BY <2>1 DEF Idle
  <2>3. ASSUME NEW f \in Folders, NEW n \in Nat PROVE ~Wanted(f, n)'
    BY <2>1, <2>2 DEF Wanted
  <2>4. ASSUME NEW f \in Folders, table'[f] # NoId PROVE Page(f)'
    <3>1. table'[f] \in 1..Len(requests') /\ requests' \in Seq(Request)
      BY <2>4, BasicTypes DEF Types, NoId
    <3>2. requests'[table'[f]] \in Request
      BY <3>1
    <3>3. requests'[table'[f]].next \in Nat
      BY <3>2 DEF Request
    <3> QED
      BY <2>3, <3>3
  <2> QED
    BY <1>2, <2>2, <2>4
<1>11. CASE Clearing
  <2>1. Kept /\ rx' = rx /\ wire' = wire
    BY <1>00, <1>11, KeptSteps DEF Clearing, Reset, RemoveAll
  <2> QED
    BY <1>5, <2>1 DEF Wanted
<1>12. CASE GiveUp
  BY <1>12 DEF GiveUp, Cut, IgnoreNext, Fault
<1>13. CASE Asking
  <2>1. PICK v \in Viewers, f \in Folders :
            /\ \A id \in 1..Len(requests) : requests'[id] = requests[id]
            /\ requests'[Len(requests) + 1] =
                   [folder |-> f, viewer |-> v, items |-> <<>>, next |-> 0]
            /\ table' = [table EXCEPT ![f] = Len(requests) + 1]
            /\ calling'.folder = f /\ calling'.old = table[f]
            /\ wire' = wire /\ rx' = rx
    BY <1>00, <1>13, NewRequest
  <2>2. ASSUME NEW g \in Folders, table'[g] # NoId, ~Spared(g)' PROVE Page(g)'
    <3>1. CASE g = f
      BY <1>0, <2>1, <3>1
    <3>2. CASE g # f
      <4>1. table'[g] = table[g] /\ table[g] \in 1..Len(requests)
        BY <1>0, <2>1, <2>2, <3>2 DEF NoId
      <4>2. requests'[table'[g]] = requests[table[g]]
        BY <2>1, <4>1
      <4>3. Page(g)
        BY <1>1, <2>1, <2>2, <4>1
      <4> QED
        BY <2>1, <4>1, <4>2, <4>3 DEF Wanted, StartOf
    <3> QED
      BY <3>1, <3>2
  <2>3. rx.stage \in {"first", "files", "callback"} => requests'[rx.id] = requests[rx.id]
    BY <1>0, <2>1
  <2>4. ASSUME rx.stage \in {"first", "files"}, Alive(rx.id)' PROVE Alive(rx.id)
    BY <1>0, <2>1, <2>4, AliveIs
  <2>6. Begun'
    BY <1>1, <2>1, <2>3, <2>4 DEF StartOf
  <2>7. Going'
    BY <1>1, <2>1, <2>3, <2>4 DEF StartOf, Complete, Filled
  <2>8. Ended'
    BY <1>1, <2>1, <2>3 DEF StartOf, Listed
  <2> QED
    BY <1>2, <2>2, <2>6, <2>7, <2>8
(* The answer is given up: no request changes.                             *)
<1>14. ASSUME UNCHANGED <<requests, table, calling, wire>>, rx' = Idle,
              rx.stage = "first" \/ ~Alive(rx.id)
       PROVE  Exact'
  <2>1. Kept /\ rx'.stage = "idle"
    BY <1>14 DEF Kept, Idle
  <2>2. ASSUME NEW f \in Folders, table'[f] # NoId PROVE Page(f)'
    <3>1. ~Spared(f)
      BY <1>14, AliveIs
    <3>2. ASSUME NEW n \in Nat, n # 0, Wanted(f, n)' PROVE Wanted(f, n)
      BY <1>14, <2>1, <3>2 DEF Wanted
    <3> QED
      BY <1>4, <2>1, <2>2, <3>1, <3>2
  <2> QED
    BY <1>2, <2>1, <2>2
(* The request that is being answered changes, and no other.               *)
<1>15. ASSUME table' = table, calling' = calling, wire' = wire, Alive(rx.id),
              rx.id \in 1..Len(requests), rx.stage \in {"first", "files"},
              rx'.id = rx.id, rx'.folder = rx.folder, rx'.first = rx.first,
              rx'.stage \in {"files", "callback"},
              \A j \in 1..Len(requests) : j # rx.id => requests'[j] = requests[j],
              rx'.stage = "files" =>
                  StartOf(Complete(requests[rx.id].items)', rx.folder, rx.first + Filled'),
              rx'.stage = "callback" =>
                  StartOf(requests'[rx.id].items, rx.folder,
                          Listed(rx.folder, requests'[rx.id].next))
       PROVE  Exact'
  <2>1. ASSUME NEW f \in Folders, table'[f] # NoId, ~Spared(f)' PROVE Page(f)'
    <3>1. table[f] \in 1..Len(requests) /\ table'[f] = table[f]
      BY <1>0, <1>15, <2>1 DEF NoId
    <3>2. CASE table[f] = rx.id
      <4>1. rx'.stage = "callback"
        BY <1>15, <2>1, <3>1, <3>2
      <4>2. f = rx.folder
        BY <1>00, <1>15, <3>1, <3>2 DEF OwnFolder, NoId
      <4> QED
        BY <1>15, <3>1, <3>2, <4>1, <4>2 DEF Listed, StartOf
    <3>3. CASE table[f] # rx.id
      <4>1. requests'[table'[f]] = requests[table[f]]
        BY <1>15, <3>1, <3>3
      <4>2. Page(f)
        BY <1>1, <2>1, <3>1, <3>3
      <4>3. \A n : Wanted(f, n)' => Wanted(f, n)
        BY <1>15 DEF Wanted
      <4> QED
        BY <3>1, <4>1, <4>2, <4>3 DEF StartOf
    <3> QED
      BY <3>2, <3>3
  <2>2. requests'[rx'.id] = requests'[rx.id]
    BY <1>15
  <2>3. Begun' /\ Going' /\ Ended'
    BY <1>15, <2>2 DEF StartOf, Listed, Complete
  <2> QED
    BY <1>2, <2>1, <2>3
<1>16. CASE SetFirstIndex
  <2> DEFINE r == requests[rx.id]
  <2>1. CASE ~Expected(rx.id, rx.first)
    BY <1>14, <1>16, <2>1 DEF SetFirstIndex, Receiving
  <2>2. CASE Expected(rx.id, rx.first)
    <3> DEFINE items == IF rx.first = 0 THEN <<>> ELSE r.items
    <3>1. /\ rx.stage = "first" /\ rx.id \in 1..Len(requests) /\ rx.got = 0
          /\ requests' = [requests EXCEPT ![rx.id].items = items]
          /\ rx' = [rx EXCEPT !.stage = "files"]
          /\ table' = table /\ calling' = calling /\ wire' = wire
          /\ Alive(rx.id) /\ r.next = rx.first
      BY <1>0, <1>16, <2>2 DEF SetFirstIndex, Receiving, Expected
    <3>2. r \in Request
      BY <1>0, <3>1
    <3>3. items \in Seq(PartItems)
      BY <3>2 DEF Request
    <3>4. /\ requests'[rx.id].items = items
          /\ \A j \in 1..Len(requests) : j # rx.id => requests'[j] = requests[j]
      BY <1>00, <3>1, <3>3, ChangedItems
    <3>5. rx \in RxType(Len(requests))
      BY <1>00 DEF Types
    <3>6. rx'.id = rx.id /\ rx'.folder = rx.folder /\ rx'.first = rx.first
          /\ rx'.stage = "files" /\ rx'.got = 0 /\ rx'.field = "type"
      <4>1. rx.field = "type"
        BY <1>00, <3>1, BasicTypes
      <4> QED
        BY ONLY <3>1, <3>5, <4>1 DEF RxType
    <3>7. StartOf(items, rx.folder, rx.first)
      <4>1. CASE rx.first = 0
        BY <1>0, <4>1, ContentIsItems DEF StartOf
      <4>2. CASE rx.first # 0
        BY <1>1, <3>1, <4>2
      <4> QED
        BY <4>1, <4>2
    <3> HIDE DEF items
    <3>8. Complete(requests[rx.id].items)' = items /\ rx.first + Filled' = rx.first
      <4>1. Filled' = 0
        BY <3>6 DEF Filled
      <4> QED
        BY <1>0, <3>4, <3>6, <4>1 DEF Complete
    <3> QED
      BY <1>15, <3>1, <3>4, <3>6, <3>7, <3>8
  <2> QED
    BY <2>1, <2>2
<1>17. CASE Fill
  <2> DEFINE r == requests[rx.id]
             n == rx.first + Filled
             done == Complete(r.items)
  <2>1. CASE ~Alive(rx.id)
    BY <1>14, <1>17, <2>1, FillFails
  <2>2. CASE Alive(rx.id)
    <3>1. /\ rx.stage = "files" /\ rx.id \in 1..Len(requests)
          /\ Filled \in Nat /\ n + 1 \in 1..Len(Content[rx.folder])
          /\ rx'.stage = "files" /\ rx'.got = Filled + 1
          /\ rx'.id = rx.id /\ rx'.folder = rx.folder /\ rx'.first = rx.first
          /\ table' = table /\ calling' = calling /\ wire' = wire
      BY <1>00, <1>17, <2>2, FillIs
    <3>2. rx.field = "type" \/ Len(r.items) > 0
      BY <1>00, <2>2, <3>1 DEF Pages
    <3>3. PICK part \in Parts(Content[rx.folder][n + 1]), t \in Seq(PartItems) :
             /\ t = Append(done, part)
             /\ rx'.field = "type" => part = Content[rx.folder][n + 1]
             /\ requests' = [requests EXCEPT ![rx.id].items = t]
      BY <1>00, <1>17, <2>2, <3>2, FillIs
    <3>4. StartOf(done, rx.folder, n)
      BY <1>1, <2>2, <3>1
    <3>5. n \in Nat /\ n < Len(Content[rx.folder]) /\ n + 1 \in Nat /\ n < n + 1
      <4>1. n \in Nat /\ n < Len(Content[rx.folder])
        BY <1>0, <3>1, FillRoom
      <4> HIDE DEF n
      <4> QED
        BY ONLY <4>1
    <3>6. done \in Seq(PartItems)
      <4>1. r \in Request
        BY <1>0, <3>1
      <4>2. r.items \in Seq(PartItems)
        BY <4>1 DEF Request
      <4> QED
        BY <4>2 DEF Complete, Whole
    <3> HIDE DEF done, n
    <3>7. Whole(t) = done /\ (rx'.field = "type" => StartOf(t, rx.folder, n + 1))
      BY <1>0, <3>3, <3>4, <3>5, <3>6, OneMore
    <3>8. /\ requests'[rx.id].items = t
          /\ \A j \in 1..Len(requests) : j # rx.id => requests'[j] = requests[j]
      BY <1>00, <3>1, <3>3, ChangedItems
    <3>9. Complete(requests[rx.id].items)' = IF rx'.field = "type" THEN t ELSE done
      <4>1. Complete(requests[rx.id].items)' =
                IF rx'.field = "type" THEN requests'[rx.id].items ELSE Whole(requests'[rx.id].items)
        BY <3>1 DEF Complete
      <4> QED
        BY <3>7, <3>8, <4>1
    <3>10. rx.first + Filled' = IF rx'.field = "type" THEN n + 1 ELSE n
      <4>1. Filled' = IF rx'.field = "type" THEN rx'.got ELSE rx'.got - 1
        BY DEF Filled
      <4>2. Filled' = IF rx'.field = "type" THEN Filled + 1 ELSE Filled
        BY <3>1, <4>1
      <4>3. PICK a \in Nat, b \in Nat : a = rx.first /\ b = Filled
        BY <1>0, <3>1
      <4>4. n = a + b /\ Filled' = IF rx'.field = "type" THEN b + 1 ELSE b
        BY <4>2, <4>3 DEF n
      <4>5. a + (b + 1) = a + b + 1
        OBVIOUS
      <4> QED
        BY <4>3, <4>4, <4>5
    <3>11. StartOf(Complete(requests[rx.id].items)', rx.folder, rx.first + Filled')
      <4>1. CASE rx'.field = "type"
        BY <3>7, <3>9, <3>10, <4>1
      <4>2. CASE rx'.field # "type"
        BY <3>4, <3>9, <3>10, <4>2
      <4> QED
        BY <4>1, <4>2
    <3> HIDE DEF r
    <3> QED
      BY <1>15, <2>2, <3>1, <3>8, <3>11
  <2> QED
    BY <2>1, <2>2
<1>18. CASE SetNextIndex
  <2> DEFINE r == requests[rx.id]
             next == NextPage(rx.folder, rx.first)
  <2>1. CASE ~Alive(rx.id)
    BY <1>14, <1>18, <2>1 DEF SetNextIndex, Receiving
  <2>2. CASE Alive(rx.id)
    <3>1. /\ rx.stage = "files" /\ rx.id \in 1..Len(requests)
          /\ rx.got = PageLength(rx.folder, rx.first) /\ rx.field = "type"
          /\ requests' = [requests EXCEPT ![rx.id].next = next]
          /\ rx' = [rx EXCEPT !.stage = "callback"]
          /\ table' = table /\ calling' = calling /\ wire' = wire
      BY <1>0, <1>18, <2>2 DEF SetNextIndex, Receiving
    <3>2. StartOf(r.items, rx.folder, rx.first + rx.got)
      BY <1>1, <2>2, <3>1 DEF Complete, Filled
    <3>3. rx.first <= Len(Content[rx.folder])
      BY <1>0, <3>2, ContentIsItems DEF StartOf
    <3>4. next \in Nat /\ Listed(rx.folder, next) = rx.first + rx.got
      BY <1>0, <3>1, <3>3, PageBounds
    <3> HIDE DEF next
    <3>5. /\ requests'[rx.id].items = r.items /\ requests'[rx.id].next = next
          /\ \A j \in 1..Len(requests) : j # rx.id => requests'[j] = requests[j]
      BY <1>00, <3>1, <3>4, ChangedNext
    <3>6. rx \in RxType(Len(requests))
      BY <1>00 DEF Types
    <3>7. rx'.id = rx.id /\ rx'.folder = rx.folder /\ rx'.first = rx.first
          /\ rx'.stage = "callback"
      BY <3>1, <3>6 DEF RxType
    <3> QED
      BY <1>15, <2>2, <3>1, <3>2, <3>4, <3>5, <3>7
  <2> QED
    BY <2>1, <2>2
<1>19. CASE RunCallback
  <2> DEFINE r == requests[rx.id]
  <2>1. Kept
    BY <1>00, <1>19, KeptSteps
  <2>2. /\ rx.stage = "callback" /\ rx' = Idle /\ rx'.stage = "idle" /\ table' = table
        /\ wire' = wire \/ (r.next # 0 /\ wire' = Asked(r.folder, r.next))
    BY <1>19 DEF RunCallback, Receiving, Idle
  <2>3. rx.id \in 1..Len(requests) /\ r.folder = rx.folder
    BY <1>0, <1>00, <2>2 DEF OwnFolder
  <2>4. r \in Request
    BY <1>0, <2>3
  <2>5. r.next \in Nat
    BY <2>4 DEF Request
  <2>6. ASSUME NEW f \in Folders, NEW n \in Nat, n # 0, Wanted(f, n)', ~Wanted(f, n)
        PROVE  f = rx.folder /\ n = r.next
    <3>1. PICK j \in 1..Len(wire') : wire'[j].folder = f /\ wire'[j].first = n
      BY <2>2, <2>6 DEF Wanted
    <3>2. CASE wire' = wire
      BY <2>6, <3>1, <3>2 DEF Wanted
    <3>3. CASE wire' = Asked(r.folder, r.next)
      <4>1. \/ wire'[j].folder = rx.folder /\ wire'[j].first = r.next
            \/ \E k \in 1..Len(wire) : wire'[j] = wire[k]
        BY <1>0, <2>3, <2>5, <3>1, <3>3, AskedQuestions
      <4> QED
        BY <2>6, <3>1, <4>1 DEF Wanted
    <3> QED
      BY <2>2, <3>2, <3>3
  <2>7. ASSUME NEW f \in Folders, table'[f] # NoId PROVE Page(f)'
    <3>1. table'[f] = table[f] /\ table[f] \in 1..Len(requests)
      BY <1>0, <2>2, <2>7 DEF NoId
    <3>2. Alive(table[f])'
      BY <3>1, AliveIs
    <3>3. requests'[table'[f]] = requests[table[f]]
      BY <2>1, <3>1, <3>2, KeptAlive
    <3>4. requests[table[f]] \in Request
      BY <1>0, <3>1
    <3>5. requests[table[f]].next \in Nat
      BY <3>4 DEF Request
    <3>6. PICK n \in Nat : n = requests[table[f]].next
      BY <3>5
    <3>7. ASSUME n # 0, Wanted(f, n)' PROVE StartOf(requests[table[f]].items, f, n)
      <4>1. CASE Wanted(f, n)
        BY <1>1, <2>2, <2>7, <3>1, <3>6, <3>7, <4>1
      <4>2. CASE ~Wanted(f, n)
        <5>1. f = rx.folder /\ n = r.next
          BY <2>6, <3>7, <4>2
        <5>2. table[f] = rx.id
          BY <2>2, <2>7, <3>1, <3>6, <3>7, <5>1 DEF Fresh
        <5> QED
          BY <1>1, <2>2, <3>7, <5>1, <5>2 DEF Listed
      <4> QED
        BY <4>1, <4>2
    <3>8. requests'[table'[f]].next = n
      BY <3>3, <3>6
    <3> QED
      BY <3>3, <3>7, <3>8 DEF StartOf
  <2> QED
    BY <1>2, <2>2, <2>7
<1> QED
  BY Steps, <1>00, <1>6, <1>70, <1>7, <1>8, <1>9, <1>10, <1>11, <1>12, <1>13, <1>16, <1>17, <1>18, <1>19

-----------------------------------------------------------------------------
(* SortFilesBy: what its folds compute, and that it sorts.                 *)

(* A set of numbers that no number enters first is empty. *)
LEMMA NoFirst ==
  ASSUME NEW n \in Nat, NEW S, S \subseteq 0..n, 0 \notin S,
         \A i \in 1..n : i - 1 \notin S => i \notin S
  PROVE  S = {}
<1> SUFFICES ASSUME S # {} PROVE FALSE
  OBVIOUS
<1>1. S \subseteq Nat
  OBVIOUS
<1>2. PICK k \in S : \A j \in S : ~(<<j, k>> \in OpToRel(<, Nat))
  BY <1>1, NatLessThanWellFounded, WFMin
<1>3. OpToRel(<, Nat) = {p \in Nat \X Nat : p[1] < p[2]}
  BY DEF OpToRel
<1>4. k \in 1..n /\ k - 1 \in Nat
  BY <1>1
<1>5. k - 1 \notin S
  <2> SUFFICES ASSUME k - 1 \in S PROVE FALSE
    OBVIOUS
  <2>1. ~(<<k - 1, k>> \in OpToRel(<, Nat))
    BY <1>2
  <2>2. k - 1 < k /\ k \in Nat
    BY <1>4
  <2> QED
    BY <1>3, <1>4, <2>1, <2>2
<1> QED
  BY <1>4, <1>5

(* The greatest of some numbers up to n.                                   *)
LEMMA MaxUpTo ==
  ASSUME NEW n \in Nat, NEW s \in SUBSET (1..n), s # {}
  PROVE  Max(s) \in s /\ \A y \in s : Max(s) >= y
<1> DEFINE C == {m \in 0..n : /\ ~\E x \in s : x <= m /\ \A y \in s : y <= m => x >= y
                             /\ \E y \in s : y <= m}
<1>1. C \subseteq 0..n /\ 0 \notin C
  OBVIOUS
<1>2. ASSUME NEW i \in 1..n, i - 1 \notin C PROVE i \notin C
  <2> SUFFICES ASSUME NEW y \in s, y <= i
               PROVE  \E x \in s : x <= i /\ \A z \in s : z <= i => x >= z
    OBVIOUS
  <2>1. CASE i \in s
    BY <2>1
  <2>2. CASE i \notin s
    <3>1. \A z \in s : z <= i => z <= i - 1
      BY <2>2
    <3>2. i - 1 \in 0..n /\ y <= i - 1
      BY <3>1
    <3>3. PICK x \in s : x <= i - 1 /\ \A z \in s : z <= i - 1 => x >= z
      BY <1>2, <3>2
    <3>4. x \in Nat
      OBVIOUS
    <3> QED
      BY <3>1, <3>3, <3>4
  <2> QED
    BY <2>1, <2>2
<1> HIDE DEF C
<1>3. C = {}
  BY <1>1, <1>2, NoFirst
<1>4. \A y \in s : y <= n
  OBVIOUS
<1>5. ~(n \in 0..n /\ (~\E x \in s : x <= n /\ \A y \in s : y <= n => x >= y)
         /\ \E y \in s : y <= n)
  BY <1>3 DEF C
<1>6. \E x \in s : \A y \in s : x >= y
  <2>1. PICK y \in s : TRUE
    OBVIOUS
  <2>2. PICK x \in s : x <= n /\ \A z \in s : z <= n => x >= z
    BY <1>4, <1>5, <2>1
  <2> QED
    BY <1>4, <2>2
<1> QED
  BY <1>6 DEF Max

(* What FoldLeft computes with: a value for each set of indices.           *)
Folding(h, n, b, G) ==
    h = [s \in SUBSET (1..n) |-> IF s = {} THEN b ELSE G[<<Max(s), h[s \ {Max(s)}]>>]]

(* There is such a function, whatever is folded.                           *)
LEMMA FoldingExists ==
  ASSUME NEW S, NEW n \in Nat, NEW b \in S, NEW G \in [(1..n) \X S -> S]
  PROVE  \E h \in [SUBSET (1..n) -> S] : Folding(h, n, b, G)
<1> DEFINE Up(m, h) == /\ h \in [SUBSET (1..m) -> S]
                       /\ Folding(h, m, b, G)
           Bad == {m \in 0..n : ~\E h : Up(m, h)}
<1>1. 0 \notin Bad
  <2> DEFINE h == [s \in SUBSET (1..0) |-> b]
  <2>1. 1..0 = {} /\ SUBSET (1..0) = {{}}
    OBVIOUS
  <2>2. Up(0, h)
    BY <2>1 DEF Folding
  <2> QED
    BY <2>2
<1>2. ASSUME NEW m \in 1..n, m - 1 \notin Bad PROVE m \notin Bad
  <2>1. m - 1 \in 0..n
    OBVIOUS
  <2>2. PICK g : Up(m - 1, g)
    BY <1>2, <2>1
  <2> DEFINE h == [s \in SUBSET (1..m) |-> IF m \in s THEN G[<<m, g[s \ {m}]>>] ELSE g[s]]
  <2>3. g \in [SUBSET (1..(m - 1)) -> S]
        /\ \A s \in SUBSET (1..(m - 1)) : g[s] = IF s = {} THEN b ELSE G[<<Max(s), g[s \ {Max(s)}]>>]
    BY <2>2 DEF Folding
  <2>4. ASSUME NEW s \in SUBSET (1..m)
        PROVE  /\ h[s] \in S
               /\ h[s] = IF s = {} THEN b ELSE G[<<Max(s), h[s \ {Max(s)}]>>]
    <3>1. CASE m \in s
      <4>1. Max(s) = m
        <5>1. s # {} /\ m \in Nat
          BY <3>1
        <5>2. Max(s) \in s /\ Max(s) >= m
          BY <3>1, <5>1, MaxUpTo
        <5>3. \A x \in 1..m : x >= m => x = m
          OBVIOUS
        <5> HIDE DEF h, Bad
        <5> QED
          BY <5>2, <5>3
      <4>2. s \ {m} \in SUBSET (1..(m - 1)) /\ s \ {m} \in SUBSET (1..m)
        OBVIOUS
      <4>3. h[s \ {m}] = g[s \ {m}]
        BY <4>2
      <4>4. h[s] = G[<<m, g[s \ {m}]>>]
        BY <3>1
      <4>5. g[s \ {m}] \in S
        BY <2>3, <4>2
      <4> QED
        BY <3>1, <4>1, <4>3, <4>4, <4>5
    <3>2. CASE m \notin s
      <4>1. s \in SUBSET (1..(m - 1))
        BY <3>2
      <4>2. h[s] = g[s]
        BY <3>2
      <4>3. CASE s = {}
        BY <2>3, <4>1, <4>2, <4>3
      <4>4. CASE s # {}
        <5>1. Max(s) \in s
          BY <4>4, MaxUpTo
        <5>2. s \ {Max(s)} \in SUBSET (1..(m - 1)) /\ s \ {Max(s)} \in SUBSET (1..m)
          BY <4>1
        <5>3. h[s \ {Max(s)}] = g[s \ {Max(s)}]
          BY <3>2, <5>2
        <5> QED
          BY <2>3, <4>1, <4>2, <4>4, <5>3
      <4> QED
        BY <4>3, <4>4
    <3> QED
      BY <3>1, <3>2
  <2>5. h \in [SUBSET (1..m) -> S]
    BY <2>4
  <2>6. h = [s \in SUBSET (1..m) |-> IF s = {} THEN b ELSE G[<<Max(s), h[s \ {Max(s)}]>>]]
    BY <2>4
  <2> QED
    BY <2>5, <2>6 DEF Folding
<1>3. Bad \subseteq 0..n
  OBVIOUS
<1> HIDE DEF Bad
<1>4. Bad = {}
  BY <1>1, <1>2, <1>3, NoFirst
<1>5. n \in 0..n
  OBVIOUS
<1>6. \E h : Up(n, h)
  BY <1>4, <1>5 DEF Bad
<1> QED
  BY <1>6

(* The indices, taken off from the last.                                   *)
UpTo(k) == 1..k

(* Of the numbers up to k the fold takes k first, which leaves those       *)
(* before it.                                                              *)
LEMMA LastIndexOff ==
  ASSUME NEW n \in Nat, NEW k \in 1..n
  PROVE  /\ UpTo(k) \in SUBSET UpTo(n) /\ UpTo(k) # {}
         /\ Max(UpTo(k)) = k
         /\ UpTo(k) \ {k} = UpTo(k - 1)
<1>1. UpTo(k) \in SUBSET (1..n) /\ k \in UpTo(k)
  BY DEF UpTo
<1>2. Max(UpTo(k)) \in UpTo(k) /\ Max(UpTo(k)) >= k
  BY <1>1, MaxUpTo
<1>3. \A x \in UpTo(k) : x >= k => x = k
  BY DEF UpTo
<1>4. Max(UpTo(k)) = k
  BY <1>2, <1>3
<1>5. UpTo(k) \ {k} = UpTo(k - 1)
  BY DEF UpTo
<1>6. UpTo(k) \in SUBSET UpTo(n) /\ UpTo(k) # {}
  BY <1>1 DEF UpTo
<1> QED
  BY <1>4, <1>5, <1>6

-----------------------------------------------------------------------------
(* The sort, pass by pass.                                                 *)

Row == [name : STRING \cup {NoName}, dir : BOOLEAN, key : Nat, open : BOOLEAN]
Rows(n, E) == [1..n -> E]
Backwards(n, i) == [k \in 1..(n - i) |-> n + 1 - k]
Pass(t, i, n, down) == FoldLeft(LAMBDA u, j : SwapIf(u, j, down), t, Backwards(n, i))

(* r is t after each step of a pass.                                       *)
PassIs(r, E, n, i, t, down) ==
    /\ r \in [0..(n - i) -> Rows(n, E)]
    /\ r[0] = t
    /\ \A k \in 1..(n - i) : r[k] = SwapIf(r[k - 1], n + 1 - k, down)
    /\ Pass(t, i, n, down) = r[n - i]

(* A pass swaps from the back to i.                                        *)
LEMMA PassSwaps ==
  ASSUME NEW E, NEW n \in Nat, NEW i \in 1..n, NEW t \in Rows(n, E), NEW down
  PROVE  \E r : PassIs(r, E, n, i, t, down)
<1> DEFINE S == Rows(n, E)
           m == n - i
           seq == Backwards(n, i)
           G == [p \in (1..m) \X S |-> SwapIf(p[2], n + 1 - p[1], down)]
           Is(h) == h = [s \in SUBSET DOMAIN seq |->
                           IF s = {} THEN t
                           ELSE SwapIf(h[s \ {Max(s)}], seq[Max(s)], down)]
           h == CHOOSE h : Is(h)
<1>0. m \in Nat /\ DOMAIN seq = 1..m /\ \A k \in 1..m : seq[k] = n + 1 - k /\ seq[k] \in 2..n
  BY DEF Backwards
<1>1. ASSUME NEW u \in S, NEW j \in 2..n PROVE SwapIf(u, j, down) \in S
  BY DEF Rows, SwapIf
<1>2. G \in [(1..m) \X S -> S]
  <2>1. ASSUME NEW p \in (1..m) \X S PROVE SwapIf(p[2], n + 1 - p[1], down) \in S
    <3>1. p[2] \in S /\ p[1] \in 1..m
      OBVIOUS
    <3>2. n + 1 - p[1] \in 2..n
      BY <3>1
    <3> HIDE DEF S
    <3> QED
      BY <1>1, <3>1, <3>2
  <2> QED
    BY <2>1
<1>3. PICK g \in [SUBSET (1..m) -> S] : Folding(g, m, t, G)
  <2> HIDE DEF G, m
  <2> QED
    BY <1>0, <1>2, FoldingExists
<1>4. Is(g)
  <2>1. ASSUME NEW s \in SUBSET (1..m), s # {}
        PROVE  G[<<Max(s), g[s \ {Max(s)}]>>] = SwapIf(g[s \ {Max(s)}], seq[Max(s)], down)
    <3> HIDE DEF m, S, seq
    <3>1. Max(s) \in 1..m
      BY <1>0, <2>1, MaxUpTo
    <3>2. g[s \ {Max(s)}] \in S
      OBVIOUS
    <3>3. seq[Max(s)] = n + 1 - Max(s)
      BY <1>0, <3>1
    <3> QED
      BY <3>1, <3>2, <3>3
  <2> HIDE DEF G, m, S, seq
  <2>2. g = [s \in SUBSET (1..m) |-> IF s = {} THEN t ELSE G[<<Max(s), g[s \ {Max(s)}]>>]]
    BY <1>3 DEF Folding
  <2>3. \A s \in SUBSET (1..m) :
            g[s] = IF s = {} THEN t ELSE SwapIf(g[s \ {Max(s)}], seq[Max(s)], down)
    BY <2>1, <2>2
  <2>4. DOMAIN g = SUBSET (1..m)
    BY <2>2
  <2> QED
    BY <1>0, <2>2, <2>3
<1>5. Is(h)
  BY <1>4
<1>6. Pass(t, i, n, down) = h[DOMAIN seq]
  BY DEF Pass, FoldLeft, MapThenFoldSet
<1> DEFINE r == [k \in 0..m |-> h[1..k]]
<1>7. \A s \in SUBSET (1..m) :
          h[s] = IF s = {} THEN t ELSE SwapIf(h[s \ {Max(s)}], seq[Max(s)], down)
  <2> HIDE DEF h, m, seq
  <2> QED
    BY <1>0, <1>5
<1> HIDE DEF h, Is
<1>8. r[0] = t
  <2>1. 1..0 = {} /\ {} \in SUBSET (1..m) /\ 0 \in 0..m
    BY <1>0
  <2> HIDE DEF m
  <2> QED
    BY <1>0, <1>7, <2>1
<1>9. ASSUME NEW k \in 1..m PROVE r[k] = SwapIf(r[k - 1], n + 1 - k, down)
  <2>0. k \in 0..m /\ k - 1 \in 0..m
    BY <1>0
  <2> HIDE DEF m, seq, r
  <2>1. /\ UpTo(k) \in SUBSET UpTo(m) /\ UpTo(k) # {}
        /\ Max(UpTo(k)) = k
        /\ UpTo(k) \ {k} = UpTo(k - 1)
    BY <1>0, LastIndexOff
  <2>2. h[UpTo(k)] = SwapIf(h[UpTo(k) \ {k}], seq[k], down)
    BY <1>7, <2>1 DEF UpTo
  <2>3. h[UpTo(k)] = SwapIf(h[UpTo(k - 1)], seq[k], down)
    BY <2>1, <2>2
  <2>4. r[k] = h[UpTo(k)] /\ r[k - 1] = h[UpTo(k - 1)]
    BY <2>0 DEF r, UpTo
  <2> QED
    BY <1>0, <2>3, <2>4
<1>10. \A k \in 0..m : r[k] \in S
  <2> DEFINE Bad == {k \in 0..m : r[k] \notin S}
  <2>1. 0 \notin Bad
    BY <1>8
  <2>2. ASSUME NEW k \in 1..m, k - 1 \notin Bad PROVE k \notin Bad
    <3>1. k - 1 \in 0..m /\ n + 1 - k \in 2..n
      BY <1>0
    <3> HIDE DEF m, S, r
    <3>2. r[k - 1] \in S
      BY <2>2, <3>1
    <3> QED
      BY <1>1, <1>9, <3>1, <3>2
  <2>3. Bad \subseteq 0..m
    OBVIOUS
  <2> HIDE DEF Bad
  <2>4. Bad = {}
    BY <1>0, <2>1, <2>2, <2>3, NoFirst
  <2> QED
    BY <2>4 DEF Bad
<1>11. r \in [0..m -> S]
  BY <1>10
<1>12. Pass(t, i, n, down) = r[m]
  BY <1>0, <1>6
<1> HIDE DEF r, S
<1> QED
  BY <1>8, <1>9, <1>11, <1>12 DEF S, PassIs

(* What the sort is by.                                                    *)
InOrder(l, r, down) ==
    /\ r.dir => l.dir
    /\ l.dir = r.dir => IF down THEN l.key >= r.key ELSE l.key <= r.key

(* It is an order, and Precedes decides which of two comes first.          *)
LEMMA OrderIs ==
  ASSUME NEW a \in Row, NEW b \in Row, NEW c \in Row, NEW down \in BOOLEAN
  PROVE  /\ InOrder(a, a, down)
         /\ InOrder(a, b, down) /\ InOrder(b, c, down) => InOrder(a, c, down)
         /\ IF Precedes(a, b, down) THEN InOrder(a, b, down) ELSE InOrder(b, a, down)
<1>1. a.key \in Nat /\ b.key \in Nat /\ c.key \in Nat
  BY DEF Row
<1>2. a.dir \in BOOLEAN /\ b.dir \in BOOLEAN /\ c.dir \in BOOLEAN
  BY DEF Row
<1>3. InOrder(a, a, down)
  BY <1>1 DEF InOrder
<1>4. InOrder(a, b, down) /\ InOrder(b, c, down) => InOrder(a, c, down)
  BY <1>1, <1>2 DEF InOrder
<1>5. Precedes(a, b, down) => InOrder(a, b, down)
  BY <1>1, <1>2 DEF InOrder, Precedes
<1>6. ~Precedes(a, b, down) => InOrder(b, a, down)
  BY <1>1, <1>2 DEF InOrder, Precedes
<1> QED
  BY <1>3, <1>4, <1>5, <1>6

(* The entries of u from p on are those of t, moved.                       *)
Moved(t, u, p, n) ==
    /\ \A q \in 1..n : q < p => u[q] = t[q]
    /\ \A q \in p..n : \E m \in p..n : u[q] = t[m]
    /\ \A m \in p..n : \E q \in p..n : u[q] = t[m]

(* Of n entries one at most is open.                                       *)
OneOpen(s, n) == \A i, j \in 1..n : s[i].open /\ s[j].open => i = j

(* Moving entries twice moves them.                                        *)
LEMMA MovedFurther ==
  ASSUME NEW t, NEW u, NEW v, NEW n \in Nat, NEW p \in 1..n, NEW q \in p..n,
         Moved(t, u, q, n), Moved(u, v, p, n)
  PROVE  Moved(t, v, p, n)
<1>1. \A i \in p..n : \E m \in p..n : u[i] = t[m]
  <2> TAKE i \in p..n
  <2>1. CASE i < q
    <3>1. i \in 1..n
      OBVIOUS
    <3>2. u[i] = t[i]
      BY <2>1, <3>1 DEF Moved
    <3> QED
      BY <3>2
  <2>2. CASE i \in q..n
    <3>1. PICK m \in q..n : u[i] = t[m]
      BY <2>2 DEF Moved
    <3> QED
      BY <3>1
  <2> QED
    BY <2>1, <2>2
<1>2. \A m \in p..n : \E i \in p..n : u[i] = t[m]
  <2> TAKE m \in p..n
  <2>1. CASE m < q
    BY <2>1 DEF Moved
  <2>2. CASE m \in q..n
    <3>1. PICK i \in q..n : u[i] = t[m]
      BY <2>2 DEF Moved
    <3> QED
      BY <3>1
  <2> QED
    BY <2>1, <2>2
<1>3. \A i \in 1..n : i < p => v[i] = t[i]
  BY DEF Moved
<1>4. \A i \in p..n : \E m \in p..n : v[i] = t[m]
  <2> TAKE i \in p..n
  <2>1. PICK k \in p..n : v[i] = u[k]
    BY DEF Moved
  <2> QED
    BY <1>1, <2>1
<1>5. \A m \in p..n : \E i \in p..n : v[i] = t[m]
  <2> TAKE m \in p..n
  <2>1. PICK k \in p..n : u[k] = t[m]
    BY <1>2
  <2>2. PICK i \in p..n : v[i] = u[k]
    BY <2>1 DEF Moved
  <2> QED
    BY <2>1, <2>2
<1> QED
  BY <1>3, <1>4, <1>5 DEF Moved

(* One comparison brings the first of two in front.                        *)
LEMMA SwapMoves ==
  ASSUME NEW E, E \subseteq Row, NEW n \in Nat, NEW u \in Rows(n, E), NEW j \in 2..n,
         NEW down \in BOOLEAN, \A q \in j..n : InOrder(u[j], u[q], down)
  PROVE  LET v == SwapIf(u, j, down) IN
         /\ v \in Rows(n, E)
         /\ Moved(u, v, j - 1, n)
         /\ \A q \in (j - 1)..n : InOrder(v[j - 1], v[q], down)
         /\ OneOpen(u, n) => OneOpen(v, n)
<1> DEFINE v == SwapIf(u, j, down)
<1>0. j - 1 \in 1..n /\ j \in 1..n /\ j - 1 \in (j - 1)..n /\ j \in (j - 1)..n /\ j \in j..n
  OBVIOUS
<1>1. \A q \in 1..n : u[q] \in Row /\ u[q] \in E
  BY DEF Rows
<1>2. CASE Precedes(u[j], u[j - 1], down)
  <2>1. /\ v \in Rows(n, E) /\ v[j - 1] = u[j] /\ v[j] = u[j - 1]
        /\ \A q \in 1..n : q # j /\ q # j - 1 => v[q] = u[q]
    BY <1>0, <1>1, <1>2 DEF SwapIf, Rows
  <2> HIDE DEF v
  <2>2. Moved(u, v, j - 1, n)
    <3>1. \A q \in 1..n : q < j - 1 => v[q] = u[q]
      BY <2>1
    <3>2. \A q \in (j - 1)..n : q \in 1..n /\ (q = j \/ q = j - 1 \/ v[q] = u[q])
      BY <2>1
    <3>3. \A q \in (j - 1)..n : \E m \in (j - 1)..n : v[q] = u[m]
      BY <1>0, <2>1, <3>2
    <3>4. \A m \in (j - 1)..n : \E q \in (j - 1)..n : v[q] = u[m]
      BY <1>0, <2>1, <3>2
    <3> QED
      BY <3>1, <3>3, <3>4 DEF Moved
  <2>3. InOrder(u[j], u[j - 1], down)
    BY <1>0, <1>1, <1>2, OrderIs
  <2>4. \A q \in (j - 1)..n : InOrder(v[j - 1], v[q], down)
    <3> TAKE q \in (j - 1)..n
    <3>1. CASE q = j - 1
      BY <1>0, <1>1, <2>1, <3>1, OrderIs
    <3>2. CASE q = j
      BY <2>1, <2>3, <3>2
    <3>3. CASE q # j /\ q # j - 1
      <4>1. q \in j..n /\ q \in 1..n
        BY <3>3
      <4>2. v[q] = u[q]
        BY <2>1, <3>3, <4>1
      <4> QED
        BY <2>1, <4>1, <4>2
    <3> QED
      BY <3>1, <3>2, <3>3
  <2>5. ASSUME OneOpen(u, n), NEW p \in 1..n, NEW q \in 1..n, v[p].open, v[q].open
        PROVE  p = q
    <3> DEFINE from(x) == IF x = j THEN j - 1 ELSE IF x = j - 1 THEN j ELSE x
    <3>1. v[p] = u[from(p)] /\ v[q] = u[from(q)] /\ from(p) \in 1..n /\ from(q) \in 1..n
      BY <1>0, <2>1
    <3>2. from(p) = from(q) => p = q
      BY <1>0
    <3> HIDE DEF from
    <3>3. from(p) = from(q)
      BY <2>5, <3>1 DEF OneOpen
    <3> QED
      BY <3>2, <3>3
  <2>6. OneOpen(u, n) => OneOpen(v, n)
    BY <2>5 DEF OneOpen
  <2> QED
    BY <2>1, <2>2, <2>4, <2>6 DEF v
<1>3. CASE ~Precedes(u[j], u[j - 1], down)
  <2>1. v = u
    BY <1>3 DEF SwapIf
  <2>2. InOrder(u[j - 1], u[j], down)
    BY <1>0, <1>1, <1>3, OrderIs
  <2>3. Moved(u, u, j - 1, n)
    BY DEF Moved
  <2>4. \A q \in (j - 1)..n : InOrder(u[j - 1], u[q], down)
    <3> TAKE q \in (j - 1)..n
    <3>1. CASE q = j - 1
      BY <1>0, <1>1, <3>1, OrderIs
    <3>2. CASE q # j - 1
      <4>1. q \in j..n /\ q \in 1..n
        BY <3>2
      <4>2. InOrder(u[j], u[q], down)
        BY <4>1
      <4>3. u[j - 1] \in Row /\ u[j] \in Row /\ u[q] \in Row
        BY <1>0, <1>1, <4>1
      <4> QED
        BY <2>2, <4>2, <4>3, OrderIs
    <3> QED
      BY <3>1, <3>2
  <2> HIDE DEF v
  <2>5. v \in Rows(n, E) /\ Moved(u, v, j - 1, n)
        /\ \A q \in (j - 1)..n : InOrder(v[j - 1], v[q], down)
        /\ (OneOpen(u, n) => OneOpen(v, n))
    BY <2>1, <2>3, <2>4
  <2> QED
    BY <2>5 DEF v
<1> QED
  BY <1>2, <1>3

(* A pass brings the first of the entries from i on to i.                  *)
LEMMA PassBrings ==
  ASSUME NEW E, E \subseteq Row, NEW n \in Nat, NEW i \in 1..n, NEW t \in Rows(n, E),
         NEW down \in BOOLEAN
  PROVE  LET v == Pass(t, i, n, down) IN
         /\ v \in Rows(n, E)
         /\ Moved(t, v, i, n)
         /\ \A q \in i..n : InOrder(v[i], v[q], down)
         /\ OneOpen(t, n) => OneOpen(v, n)
<1>a. \E r : PassIs(r, E, n, i, t, down)
  BY PassSwaps
<1> DEFINE m == n - i
<1>0. m \in Nat /\ n - m = i /\ m \in 0..m
  OBVIOUS
<1>1. PICK r \in [0..m -> Rows(n, E)] :
          /\ r[0] = t
          /\ \A k \in 1..m : r[k] = SwapIf(r[k - 1], n + 1 - k, down)
          /\ Pass(t, i, n, down) = r[m]
  BY <1>a DEF PassIs
<1> DEFINE Brought(k) == /\ Moved(t, r[k], n - k, n)
                         /\ \A q \in (n - k)..n : InOrder(r[k][n - k], r[k][q], down)
                         /\ OneOpen(t, n) => OneOpen(r[k], n)
           Bad == {k \in 0..m : ~Brought(k)}
<1>2. Brought(0)
  <2>1. \A q \in (n - 0)..n : q = n /\ q \in 1..n
    OBVIOUS
  <2>2. t[n] \in Row /\ n - 0 = n
    BY DEF Rows
  <2>3. InOrder(t[n], t[n], down)
    BY <2>2, OrderIs
  <2>4. Moved(t, t, n, n)
    BY DEF Moved
  <2> QED
    BY <1>1, <2>1, <2>2, <2>3, <2>4
<1>3. ASSUME NEW k \in 1..m, Brought(k - 1) PROVE Brought(k)
  <2> DEFINE j == n + 1 - k
             u == r[k - 1]
             v == r[k]
  <2>0. j \in 2..n /\ j = n - (k - 1) /\ n - k = j - 1 /\ j \in (j - 1)..n /\ j - 1 \in 1..n
        /\ k - 1 \in 0..m
    OBVIOUS
  <2>1. u \in Rows(n, E) /\ v = SwapIf(u, j, down)
    BY <1>1, <2>0
  <2>2. /\ Moved(t, u, j, n) /\ \A q \in j..n : InOrder(u[j], u[q], down)
        /\ OneOpen(t, n) => OneOpen(u, n)
    BY <1>3, <2>0
  <2> HIDE DEF j, u, v, m, Bad
  <2>3. /\ Moved(u, v, j - 1, n) /\ \A q \in (j - 1)..n : InOrder(v[j - 1], v[q], down)
        /\ OneOpen(u, n) => OneOpen(v, n)
    BY <2>0, <2>1, <2>2, SwapMoves
  <2>4. Moved(t, v, j - 1, n)
    BY <2>0, <2>2, <2>3, MovedFurther
  <2> QED
    BY <2>0, <2>2, <2>3, <2>4 DEF v
<1>4. 0 \notin Bad
  BY <1>2
<1>5. ASSUME NEW k \in 1..m, k - 1 \notin Bad PROVE k \notin Bad
  <2>1. k - 1 \in 0..m
    BY <1>0
  <2> HIDE DEF Brought
  <2> QED
    BY <1>3, <1>5, <2>1
<1>6. Bad \subseteq 0..m
  OBVIOUS
<1> HIDE DEF Bad, Brought
<1>7. Bad = {}
  BY <1>0, <1>4, <1>5, <1>6, NoFirst
<1>8. Brought(m)
  BY <1>0, <1>7 DEF Bad
<1> QED
  BY <1>0, <1>1, <1>8 DEF Brought

Numbers(n) == [i \in 1..n |-> i]

(* The sort is one pass for each entry but the last.                       *)
LEMMA SortPasses ==
  ASSUME NEW E, E \subseteq Row, NEW n \in Nat, NEW s \in Seq(E), n = Len(s), n > 0,
         NEW down \in BOOLEAN
  PROVE  \E r \in [0..(n - 1) -> Rows(n, E)] :
             /\ r[0] = s
             /\ \A k \in 1..(n - 1) : r[k] = Pass(r[k - 1], k, n, down)
             /\ SortFilesBy(s, down) = r[n - 1]
<1> DEFINE S == Rows(n, E)
           m == n - 1
           seq == Numbers(m)
           G == [p \in (1..m) \X S |-> Pass(p[2], p[1], n, down)]
           Is(h) == h = [x \in SUBSET DOMAIN seq |->
                           IF x = {} THEN s ELSE Pass(h[x \ {Max(x)}], seq[Max(x)], n, down)]
           h == CHOOSE h : Is(h)
<1>0. m \in Nat /\ DOMAIN seq = 1..m /\ \A k \in 1..m : seq[k] = k /\ k \in 1..n
  BY DEF Numbers
<1>1. ASSUME NEW u \in S, NEW j \in 1..n PROVE Pass(u, j, n, down) \in S
  BY PassBrings
<1>2. G \in [(1..m) \X S -> S]
  <2>1. ASSUME NEW p \in (1..m) \X S PROVE Pass(p[2], p[1], n, down) \in S
    <3>1. p[2] \in S /\ p[1] \in 1..m
      OBVIOUS
    <3>2. p[1] \in 1..n
      BY <1>0, <3>1
    <3> HIDE DEF S
    <3> QED
      BY <1>1, <3>1, <3>2
  <2> QED
    BY <2>1
<1>3. s \in S
  BY DEF Rows
<1>4. PICK g \in [SUBSET (1..m) -> S] : Folding(g, m, s, G)
  <2> HIDE DEF G, m, S
  <2> QED
    BY <1>0, <1>2, <1>3, FoldingExists
<1>5. Is(g)
  <2>1. ASSUME NEW x \in SUBSET (1..m), x # {}
        PROVE  G[<<Max(x), g[x \ {Max(x)}]>>] = Pass(g[x \ {Max(x)}], seq[Max(x)], n, down)
    <3> HIDE DEF m, S, seq
    <3>1. Max(x) \in 1..m
      BY <1>0, <2>1, MaxUpTo
    <3>2. g[x \ {Max(x)}] \in S
      OBVIOUS
    <3>3. seq[Max(x)] = Max(x)
      BY <1>0, <3>1
    <3> QED
      BY <3>1, <3>2, <3>3
  <2> HIDE DEF G, m, S, seq
  <2>2. g = [x \in SUBSET (1..m) |-> IF x = {} THEN s ELSE G[<<Max(x), g[x \ {Max(x)}]>>]]
    BY <1>4 DEF Folding
  <2>3. \A x \in SUBSET (1..m) :
            g[x] = IF x = {} THEN s ELSE Pass(g[x \ {Max(x)}], seq[Max(x)], n, down)
    BY <2>1, <2>2
  <2>4. DOMAIN g = SUBSET (1..m)
    BY <2>2
  <2> QED
    BY <1>0, <2>2, <2>3
<1>6. Is(h)
  BY <1>5
<1>7. SortFilesBy(s, down) = h[DOMAIN seq]
  BY DEF SortFilesBy, Pass, Backwards, Numbers, FoldLeft, MapThenFoldSet
<1> DEFINE r == [k \in 0..m |-> h[1..k]]
<1>8. \A x \in SUBSET (1..m) :
          h[x] = IF x = {} THEN s ELSE Pass(h[x \ {Max(x)}], seq[Max(x)], n, down)
  <2> HIDE DEF h, m, seq
  <2> QED
    BY <1>0, <1>6
<1> HIDE DEF h, Is
<1>9. r[0] = s
  <2>1. 1..0 = {} /\ {} \in SUBSET (1..m) /\ 0 \in 0..m
    BY <1>0
  <2> HIDE DEF m
  <2> QED
    BY <1>0, <1>8, <2>1
<1>10. ASSUME NEW k \in 1..m PROVE r[k] = Pass(r[k - 1], k, n, down)
  <2>0. k \in 0..m /\ k - 1 \in 0..m
    BY <1>0
  <2> HIDE DEF m, seq, r
  <2>1. /\ UpTo(k) \in SUBSET UpTo(m) /\ UpTo(k) # {}
        /\ Max(UpTo(k)) = k
        /\ UpTo(k) \ {k} = UpTo(k - 1)
    BY <1>0, LastIndexOff
  <2>2. h[UpTo(k)] = Pass(h[UpTo(k) \ {k}], seq[k], n, down)
    BY <1>8, <2>1 DEF UpTo
  <2>3. h[UpTo(k)] = Pass(h[UpTo(k - 1)], seq[k], n, down)
    BY <2>1, <2>2
  <2>4. r[k] = h[UpTo(k)] /\ r[k - 1] = h[UpTo(k - 1)]
    BY <2>0 DEF r, UpTo
  <2> QED
    BY <1>0, <2>3, <2>4
<1>11. \A k \in 0..m : r[k] \in S
  <2> DEFINE Bad == {k \in 0..m : r[k] \notin S}
  <2>1. 0 \notin Bad
    BY <1>3, <1>9
  <2>2. ASSUME NEW k \in 1..m, k - 1 \notin Bad PROVE k \notin Bad
    <3>1. k - 1 \in 0..m /\ k \in 1..n
      BY <1>0
    <3> HIDE DEF m, S, r
    <3>2. r[k - 1] \in S
      BY <2>2, <3>1
    <3> QED
      BY <1>1, <1>10, <3>1, <3>2
  <2>3. Bad \subseteq 0..m
    OBVIOUS
  <2> HIDE DEF Bad
  <2>4. Bad = {}
    BY <1>0, <2>1, <2>2, <2>3, NoFirst
  <2> QED
    BY <2>4 DEF Bad
<1>12. r \in [0..m -> S]
  BY <1>11
<1>13. SortFilesBy(s, down) = r[m]
  BY <1>0, <1>7
<1> HIDE DEF r, S
<1> QED
  BY <1>9, <1>10, <1>12, <1>13 DEF S

(* Whatever is sorted, folders come first, and the files are in the chosen *)
(* order; nothing is lost or added, nor a second open item (SortFilesBy).  *)
THEOREM SortFilesBySorts ==
  ASSUME NEW E, E \subseteq Row, NEW s \in Seq(E), NEW down \in BOOLEAN
  PROVE  LET v == SortFilesBy(s, down) IN
         /\ v \in Seq(E) /\ Len(v) = Len(s)
         /\ ToSet(v) = ToSet(s)
         /\ OneOpen(s, Len(s)) => OneOpen(v, Len(s))
         /\ \A i, j \in 1..Len(s) : i < j => InOrder(v[i], v[j], down)
<1> DEFINE n == Len(s)
           v == SortFilesBy(s, down)
<1>0. n \in Nat /\ s \in Rows(n, E)
  BY DEF Rows
<1>1. CASE n = 0
  <2>1. s = << >>
    BY <1>1
  <2>2. DOMAIN [k \in 1..(0 - 1) |-> k] = {}
    OBVIOUS
  <2> DEFINE seq == Numbers(n - 1)
             Is(h) == h = [x \in SUBSET DOMAIN seq |->
                            IF x = {} THEN s ELSE Pass(h[x \ {Max(x)}], seq[Max(x)], n, down)]
             h == CHOOSE h : Is(h)
  <2>3. v = h[DOMAIN seq]
    BY DEF SortFilesBy, Pass, Backwards, Numbers, FoldLeft, MapThenFoldSet
  <2>4. DOMAIN seq = {}
    BY <1>1 DEF Numbers
  <2> HIDE DEF seq
  <2>5. SUBSET DOMAIN seq = {{}}
    BY <2>4
  <2>6. Is([x \in {{}} |-> s])
    BY <2>5
  <2>7. Is(h)
    BY <2>6
  <2>8. h[{}] = s
    <3> HIDE DEF h
    <3> QED
      BY <2>5, <2>7
  <2>9. v = s
    BY <2>3, <2>4, <2>8
  <2> HIDE DEF v, n
  <2> QED
    BY <1>1, <2>9 DEF v, n
<1>2. CASE n > 0
  <2> DEFINE m == n - 1
  <2>0. m \in Nat
    BY <1>0, <1>2
  <2>1. \E r \in [0..(n - 1) -> Rows(n, E)] :
             /\ r[0] = s
             /\ \A k \in 1..(n - 1) : r[k] = Pass(r[k - 1], k, n, down)
             /\ SortFilesBy(s, down) = r[n - 1]
    BY <1>0, <1>2, SortPasses
  <2>2. PICK r \in [0..m -> Rows(n, E)] :
             /\ r[0] = s
             /\ \A k \in 1..m : r[k] = Pass(r[k - 1], k, n, down)
             /\ v = r[m]
    BY <2>1
  <2> DEFINE Sorted(k) ==
               /\ Moved(s, r[k], 1, n)
               /\ OneOpen(s, n) => OneOpen(r[k], n)
               /\ \A p \in 1..k : \A q \in 1..n : p < q => InOrder(r[k][p], r[k][q], down)
             Bad == {k \in 0..m : ~Sorted(k)}
  <2> HIDE DEF v, n
  <2>3. Sorted(0)
    BY <2>2 DEF Moved
  <2>4. ASSUME NEW k \in 1..m, Sorted(k - 1) PROVE Sorted(k)
    <3> DEFINE u == r[k - 1]
               w == r[k]
    <3>0. k \in 1..n /\ k - 1 \in 0..m /\ k \in 0..m /\ 1 \in 1..n
      BY <1>0, <1>2
    <3>1. u \in Rows(n, E) /\ w = Pass(u, k, n, down)
      BY <2>2, <3>0
    <3>2. /\ Moved(s, u, 1, n)
          /\ OneOpen(s, n) => OneOpen(u, n)
          /\ \A p \in 1..(k - 1) : \A q \in 1..n : p < q => InOrder(u[p], u[q], down)
      BY <2>4
    <3> HIDE DEF u, w, m, Bad
    <3>3. /\ Moved(u, w, k, n) /\ \A q \in k..n : InOrder(w[k], w[q], down)
          /\ OneOpen(u, n) => OneOpen(w, n)
      BY <1>0, <3>0, <3>1, PassBrings
    <3>4. Moved(s, w, 1, n)
      <4>1. Moved(u, w, 1, n)
        <5>1. \A p \in 1..n : p < k => w[p] = u[p]
          BY <3>3 DEF Moved
        <5>2. \A p \in 1..n : \E q \in 1..n : w[p] = u[q]
          <6> TAKE p \in 1..n
          <6>1. CASE p < k
            BY <5>1, <6>1
          <6>2. CASE p \in k..n
            <7>1. PICK q \in k..n : w[p] = u[q]
              BY <3>3, <6>2 DEF Moved
            <7> QED
              BY <3>0, <7>1
          <6> QED
            BY <1>0, <3>0, <6>1, <6>2
        <5>3. \A p \in 1..n : \E q \in 1..n : w[q] = u[p]
          <6> TAKE p \in 1..n
          <6>1. CASE p < k
            BY <5>1, <6>1
          <6>2. CASE p \in k..n
            <7>1. PICK q \in k..n : w[q] = u[p]
              BY <3>3, <6>2 DEF Moved
            <7> QED
              BY <3>0, <7>1
          <6> QED
            BY <1>0, <3>0, <6>1, <6>2
        <5>4. \A q \in 1..n : q < 1 => w[q] = u[q]
          BY <3>0
        <5> QED
          BY <5>2, <5>3, <5>4 DEF Moved
      <4> QED
        BY <1>0, <3>0, <3>2, <4>1, MovedFurther
    <3>5. ASSUME NEW p \in 1..k, NEW q \in 1..n, p < q PROVE InOrder(w[p], w[q], down)
      <4>1. CASE p = k
        <5>1. q \in k..n
          BY <3>5, <4>1
        <5> QED
          BY <3>3, <4>1, <5>1
      <4>2. CASE p < k
        <5>1. p \in 1..(k - 1) /\ p \in 1..n
          BY <1>0, <3>0, <4>2
        <5>2. w[p] = u[p]
          BY <3>3, <4>2, <5>1 DEF Moved
        <5>3. CASE q < k
          <6>1. w[q] = u[q]
            BY <3>3, <5>3 DEF Moved
          <6> QED
            BY <3>2, <3>5, <5>1, <5>2, <6>1
        <5>4. CASE q \in k..n
          <6>1. PICK z \in k..n : w[q] = u[z]
            BY <3>3, <5>4 DEF Moved
          <6>2. z \in 1..n /\ p < z
            BY <1>0, <3>0, <4>2, <5>1, <6>1
          <6> QED
            BY <3>2, <5>1, <5>2, <6>1, <6>2
        <5> QED
          BY <1>0, <3>0, <5>3, <5>4
      <4> QED
        BY <3>0, <4>1, <4>2
    <3> QED
      BY <3>2, <3>3, <3>4, <3>5 DEF w
  <2>5. 0 \notin Bad
    BY <2>3
  <2>6. ASSUME NEW k \in 1..m, k - 1 \notin Bad PROVE k \notin Bad
    <3>1. k - 1 \in 0..m
      BY <2>0
    <3> HIDE DEF Sorted
    <3> QED
      BY <2>4, <2>6, <3>1
  <2>7. Bad \subseteq 0..m
    OBVIOUS
  <2> HIDE DEF Bad, Sorted
  <2>8. Bad = {}
    BY <2>0, <2>5, <2>6, <2>7, NoFirst
  <2>9. Sorted(m)
    BY <2>0, <2>8 DEF Bad
  <2>10. /\ v \in Rows(n, E) /\ Moved(s, v, 1, n)
         /\ OneOpen(s, n) => OneOpen(v, n)
         /\ \A p \in 1..m : \A q \in 1..n : p < q => InOrder(v[p], v[q], down)
    BY <2>0, <2>2, <2>9 DEF Sorted
  <2>11. v \in Seq(E) /\ Len(v) = n
    BY <1>0, <2>10 DEF Rows
  <2>12. ToSet(v) = ToSet(s)
    <3>1. DOMAIN v = 1..n /\ DOMAIN s = 1..n
      BY <1>0, <2>10 DEF Rows
    <3>2. \A p \in 1..n : \E q \in 1..n : v[p] = s[q]
      BY <2>10 DEF Moved
    <3>3. \A p \in 1..n : \E q \in 1..n : v[q] = s[p]
      BY <2>10 DEF Moved
    <3>4. ToSet(v) = {v[p] : p \in 1..n} /\ ToSet(s) = {s[p] : p \in 1..n}
      BY <3>1 DEF ToSet
    <3> QED
      BY <3>2, <3>3, <3>4
  <2>13. \A i, j \in 1..n : i < j => InOrder(v[i], v[j], down)
    <3> TAKE i, j \in 1..n
    <3> HAVE i < j
    <3>1. i \in 1..m
      BY <1>0
    <3> QED
      BY <2>10, <3>1
  <2> QED
    BY <2>10, <2>11, <2>12, <2>13 DEF v, n
<1> QED
  BY <1>0, <1>1, <1>2

-----------------------------------------------------------------------------
(* The theorems.                                                           *)

(* Nobody changes what the world is like.                                  *)
LEMMA WorldStays ==
  ASSUME [Next]_vars
  PROVE  world' = world
<1>1. CASE ItemClicked \/ Back \/ Refresh \/ SetSort \/ (\E v \in {"names", "multi"} : AskFilaments(v))
  BY <1>1 DEF ItemClicked, Back, Refresh, SetSort, AskFilaments, Click
<1>2. CASE ReceivingThread
  <2>1. CASE SetFirstIndex
    BY <2>1 DEF SetFirstIndex, Receiving
  <2>2. CASE SetType \/ SetName \/ SetKey
    BY <2>2 DEF SetType, SetName, SetKey, SetLast, Receiving
  <2>3. CASE SetNextIndex
    BY <2>3 DEF SetNextIndex, Receiving
  <2>4. CASE RunCallback
    BY <2>4 DEF RunCallback, Receiving
  <2>5. CASE SetCurrentDirectory
    BY <2>5 DEF SetCurrentDirectory, Receiving
  <2>6. ASSUME NEW i \in DOMAIN wire, Receive(i) PROVE world' = world
    BY <2>6 DEF Receive, Receiving
  <2> QED
    BY <1>2, <2>1, <2>2, <2>3, <2>4, <2>5, <2>6 DEF ReceivingThread
<1>3. CASE RunCached \/ AskDuet \/ Cut \/ IgnoreNext \/ (\E i \in DOMAIN wire : Lose(i))
  BY <1>3 DEF RunCached, AskDuet, Cut, IgnoreNext, Lose
<1>4. CASE Disconnect \/ Reset \/ Disconnected \/ Connect \/ RemoveAll \/ SetPrinterUniqueId
  BY <1>4 DEF Disconnect, Reset, Disconnected, Connect, RemoveAll, SetPrinterUniqueId, Moves
<1>5. CASE EventLoop
  BY <1>5 DEF EventLoop, OnDisconnect, OnConnect, NewUniqueId
<1>6. CASE UNCHANGED vars
  BY <1>6 DEF vars
<1> QED
  BY <1>1, <1>2, <1>3, <1>4, <1>5, <1>6 DEF Next

(* At the start nothing is asked, and no request is there.                 *)
LEMMA ListInit == Init => ExactInv
<1>1. SUFFICES ASSUME Init PROVE ExactInv
  OBVIOUS
<1>2. requests = <<>> /\ requests \in Seq(Request) /\ Len(requests) = 0 /\ DOMAIN requests = {}
  BY <1>1 DEF Init
<1>3. wire \in Seq(Question)
  BY <1>1 DEF Init
<1>4. rx \in RxType(0) /\ rx.stage = "idle" /\ rx.field = "type"
  BY <1>1, FileListingAssumption DEF Init, Idle, NoId, RxType
<1>5. calling \in CallType(0) /\ calling.old = NoId /\ calling.stage = "none"
  BY <1>1, FileListingAssumption DEF Init, NoCall, NoId, CallType
<1>6. table \in [Folders -> 0..0] /\ \A f \in Folders : table[f] = NoId
  BY <1>1 DEF Init, NoId
<1>7. Types
  BY <1>1, <1>2, <1>3, <1>4, <1>5, <1>6, FileListingAssumption DEF Init, Types
<1>8. OwnFolder /\ Pages
  BY <1>2, <1>4, <1>5, <1>6 DEF OwnFolder, Pages, Ids
<1>9. Fresh /\ Exact
  BY <1>4, <1>6 DEF Fresh, Exact
<1> QED
  BY <1>7, <1>8, <1>9 DEF ExactInv

(* In every state each request that can still be answered has listed the   *)
(* items before its next page, and nothing else but what a cut page left   *)
(* (setFirstIndex, setType, setNextIndex, RequestFiles).                   *)
THEOREM ListInvariant == Spec => []ExactInv
<1>1. ASSUME ExactInv, [Next]_vars PROVE ExactInv'
  <2>1. Types'
    BY <1>1, TypesStep DEF ExactInv
  <2>2. OwnFolder'
    BY <1>1, <2>1, OwnFolderStep DEF ExactInv
  <2>3. Pages'
    BY <1>1, <2>1, <2>2, PagesStep DEF ExactInv
  <2>4. Fresh'
    BY <1>1, FreshStep DEF ExactInv
  <2>5. ASSUME "cut" \notin world.faults PROVE Exact'
    BY <1>1, <2>1, <2>2, <2>5, ExactStep DEF ExactInv, ListInv
  <2>6. world' = world
    BY <1>1, WorldStays
  <2> QED
    BY <2>1, <2>2, <2>3, <2>4, <2>5, <2>6 DEF ExactInv
<1> QED
  BY <1>1, ListInit, PTL DEF Spec

(* A list that covers the first n items of a folder and is within them has *)
(* all of them, and else only parts of them.                               *)
LEMMA SameItems ==
  ASSUME NEW f \in Folders, NEW s \in Seq(PartItems), NEW n \in Nat, Covers(s, f, n), Within(s, f, n)
  PROVE  LET listed == SubSeq(Content[f], 1, n) IN
         /\ ToSet(listed) \subseteq ToSet(s)
         /\ ToSet(s) \subseteq UNION {Parts(item) : item \in ToSet(listed)}
<1> DEFINE content == Content[f]
           listed == SubSeq(content, 1, n)
<1>1. content \in Seq(Items) /\ n <= Len(content) /\ Len(content) \in Nat /\ Len(s) \in Nat
  BY ContentIsItems DEF Covers
<1>2. Len(listed) = n /\ \A k \in 1..n : listed[k] = content[k]
  BY <1>1
<1>3. DOMAIN listed = 1..n /\ DOMAIN s = 1..Len(s)
  BY <1>1, <1>2
<1>4. \A k \in 1..n : \E i \in 1..Len(s) : s[i] = content[k]
  BY DEF Covers
<1>5. \A i \in 1..Len(s) : \E k \in 1..n : s[i] \in Parts(content[k])
  BY <1>1 DEF Within
<1> HIDE DEF content, listed
<1>6. ToSet(s) = {s[i] : i \in 1..Len(s)} /\ ToSet(listed) = {listed[k] : k \in 1..n}
  BY <1>3 DEF ToSet
<1>7. \A i \in 1..Len(s) : \E item \in ToSet(listed) : s[i] \in Parts(item)
  BY <1>2, <1>5, <1>6
<1>8. ToSet(s) \subseteq UNION {Parts(item) : item \in ToSet(listed)}
  BY <1>6, <1>7
<1>9. \A k \in 1..n : listed[k] \in ToSet(s)
  BY <1>2, <1>4, <1>6
<1>10. ToSet(listed) \subseteq ToSet(s)
  BY <1>6, <1>9
<1> QED
  BY <1>8, <1>10 DEF content, listed

(* However requests for a folder replace each other and their pages come   *)
(* late, twice or not at all, what a callback is given is the folder as    *)
(* far as it was listed, and beside it only what answers that were cut     *)
(* left of its items (setNextIndex, setType, setName, FileListRequest).    *)
THEOREM WholeLists == Spec => []ListIsWhole
<1>1. ASSUME ExactInv PROVE ListIsWhole
  <2> DEFINE r == requests[rx.id]
             f == rx.folder
             n == Listed(f, r.next)
  <2>1. SUFFICES ASSUME rx.stage = "callback"
                 PROVE  LET listed == IF r.next = 0 THEN Content[r.folder]
                                      ELSE SubSeq(Content[r.folder], 1, r.next)
                        IN  /\ ToSet(listed) \subseteq ToSet(r.items)
                            /\ ToSet(r.items) \subseteq UNION {Parts(item) : item \in ToSet(listed)}
                            /\ "cut" \notin world.faults => r.items = listed
    BY DEF ListIsWhole
  <2>2. Types /\ OwnFolder /\ Pages
    BY <1>1 DEF ExactInv
  <2>3. f \in Folders /\ r \in Request
    BY <2>1, <2>2, BasicTypes
  <2>4. r.items \in Seq(PartItems) /\ r.next \in Nat /\ r.folder = f
    BY <2>1, <2>2, <2>3 DEF Request, OwnFolder
  <2>5. Covers(r.items, f, n) /\ Within(r.items, f, n)
    BY <2>1, <2>2 DEF Pages
  <2>6. Content[f] \in Seq(Items) /\ Len(Content[f]) \in Nat
    BY <2>3, ContentIsItems
  <2>7. n \in Nat /\ n <= Len(Content[f])
    BY <2>4, <2>5, <2>6 DEF Listed, Covers
  <2>8. (IF r.next = 0 THEN Content[r.folder] ELSE SubSeq(Content[r.folder], 1, r.next))
        = SubSeq(Content[f], 1, n)
    <3>1. CASE r.next = 0
      BY <2>4, <2>6, <3>1 DEF Listed
    <3>2. CASE r.next # 0
      BY <2>4, <3>2 DEF Listed
    <3> QED
      BY <3>1, <3>2
  <2>9. "cut" \notin world.faults => StartOf(r.items, f, n)
    BY <1>1, <2>1 DEF ExactInv, Exact
  <2> HIDE DEF n, f, r
  <2>10. LET listed == SubSeq(Content[f], 1, n) IN
         /\ ToSet(listed) \subseteq ToSet(r.items)
         /\ ToSet(r.items) \subseteq UNION {Parts(item) : item \in ToSet(listed)}
    BY <2>3, <2>4, <2>5, <2>7, SameItems
  <2>11. "cut" \notin world.faults => r.items = SubSeq(Content[f], 1, n)
    BY <2>4, <2>6, <2>7, <2>9 DEF StartOf
  <2> QED
    BY <2>8, <2>10, <2>11
<1> QED
  BY <1>1, ListInvariant, PTL

-----------------------------------------------------------------------------
(* How long the lists are.                                                 *)

(* What cut answers may have left behind.                                  *)
Left(n) == n * PageSize

(* A list is no longer than what is before its next page and what each cut *)
(* answer left behind.                                                     *)
Bounded ==
    /\ \A id \in Ids : Len(requests[id].items) <= Len(Content[requests[id].folder]) + Left(faults)
    /\ \A id \in Ids :
           Alive(id) /\ ~(rx.stage = "files" /\ rx.id = id) /\ requests[id].next # 0 =>
               Len(requests[id].items) <= requests[id].next + Left(faults)
    /\ rx.stage = "files" /\ Alive(rx.id) =>
           Len(requests[rx.id].items) <= rx.first + rx.got + Left(faults)

(* Each fault may leave a page.                                            *)
LEMMA LeftIs ==
  ASSUME NEW n \in Nat
  PROVE  Left(n) \in Nat /\ Left(n + 1) = Left(n) + PageSize
<1>1. \A p \in Nat : n * p \in Nat /\ (n + 1) * p = n * p + p
  OBVIOUS
<1> QED
  BY <1>1, PageSizeIsPositive DEF Left

(* Faults are counted.                                                     *)
LEMMA FaultsCount ==
  ASSUME [Next]_vars
  PROVE  faults' = faults \/ (faults' = faults + 1 /\ faults < MaxFaults)
<1>1. CASE ItemClicked \/ Back \/ Refresh \/ SetSort \/ (\E v \in {"names", "multi"} : AskFilaments(v))
  BY <1>1 DEF ItemClicked, Back, Refresh, SetSort, AskFilaments, Click
<1>2. CASE ReceivingThread
  <2>1. CASE SetFirstIndex
    BY <2>1 DEF SetFirstIndex, Receiving
  <2>2. CASE SetType \/ SetName \/ SetKey
    BY <2>2 DEF SetType, SetName, SetKey, SetLast, Receiving
  <2>3. CASE SetNextIndex
    BY <2>3 DEF SetNextIndex, Receiving
  <2>4. CASE RunCallback
    BY <2>4 DEF RunCallback, Receiving
  <2>5. CASE SetCurrentDirectory
    BY <2>5 DEF SetCurrentDirectory, Receiving
  <2>6. ASSUME NEW i \in DOMAIN wire, Receive(i) PROVE faults' = faults
    BY <2>6 DEF Receive, Receiving
  <2> QED
    BY <1>2, <2>1, <2>2, <2>3, <2>4, <2>5, <2>6 DEF ReceivingThread
<1>3. CASE RunCached \/ AskDuet \/ Cut \/ IgnoreNext \/ (\E i \in DOMAIN wire : Lose(i))
  BY <1>3 DEF RunCached, AskDuet, Cut, IgnoreNext, Lose, Fault
<1>4. CASE Disconnect \/ Reset \/ Disconnected \/ Connect \/ RemoveAll \/ SetPrinterUniqueId
  BY <1>4 DEF Disconnect, Reset, Disconnected, Connect, RemoveAll, SetPrinterUniqueId, Moves, Fault
<1>5. CASE EventLoop
  BY <1>5 DEF EventLoop, OnDisconnect, OnConnect, NewUniqueId
<1>6. CASE UNCHANGED vars
  BY <1>6 DEF vars
<1> QED
  BY <1>1, <1>2, <1>3, <1>4, <1>5, <1>6 DEF Next

(* What the steps that change no request do to those nobody refers to.     *)
Emptied == \A id \in 1..Len(requests) : requests'[id] \in {requests[id], Destroyed}

(* Steps that neither add nor change a request leave it or empty it.       *)
LEMMA EmptiedSteps ==
  ASSUME Types
  PROVE  /\ Quiet => Emptied
         /\ RunCached => Emptied
         /\ AskDuet => Emptied
         /\ \A i \in DOMAIN wire : Receive(i) \/ Lose(i) => Emptied
         /\ SetCurrentDirectory => Emptied
         /\ RunCallback => Emptied
         /\ GiveUp => Emptied
         /\ Disconnect => Emptied
         /\ Clearing => Emptied
<1>0. Len(requests) \in Nat /\ DOMAIN requests = 1..Len(requests)
  BY DEF Types
<1>1. requests' = requests => Emptied
  BY DEF Emptied
<1>2. ASSUME NEW tab, NEW call, NEW answer, requests' = Referred(tab, call, answer) PROVE Emptied
  BY <1>0, <1>2 DEF Referred, Emptied
<1>3. Quiet => requests' = requests
  BY DEF Quiet
<1>4. \A i \in DOMAIN wire : Receive(i) \/ Lose(i) => requests' = requests
  BY DEF Receive, Lose
<1>5. SetCurrentDirectory \/ RunCached \/ GiveUp \/ Disconnect => requests' = requests
  BY DEF SetCurrentDirectory, RunCached, GiveUp, Cut, IgnoreNext, Disconnect
<1>6. AskDuet => requests' = Referred(table, NoCall, rx)
  BY DEF AskDuet
<1>7. RunCallback => requests' = Referred(table, calling, Idle)
  BY DEF RunCallback
<1>8. Clearing => requests' = Referred(table', calling, rx)
  BY DEF Clearing, Reset, RemoveAll, Clear
<1> QED
  BY <1>1, <1>2, <1>3, <1>4, <1>5, <1>6, <1>7, <1>8

(* Every step keeps the lists that short.                                  *)
LEMMA BoundedStep ==
  ASSUME Types, Types', OwnFolder, Pages, Bounded, faults \in Nat, [Next]_vars
  PROVE  Bounded'
<1>0. /\ Len(requests) \in Nat /\ requests \in Seq(Request)
      /\ \A id \in 1..Len(requests) : requests[id] \in Request
      /\ rx.stage \in {"first", "files", "callback"} => rx.id \in 1..Len(requests)
      /\ rx.folder \in Folders /\ rx.first \in Nat /\ rx.got \in Nat
      /\ rx.stage = "first" => rx.got = 0
      /\ DOMAIN requests = 1..Len(requests)
  BY BasicTypes
<1>00. DOMAIN requests' = 1..Len(requests')
  BY DEF Types
<1> DEFINE L == Left(faults)
           M == Left(faults')
<1>a. L \in Nat /\ M \in Nat /\ M >= L /\ (faults' = faults + 1 => M = L + PageSize)
  BY FaultsCount, LeftIs, PageSizeIsPositive
<1>b. \A f \in Folders : Len(Content[f]) \in Nat
  BY ContentIsItems
<1>c. \A id \in 1..Len(requests) :
          /\ requests[id].folder \in Folders /\ requests[id].next \in Nat
          /\ requests[id].items \in Seq(PartItems) /\ Len(requests[id].items) \in Nat
  BY <1>0 DEF Request
<1>d. /\ \A id \in 1..Len(requests) :
             Len(requests[id].items) <= Len(Content[requests[id].folder]) + L
      /\ \A id \in 1..Len(requests) :
             Alive(id) /\ ~(rx.stage = "files" /\ rx.id = id) /\ requests[id].next # 0 =>
                 Len(requests[id].items) <= requests[id].next + L
      /\ rx.stage = "files" /\ Alive(rx.id) =>
             Len(requests[rx.id].items) <= rx.first + rx.got + L
  BY <1>0 DEF Bounded, Ids
<1>e. ASSUME \A id \in 1..Len(requests') :
                 Len(requests'[id].items) <= Len(Content[requests'[id].folder]) + M,
             \A id \in 1..Len(requests') :
                 Alive(id)' /\ ~(rx'.stage = "files" /\ rx'.id = id) /\ requests'[id].next # 0 =>
                     Len(requests'[id].items) <= requests'[id].next + M,
             rx'.stage = "files" /\ Alive(rx.id)' =>
                 Len(requests'[rx'.id].items) <= rx'.first + rx'.got + M
      PROVE  Bounded'
  BY <1>00, <1>e DEF Bounded, Ids
<1> HIDE DEF L, M
<1>1. ASSUME Kept, Emptied,
             rx' = rx \/ (rx'.stage # "files" /\ (rx.stage = "files" => faults' = faults + 1))
      PROVE  Bounded'
  <2>0. Len(requests') = Len(requests)
    BY <1>1 DEF Kept
  <2>1. ASSUME NEW id \in 1..Len(requests)
        PROVE  Len(requests'[id].items) <= Len(Content[requests'[id].folder]) + M
    <3>1. CASE requests'[id] = requests[id]
      BY <1>a, <1>b, <1>c, <1>d, <3>1
    <3>2. CASE requests'[id] = Destroyed
      <4>1. Len(requests'[id].items) = 0 /\ requests'[id].folder = Gcodes
        BY <3>2 DEF Destroyed
      <4>2. Len(Content[Gcodes]) \in Nat
        BY <1>b, FileListingAssumption
      <4> QED
        BY <1>a, <4>1, <4>2
    <3> QED
      BY <1>1, <3>1, <3>2 DEF Emptied
  <2>2. ASSUME NEW id \in 1..Len(requests), Alive(id)',
               ~(rx'.stage = "files" /\ rx'.id = id), requests'[id].next # 0
        PROVE  Len(requests'[id].items) <= requests'[id].next + M
    <3>1. Alive(id) /\ requests'[id] = requests[id]
      BY <1>1, <2>2, KeptAlive
    <3>2. CASE ~(rx.stage = "files" /\ rx.id = id)
      BY <1>a, <1>c, <1>d, <2>2, <3>1, <3>2
    <3>3. CASE rx.stage = "files" /\ rx.id = id
      <4>1. faults' = faults + 1
        BY <1>1, <2>2, <3>3
      <4>2. /\ requests[id].next = rx.first
            /\ rx.got <= PageLength(rx.folder, rx.first)
            /\ rx.first + Filled <= Len(Content[rx.folder])
        BY <3>1, <3>3 DEF Pages, Covers
      <4>20. Filled \in Nat
        <5>1. rx.got \in Nat /\ (rx.field # "type" => rx.got # 0)
          BY <1>0, BasicTypes DEF Types
        <5> QED
          BY <5>1 DEF Filled
      <4>3. rx.first <= Len(Content[rx.folder])
        BY <1>0, <1>b, <4>2, <4>20
      <4>4. PageLength(rx.folder, rx.first) \in Nat /\ PageLength(rx.folder, rx.first) <= PageSize
        BY <1>0, <4>3, PageBounds
      <4>5. Len(requests[id].items) <= rx.first + rx.got + L
        BY <1>d, <3>1, <3>3
      <4> QED
        BY <1>0, <1>a, <1>c, <3>1, <4>1, <4>2, <4>4, <4>5, PageSizeIsPositive
    <3> QED
      BY <3>2, <3>3
  <2>3. ASSUME rx'.stage = "files", Alive(rx.id)'
        PROVE  Len(requests'[rx'.id].items) <= rx'.first + rx'.got + M
    <3>1. rx' = rx /\ rx.id \in 1..Len(requests)
      BY <1>0, <1>1, <2>3
    <3>2. Alive(rx.id) /\ requests'[rx.id] = requests[rx.id]
      BY <1>1, <2>3, <3>1, KeptAlive
    <3> QED
      BY <1>0, <1>a, <1>c, <1>d, <2>3, <3>1, <3>2
  <2> QED
    BY <1>e, <2>0, <2>1, <2>2, <2>3
<1>2. CASE Quiet
  BY <1>1, <1>2, KeptSteps, EmptiedSteps DEF Quiet
<1>3. CASE Asking
  <2>1. PICK v \in Viewers, f \in Folders :
            /\ Len(requests') = Len(requests) + 1
            /\ \A id \in 1..Len(requests) : requests'[id] = requests[id]
            /\ requests'[Len(requests) + 1] =
                   [folder |-> f, viewer |-> v, items |-> <<>>, next |-> 0]
            /\ table' = [table EXCEPT ![f] = Len(requests) + 1]
            /\ calling'.folder = f /\ calling'.old = table[f]
            /\ rx' = rx
    BY <1>3, NewRequest
  <2> DEFINE new == requests'[Len(requests) + 1]
  <2>2. Len(new.items) = 0 /\ new.next = 0 /\ new.folder \in Folders
    BY <2>1
  <2> HIDE DEF new
  <2>3. ASSUME NEW id \in 1..(Len(requests) + 1)
        PROVE  Len(requests'[id].items) <= Len(Content[requests'[id].folder]) + M
    <3>1. CASE id = Len(requests) + 1
      BY <1>a, <1>b, <2>2, <3>1 DEF new
    <3>2. CASE id \in 1..Len(requests)
      BY <1>a, <1>b, <1>c, <1>d, <2>1, <3>2
    <3> QED
      BY <1>0, <3>1, <3>2
  <2>4. ASSUME NEW id \in 1..(Len(requests) + 1), Alive(id)',
               ~(rx'.stage = "files" /\ rx'.id = id), requests'[id].next # 0
        PROVE  Len(requests'[id].items) <= requests'[id].next + M
    <3>1. id \in 1..Len(requests)
      BY <1>0, <2>2, <2>4 DEF new
    <3>2. Alive(id)
      BY <1>0, <1>3, <2>4, <3>1, NewAlive DEF NoId
    <3> QED
      BY <1>a, <1>c, <1>d, <2>1, <2>4, <3>1, <3>2
  <2>5. ASSUME rx'.stage = "files", Alive(rx.id)'
        PROVE  Len(requests'[rx'.id].items) <= rx'.first + rx'.got + M
    <3>1. rx.id \in 1..Len(requests) /\ rx.stage = "files"
      BY <1>0, <2>1, <2>5
    <3>2. Alive(rx.id)
      <4>1. table \in [Folders -> 0..Len(requests)]
        BY BasicTypes
      <4> QED
        BY <1>0, <2>1, <2>5, <3>1, <4>1, AliveIs
    <3> QED
      BY <1>0, <1>a, <1>c, <1>d, <2>1, <3>1, <3>2
  <2> QED
    BY <1>e, <2>1, <2>3, <2>4, <2>5
<1>40. CASE RunCached
  BY <1>1, <1>40, KeptSteps, EmptiedSteps DEF RunCached
<1>4. CASE AskDuet
  BY <1>1, <1>4, KeptSteps, EmptiedSteps DEF AskDuet
<1>5. ASSUME NEW i \in DOMAIN wire, Receive(i) PROVE Bounded'
  BY <1>1, <1>5, KeptSteps, EmptiedSteps, ReceiveIs
<1>6. ASSUME NEW i \in DOMAIN wire, Lose(i) PROVE Bounded'
  BY <1>1, <1>6, KeptSteps, EmptiedSteps DEF Lose
<1>7. CASE SetCurrentDirectory
  BY <1>1, <1>7, KeptSteps, EmptiedSteps DEF SetCurrentDirectory, Receiving, Idle
<1>8. CASE RunCallback
  BY <1>1, <1>8, KeptSteps, EmptiedSteps DEF RunCallback, Receiving, Idle
<1>9. CASE GiveUp
  BY <1>1, <1>9, KeptSteps, EmptiedSteps DEF GiveUp, Cut, IgnoreNext, Idle, Fault
<1>10. CASE Disconnect
  BY <1>1, <1>10, KeptSteps, EmptiedSteps DEF Disconnect, Idle, Fault
<1>11. CASE Clearing
  BY <1>1, <1>11, KeptSteps, EmptiedSteps DEF Clearing, Reset, RemoveAll
<1>12. ASSUME UNCHANGED <<requests, table, calling, faults>>, rx' = Idle,
              rx.stage = "files" => ~Alive(rx.id)
       PROVE  Bounded'
  <2>1. \A id : Alive(id)' <=> Alive(id)
    BY <1>12, AliveIs
  <2>2. rx'.stage # "files"
    BY <1>12 DEF Idle
  <2>3. M = L
    BY <1>12 DEF L, M
  <2> QED
    BY <1>12, <1>d, <1>e, <2>1, <2>2, <2>3
<1>13. ASSUME table' = table, calling' = calling, Len(requests') = Len(requests),
              faults' = faults, rx.id \in 1..Len(requests), rx'.id = rx.id,
              \A j \in 1..Len(requests) : j # rx.id => requests'[j] = requests[j],
              Len(requests'[rx.id].items) <= Len(Content[requests'[rx.id].folder]) + L,
              rx'.stage # "files" /\ requests'[rx.id].next # 0 =>
                  Len(requests'[rx.id].items) <= requests'[rx.id].next + L,
              rx'.stage = "files" =>
                  Len(requests'[rx.id].items) <= rx'.first + rx'.got + L
       PROVE  Bounded'
  <2>1. \A id : Alive(id)' <=> Alive(id)
    BY <1>13, AliveIs
  <2>2. M = L
    BY <1>13 DEF L, M
  <2>3. ASSUME NEW id \in 1..Len(requests)
        PROVE  Len(requests'[id].items) <= Len(Content[requests'[id].folder]) + M
    <3>1. CASE id = rx.id
      BY <1>13, <2>2, <3>1
    <3>2. CASE id # rx.id
      BY <1>13, <1>d, <2>2, <3>2
    <3> QED
      BY <3>1, <3>2
  <2>4. ASSUME NEW id \in 1..Len(requests), Alive(id)',
               ~(rx'.stage = "files" /\ rx'.id = id), requests'[id].next # 0
        PROVE  Len(requests'[id].items) <= requests'[id].next + M
    <3>1. CASE id = rx.id
      BY <1>13, <2>2, <2>4, <3>1
    <3>2. CASE id # rx.id
      BY <1>13, <1>d, <2>1, <2>2, <2>4, <3>2
    <3> QED
      BY <3>1, <3>2
  <2> QED
    BY <1>13, <1>e, <2>2, <2>3, <2>4
<1>14. CASE SetFirstIndex
  <2> DEFINE r == requests[rx.id]
  <2>0. faults' = faults
    BY <1>14 DEF SetFirstIndex, Receiving
  <2>1. CASE ~Expected(rx.id, rx.first)
    BY <1>12, <1>14, <2>1 DEF SetFirstIndex, Receiving
  <2>2. CASE Expected(rx.id, rx.first)
    <3> DEFINE items == IF rx.first = 0 THEN <<>> ELSE r.items
    <3>1. /\ rx.stage = "first" /\ rx.id \in 1..Len(requests) /\ rx.got = 0
          /\ requests' = [requests EXCEPT ![rx.id].items = items]
          /\ rx' = [rx EXCEPT !.stage = "files"]
          /\ table' = table /\ calling' = calling
          /\ Alive(rx.id) /\ r.next = rx.first
      BY <1>0, <1>14, <2>2 DEF SetFirstIndex, Receiving, Expected
    <3>2. items \in Seq(PartItems) /\ r.items \in Seq(PartItems) /\ r.next \in Nat
      BY <1>0, <3>1 DEF Request
    <3>3. /\ Len(requests') = Len(requests)
          /\ requests'[rx.id].items = items /\ requests'[rx.id].next = r.next
          /\ requests'[rx.id].folder = r.folder
          /\ \A j \in 1..Len(requests) : j # rx.id => requests'[j] = requests[j]
      BY <3>1, <3>2, ChangedItems
    <3>4. Len(items) <= Len(Content[r.folder]) + L /\ Len(items) <= rx.first + L
      <4>1. CASE rx.first = 0
        <5>1. Len(items) = 0
          BY <4>1
        <5> QED
          BY <1>0, <1>a, <1>b, <1>c, <3>1, <5>1
      <4>2. CASE rx.first # 0
        <5>1. items = r.items
          BY <4>2
        <5> QED
          BY <1>d, <3>1, <4>2, <5>1
      <4> QED
        BY <4>1, <4>2
    <3>5. rx'.id = rx.id /\ rx'.first = rx.first /\ rx'.stage = "files" /\ rx'.got = 0
      BY <3>1, <3>3 DEF Types, RxType
    <3> HIDE DEF items
    <3>6. rx'.first + rx'.got + L = rx.first + L
      BY <1>0, <1>a, <3>5
    <3> QED
      BY <1>13, <2>0, <3>1, <3>3, <3>4, <3>5, <3>6
  <2> QED
    BY <2>1, <2>2
<1>15. CASE Fill
  <2> DEFINE r == requests[rx.id]
  <2>0. faults' = faults
    BY <1>15 DEF Fill, SetType, SetName, SetKey, SetLast, Receiving
  <2>1. CASE ~Alive(rx.id)
    BY <1>12, <1>15, <2>0, <2>1, FillFails
  <2>2. CASE Alive(rx.id)
    <3> DEFINE n == rx.first + Filled
               done == Complete(r.items)
    <3>1. /\ rx.stage = "files" /\ rx.id \in 1..Len(requests)
          /\ Filled \in Nat /\ n + 1 \in 1..Len(Content[rx.folder])
          /\ rx'.stage = "files" /\ rx'.got = Filled + 1
          /\ rx'.id = rx.id /\ rx'.first = rx.first
          /\ table' = table /\ calling' = calling
      BY <1>15, <2>2, FillIs
    <3>2. r.folder = rx.folder /\ (rx.field = "type" \/ Len(r.items) > 0)
      BY <2>2, <3>1 DEF OwnFolder, Pages
    <3>3. PICK part \in Parts(Content[rx.folder][n + 1]), t \in Seq(PartItems) :
             /\ t = Append(done, part)
             /\ requests' = [requests EXCEPT ![rx.id].items = t]
      BY <1>15, <2>2, <3>2, FillIs
    <3>4. PICK filled \in Nat : filled = Filled
      BY <3>1
    <3>5. filled = IF rx.field = "type" THEN rx.got ELSE rx.got - 1
      BY <3>4 DEF Filled
    <3>6. r.items \in Seq(PartItems) /\ Len(r.items) \in Nat
          /\ Len(r.items) <= rx.first + rx.got + L
          /\ Len(r.items) <= Len(Content[rx.folder]) + L
      BY <1>c, <1>d, <2>2, <3>1, <3>2
    <3>7. done \in Seq(PartItems)
          /\ Len(done) = IF rx.field = "type" THEN Len(r.items) ELSE Len(r.items) - 1
      <4>1. CASE rx.field = "type"
        BY <3>6, <4>1 DEF Complete
      <4>2. CASE rx.field # "type"
        <5>1. done = Whole(r.items) /\ Len(r.items) > 0
          BY <3>2, <4>2 DEF Complete
        <5> HIDE DEF r, done
        <5>2. Whole(r.items) \in Seq(PartItems) /\ Len(Whole(r.items)) = Len(r.items) - 1
          BY <3>6, <5>1, WholeLength
        <5> QED
          BY <4>2, <5>1, <5>2
      <4> QED
        BY <4>1, <4>2
    <3>8. Len(t) = Len(done) + 1
      <4>1. Content[rx.folder][n + 1] \in Items
        <5> HIDE DEF n
        <5> QED
          BY <1>0, <3>1, ContentIsItems
      <4>2. part \in PartItems
        BY <4>1, PartsOfItems
      <4> HIDE DEF done
      <4>3. done \in Seq(PartItems) /\ t = Append(done, part)
        BY <3>3, <3>7
      <4> QED
        BY ONLY <4>2, <4>3
    <3>9. /\ Len(requests') = Len(requests)
          /\ requests'[rx.id].items = t /\ requests'[rx.id].folder = r.folder
          /\ \A j \in 1..Len(requests) : j # rx.id => requests'[j] = requests[j]
      BY <3>1, <3>3, ChangedItems
    <3>10. rx.first + filled < Len(Content[rx.folder])
      BY <1>0, <3>1, <3>4, FillRoom
    <3>11. rx'.first + rx'.got + L = rx.first + (filled + 1) + L
      BY <3>1, <3>4
    <3>12. rx.first \in Nat /\ rx.got \in Nat /\ filled \in Nat /\ Len(Content[rx.folder]) \in Nat
           /\ L \in Nat
      BY <1>0, <1>a, <1>b
    <3>13. Len(t) <= rx.first + (filled + 1) + L /\ Len(t) <= Len(Content[r.folder]) + L
      <4> HIDE DEF done, r
      <4>1. CASE rx.field = "type"
        <5>1. Len(t) = Len(r.items) + 1 /\ filled = rx.got
          BY <3>5, <3>7, <3>8, <4>1
        <5>2. PICK m \in Nat, c \in Nat : m = Len(r.items) /\ c = Len(Content[rx.folder])
          BY <3>6, <3>12
        <5>3. PICK first \in Nat, l \in Nat : first = rx.first /\ l = L
          BY <3>12
        <5>4. Len(t) = m + 1 /\ m <= first + filled + l /\ first + filled < c
          BY <3>6, <3>10, <5>1, <5>2, <5>3
        <5>5. m + 1 <= first + (filled + 1) + l /\ m + 1 <= c + l
          BY ONLY filled \in Nat, m \in Nat, c \in Nat, first \in Nat, l \in Nat, <5>4
        <5> QED
          BY <3>2, <5>2, <5>3, <5>4, <5>5
      <4>2. CASE rx.field # "type"
        <5>1. Len(t) = Len(r.items) /\ filled + 1 = rx.got
          BY <3>5, <3>6, <3>7, <3>8, <3>12, <4>2
        <5> QED
          BY ONLY <3>2, <3>6, <3>12, <5>1
      <4> QED
        BY <4>1, <4>2
    <3> HIDE DEF r
    <3> QED
      BY <1>13, <2>0, <3>1, <3>9, <3>11, <3>13
  <2> QED
    BY <2>1, <2>2
<1>16. CASE SetNextIndex
  <2> DEFINE r == requests[rx.id]
             next == NextPage(rx.folder, rx.first)
  <2>0. faults' = faults
    BY <1>16 DEF SetNextIndex, Receiving
  <2>1. CASE ~Alive(rx.id)
    BY <1>12, <1>16, <2>1 DEF SetNextIndex, Receiving
  <2>2. CASE Alive(rx.id)
    <3>1. /\ rx.stage = "files" /\ rx.id \in 1..Len(requests)
          /\ rx.got = PageLength(rx.folder, rx.first) /\ rx.field = "type"
          /\ requests' = [requests EXCEPT ![rx.id].next = next]
          /\ rx' = [rx EXCEPT !.stage = "callback"]
          /\ table' = table /\ calling' = calling
      BY <1>0, <1>16, <2>2 DEF SetNextIndex, Receiving
    <3>2. r.folder = rx.folder /\ Covers(r.items, rx.folder, rx.first + rx.got)
      BY <2>2, <3>1 DEF OwnFolder, Pages, Complete, Filled
    <3>3. rx.first <= Len(Content[rx.folder])
      BY <1>0, <1>b, <3>2 DEF Covers
    <3>4. next \in Nat /\ Listed(rx.folder, next) = rx.first + rx.got
      BY <1>0, <3>1, <3>3, PageBounds
    <3>6. /\ Len(requests') = Len(requests)
          /\ requests'[rx.id].items = r.items /\ requests'[rx.id].next = next
          /\ requests'[rx.id].folder = r.folder
          /\ \A j \in 1..Len(requests) : j # rx.id => requests'[j] = requests[j]
      BY <3>1, <3>4, ChangedNext
    <3>7. rx'.id = rx.id /\ rx'.stage = "callback"
      BY <1>0, <3>1, <3>6 DEF Types, RxType
    <3>8. next # 0 => Len(r.items) <= next + L
      BY <1>d, <2>2, <3>1, <3>4 DEF Listed
    <3>9. Len(r.items) <= Len(Content[r.folder]) + L
      BY <1>d, <3>1
    <3> HIDE DEF next
    <3> QED
      BY <1>13, <2>0, <3>1, <3>6, <3>7, <3>8, <3>9
  <2> QED
    BY <2>1, <2>2
<1> QED
  BY Steps, <1>2, <1>3, <1>40, <1>4, <1>5, <1>6, <1>7, <1>8, <1>9, <1>10, <1>11, <1>14, <1>15, <1>16

-----------------------------------------------------------------------------
(* What is shown.                                                          *)

(* Parts of what the Duet lists, open or not, are entries that can be      *)
(* sorted, and stay them when they are no longer open.                     *)
LEMMA EntriesAreRows ==
    /\ EntryType \subseteq Row
    /\ \A item \in PartItems, open \in BOOLEAN : Entry(item, open) \in EntryType
    /\ \A e \in EntryType, open \in BOOLEAN : Entry(e, open) \in EntryType
<1> DEFINE Plain == [name : STRING, dir : BOOLEAN, key : Nat]
           Data == [name : STRING \cup {NoName}, dir : BOOLEAN, key : Nat]
<1>0. Plain \subseteq Data
  OBVIOUS
<1>1. \A f \in Folders : Content[f] \in Seq(Plain)
  BY FileListingAssumption
<1>2. Items \subseteq Data
  <2> HIDE DEF Plain, Data
  <2>1. Items \subseteq Plain
    BY <1>1 DEF Items, ToSet
  <2> QED
    BY <1>0, <2>1
<1>3. ASSUME NEW item \in Data PROVE Named(item) \in Data /\ Unnamed(item) \in Data
  <2>1. Named(item) \in Data
    BY DEF Named
  <2>2. Unnamed(item) \in Data
    <3>1. PICK named \in Data : named = [item EXCEPT !.name = NoName]
      OBVIOUS
    <3>2. Unnamed(item) = [named EXCEPT !.key = 0]
      BY <3>1 DEF Unnamed
    <3> QED
      BY <3>2
  <2> QED
    BY <2>1, <2>2
<1>4. PartItems \subseteq Data
  BY <1>2, <1>3 DEF PartItems, Parts
<1>5. ASSUME NEW item \in Data, NEW open \in BOOLEAN PROVE Entry(item, open) \in Row
  BY DEF Entry, Row
<1>6. ASSUME NEW item \in PartItems, NEW o \in BOOLEAN, NEW open \in BOOLEAN
      PROVE  Entry(Entry(item, o), open) = Entry(item, open)
  BY DEF Entry
<1> HIDE DEF Data
<1>7. \A item \in PartItems, open \in BOOLEAN : Entry(item, open) \in EntryType
  BY DEF EntryType
<1>8. ASSUME NEW e \in EntryType, NEW open \in BOOLEAN
      PROVE  e \in Row /\ Entry(e, open) \in EntryType
  <2>1. PICK item \in PartItems, o \in BOOLEAN : e = Entry(item, o)
    BY DEF EntryType
  <2>2. e \in Row
    BY <1>4, <1>5, <2>1
  <2>3. Entry(e, open) = Entry(item, open)
    BY <1>6, <2>1
  <2> QED
    BY <1>7, <2>2, <2>3
<1> QED
  BY <1>7, <1>8

(* What a callback is handed are entries, of which one at most is open.    *)
LEMMA EntriesAre ==
  ASSUME NEW S, NEW items \in Seq(S), NEW open \in BOOLEAN,
         \A e \in S, o \in BOOLEAN : Entry(e, o) \in EntryType
  PROVE  LET s == Entries(items, open) IN
         s \in Seq(EntryType) /\ Len(s) = Len(items) /\ OneOpen(s, Len(s))
<1> DEFINE s == Entries(items, open)
<1>1. Len(items) \in Nat /\ DOMAIN items = 1..Len(items)
  OBVIOUS
<1>2. s = [i \in 1..Len(items) |-> Entry(items[i], open /\ i = Len(items))]
  BY <1>1 DEF Entries
<1>3. ASSUME NEW i \in 1..Len(items) PROVE s[i] \in EntryType
  <2>1. items[i] \in S
    OBVIOUS
  <2>2. (open /\ i = Len(items)) \in BOOLEAN
    OBVIOUS
  <2>3. Entry(items[i], open /\ i = Len(items)) \in EntryType
    BY <2>1, <2>2
  <2> QED
    BY <1>2, <2>3
<1>4. ASSUME NEW i \in 1..Len(items), s[i].open PROVE i = Len(items)
  <2>1. s[i] = Entry(items[i], open /\ i = Len(items))
    BY <1>2
  <2>2. Entry(items[i], open /\ i = Len(items)).open <=> open /\ i = Len(items)
    BY DEF Entry
  <2> QED
    BY <1>4, <2>1, <2>2
<1> HIDE DEF s
<1>5. s \in Seq(EntryType) /\ Len(s) = Len(items)
  <2>1. DOMAIN s = 1..Len(items) /\ s \in [1..Len(items) -> EntryType]
    BY <1>2, <1>3
  <2>2. s \in Seq(EntryType)
    BY <1>1, <2>1, SeqDef
  <2> QED
    BY <1>1, <2>1, <2>2
<1>6. OneOpen(s, Len(s))
  BY <1>4, <1>5 DEF OneOpen
<1> QED
  BY <1>5, <1>6 DEF s

(* ShownIsSorted of a list: one entry at most is open, the others are in   *)
(* order.                                                                  *)
SortedBy(s, down) ==
    \A i, j \in DOMAIN s :
        i < j => /\ ~(s[i].open /\ s[j].open)
                 /\ ~s[i].open /\ ~s[j].open => InOrder(s[i], s[j], down)

(* What is sorted has the entries it had, and is in order.                 *)
LEMMA SortedEntries ==
  ASSUME NEW entries \in Seq(EntryType), OneOpen(entries, Len(entries)), NEW down \in BOOLEAN
  PROVE  /\ SortFilesBy(entries, down) \in Seq(EntryType)
         /\ SortedBy(SortFilesBy(entries, down), down)
<1> DEFINE s == SortFilesBy(entries, down)
<1>1. /\ s \in Seq(EntryType) /\ Len(s) = Len(entries)
      /\ OneOpen(s, Len(entries))
      /\ \A i, j \in 1..Len(entries) : i < j => InOrder(s[i], s[j], down)
  BY EntriesAreRows, SortFilesBySorts
<1> HIDE DEF s
<1>2. DOMAIN s = 1..Len(entries) /\ Len(entries) \in Nat
  BY <1>1
<1>3. SortedBy(s, down)
  BY <1>1, <1>2 DEF SortedBy, OneOpen
<1> QED
  BY <1>1, <1>3 DEF s

(* What is displayed are entries, and sorted where they are sorted.        *)
LEMMA DisplayedIs ==
  ASSUME NEW v \in Viewers, NEW entries \in Seq(EntryType), OneOpen(entries, Len(entries)),
         descending \in BOOLEAN
  PROVE  /\ Displayed(v, entries) \in Seq(EntryType)
         /\ v = "jobs" => SortedBy(Displayed(v, entries), descending)
<1>1. CASE v = "jobs"
  <2>1. Displayed(v, entries) = SortFilesBy(entries, descending)
    BY <1>1 DEF Displayed
  <2> QED
    BY <2>1, SortedEntries
<1>2. CASE v = "names"
  <2>1. Displayed(v, entries) = SortFilesBy(entries, FALSE)
    BY <1>2 DEF Displayed
  <2> QED
    BY <1>2, <2>1, SortedEntries
<1>3. CASE v = "multi"
  <2>1. Displayed(v, entries) = entries
    BY <1>3 DEF Displayed
  <2> QED
    BY <1>3, <2>1
<1> QED
  BY <1>1, <1>2, <1>3 DEF Viewers

(* A callback shows what it is handed.                                     *)
Showing ==
    /\ \E v \in Viewers \cup {"none"} : \E entries \in Seq(EntryType) :
           /\ OneOpen(entries, Len(entries))
           /\ shown' = [shown EXCEPT ![v] = Displayed(v, entries)]
    /\ descending' = descending

(* An item that is shown gets its name or its key.                         *)
Refilled(s, item) == [i \in DOMAIN s |-> IF s[i].open THEN Entry(item, TRUE) ELSE s[i]]
Refilling ==
    /\ \E item \in PartItems : shown' = [shown EXCEPT !["jobs"] = Refilled(@, item)]
    /\ descending' = descending

(* What is filled in is a part of an item of the folder.                   *)
LEMMA FilledIn ==
  ASSUME Types, SetName \/ SetKey
  PROVE  UNCHANGED <<shown, descending>> \/ Refilling
<1>1. rx.field # "type"
  BY DEF SetName, SetKey, SetLast
<1>2. Incoming \in Items
  <2>1. rx.folder \in Folders /\ rx.first + rx.got \in 1..Len(Content[rx.folder])
    BY <1>1, BasicTypes DEF Types
  <2> QED
    BY <2>1, ContentIsItems DEF Incoming
<1>3. Incoming \in PartItems /\ Named(Incoming) \in PartItems
  BY <1>2 DEF PartItems, Parts
<1>4. ASSUME NEW field, NEW item \in PartItems, NEW next, SetLast(field, item, next)
      PROVE  UNCHANGED <<shown, descending>> \/ Refilling
  BY <1>4 DEF SetLast, Receiving, Refilling, Refilled
<1> QED
  BY <1>3, <1>4 DEF SetName, SetKey

(* Every step that changes what is shown is a callback, a value of an item *)
(* that is shown, a change of the order, or the loss of the connection.    *)
LEMMA ShownSteps ==
  ASSUME Types, [Next]_vars
  PROVE  \/ UNCHANGED <<shown, descending>>
         \/ Showing
         \/ Refilling
         \/ SetSort
         \/ shown' = [shown EXCEPT !["jobs"] = <<>>] /\ descending' = descending
<1>1. CASE ItemClicked \/ Back \/ Refresh \/ (\E v \in {"names", "multi"} : AskFilaments(v))
  BY <1>1 DEF ItemClicked, Back, Refresh, AskFilaments, Click
<1>2. CASE RunCached
  <2>1. calling.old \in 1..Len(requests)
    BY <1>2, BasicTypes DEF RunCached, Types, NoId
  <2>2. requests[calling.old].items \in Seq(PartItems)
    BY <2>1, BasicTypes DEF Request
  <2>3. calling.viewer \in Viewers \cup {"none"}
    BY DEF Types, CallType
  <2>4. Shares(calling.viewer) \in BOOLEAN
    BY DEF Shares
  <2> DEFINE entries == Entries(requests[calling.old].items, Shares(calling.viewer))
  <2>5. entries \in Seq(EntryType) /\ OneOpen(entries, Len(entries))
    BY <2>2, <2>4, EntriesAre, EntriesAreRows
  <2>6. /\ shown' = [shown EXCEPT ![calling.viewer] = Displayed(calling.viewer, entries)]
        /\ descending' = descending
    BY <1>2 DEF RunCached
  <2> HIDE DEF entries
  <2> QED
    BY <2>3, <2>5, <2>6 DEF Showing
<1>3. CASE RunCallback
  <2>1. rx.id \in 1..Len(requests)
    BY <1>3, BasicTypes DEF RunCallback
  <2>2. requests[rx.id] \in Request
    BY <2>1, BasicTypes
  <2>3. requests[rx.id].items \in Seq(PartItems) /\ requests[rx.id].viewer \in Viewers \cup {"none"}
    BY <2>2 DEF Request
  <2> DEFINE entries == Entries(requests[rx.id].items, FALSE)
             v == requests[rx.id].viewer
  <2>4. entries \in Seq(EntryType) /\ OneOpen(entries, Len(entries))
    BY <2>3, EntriesAre, EntriesAreRows
  <2>5. /\ shown' = shown \/ shown' = [shown EXCEPT ![v] = Displayed(v, entries)]
        /\ descending' = descending
    BY <1>3 DEF RunCallback, Receiving
  <2> HIDE DEF entries, v
  <2>6. v \in Viewers \cup {"none"}
    BY <2>3 DEF v
  <2> QED
    BY <2>4, <2>5, <2>6 DEF Showing
<1>4. CASE ReceivingThread /\ ~RunCallback
  <2>1. CASE SetFirstIndex
    BY <2>1 DEF SetFirstIndex, Receiving
  <2>2. CASE SetType
    BY <2>2 DEF SetType, Receiving
  <2>3. CASE SetName \/ SetKey
    BY <2>3, FilledIn
  <2>4. CASE SetNextIndex
    BY <2>4 DEF SetNextIndex, Receiving
  <2>5. CASE SetCurrentDirectory
    BY <2>5 DEF SetCurrentDirectory, Receiving
  <2>6. ASSUME NEW i \in DOMAIN wire, Receive(i) PROVE UNCHANGED <<shown, descending>>
    BY <2>6 DEF Receive, Receiving
  <2> QED
    BY <1>4, <2>1, <2>2, <2>3, <2>4, <2>5, <2>6 DEF ReceivingThread
<1>5. CASE AskDuet \/ Cut \/ IgnoreNext \/ (\E i \in DOMAIN wire : Lose(i))
  BY <1>5 DEF AskDuet, Cut, IgnoreNext, Lose
<1>6. CASE Disconnect \/ Reset \/ Disconnected \/ Connect \/ RemoveAll \/ SetPrinterUniqueId
  BY <1>6 DEF Disconnect, Reset, Disconnected, Connect, RemoveAll, SetPrinterUniqueId, Moves
<1>7. CASE EventLoop
  BY <1>7 DEF EventLoop, OnDisconnect, OnConnect, NewUniqueId
<1>8. CASE UNCHANGED vars
  BY <1>8 DEF vars
<1> QED
  BY <1>1, <1>2, <1>3, <1>4, <1>5, <1>6, <1>7, <1>8 DEF Next

(* What is shown are entries, and sorted.                                  *)
ShownOK ==
    /\ shown \in [Viewers -> Seq(EntryType)] /\ descending \in BOOLEAN
    /\ ShownIsSorted

(* ShownIsSorted says that what jobs shows is sorted.                      *)
LEMMA SortedIs ==
  /\ ShownIsSorted <=> SortedBy(shown["jobs"], descending)
  /\ ShownIsSorted' <=> SortedBy(shown'["jobs"], descending')
<1>1. ShownIsSorted <=> SortedBy(shown["jobs"], descending)
  BY DEF ShownIsSorted, SortedBy, InOrder
<1>2. ShownIsSorted' <=> SortedBy(shown'["jobs"], descending')
  BY DEF ShownIsSorted, SortedBy, InOrder
<1> QED
  BY <1>1, <1>2

(* Values that come late change neither which entry is open nor the others.*)
LEMMA RefilledIs ==
  ASSUME NEW s \in Seq(EntryType), NEW item \in PartItems, NEW down, SortedBy(s, down)
  PROVE  Refilled(s, item) \in Seq(EntryType) /\ SortedBy(Refilled(s, item), down)
<1> DEFINE t == Refilled(s, item)
<1>1. DOMAIN s = 1..Len(s) /\ Len(s) \in Nat
  OBVIOUS
<1>2. t = [i \in 1..Len(s) |-> IF s[i].open THEN Entry(item, TRUE) ELSE s[i]]
  BY <1>1 DEF Refilled
<1>3. Entry(item, TRUE) \in EntryType /\ Entry(item, TRUE).open
  BY EntriesAreRows DEF Entry
<1>4. ASSUME NEW i \in 1..Len(s)
      PROVE  t[i] \in EntryType /\ (t[i].open <=> s[i].open) /\ (~s[i].open => t[i] = s[i])
  <2>1. s[i] \in EntryType
    OBVIOUS
  <2> QED
    BY <1>2, <1>3, <2>1
<1> HIDE DEF t
<1>5. t \in Seq(EntryType) /\ DOMAIN t = 1..Len(s)
  <2>1. DOMAIN t = 1..Len(s) /\ t \in [1..Len(s) -> EntryType]
    BY <1>2, <1>4
  <2> QED
    BY <1>1, <2>1, SeqDef
<1>6. SortedBy(t, down)
  BY <1>1, <1>4, <1>5 DEF SortedBy
<1> QED
  BY <1>5, <1>6 DEF t

(* Every step leaves what is shown sorted.                                 *)
LEMMA ShownStep ==
  ASSUME Types, ShownOK, [Next]_vars
  PROVE  ShownOK'
<1>0. shown \in [Viewers -> Seq(EntryType)] /\ descending \in BOOLEAN
      /\ SortedBy(shown["jobs"], descending) /\ "jobs" \in Viewers
  BY SortedIs DEF ShownOK, Viewers
<1>1. ASSUME shown' \in [Viewers -> Seq(EntryType)], descending' \in BOOLEAN,
             SortedBy(shown'["jobs"], descending')
      PROVE  ShownOK'
  BY <1>1, SortedIs DEF ShownOK
<1>2. CASE UNCHANGED <<shown, descending>>
  BY <1>0, <1>1, <1>2
<1>3. CASE Showing
  <2>1. PICK v \in Viewers \cup {"none"}, entries \in Seq(EntryType) :
           /\ OneOpen(entries, Len(entries))
           /\ shown' = [shown EXCEPT ![v] = Displayed(v, entries)]
    BY <1>3 DEF Showing
  <2>2. descending' = descending
    BY <1>3 DEF Showing
  <2> DEFINE s == Displayed(v, entries)
  <2>3. CASE v \in Viewers
    <3>1. s \in Seq(EntryType) /\ (v = "jobs" => SortedBy(s, descending))
      BY <1>0, <2>1, <2>3, DisplayedIs
    <3>2. shown' = [shown EXCEPT ![v] = s]
      BY <2>1
    <3> HIDE DEF s
    <3>3. shown' \in [Viewers -> Seq(EntryType)]
      BY <1>0, <2>3, <3>1, <3>2
    <3>4. shown'["jobs"] = IF v = "jobs" THEN s ELSE shown["jobs"]
      BY <1>0, <3>2
    <3> QED
      BY <1>0, <1>1, <2>2, <3>1, <3>3, <3>4
  <2>4. CASE v \notin Viewers
    <3>1. shown' = shown
      BY <1>0, <2>1, <2>4
    <3> QED
      BY <1>0, <1>1, <2>2, <3>1
  <2> QED
    BY <2>3, <2>4
<1>4. CASE Refilling
  <2>1. PICK item \in PartItems : shown' = [shown EXCEPT !["jobs"] = Refilled(@, item)]
    BY <1>4 DEF Refilling
  <2> DEFINE s == Refilled(shown["jobs"], item)
  <2>2. s \in Seq(EntryType) /\ SortedBy(s, descending)
    BY <1>0, RefilledIs
  <2>3. shown' = [shown EXCEPT !["jobs"] = s]
    BY <1>0, <2>1
  <2> HIDE DEF s
  <2>4. shown'["jobs"] = s /\ shown' \in [Viewers -> Seq(EntryType)]
    BY <1>0, <2>2, <2>3
  <2>5. descending' = descending
    BY <1>4 DEF Refilling
  <2> QED
    BY <1>0, <1>1, <2>2, <2>4, <2>5
<1>5. CASE SetSort
  <2> DEFINE entries == Entries(shown["jobs"], FALSE)
             s == SortFilesBy(entries, ~descending)
  <2>0. shown["jobs"] \in Seq(EntryType) /\ (~descending) \in BOOLEAN
    BY <1>0
  <2>1. entries \in Seq(EntryType) /\ OneOpen(entries, Len(entries))
    BY <2>0, EntriesAre, EntriesAreRows
  <2>2. s \in Seq(EntryType) /\ SortedBy(s, ~descending)
    <3> HIDE DEF entries
    <3> QED
      BY <2>0, <2>1, SortedEntries
  <2>3. shown' = [shown EXCEPT !["jobs"] = s] /\ descending' = ~descending
    BY <1>0, <1>5 DEF SetSort
  <2> HIDE DEF s
  <2>4. shown'["jobs"] = s /\ shown' \in [Viewers -> Seq(EntryType)]
    BY <1>0, <2>2, <2>3
  <2>5. SortedBy(shown'["jobs"], descending')
    BY <2>2, <2>3, <2>4
  <2> QED
    BY <1>1, <2>0, <2>3, <2>4, <2>5
<1>6. CASE shown' = [shown EXCEPT !["jobs"] = <<>>] /\ descending' = descending
  <2>1. shown'["jobs"] = <<>> /\ shown' \in [Viewers -> Seq(EntryType)]
    BY <1>0, <1>6
  <2>2. SortedBy(<<>>, descending)
    BY DEF SortedBy
  <2> QED
    BY <1>0, <1>1, <1>6, <2>1, <2>2
<1> QED
  BY <1>2, <1>3, <1>4, <1>5, <1>6, ShownSteps

(* At the start nothing is shown.                                          *)
LEMMA ShownInit == Init => ShownOK
<1> SUFFICES ASSUME Init PROVE ShownOK
  OBVIOUS
<1>1. shown \in [Viewers -> Seq(EntryType)] /\ descending \in BOOLEAN /\ shown["jobs"] = <<>>
  BY DEF Init, Viewers
<1>2. SortedBy(<<>>, descending)
  BY DEF SortedBy
<1> QED
  BY <1>1, <1>2, SortedIs DEF ShownOK

(* What jobs shows is sorted by what the user chose, folders first,        *)
(* whichever page, request or change of the order came last, but for the   *)
(* one item whose values came after it was handed over (SortFilesBy,       *)
(* setSort, setName, the callbacks of RequestFiles).                       *)
THEOREM JobsAreSorted == Spec => []ShownIsSorted
<1>1. Init => ShownOK
  BY ShownInit
<1>2. Types /\ ShownOK /\ [Next]_vars => ShownOK'
  BY ShownStep
<1>3. ExactInv => Types
  BY DEF ExactInv
<1>4. ShownOK => ShownIsSorted
  BY DEF ShownOK
<1> QED
  BY <1>1, <1>2, <1>3, <1>4, ListInvariant, PTL DEF Spec

-----------------------------------------------------------------------------
(* The type invariant.                                                     *)

LinkTypes ==
    /\ world \in Situations
    /\ link \in {"up", "closed", "reset", "down", "connected", "cleared"}
    /\ events \in Seq({"disconnected", "connected", "identity"})
    /\ clicks \in 0..world.clicks /\ faults \in 0..MaxFaults
    /\ rx.got <= PageSize

(* Every step keeps the types of the connection, the events and the page.  *)
LEMMA LinkTypesStep ==
  ASSUME Types, LinkTypes, [Next]_vars
  PROVE  LinkTypes'
<1>0. /\ world' = world /\ world.clicks \in Nat
      /\ faults' \in 0..MaxFaults
      /\ rx.got \in Nat /\ 0 <= PageSize /\ Idle.got = 0
  <2>1. faults' \in 0..MaxFaults
    BY FaultsCount, FileListingAssumption DEF LinkTypes
  <2> QED
    BY <2>1, WorldStays, BasicTypes, PageSizeIsPositive DEF LinkTypes, Situations, Idle
<1>1. ASSUME UNCHANGED <<link, events>>, clicks' \in 0..world.clicks, rx'.got <= PageSize
      PROVE  LinkTypes'
  BY <1>0, <1>1 DEF LinkTypes
<1>2. ASSUME UNCHANGED <<link, events, clicks>>, rx'.got <= PageSize PROVE LinkTypes'
  BY <1>0, <1>1, <1>2 DEF LinkTypes
<1>3. ASSUME NEW v, NEW f, Click(v, f) PROVE LinkTypes'
  BY <1>0, <1>1, <1>3 DEF Click, LinkTypes
<1>4. CASE ItemClicked \/ Back \/ Refresh \/ (\E v \in {"names", "multi"} : AskFilaments(v))
  BY <1>3, <1>4 DEF ItemClicked, Back, Refresh, AskFilaments
<1>5. CASE RunCached \/ AskDuet \/ SetSort \/ (\E i \in DOMAIN wire : Lose(i))
  BY <1>2, <1>5 DEF RunCached, AskDuet, SetSort, Lose, LinkTypes
<1>6. CASE RunCallback \/ SetCurrentDirectory \/ SetFirstIndex \/ SetNextIndex
  <2>1. CASE RunCallback
    BY <1>0, <1>2, <2>1 DEF RunCallback, Receiving
  <2>2. CASE SetCurrentDirectory
    BY <1>0, <1>2, <2>2 DEF SetCurrentDirectory, Receiving, LinkTypes
  <2>3. ASSUME NEW stage, Receiving([rx EXCEPT !.stage = stage]) \/ Receiving(Idle)
        PROVE  LinkTypes'
    <3>1. rx' = Idle \/ rx'.got = rx.got
      BY <2>3 DEF Receiving, Types, RxType
    <3> QED
      BY <1>0, <1>2, <2>3, <3>1 DEF Receiving, LinkTypes
  <2> QED
    BY <1>6, <2>1, <2>2, <2>3 DEF SetFirstIndex, SetNextIndex
<1>7. CASE SetType
  <2>1. rx.first <= Len(Content[rx.folder]) /\ rx.folder \in Folders /\ rx.first \in Nat
    <3>1. rx.first + rx.got + 1 \in 1..Len(Content[rx.folder])
      BY <1>7, BasicTypes, InPage DEF SetType
    <3> QED
      BY <3>1, BasicTypes, ContentIsItems
  <2>2. rx.got < PageSize
    BY <1>0, <1>7, <2>1, PageBounds, PageSizeIsPositive DEF SetType
  <2>3. rx' = Idle \/ rx'.got = rx.got + 1
    BY <1>7 DEF SetType, Receiving, Types, RxType
  <2> QED
    BY <1>0, <1>2, <1>7, <2>2, <2>3, PageSizeIsPositive DEF SetType, Receiving
<1>8. CASE SetName \/ SetKey
  <2>1. ASSUME NEW field, NEW item, NEW next, SetLast(field, item, next) PROVE LinkTypes'
    <3>1. rx' = Idle \/ rx'.got = rx.got
      BY <2>1 DEF SetLast, Receiving, Types, RxType
    <3> QED
      BY <1>0, <1>2, <2>1, <3>1 DEF SetLast, Receiving, LinkTypes
  <2> QED
    BY <1>8, <2>1 DEF SetName, SetKey
<1>9. ASSUME NEW i \in DOMAIN wire, Receive(i) PROVE LinkTypes'
  <2>1. rx'.got = 0
    BY <1>9 DEF Receive, Receiving, Idle
  <2> QED
    BY <1>0, <1>2, <1>9, <2>1 DEF Receive, Receiving
<1>10. CASE Cut \/ IgnoreNext
  BY <1>0, <1>2, <1>10 DEF Cut, IgnoreNext
<1>12. CASE Disconnect \/ Reset \/ Disconnected \/ Connect \/ RemoveAll \/ SetPrinterUniqueId
  <2>1. ASSUME NEW from, NEW to \in {"up", "closed", "reset", "down", "connected", "cleared"},
               Moves(from, to), rx' = Idle \/ rx' = rx,
               \/ events' = events
               \/ \E event \in {"disconnected", "connected", "identity"} : Post(event)
        PROVE  LinkTypes'
    <3>1. events' \in Seq({"disconnected", "connected", "identity"})
      BY <2>1 DEF Post, LinkTypes
    <3>2. link' \in {"up", "closed", "reset", "down", "connected", "cleared"}
          /\ clicks' \in 0..world.clicks /\ rx'.got <= PageSize
      BY <1>0, <2>1 DEF Moves, LinkTypes
    <3> QED
      BY <1>0, <3>1, <3>2 DEF LinkTypes
  <2>2. CASE Disconnect
    BY <2>1, <2>2 DEF Disconnect
  <2>3. CASE Reset
    BY <2>1, <2>3 DEF Reset
  <2>4. CASE Disconnected
    BY <2>1, <2>4 DEF Disconnected
  <2>5. CASE Connect
    BY <2>1, <2>5 DEF Connect
  <2>6. CASE RemoveAll
    BY <2>1, <2>6 DEF RemoveAll
  <2>7. CASE SetPrinterUniqueId
    BY <2>1, <2>7 DEF SetPrinterUniqueId
  <2> QED
    BY <1>12, <2>2, <2>3, <2>4, <2>5, <2>6, <2>7
<1>11. CASE EventLoop
  <2>1. ASSUME NEW event, Handle(event) PROVE events' \in Seq({"disconnected", "connected", "identity"})
    BY <2>1 DEF Handle, LinkTypes
  <2> QED
    BY <1>0, <1>11, <2>1 DEF EventLoop, OnDisconnect, OnConnect, NewUniqueId, LinkTypes
<1>13. CASE UNCHANGED vars
  BY <1>0, <1>2, <1>13 DEF vars, LinkTypes
<1> QED
  BY <1>4, <1>5, <1>6, <1>7, <1>8, <1>9, <1>10, <1>11, <1>12, <1>13 DEF Next, ReceivingThread

(* Every variable keeps its type, and no list grows longer than its folder *)
(* and what cut answers left (setFirstIndex, ClearItems, setType).         *)
THEOREM ListTypes == Spec => []TypeOK
<1> DEFINE Inv == ExactInv /\ ShownOK /\ LinkTypes /\ Bounded
<1>1. Init => Inv
  <2> SUFFICES ASSUME Init PROVE Inv
    OBVIOUS
  <2>1. ExactInv
    BY ListInit
  <2>2. ShownOK
    BY ShownInit
  <2>3. LinkTypes
    <3>1. world \in Situations /\ world.clicks \in Nat
      BY FileListingAssumption DEF Init, Situations
    <3>2. clicks \in 0..world.clicks /\ faults \in 0..MaxFaults
      BY <3>1, FileListingAssumption DEF Init
    <3>3. rx.got <= PageSize
      BY PageSizeIsPositive DEF Init, Idle
    <3>4. events \in Seq({"disconnected", "connected", "identity"})
      <4>1. CASE "jobs" \in world.viewers
        <5>1. events = <<"identity">>
          BY <4>1 DEF Init
        <5> QED
          BY <5>1
      <4>2. CASE "jobs" \notin world.viewers
        <5>1. events = <<>>
          BY <4>2 DEF Init
        <5> QED
          BY <5>1
      <4> QED
        BY <4>1, <4>2
    <3>5. link = "up"
      BY DEF Init
    <3> QED
      BY <3>1, <3>2, <3>3, <3>4, <3>5 DEF LinkTypes
  <2>4. Bounded
    BY DEF Init, Bounded, Idle, Ids
  <2> QED
    BY <2>1, <2>2, <2>3, <2>4
<1>2. Inv /\ [Next]_vars => ShownOK' /\ LinkTypes'
  BY ShownStep, LinkTypesStep DEF ExactInv
<1>3. ASSUME Inv, ExactInv', [Next]_vars PROVE Bounded'
  BY <1>3, BoundedStep DEF ExactInv, LinkTypes
<1>4. Inv => TypeOK
  <2> SUFFICES ASSUME Inv PROVE TypeOK
    OBVIOUS
  <2>1. Types
    BY DEF ExactInv
  <2>2. Ids = 1..Len(requests)
    BY <2>1 DEF Types, Ids
  <2>3. {NoId} \cup Ids = 0..Len(requests)
    BY <2>1, <2>2, BasicTypes DEF NoId
  <2>4. \A id \in Ids :
            Len(requests[id].items) <= Len(Content[requests[id].folder]) + faults * PageSize
    BY DEF Bounded, Left
  <2>5. rx \in [stage : {"idle", "dir", "first", "files", "callback"}, folder : Folders,
               first : Nat, got : 0..PageSize, field : {"type", "name", "key"}, id : {NoId} \cup Ids]
    <3>1. rx.got \in 0..PageSize
      BY <2>1, BasicTypes, PageSizeIsPositive DEF LinkTypes
    <3> QED
      BY <2>1, <2>3, <3>1 DEF Types, RxType
  <2> QED
    BY <2>1, <2>3, <2>4, <2>5 DEF Types, CallType, ShownOK, LinkTypes, TypeOK, Request, Question
<1> QED
  BY <1>1, <1>2, <1>3, <1>4, ListInvariant, PTL DEF Spec
=============================================================================
