---------------------------- MODULE FileListing ----------------------------
(***************************************************************************)
(* The folders of the Duet, listed page by page, and what shows them.      *)
(*                                                                         *)
(* RequestFiles puts a new request for a folder in the place of the old    *)
(* one, calls back with what the old one had, and asks for the items from  *)
(* 0.  The answer names its folder, the index of its first item and that   *)
(* of the next page; the last subscriber asks for it.  Nothing says which  *)
(* request an answer belongs to, nothing times out, and only the line of a *)
(* UART or USB keeps the answers in order.                                 *)
(*                                                                         *)
(* jobs is FilePresenter (one that can be seen: see Screens), which shows  *)
(* every page as it comes and shares the items it shows with the request;  *)
(* names is RequestFilaments and multi is FilamentSelectMultiPresenter,    *)
(* which wait for the last, ask for the same folder and copy the names.    *)
(* Left out: the path, which follows the name, m_first, which nobody reads *)
(* after the constructor, the queueing of file infos at the end of the     *)
(* array, and the contents of files (M36.2).                               *)
(***************************************************************************)
EXTENDS Naturals, Sequences, SequencesExt

CONSTANTS
    Content,        \* the items of each folder, in the order of the Duet
    PageSize,       \* items of an answer
    Worlds,         \* a subset of Situations
    MaxFaults       \* bound: answers lost or cut, or reconnections

Folders == DOMAIN Content
Gcodes == "gcodes"          \* where setFolder("") leads
Filaments == "filaments"

Viewers == {"jobs", "names", "multi"}
Situations == [viewers : SUBSET Viewers, network : BOOLEAN,
               faults : SUBSET {"lost", "cut", "link"}, clicks : Nat, patient : BOOLEAN]

ASSUME FileListingAssumption ==
    /\ {Gcodes, Filaments} \subseteq Folders
    /\ \A f \in Folders : Content[f] \in Seq([name : STRING, dir : BOOLEAN, key : Nat])
    /\ PageSize \in Nat \ {0}
    /\ Worlds \subseteq Situations
    /\ MaxFaults \in Nat

VARIABLES
    world,          \* who asks, over what, what may go wrong, how often and when users click
    requests,       \* every FileListRequest, Destroyed or not; their index is their id
    table,          \* s_fileListRequests: the id for each folder, or NoId
    calling,        \* RequestFiles, from the table to the request to the Duet
    folder,         \* m_currentFolder of jobs
    shown,          \* m_items, s_filaments and m_filamentOptions
    descending,     \* m_sortOrder of jobs
    wire,           \* what was asked and is not decoded yet
    rx,             \* the answer being decoded
    link,           \* Disconnect and Connect, step by step; "up" and "closed": the
                    \* printer's unique id is known
    events,         \* the queue of the event loop
    clicks, faults

vars == <<world, requests, table, calling, folder, shown, descending, wire, rx, link,
          events, clicks, faults>>

NoId == 0
NoCall == [viewer |-> "none", folder |-> Gcodes, old |-> NoId, stage |-> "none"]
Idle == [stage |-> "idle", folder |-> Gcodes, first |-> 0, got |-> 0, field |-> "type", id |-> NoId]
Destroyed == [folder |-> Gcodes, viewer |-> "none", items |-> <<>>, next |-> 0]

RunsEveryTime(v) == v = "jobs"

(* What an item is after setType and after setName.  Sorted by the name,   *)
(* the key comes with it; the date and the size come later.                *)
NoName == "unnamed"
Unnamed(item) == [item EXCEPT !.name = NoName, !.key = 0]
Named(item) == [item EXCEPT !.key = 0]

(* Items as a viewer has them; open is one whose values are still to come. *)
Entry(item, open) == [name |-> item.name, dir |-> item.dir, key |-> item.key, open |-> open]
Entries(items, open) == [i \in DOMAIN items |-> Entry(items[i], open /\ i = Len(items))]

Init ==
    /\ world \in Worlds
    /\ requests = <<>> /\ table = [f \in Folders |-> NoId]
    /\ calling = NoCall
    /\ folder = Gcodes
    /\ shown = [v \in Viewers |-> <<>>]
    /\ descending = TRUE
    /\ wire = <<>> /\ rx = Idle
    /\ link = "up"
    /\ events = IF "jobs" \in world.viewers THEN <<"identity">> ELSE <<>>
    /\ clicks = 0 /\ faults = 0

-----------------------------------------------------------------------------
(* SortFilesBy.  The key stands for the name, the date or the size.        *)

Precedes(l, r, down) == IF l.dir = r.dir THEN down = (l.key > r.key) ELSE l.dir

SwapIf(s, j, down) ==
    IF Precedes(s[j], s[j - 1], down) THEN [s EXCEPT ![j] = s[j - 1], ![j - 1] = s[j]] ELSE s

(* Mutant: first is moved on before the pass. *)
SortFilesBy_SkipsFirst(s, down) ==
    LET n == Len(s)
        Pass(t, i) == FoldLeft(LAMBDA u, j : SwapIf(u, j, down), t,
                               [k \in 1..(n - i - 1) |-> n + 1 - k])
    IN  FoldLeft(Pass, s, [i \in 1..(n - 1) |-> i])

(* Passes from the back to first, each of which leaves the least in front. *)
SortFilesBy(s, down) ==
    LET n == Len(s)
        Pass(t, i) == FoldLeft(LAMBDA u, j : SwapIf(u, j, down), t,
                               [k \in 1..(n - i) |-> n + 1 - k])
    IN  FoldLeft(Pass, s, [i \in 1..(n - 1) |-> i])

Displayed(v, items) ==
    CASE v = "jobs" -> SortFilesBy(items, descending)
      [] v = "names" -> SortFilesBy(items, FALSE)
      [] v = "multi" -> items

-----------------------------------------------------------------------------
(* Shared pointers to a request: in the table, in RequestFiles while it    *)
(* runs, and in the subscriber that calls back.                            *)

Refers(id, tab, call, answer) ==
    \/ \E f \in Folders : tab[f] = id
    \/ call.old = id
    \/ answer.stage = "callback" /\ answer.id = id

Referred(tab, call, answer) ==
    [id \in DOMAIN requests |-> IF Refers(id, tab, call, answer) THEN requests[id] ELSE Destroyed]

-----------------------------------------------------------------------------
(* RequestFiles, under the UI lock of whoever calls it.                    *)

(* Until the state is DISCONNECTED, what is sent to a transport that was   *)
(* closed is lost.                                                         *)
Connected == link \in {"up", "connected", "cleared"}
Asked(f, first) == IF Connected THEN Append(wire, [folder |-> f, first |-> first]) ELSE wire

RequestFiles(v, f) ==
    /\ calling = NoCall
    /\ requests' = Append(requests, [folder |-> f, viewer |-> v, items |-> <<>>, next |-> 0])
    /\ table' = [table EXCEPT ![f] = Len(requests) + 1]
    /\ calling' = [viewer |-> v, folder |-> f, old |-> table[f],
                   stage |-> IF table[f] = NoId THEN "ask" ELSE "cached"]

(* Whether the last item of the request that was replaced is being filled  *)
(* in, while the viewer is handed the item itself.                         *)
Shares(v) == v = "jobs" /\ rx.stage = "files" /\ rx.field # "type" /\ rx.id = calling.old

(* The callback with what the request that was replaced has.               *)
RunCached ==
    LET v == calling.viewer
        entries == Entries(requests[calling.old].items, Shares(v))
    IN  /\ calling.stage = "cached"
        /\ shown' = [shown EXCEPT ![v] = Displayed(v, entries)]
        /\ calling' = [calling EXCEPT !.stage = "ask"]
        /\ UNCHANGED <<world, requests, table, folder, descending, wire, rx, link, events, clicks, faults>>

(* RequestFileList; cached, the request that was replaced, goes away.      *)
AskDuet ==
    /\ calling.stage = "ask"
    /\ wire' = Asked(calling.folder, 0)
    /\ calling' = NoCall
    /\ requests' = Referred(table, NoCall, rx)
    /\ UNCHANGED <<world, table, folder, shown, descending, rx, link, events, clicks, faults>>

-----------------------------------------------------------------------------
(* The user.                                                               *)

Click(v, f) ==
    /\ clicks < world.clicks
    /\ clicks' = clicks + 1
    /\ RequestFiles(v, f)
    /\ UNCHANGED <<world, shown, descending, wire, rx, link, events, faults>>

(* Whether the user, being patient, may leave the folder: all of it is     *)
(* there.  Otherwise its other pages overwrite the next folder.            *)
MayLeave == world.patient => wire = <<>> /\ rx = Idle /\ events = <<>>

(* Of the folders the Duet lists, those with contents here can be opened.  *)
(* The path of a folder that has no name yet is empty.                     *)
ItemClicked ==
    /\ MayLeave
    /\ \E i \in DOMAIN shown["jobs"] :
           LET item == shown["jobs"][i] IN
           /\ item.dir /\ item.name \in Folders \cup {NoName}
           /\ folder' = IF item.name = NoName THEN Gcodes ELSE item.name
           /\ Click("jobs", folder')

Back ==
    /\ MayLeave
    /\ folder # Gcodes
    /\ folder' = Gcodes
    /\ Click("jobs", Gcodes)

(* refreshFiles, deleteSelectedItem.                                       *)
Refresh ==
    /\ "jobs" \in world.viewers
    /\ Click("jobs", folder)
    /\ UNCHANGED folder

AskFilaments(v) ==
    /\ v \in world.viewers \ {"jobs"}
    /\ Click(v, Filaments)
    /\ UNCHANGED folder

SetSort ==
    /\ "jobs" \in world.viewers
    /\ calling = NoCall
    /\ descending' = ~descending
    /\ shown' = [shown EXCEPT !["jobs"] = SortFilesBy(Entries(@, FALSE), ~descending)]
    /\ UNCHANGED <<world, requests, table, calling, folder, wire, rx, link, events, clicks, faults>>

-----------------------------------------------------------------------------
(* The receiving thread: FileSubscribers, value by value.                  *)

(* Whether the weak pointer in responseData can be locked.                 *)
Alive(id) == Refers(id, table, calling, Idle)

PageLength(f, first) ==
    IF first + PageSize <= Len(Content[f]) THEN PageSize ELSE Len(Content[f]) - first
NextPage(f, first) == IF first + PageSize < Len(Content[f]) THEN first + PageSize ELSE 0

(* RequestFilaments is called under the model's lock.                      *)
ModelLocked == calling.viewer = "names"
(* The callbacks take the lock that RequestFiles is called under.          *)
Blocked(v) == calling # NoCall /\ v # "multi"

Receiving(becomes) ==
    /\ rx' = becomes
    /\ UNCHANGED <<world, calling, folder, descending, link, events, clicks, faults>>

(* External: the Duet's answers come in the order of the questions, but    *)
(* not those of independent HTTP requests.                                 *)
Arrival(i) == i \in DOMAIN wire /\ (i = 1 \/ world.network)

Receive(i) ==
    /\ rx.stage = "idle"
    /\ Arrival(i)
    /\ wire' = RemoveAt(wire, i)
    /\ Receiving([Idle EXCEPT !.stage = "dir", !.folder = wire[i].folder, !.first = wire[i].first])
    /\ UNCHANGED <<requests, table, shown>>

SetCurrentDirectory ==
    /\ rx.stage = "dir"
    /\ ~ModelLocked
    /\ Receiving(IF table[rx.folder] = NoId THEN Idle
                 ELSE [rx EXCEPT !.stage = "first", !.id = table[rx.folder]])
    /\ UNCHANGED <<requests, table, shown, wire>>

(* Mutant: any page will do. *)
Expected_Any(id, first) == Alive(id)

Expected(id, first) == Alive(id) /\ requests[id].next = first

(* Mutant: the items of an earlier answer stay. *)
SetFirstIndex_KeepsItems ==
    /\ rx.stage = "first"
    /\ Receiving(IF Expected(rx.id, rx.first) THEN [rx EXCEPT !.stage = "files"] ELSE Idle)
    /\ UNCHANGED <<requests, table, shown, wire>>

SetFirstIndex ==
    /\ rx.stage = "first"
    /\ IF Expected(rx.id, rx.first)
       THEN /\ requests' = [requests EXCEPT ![rx.id].items = IF rx.first = 0 THEN <<>> ELSE @]
            /\ Receiving([rx EXCEPT !.stage = "files"])
       ELSE /\ Receiving(Idle)
            /\ UNCHANGED requests
    /\ UNCHANGED <<table, shown, wire>>

Adding(items) == requests' = [requests EXCEPT ![rx.id].items = items]
Incoming == Content[rx.folder][rx.first + rx.got]

SetType ==
    /\ rx.stage = "files" /\ rx.field = "type"
    /\ rx.got < PageLength(rx.folder, rx.first)
    /\ IF Alive(rx.id)
       THEN /\ Adding(Append(requests[rx.id].items,
                             Unnamed(Content[rx.folder][rx.first + rx.got + 1])))
            /\ Receiving([rx EXCEPT !.got = @ + 1, !.field = "name"])
       ELSE /\ Receiving(Idle)
            /\ UNCHANGED requests
    /\ UNCHANGED <<table, shown, wire>>

(* The last item is changed, also where a viewer has it by now.            *)
SetLast(field, item, next) ==
    /\ rx.stage = "files" /\ rx.field = field
    /\ IF Alive(rx.id)
       THEN /\ Adding([requests[rx.id].items EXCEPT ![Len(requests[rx.id].items)] = item])
            /\ shown' = IF calling.stage = "ask" /\ Shares(calling.viewer)
                        THEN [shown EXCEPT !["jobs"] =
                                  [i \in DOMAIN @ |-> IF @[i].open THEN Entry(item, TRUE) ELSE @[i]]]
                        ELSE shown
            /\ Receiving([rx EXCEPT !.field = next])
       ELSE /\ Receiving(Idle)
            /\ UNCHANGED <<requests, shown>>
    /\ UNCHANGED <<table, wire>>

SetName == SetLast("name", Named(Incoming), "key")

(* setSize and setDate.                                                    *)
SetKey == SetLast("key", Incoming, "type")

SetNextIndex ==
    /\ rx.stage = "files" /\ rx.field = "type"
    /\ rx.got = PageLength(rx.folder, rx.first)
    /\ IF Alive(rx.id)
       THEN /\ requests' = [requests EXCEPT ![rx.id].next = NextPage(rx.folder, rx.first)]
            /\ Receiving([rx EXCEPT !.stage = "callback"])
       ELSE /\ Receiving(Idle)
            /\ UNCHANGED requests
    /\ UNCHANGED <<table, shown, wire>>

(* Mutant: the next page is asked for only where it is shown as it comes. *)
RunCallback_AsksForJobsOnly ==
    LET request == requests[rx.id]
        v == request.viewer
        runs == request.next = 0 \/ RunsEveryTime(v)
    IN  /\ rx.stage = "callback"
        /\ runs => ~Blocked(v)
        /\ shown' = IF runs THEN [shown EXCEPT ![v] = Displayed(v, Entries(request.items, FALSE))] ELSE shown
        /\ wire' = IF request.next = 0 \/ ~runs THEN wire ELSE Asked(request.folder, request.next)
        /\ requests' = Referred(table, calling, Idle)
        /\ Receiving(Idle)
        /\ UNCHANGED table

(* The rest of setNextIndex, which holds the request.                      *)
RunCallback ==
    LET request == requests[rx.id]
        v == request.viewer
        runs == request.next = 0 \/ RunsEveryTime(v)
    IN  /\ rx.stage = "callback"
        /\ runs => ~Blocked(v)
        /\ shown' = IF runs THEN [shown EXCEPT ![v] = Displayed(v, Entries(request.items, FALSE))] ELSE shown
        /\ wire' = IF request.next = 0 THEN wire ELSE Asked(request.folder, request.next)
        /\ requests' = Referred(table, calling, Idle)
        /\ Receiving(Idle)
        /\ UNCHANGED table

ReceivingThread ==
    \/ \E i \in DOMAIN wire : Receive(i)
    \/ SetCurrentDirectory \/ SetFirstIndex \/ SetType \/ SetName \/ SetKey
    \/ SetNextIndex \/ RunCallback

-----------------------------------------------------------------------------
(* External: answers that are lost or end early.                           *)

Fault(kind) == kind \in world.faults /\ faults < MaxFaults /\ faults' = faults + 1

Lose(i) ==
    /\ Fault("lost")
    /\ Arrival(i)
    /\ wire' = RemoveAt(wire, i)
    /\ UNCHANGED <<world, requests, table, calling, folder, shown, descending, rx, link, events, clicks>>

Cut ==
    /\ Fault("cut")
    /\ rx.stage \in {"dir", "first", "files"}
    /\ rx' = Idle
    /\ UNCHANGED <<world, requests, table, calling, folder, shown, descending, wire, link, events, clicks>>

(* What an answer of M409 that was cut left in m_seq makes setNextIndex    *)
(* take this next for one of M409.                                         *)
IgnoreNext ==
    /\ Fault("cut")
    /\ rx.stage = "files" /\ rx.field = "type"
    /\ rx.got = PageLength(rx.folder, rx.first)
    /\ rx' = Idle
    /\ UNCHANGED <<world, requests, table, calling, folder, shown, descending, wire, link, events, clicks>>

-----------------------------------------------------------------------------
(* A thread disconnects and connects, and the event loop hears of it.      *)

Moves(from, to) ==
    /\ link = from /\ link' = to
    /\ UNCHANGED <<world, calling, folder, shown, descending, clicks>>

Post(event) == events' = Append(events, event)

(* OM::RemoveAll, as far as files are concerned.                           *)
Clear ==
    /\ ~ModelLocked
    /\ table' = [f \in Folders |-> NoId]
    /\ requests' = Referred(table', calling, rx)

(* Of a line: HTTP connects in another order.  The transport waits for     *)
(* what its decoder calls.                                                 *)
Disconnect ==
    /\ Fault("link")
    /\ ~world.network
    /\ rx.stage # "callback"
    /\ Moves("up", "closed")
    /\ rx' = Idle /\ wire' = <<>>
    /\ UNCHANGED <<requests, table, events>>

(* The unique id is emptied, which is an event.                            *)
Reset ==
    /\ Moves("closed", "reset")
    /\ Clear
    /\ Post("identity")
    /\ UNCHANGED <<wire, rx, faults>>

Disconnected ==
    /\ Moves("reset", "down")
    /\ Post("disconnected")
    /\ UNCHANGED <<requests, table, wire, rx, faults>>

Connect ==
    /\ Moves("down", "connected")
    /\ Post("connected")
    /\ UNCHANGED <<requests, table, wire, rx, faults>>

(* Comm::Reconnect clears again; what is empty stays it without an event.  *)
RemoveAll ==
    /\ Moves("connected", "cleared")
    /\ Clear
    /\ UNCHANGED <<events, wire, rx, faults>>

(* The answer for boards.  A user's Connect does not clear again.          *)
SetPrinterUniqueId ==
    /\ Moves("connected", "up") \/ Moves("cleared", "up")
    /\ Post("identity")
    /\ UNCHANGED <<requests, table, wire, rx, faults>>

Handle(event) == events # <<>> /\ Head(events) = event /\ events' = Tail(events)

OnDisconnect ==
    /\ calling = NoCall
    /\ Handle("disconnected")
    /\ shown' = [shown EXCEPT !["jobs"] = <<>>]
    /\ UNCHANGED <<world, requests, table, calling, folder, descending, wire, rx, link, clicks, faults>>

(* onActivate: the unique id must not be empty.                            *)
OnConnect ==
    /\ calling = NoCall
    /\ Handle("connected")
    /\ IF link \in {"up", "closed"} THEN RequestFiles("jobs", folder)
       ELSE UNCHANGED <<requests, table, calling>>
    /\ UNCHANGED <<world, folder, shown, descending, wire, rx, link, clicks, faults>>

NewUniqueId ==
    /\ Handle("identity")
    /\ folder' = Gcodes
    /\ RequestFiles("jobs", Gcodes)
    /\ UNCHANGED <<world, shown, descending, wire, rx, link, clicks, faults>>

EventLoop == OnDisconnect \/ OnConnect \/ NewUniqueId

-----------------------------------------------------------------------------

Next ==
    \/ RunCached \/ AskDuet
    \/ ItemClicked \/ Back \/ Refresh \/ SetSort
    \/ \E v \in {"names", "multi"} : AskFilaments(v)
    \/ ReceivingThread
    \/ Cut \/ IgnoreNext \/ \E i \in DOMAIN wire : Lose(i)
    \/ Disconnect \/ Reset \/ Disconnected \/ Connect \/ RemoveAll \/ SetPrinterUniqueId
    \/ EventLoop

Spec == Init /\ [][Next]_vars

(* A line that loses nothing, and a user who leaves complete folders.      *)
GoodLine == world.patient /\ ~world.network /\ world.faults \subseteq {"link"}

(* On such a line, whoever calls RequestFiles returns, the receiving       *)
(* thread decodes what arrives, the request thread connects, boards are    *)
(* answered, and the event loop runs.  Nothing is assumed of the user.     *)
FairSpec ==
    /\ Spec
    /\ WF_vars(GoodLine /\ (RunCached \/ AskDuet))
    /\ WF_vars(GoodLine /\ ReceivingThread)
    /\ WF_vars(GoodLine /\ (Reset \/ Disconnected \/ Connect \/ RemoveAll \/ SetPrinterUniqueId))
    /\ WF_vars(GoodLine /\ EventLoop)

-----------------------------------------------------------------------------
(* Properties.                                                             *)

Items == UNION {ToSet(Content[f]) : f \in Folders}
Parts(item) == {item, Named(item), Unnamed(item)}
PartItems == UNION {Parts(item) : item \in Items}
EntryType == {Entry(item, open) : item \in PartItems, open \in BOOLEAN}
Ids == DOMAIN requests

(* Every variable has its type; in particular a request never lists more   *)
(* than its folder has, and what a cut answer left behind.                 *)
TypeOK ==
    /\ world \in Situations
    /\ requests \in Seq([folder : Folders, viewer : Viewers \cup {"none"}, items : Seq(PartItems), next : Nat])
    /\ \A id \in Ids :
           Len(requests[id].items) <= Len(Content[requests[id].folder]) + faults * PageSize
    /\ table \in [Folders -> {NoId} \cup Ids]
    /\ calling \in [viewer : Viewers \cup {"none"}, folder : Folders, old : {NoId} \cup Ids,
                    stage : {"none", "cached", "ask"}]
    /\ folder \in Folders
    /\ shown \in [Viewers -> Seq(EntryType)]
    /\ descending \in BOOLEAN
    /\ wire \in Seq([folder : Folders, first : Nat])
    /\ rx \in [stage : {"idle", "dir", "first", "files", "callback"}, folder : Folders,
               first : Nat, got : 0..PageSize, field : {"type", "name", "key"}, id : {NoId} \cup Ids]
    /\ link \in {"up", "closed", "reset", "down", "connected", "cleared"}
    /\ events \in Seq({"disconnected", "connected", "identity"})
    /\ clicks \in 0..world.clicks /\ faults \in 0..MaxFaults

(* However the pages of several requests for a folder overtake each other, *)
(* what a request hands to its callback after a page is the folder up to   *)
(* there: no item missing, and beside them only what an answer that was    *)
(* cut off in the middle left of one of them; unless an answer was cut,    *)
(* none twice and none out of order (setFirstIndex, ClearItems).           *)
ListIsWhole ==
    rx.stage = "callback" =>
        LET request == requests[rx.id]
            listed == IF request.next = 0 THEN Content[request.folder]
                      ELSE SubSeq(Content[request.folder], 1, request.next)
        IN  /\ ToSet(listed) \subseteq ToSet(request.items)
            /\ ToSet(request.items) \subseteq UNION {Parts(item) : item \in ToSet(listed)}
            /\ "cut" \notin world.faults => request.items = listed

(* What jobs shows is in the order that was chosen, folders first, however *)
(* pages and changes of the order follow each other, but for an item that  *)
(* got its name or key after it was handed over: there is one at most, and *)
(* the others are in order around it (SortFilesBy, RequestFiles, setName). *)
ShownIsSorted ==
    \A i, j \in DOMAIN shown["jobs"] :
        LET l == shown["jobs"][i]
            r == shown["jobs"][j]
        IN  i < j =>
                /\ ~(l.open /\ r.open)
                /\ ~l.open /\ ~r.open =>
                       /\ r.dir => l.dir
                       /\ l.dir = r.dir => IF descending THEN l.key >= r.key ELSE l.key <= r.key

FolderOf(v) == IF v = "jobs" THEN folder ELSE Filaments
LastToAsk(v) == table[FolderOf(v)] # NoId /\ requests[table[FolderOf(v)]].viewer = v

(* On a line that loses nothing, and if folders are left when they are     *)
(* complete, whoever asked last for the folder it shows ends with all of   *)
(* it, also when it or another asked again in between and when the         *)
(* connection was made anew (setNextIndex, RequestFiles, setFolder).       *)
FolderIsShown ==
    GoodLine =>
        <>[](\A v \in world.viewers : LastToAsk(v) =>
                 /\ ToSet(shown[v]) = ToSet(Entries(Content[FolderOf(v)], FALSE))
                 /\ Len(shown[v]) = Len(Content[FolderOf(v)]))
=============================================================================
