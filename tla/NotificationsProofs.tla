------------------------ MODULE NotificationsProofs ------------------------
(***************************************************************************)
(* Proofs about the notifications, for every number of replies, alerts,    *)
(* events that wait and reconnections: the first reply is on the screen    *)
(* unless an alert is, a box takes the timer it knows with it, and a box   *)
(* that was answered stays closed.                                         *)
(*                                                                         *)
(* A handler is composed of calls on the record ui, so most of the work is *)
(* on records: what each call makes of one that fits (WidgetsFit).         *)
(***************************************************************************)
EXTENDS Notifications, SequenceTheorems, TLAPS

-----------------------------------------------------------------------------
(* The inductive invariant.                                                *)

EventType == [type : {"response"}, box : Boxes, plain : BOOLEAN]
             \cup [type : {"alert"}, box : 0..MaxAlerts]
             \cup [type : {"disconnected"}]

Types ==
    /\ world \in Worlds
    /\ duetBox \in 0..MaxAlerts /\ raised \in 0..MaxAlerts
    /\ kind \in [1..MaxAlerts -> Kinds]
    /\ answered \subseteq 1..MaxAlerts
    /\ parse \in [step : {"none", "fields", "title"}, box : 0..MaxAlerts]
    /\ current \in [seq : 0..MaxAlerts, on : BOOLEAN]
    /\ lastAlertSeq \in 0..MaxAlerts
    /\ events \in Seq(EventType)
    /\ replies \in 0..MaxResponses
    /\ cleared \in 0..world.reconnects
    /\ crashed \in BOOLEAN

HasTimer(t) == t.known \/ t.lost # 0

Distinct(s) == \A i, j \in DOMAIN s : s[i] = s[j] => i = j

(* Of the boxes in the list only the first has or ever had a timer, and    *)
(* only the first can be on the screen: S are the replies a box was made   *)
(* of already.                                                             *)
WidgetsFit(u, S) ==
    /\ u \in UiType
    /\ u.open <=> IsShown(u, Alert)
    /\ u.open => u.alert # 0
    /\ HasTimer(u.timers[Alert]) => u.alert # 0
    /\ Distinct(u.boxes)
    /\ ToSet(u.boxes) \subseteq S
    /\ \A b \in Boxes : HasTimer(u.timers[b]) => b \in S
    /\ \A b \in ToSet(u.boxes) : HasTimer(u.timers[b]) => b = Head(u.boxes)
    /\ \A b \in Boxes : u.timers[b].known => b \in ToSet(u.boxes)
    /\ u.shown \subseteq {Alert} \cup (IF u.boxes = <<>> THEN {} ELSE {Head(u.boxes)})

HasFront(u) == u.boxes = <<>> \/ {Alert, Head(u.boxes)} \cap u.shown # {}

(* The replies that have been dispatched: those before the ones that wait. *)
Waiting(b) == \E i \in DOMAIN events : events[i].type = "response" /\ events[i].box = b
Made == {b \in 1..replies : ~Waiting(b)}

(* Replies wait at most once. *)
RepliesFit ==
    /\ \A i \in DOMAIN events : events[i].type = "response" => events[i].box <= replies
    /\ \A i, j \in DOMAIN events :
           events[i].type = "response" /\ events[j].type = "response"
               /\ events[i].box = events[j].box => i = j

(* While the connection lasts, the numbers of the message boxes only grow  *)
(* from the answered ones over the alert, the events that wait and the     *)
(* number remembered to the ones decoded and raised.                       *)
IsAlert(e) == e.type = "alert" /\ e.box # 0

AlertsInOrder ==
    /\ duetBox \in {0, raised}
    /\ parse.box <= raised /\ current.seq <= raised
    /\ parse.step = "fields" /\ parse.box # 0 => current.seq <= parse.box
    /\ parse.step = "title" => current.seq = parse.box /\ parse.box # 0
    /\ lastAlertSeq <= current.seq
    /\ ui.alert <= lastAlertSeq
    /\ \A i \in DOMAIN events :
           IsAlert(events[i]) => ui.alert < events[i].box /\ events[i].box <= lastAlertSeq
    /\ \A i, j \in DOMAIN events :
           i < j /\ IsAlert(events[i]) /\ IsAlert(events[j]) => events[i].box < events[j].box
    /\ \A a \in answered : a <= ui.alert
    /\ IsShown(ui, Alert) => ui.alert \notin answered

NotifyInv ==
    /\ Types
    /\ WidgetsFit(ui, Made) /\ HasFront(ui)
    /\ RepliesFit
    /\ cleared = 0 => AlertsInOrder

-----------------------------------------------------------------------------
(* Lists without repetition.                                               *)

(* A list without repetition and without its first.                        *)
LEMMA PoppedList ==
  ASSUME NEW s \in Seq(Boxes), s # <<>>, Distinct(s)
  PROVE  /\ Head(s) \in ToSet(s) /\ Head(s) \in Boxes
         /\ Tail(s) \in Seq(Boxes) /\ Distinct(Tail(s))
         /\ ToSet(Tail(s)) = ToSet(s) \ {Head(s)}
         /\ Tail(s) # <<>> => Head(Tail(s)) \in ToSet(Tail(s))
<1>1. /\ Head(s) \in Boxes /\ Tail(s) \in Seq(Boxes)
      /\ Len(Tail(s)) = Len(s) - 1
      /\ \A i \in 1..Len(Tail(s)) : Tail(s)[i] = s[i + 1]
  BY HeadTailProperties
<1>2. Len(s) \in Nat \ {0} /\ DOMAIN s = 1..Len(s) /\ DOMAIN Tail(s) = 1..(Len(s) - 1)
  BY <1>1, LenProperties, EmptySeq
<1>3. Head(s) = s[1] /\ 1 \in DOMAIN s
  BY <1>2
<1>4. Distinct(Tail(s))
  BY <1>1, <1>2 DEF Distinct
<1>5. ASSUME NEW x \in ToSet(Tail(s)) PROVE x \in ToSet(s) \ {Head(s)}
  <2>1. PICK i \in 1..(Len(s) - 1) : x = s[i + 1]
    BY <1>1, <1>2, <1>5 DEF ToSet
  <2>2. i + 1 \in DOMAIN s /\ i + 1 # 1
    BY <1>2
  <2> QED
    BY <1>3, <2>1, <2>2 DEF ToSet, Distinct
<1>6. ASSUME NEW x \in ToSet(s), x # Head(s) PROVE x \in ToSet(Tail(s))
  <2>1. PICK i \in 1..Len(s) : x = s[i]
    BY <1>2, <1>6 DEF ToSet
  <2>2. i - 1 \in 1..(Len(s) - 1) /\ Tail(s)[i - 1] = s[i]
    BY <1>1, <1>2, <1>3, <1>6, <2>1
  <2> QED
    BY <1>2, <2>1, <2>2 DEF ToSet
<1>7. ASSUME Tail(s) # <<>> PROVE Head(Tail(s)) \in ToSet(Tail(s))
  <2>1. Len(Tail(s)) \in Nat \ {0}
    BY <1>1, <1>7, EmptySeq
  <2>2. Head(Tail(s)) = Tail(s)[1] /\ 1 \in DOMAIN Tail(s)
    BY <1>1, <1>2, <2>1
  <2> QED
    BY <2>2 DEF ToSet
<1>8. Head(s) \in ToSet(s)
  BY <1>3 DEF ToSet
<1> QED
  BY <1>1, <1>4, <1>5, <1>6, <1>7, <1>8

(* A list without repetition and one more.                                 *)
LEMMA AppendedList ==
  ASSUME NEW s \in Seq(Boxes), Distinct(s), NEW b \in Boxes, b \notin ToSet(s)
  PROVE  /\ Append(s, b) \in Seq(Boxes) /\ Distinct(Append(s, b)) /\ Append(s, b) # <<>>
         /\ ToSet(Append(s, b)) = ToSet(s) \cup {b}
         /\ Head(Append(s, b)) = IF s = <<>> THEN b ELSE Head(s)
         /\ Len(Append(s, b)) = 1 <=> s = <<>>
<1> DEFINE a == Append(s, b)
<1>1. /\ a \in Seq(Boxes) /\ Len(a) = Len(s) + 1
      /\ \A i \in 1..Len(s) : a[i] = s[i]
      /\ a[Len(s) + 1] = b
  BY AppendProperties
<1>2. Len(s) \in Nat /\ DOMAIN s = 1..Len(s) /\ DOMAIN a = 1..(Len(s) + 1)
  BY <1>1, LenProperties
<1>3. \A i \in 1..Len(s) : s[i] # b
  BY <1>2 DEF ToSet
<1>4. Distinct(a)
  <2> SUFFICES ASSUME NEW i \in DOMAIN a, NEW j \in DOMAIN a, a[i] = a[j] PROVE i = j
    BY DEF Distinct
  <2>1. CASE i = Len(s) + 1
    BY <1>1, <1>2, <1>3, <2>1
  <2>2. CASE i # Len(s) + 1
    BY <1>1, <1>2, <1>3, <2>2 DEF Distinct
  <2> QED
    BY <2>1, <2>2
<1>5. ToSet(a) \subseteq ToSet(s) \cup {b}
  BY <1>1, <1>2 DEF ToSet
<1>6. ToSet(s) \cup {b} \subseteq ToSet(a)
  <2>1. \A i \in DOMAIN s : i \in DOMAIN a /\ a[i] = s[i]
    BY <1>1, <1>2
  <2>2. Len(s) + 1 \in DOMAIN a
    BY <1>2
  <2> QED
    BY <1>1, <2>1, <2>2 DEF ToSet
<1>7. s = <<>> <=> Len(s) = 0
  BY <1>2, EmptySeq
<1>8. a # <<>> /\ Head(a) = a[1]
  BY <1>1, <1>2
<1>9. Head(a) = IF s = <<>> THEN b ELSE Head(s)
  BY <1>1, <1>2, <1>7, <1>8
<1> QED
  BY <1>1, <1>2, <1>4, <1>5, <1>6, <1>7, <1>8, <1>9

-----------------------------------------------------------------------------
(* What the calls make of the widgets.                                     *)

(* What a record of the widgets consists of.                               *)
LEMMA TimerTypes ==
  ASSUME NEW u \in UiType, NEW w \in Widgets
  PROVE  /\ u.timers[w] \in [known : BOOLEAN, lost : 0..MaxLost]
         /\ u.boxes \in Seq(Boxes) /\ u.shown \subseteq Widgets
         /\ u.alert \in 0..MaxAlerts /\ u.open \in BOOLEAN /\ u.above \subseteq Boxes
         /\ u.plain \subseteq Boxes /\ u.console \in BOOLEAN
BY DEF UiType

(* A widget that forgets its timer.                                        *)
LEMMA TimerForgotten ==
  ASSUME NEW T, NEW t \in [known : BOOLEAN, lost : T]
  PROVE  /\ [t EXCEPT !.known = FALSE] \in [known : BOOLEAN, lost : T]
         /\ [t EXCEPT !.known = FALSE].known = FALSE
         /\ [t EXCEPT !.known = FALSE].lost = t.lost
OBVIOUS

(* A timer is set where there was one, or where there may be one.          *)
LEMMA SetTimeoutEffect ==
  ASSUME NEW u \in UiType, NEW w \in Widgets, NEW on
  PROVE  LET v == SetTimeout(u, w, on)
         IN  /\ v \in UiType
             /\ v.boxes = u.boxes /\ v.shown = u.shown /\ v.alert = u.alert /\ v.open = u.open
             /\ v.timers \in [Widgets -> [known : BOOLEAN, lost : 0..MaxLost]]
             /\ \A x \in Widgets \ {w} : v.timers[x] = u.timers[x]
<1> DEFINE t == u.timers[w]
           v == SetTimeout(u, w, on)
           new == IF on THEN [known |-> TRUE,
                              lost |-> IF t.known /\ t.lost < MaxLost THEN t.lost + 1 ELSE t.lost]
                        ELSE [t EXCEPT !.known = FALSE]
<1>1. t \in [known : BOOLEAN, lost : 0..MaxLost] /\ MaxLost \in Nat
  BY TimerTypes, NotificationsAssumption
<1>2. new \in [known : BOOLEAN, lost : 0..MaxLost]
  <2> HIDE DEF t
  <2>1. CASE on
    BY <1>1, <2>1
  <2>2. CASE ~on
    <3>1. new = [t EXCEPT !.known = FALSE]
      BY <2>2
    <3> QED
      BY <1>1, <2>2, <3>1, TimerForgotten
  <2> QED
    BY <2>1, <2>2
<1>3. v = [u EXCEPT !.timers = [u.timers EXCEPT ![w] = new]]
  BY DEF SetTimeout, UiType
<1> HIDE DEF new, t, v
<1>4. u.timers \in [Widgets -> [known : BOOLEAN, lost : 0..MaxLost]]
  BY DEF UiType
<1>5. [u.timers EXCEPT ![w] = new] \in [Widgets -> [known : BOOLEAN, lost : 0..MaxLost]]
  BY <1>2, <1>4
<1>6. v.timers = [u.timers EXCEPT ![w] = new] /\ v \in UiType
  BY <1>3, <1>5 DEF UiType
<1>7. v.timers[w] = new /\ \A x \in Widgets \ {w} : v.timers[x] = u.timers[x]
  BY <1>4, <1>6
<1>8. v.boxes = u.boxes /\ v.shown = u.shown /\ v.alert = u.alert /\ v.open = u.open
  BY <1>3 DEF UiType
<1>9. v.timers \in [Widgets -> [known : BOOLEAN, lost : 0..MaxLost]]
  BY <1>5, <1>6
<1> QED
  BY <1>2, <1>6, <1>7, <1>8, <1>9 DEF v

(* The first of the list is a box.                                         *)
LEMMA HeadIsBox ==
  ASSUME NEW s \in Seq(Boxes), s # <<>>
  PROVE  Head(s) \in Boxes /\ Head(s) \in ToSet(s) /\ Head(s) \in Widgets /\ Head(s) # Alert
<1>1. Len(s) \in Nat \ {0} /\ DOMAIN s = 1..Len(s) /\ Head(s) \in Boxes /\ Head(s) = s[1]
  BY LenProperties, EmptySeq, HeadTailProperties
<1> QED
  BY <1>1, NotificationsAssumption DEF ToSet, Widgets, Boxes, Alert

(* Only the first box is touched by showing it.                            *)
LEMMA ShowFrontEffect ==
  ASSUME NEW u \in UiType, world \in WorldType
  PROVE  LET v == ShowFront(u)
             b == Head(u.boxes)
         IN  /\ v \in UiType
             /\ v.boxes = u.boxes /\ v.alert = u.alert /\ v.open = u.open
             /\ u.boxes = <<>> => v.shown = u.shown /\ v.timers = u.timers
             /\ u.boxes # <<>> =>
                    /\ v.shown = u.shown \cup {b}
                    /\ \A w \in Widgets \ {b} : v.timers[w] = u.timers[w]
<1>1. CASE u.boxes = <<>>
  BY <1>1 DEF ShowFront
<1>2. CASE u.boxes # <<>>
  <2> DEFINE b == Head(u.boxes)
             x == Shown(u, b)
             v == ShowFront(u)
  <2>1. b \in Widgets
    BY <1>2, TimerTypes, HeadIsBox DEF Widgets
  <2>2. x = [u EXCEPT !.shown = u.shown \cup {b}] /\ x \in UiType
    BY <2>1 DEF Shown, UiType
  <2>3. /\ x.boxes = u.boxes /\ x.timers = u.timers /\ x.alert = u.alert /\ x.open = u.open
        /\ x.shown = u.shown \cup {b}
    BY <2>2 DEF UiType
  <2>4. v = x \/ v = SetTimeout(x, b, TRUE)
    BY <1>2 DEF ShowFront
  <2> HIDE DEF x, b, v
  <2>5. v \in UiType /\ v.boxes = x.boxes /\ v.alert = x.alert /\ v.open = x.open
        /\ v.shown = x.shown /\ \A w \in Widgets \ {b} : v.timers[w] = x.timers[w]
    <3>1. CASE v = x
      BY <2>2, <3>1
    <3>2. CASE v = SetTimeout(x, b, TRUE)
      <4> DEFINE on == TRUE
      <4>1. v = SetTimeout(x, b, on)
        BY <3>2
      <4> HIDE DEF on
      <4> DEFINE w == SetTimeout(x, b, on)
      <4>2. /\ w \in UiType
            /\ w.boxes = x.boxes /\ w.shown = x.shown /\ w.alert = x.alert /\ w.open = x.open
            /\ \A y \in Widgets \ {b} : w.timers[y] = x.timers[y]
        <5>1. x \in UiType
          BY <2>2
        <5> QED
          BY <2>1, <5>1, SetTimeoutEffect
      <4> QED
        BY <4>1, <4>2, Zenon
    <3> QED
      BY <2>4, <3>1, <3>2
  <2> QED
    BY <1>2, <2>3, <2>5 DEF v, b
<1> QED
  BY <1>1, <1>2

(* Showing the front of the list leaves the alert as it is.                *)
LEMMA ShowFrontFits ==
  ASSUME NEW u, NEW S, WidgetsFit(u, S), world \in WorldType
  PROVE  LET v == ShowFront(u)
         IN  /\ WidgetsFit(v, S) /\ HasFront(v)
             /\ v.alert = u.alert
             /\ IsShown(v, Alert) = IsShown(u, Alert)
<1>1. CASE u.boxes = <<>>
  BY <1>1 DEF ShowFront, HasFront
<1>2. CASE u.boxes # <<>>
  <2> DEFINE b == Head(u.boxes)
             v == ShowFront(u)
  <2>1. u \in UiType /\ u.boxes \in Seq(Boxes)
    BY TimerTypes DEF WidgetsFit, Widgets
  <2>2. b \in Boxes /\ b \in ToSet(u.boxes) /\ b # Alert
    BY <1>2, <2>1, HeadIsBox
  <2>3. /\ v \in UiType
        /\ v.boxes = u.boxes /\ v.alert = u.alert /\ v.open = u.open
        /\ v.shown = u.shown \cup {b}
        /\ \A w \in Widgets \ {b} : v.timers[w] = u.timers[w]
    BY <1>2, <2>1, ShowFrontEffect
  <2>4. Alert \in Widgets /\ \A c \in Boxes : c \in Widgets
    BY DEF Widgets
  <2>5. \A c \in ToSet(u.boxes) : c \in Boxes
    BY <2>1, LenProperties DEF ToSet
  <2>6. b \in S
    BY <2>2 DEF WidgetsFit
  <2> HIDE DEF v
  <2>7. \A c \in ToSet(v.boxes) : HasTimer(v.timers[c]) => c = Head(v.boxes)
    BY <2>3, <2>4, <2>5 DEF WidgetsFit
  <2>8. \A c \in Boxes : /\ HasTimer(v.timers[c]) => c \in S
                         /\ v.timers[c].known => c \in ToSet(v.boxes)
    BY <2>2, <2>3, <2>4, <2>6 DEF WidgetsFit
  <2>9. v.timers[Alert] = u.timers[Alert]
    BY <2>2, <2>3, <2>4
  <2>10. IsShown(v, Alert) <=> IsShown(u, Alert)
    BY <2>2, <2>3 DEF IsShown
  <2>11. WidgetsFit(v, S)
    BY <1>2, <2>3, <2>7, <2>8, <2>9, <2>10 DEF WidgetsFit
  <2>12. HasFront(v) /\ IsShown(v, Alert) = IsShown(u, Alert)
    BY <2>2, <2>3 DEF HasFront, IsShown
  <2> QED
    BY <2>3, <2>11, <2>12 DEF v
<1> QED
  BY <1>1, <1>2

(* Hiding the alert closes the modal; ShowFront comes after.               *)
LEMMA AlertHiddenFits ==
  ASSUME NEW u, NEW S, WidgetsFit(u, S)
  PROVE  LET v == [Hidden(u, Alert) EXCEPT !.open = FALSE]
         IN  /\ WidgetsFit(v, S)
             /\ v.alert = u.alert
             /\ ~IsShown(v, Alert)
<1> DEFINE h == Hidden(u, Alert)
           v == [h EXCEPT !.open = FALSE]
<1>1. u \in UiType
  BY DEF WidgetsFit
<1>2. h = [u EXCEPT !.shown = u.shown \ {Alert}] /\ h \in UiType
  BY <1>1 DEF Hidden, UiType
<1>3. /\ h.boxes = u.boxes /\ h.timers = u.timers /\ h.alert = u.alert
      /\ h.shown = u.shown \ {Alert}
  BY <1>1, <1>2 DEF UiType
<1> HIDE DEF h
<1>4. v \in UiType
  BY <1>2 DEF UiType
<1>5. /\ v.boxes = h.boxes /\ v.timers = h.timers /\ v.alert = h.alert
      /\ v.shown = h.shown /\ v.open = FALSE
  BY <1>2 DEF UiType
<1> HIDE DEF v
<1>6. v.alert = u.alert /\ ~IsShown(v, Alert) /\ v.open = FALSE
  BY <1>3, <1>5 DEF IsShown
<1>7. WidgetsFit(v, S)
  <2>1. v.open <=> IsShown(v, Alert)
    BY <1>6, Zenon
  <2>2. ~v.open
    BY <1>6, Zenon
  <2> QED
    BY <1>3, <1>4, <1>5, <2>1, <2>2 DEF WidgetsFit
<1> QED
  BY <1>6, <1>7 DEF v, h

(* Hiding the alert shows the first box instead.                           *)
LEMMA HideAlertFits ==
  ASSUME NEW u, NEW S, WidgetsFit(u, S), HasFront(u), world \in WorldType
  PROVE  LET v == HideAlert(u)
         IN  /\ WidgetsFit(v, S) /\ HasFront(v)
             /\ v.alert = u.alert
             /\ ~IsShown(v, Alert)
<1>1. CASE ~IsShown(u, Alert)
  BY <1>1 DEF HideAlert
<1>2. CASE IsShown(u, Alert)
  <2> DEFINE x == [Hidden(u, Alert) EXCEPT !.open = FALSE]
  <2>1. WidgetsFit(x, S) /\ x.alert = u.alert /\ ~IsShown(x, Alert)
    BY AlertHiddenFits
  <2>2. Hidden(u, Alert).alert = u.alert
    BY DEF Hidden, WidgetsFit, UiType
  <2>3. u.alert # 0
    BY <1>2 DEF WidgetsFit
  <2>4. HideAlert(u) = ShowFront(x)
    BY <1>2, <2>2, <2>3 DEF HideAlert, CloseCallback
  <2> HIDE DEF x
  <2> QED
    BY <2>1, <2>4, ShowFrontFits
<1> QED
  BY <1>1, <1>2

(* The alert is taken from the open modals while it is not shown.          *)
LEMMA OpenFalseFits ==
  ASSUME NEW u, NEW S, WidgetsFit(u, S), ~IsShown(u, Alert)
  PROVE  LET v == [u EXCEPT !.open = FALSE]
         IN  /\ WidgetsFit(v, S) /\ v.alert = u.alert /\ ~IsShown(v, Alert)
             /\ HasFront(v) <=> HasFront(u)
<1> DEFINE v == [u EXCEPT !.open = FALSE]
<1>1. u \in UiType
  BY DEF WidgetsFit
<1>2. v \in UiType
  BY <1>1 DEF UiType
<1>3. /\ v.boxes = u.boxes /\ v.timers = u.timers /\ v.alert = u.alert
      /\ v.shown = u.shown /\ v.open = FALSE
  BY <1>1 DEF UiType
<1> HIDE DEF v
<1>4. /\ v.alert = u.alert /\ ~IsShown(v, Alert) /\ v.open = FALSE
      /\ HasFront(v) <=> HasFront(u)
  BY <1>3 DEF IsShown, HasFront
<1>5. WidgetsFit(v, S)
  <2>1. v.open <=> IsShown(v, Alert)
    BY <1>4, Zenon
  <2>2. ~v.open
    BY <1>4, Zenon
  <2> QED
    BY <1>2, <1>3, <2>1, <2>2 DEF WidgetsFit
<1> QED
  BY <1>4, <1>5 DEF v

(* Closing the alert shows the first box instead.                          *)
LEMMA CloseAlertFits ==
  ASSUME NEW u, NEW S, WidgetsFit(u, S), HasFront(u), world \in WorldType
  PROVE  LET v == CloseAlert(u)
         IN  /\ WidgetsFit(v, S) /\ HasFront(v)
             /\ v.alert = u.alert
             /\ ~IsShown(v, Alert)
<1> DEFINE x == HideAlert(u)
           y == [x EXCEPT !.open = FALSE]
<1>1. WidgetsFit(x, S) /\ HasFront(x) /\ x.alert = u.alert /\ ~IsShown(x, Alert)
  BY HideAlertFits
<1>2. CloseAlert(u) = IF x.alert = 0 THEN x ELSE ShowFront(y)
  BY DEF CloseAlert, CloseCallback
<1> HIDE DEF x
<1>3. WidgetsFit(y, S) /\ y.alert = x.alert /\ ~IsShown(y, Alert)
  BY <1>1, OpenFalseFits
<1> HIDE DEF y
<1> QED
  BY <1>1, <1>2, <1>3, ShowFrontFits

(* So does closing all modals.                                             *)
LEMMA CloseAllModalsFits ==
  ASSUME NEW u, NEW S, WidgetsFit(u, S), HasFront(u), world \in WorldType
  PROVE  LET v == CloseAllModals(u)
         IN  /\ WidgetsFit(v, S) /\ HasFront(v)
             /\ v.alert = u.alert
             /\ ~IsShown(v, Alert)
<1>1. CASE u.open = TRUE
  <2> DEFINE x == HideAlert(u)
  <2>1. WidgetsFit(x, S) /\ HasFront(x) /\ x.alert = u.alert /\ ~IsShown(x, Alert)
    BY HideAlertFits
  <2>2. CloseAllModals(u) = [x EXCEPT !.open = FALSE]
    BY <1>1 DEF CloseAllModals
  <2> HIDE DEF x
  <2> QED
    BY <2>1, <2>2, OpenFalseFits
<1>2. CASE u.open = FALSE
  BY <1>2 DEF CloseAllModals, WidgetsFit
<1> QED
  BY <1>1, <1>2, TimerTypes DEF WidgetsFit, Widgets

(* The console is opened from the side bar or by OK.                       *)
LEMMA ConsoleFits ==
  ASSUME NEW u, NEW S, WidgetsFit(u, S), HasFront(u), NEW c \in BOOLEAN
  PROVE  LET v == [u EXCEPT !.console = c]
         IN  /\ WidgetsFit(v, S) /\ HasFront(v)
             /\ v.alert = u.alert
             /\ IsShown(v, Alert) = IsShown(u, Alert)
<1> DEFINE v == [u EXCEPT !.console = c]
<1>1. u \in UiType
  BY DEF WidgetsFit
<1>2. v \in UiType
  BY <1>1 DEF UiType
<1>3. /\ v.boxes = u.boxes /\ v.timers = u.timers /\ v.alert = u.alert
      /\ v.shown = u.shown /\ v.open = u.open
  BY <1>1 DEF UiType
<1> HIDE DEF v
<1>4. WidgetsFit(v, S) /\ v.alert = u.alert /\ IsShown(v, Alert) = IsShown(u, Alert) /\ HasFront(v)
  BY <1>2, <1>3 DEF WidgetsFit, IsShown, HasFront
<1> QED
  BY <1>4 DEF v

(* So does opening the console.                                            *)
LEMMA OpenConsoleFits ==
  ASSUME NEW u, NEW S, WidgetsFit(u, S), HasFront(u), world \in WorldType
  PROVE  LET v == OpenConsole(u)
         IN  /\ WidgetsFit(v, S) /\ HasFront(v)
             /\ v.alert = u.alert
             /\ ~IsShown(v, Alert)
<1> DEFINE x == CloseAllModals(u)
<1>1. WidgetsFit(x, S) /\ HasFront(x) /\ x.alert = u.alert /\ ~IsShown(x, Alert)
  BY CloseAllModalsFits
<1>2. OpenConsole(u) = [x EXCEPT !.console = TRUE]
  BY DEF OpenConsole
<1> HIDE DEF x
<1>3. LET v == [x EXCEPT !.console = TRUE]
      IN  /\ WidgetsFit(v, S) /\ HasFront(v) /\ v.alert = x.alert
          /\ IsShown(v, Alert) = IsShown(x, Alert)
  BY <1>1, ConsoleFits, Zenon
<1> QED
  BY <1>1, <1>2, <1>3, Zenon

(* The timers may be anything that keeps what is said of them.             *)
LEMMA TimersFit ==
  ASSUME NEW u, NEW S, WidgetsFit(u, S), NEW v \in UiType,
         v.boxes = u.boxes /\ v.shown = u.shown /\ v.open = u.open,
         v.alert # 0 \/ (v.alert = u.alert /\ (HasTimer(v.timers[Alert]) => HasTimer(u.timers[Alert]))),
         \A b \in Boxes : /\ HasTimer(v.timers[b]) => HasTimer(u.timers[b])
                          /\ v.timers[b].known => u.timers[b].known
  PROVE  WidgetsFit(v, S)
<1>1. \A b \in ToSet(v.boxes) : b \in Boxes
  BY TimerTypes, LenProperties DEF WidgetsFit, ToSet, Widgets
<1>2. IsShown(v, Alert) <=> IsShown(u, Alert)
  BY DEF IsShown
<1>3. v.open => v.alert # 0
  BY DEF WidgetsFit
<1>4. HasTimer(v.timers[Alert]) => v.alert # 0
  BY DEF WidgetsFit
<1> QED
  BY <1>1, <1>2, <1>3, <1>4 DEF WidgetsFit

(* Opening the alert puts it above the boxes.                              *)
LEMMA OpenAlertFits ==
  ASSUME NEW u, NEW S, WidgetsFit(u, S), u.alert # 0
  PROVE  LET v == OpenAlert(u)
         IN  /\ WidgetsFit(v, S) /\ HasFront(v)
             /\ v.alert = u.alert
<1> DEFINE x == Shown(u, Alert)
           v == [x EXCEPT !.open = TRUE, !.above = {}]
<1>1. u \in UiType /\ Alert \in Widgets
  BY DEF WidgetsFit, Widgets
<1>2. x = [u EXCEPT !.shown = u.shown \cup {Alert}] /\ x \in UiType
  BY <1>1 DEF Shown, UiType
<1>3. /\ x.boxes = u.boxes /\ x.timers = u.timers /\ x.alert = u.alert
      /\ x.shown = u.shown \cup {Alert}
  BY <1>1, <1>2 DEF UiType
<1> HIDE DEF x
<1>4. v \in UiType
  BY <1>2 DEF UiType
<1>5. /\ v.boxes = x.boxes /\ v.timers = x.timers /\ v.alert = x.alert
      /\ v.shown = x.shown /\ v.open = TRUE
  BY <1>2 DEF UiType
<1> HIDE DEF v
<1>6. v.alert = u.alert /\ IsShown(v, Alert) /\ HasFront(v)
  BY <1>3, <1>5 DEF IsShown, HasFront
<1>7. v.open <=> IsShown(v, Alert)
  BY <1>5, <1>6, Zenon
<1>8. WidgetsFit(v, S)
  BY <1>3, <1>4, <1>5, <1>7 DEF WidgetsFit
<1> QED
  BY <1>6, <1>8 DEF v, x, OpenAlert

(* An event of an alert: a new box opens it, its end closes it.            *)
LEMMA NewAlertDataFits ==
  ASSUME NEW u, NEW S, WidgetsFit(u, S), HasFront(u), NEW a \in 0..MaxAlerts,
         world \in WorldType, kind \in [1..MaxAlerts -> Kinds]
  PROVE  LET v == NewAlertData(u, a)
         IN  /\ WidgetsFit(v, S) /\ HasFront(v)
             /\ a = 0 => v.alert = u.alert /\ ~IsShown(v, Alert)
             /\ a # 0 => v.alert = a
<1>1. CASE a = 0
  <2>1. CASE IsShown(u, Alert)
    BY <1>1, <2>1, CloseAlertFits DEF NewAlertData
  <2>2. CASE ~IsShown(u, Alert)
    BY <1>1, <2>2 DEF NewAlertData
  <2> QED
    BY <2>1, <2>2
<1>2. CASE a # 0
  <2> DEFINE x == [u EXCEPT !.alert = a]
             y == SetTimeout(x, Alert, kind[a] = "note")
  <2>1. u \in UiType /\ Alert \in Widgets /\ kind[a] \in Kinds
    BY <1>2, NotificationsAssumption DEF WidgetsFit, Widgets
  <2>2. x \in UiType
    BY <2>1 DEF UiType
  <2>3. x.boxes = u.boxes /\ x.timers = u.timers /\ x.alert = a /\ x.shown = u.shown /\ x.open = u.open
    BY <2>1 DEF UiType
  <2>4. NewAlertData(u, a) = OpenAlert(y)
    BY <1>2 DEF NewAlertData
  <2> HIDE DEF x
  <2>5. /\ y \in UiType
        /\ y.boxes = x.boxes /\ y.shown = x.shown /\ y.alert = x.alert /\ y.open = x.open
        /\ \A w \in Widgets \ {Alert} : y.timers[w] = x.timers[w]
    BY <2>1, <2>2, SetTimeoutEffect
  <2> HIDE DEF y
  <2>6. \A b \in Boxes : b \in Widgets \ {Alert}
    BY NotificationsAssumption DEF Widgets, Boxes, Alert
  <2>7. \A b \in Boxes : y.timers[b] = u.timers[b]
    BY <2>3, <2>5, <2>6
  <2>8. WidgetsFit(y, S) /\ y.alert = a
    BY <1>2, <2>3, <2>5, <2>7, TimersFit
  <2> QED
    BY <1>2, <2>4, <2>8, OpenAlertFits
<1> QED
  BY <1>1, <1>2

(* Destroyed takes the boxes that are gone off the list's widgets.         *)
LEMMA DestroyedEffect ==
  ASSUME NEW u \in UiType, NEW gone \in SUBSET Boxes
  PROVE  LET v == Destroyed(u, gone)
         IN  /\ v \in UiType
             /\ v.boxes = u.boxes /\ v.alert = u.alert /\ v.open = u.open
             /\ v.shown = u.shown \ gone
             /\ v.timers[Alert] = u.timers[Alert]
             /\ \A b \in gone : ~v.timers[b].known /\ (HasTimer(v.timers[b]) => HasTimer(u.timers[b]))
             /\ \A b \in Boxes \ gone : v.timers[b] = u.timers[b]
<1> DEFINE T == [known : BOOLEAN, lost : 0..MaxLost]
           t == [w \in Widgets |-> IF w \in gone THEN [u.timers[w] EXCEPT !.known = FALSE]
                                                 ELSE u.timers[w]]
           v == Destroyed(u, gone)
<1>1. v = [u EXCEPT !.shown = u.shown \ gone, !.above = u.above \ gone, !.timers = t]
  BY DEF Destroyed
<1>2. \A w \in Widgets : u.timers[w] \in T /\ [u.timers[w] EXCEPT !.known = FALSE] \in T
  BY TimerTypes, TimerForgotten
<1>3. t \in [Widgets -> T]
  BY <1>2
<1>4. /\ \A b \in gone : b \in Widgets
      /\ \A b \in Boxes : b \in Widgets
      /\ Alert \in Widgets /\ Alert \notin gone
  BY NotificationsAssumption DEF Widgets, Boxes, Alert
<1>5. ASSUME NEW b \in gone
      PROVE  ~t[b].known /\ (HasTimer(t[b]) => HasTimer(u.timers[b]))
  <2>1. t[b] = [u.timers[b] EXCEPT !.known = FALSE] /\ u.timers[b] \in T
    BY <1>2, <1>4
  <2>2. t[b].known = FALSE
    BY <2>1, TimerForgotten
  <2> QED
    BY <2>1, <2>2, TimerForgotten, SMT DEF HasTimer
<1>6. t[Alert] = u.timers[Alert] /\ \A b \in Boxes \ gone : t[b] = u.timers[b]
  BY <1>4
<1> HIDE DEF t, v
<1>7. /\ v \in UiType /\ v.timers = t
      /\ v.boxes = u.boxes /\ v.alert = u.alert /\ v.open = u.open /\ v.shown = u.shown \ gone
  BY <1>1, <1>3 DEF UiType
<1> QED
  BY <1>5, <1>6, <1>7 DEF v

(* Clearing the list leaves the alert as it is.                            *)
LEMMA ClearMessageBoxesFits ==
  ASSUME NEW u, NEW S, WidgetsFit(u, S)
  PROVE  LET v == ClearMessageBoxes(u)
         IN  /\ WidgetsFit(v, S) /\ HasFront(v)
             /\ v.alert = u.alert
             /\ IsShown(v, Alert) = IsShown(u, Alert)
<1> DEFINE gone == ToSet(u.boxes)
           x == Destroyed(u, gone)
           v == [x EXCEPT !.boxes = <<>>]
<1>1. u \in UiType /\ u.boxes \in Seq(Boxes) /\ gone \in SUBSET Boxes
  BY TimerTypes, LenProperties DEF WidgetsFit, ToSet, Widgets
<1>2. /\ x \in UiType
      /\ x.alert = u.alert /\ x.open = u.open
      /\ x.shown = u.shown \ gone
      /\ x.timers[Alert] = u.timers[Alert]
      /\ \A b \in gone : ~x.timers[b].known /\ (HasTimer(x.timers[b]) => HasTimer(u.timers[b]))
      /\ \A b \in Boxes \ gone : x.timers[b] = u.timers[b]
  BY <1>1, DestroyedEffect
<1>3. u.boxes # <<>> => Head(u.boxes) \in gone
  BY <1>1, HeadIsBox
<1>4. Alert \notin gone
  BY <1>1 DEF Boxes, Alert
<1> HIDE DEF x
<1>5. /\ v \in UiType /\ v.timers = x.timers
      /\ v.boxes = <<>> /\ v.alert = u.alert /\ v.open = u.open /\ v.shown = x.shown
  <2>1. <<>> \in Seq(Boxes)
    BY EmptySeq
  <2> QED
    BY <1>2, <2>1 DEF UiType
<1>6. ToSet(v.boxes) = {} /\ Distinct(v.boxes)
  BY <1>5 DEF ToSet, Distinct
<1> HIDE DEF v
<1>7. v.shown = u.shown \cap {Alert}
  BY <1>2, <1>3, <1>4, <1>5 DEF WidgetsFit, gone
<1>8. IsShown(v, Alert) <=> IsShown(u, Alert)
  BY <1>7 DEF IsShown
<1>9. WidgetsFit(v, S)
  BY <1>2, <1>5, <1>6, <1>7, <1>8 DEF WidgetsFit
<1>10. HasFront(v)
  BY <1>5 DEF HasFront
<1>11. IsShown(v, Alert) = IsShown(u, Alert)
  BY <1>7 DEF IsShown
<1> QED
  BY <1>5, <1>9, <1>10, <1>11 DEF v, x, ClearMessageBoxes

(* The first box closes and the next appears in its place.                 *)
LEMMA CancelBoxFits ==
  ASSUME NEW u, NEW S, WidgetsFit(u, S), u.boxes # <<>>, world \in WorldType
  PROVE  LET v == CancelBox(u, Head(u.boxes))
         IN  /\ WidgetsFit(v, S) /\ HasFront(v)
             /\ v.alert = u.alert
             /\ IsShown(v, Alert) = IsShown(u, Alert)
<1> DEFINE b == Head(u.boxes)
           tail == Tail(u.boxes)
           first == Head(tail)
           x == [u EXCEPT !.boxes = tail]
           y == ShowFront(x)
           z == Hidden(y, b)
           v == Destroyed(z, {b})
<1>1. u \in UiType /\ u.boxes \in Seq(Boxes) /\ Distinct(u.boxes)
  BY TimerTypes DEF WidgetsFit, Widgets
<1>2. /\ b \in Boxes /\ b \in ToSet(u.boxes)
      /\ tail \in Seq(Boxes) /\ Distinct(tail)
      /\ ToSet(tail) = ToSet(u.boxes) \ {b}
      /\ tail # <<>> => first \in ToSet(tail)
  BY <1>1, PoppedList
<1>3. \A c \in ToSet(u.boxes) : c \in Boxes
  BY <1>1, LenProperties DEF ToSet
<1>4. Alert \notin Boxes /\ Alert \in Widgets /\ \A c \in Boxes : c \in Widgets
  BY NotificationsAssumption DEF Widgets, Boxes, Alert
<1>5. CancelBox(u, b) = v
  BY DEF CancelBox
<1>6. x \in UiType
  BY <1>1, <1>2 DEF UiType
<1>7. /\ x.boxes = tail /\ x.alert = u.alert /\ x.open = u.open
      /\ x.shown = u.shown /\ x.timers = u.timers
  BY <1>1 DEF UiType
<1> HIDE DEF x, tail, b
<1>8. /\ y \in UiType
      /\ y.boxes = tail /\ y.alert = u.alert /\ y.open = u.open
      /\ tail = <<>> => y.shown = u.shown /\ y.timers = u.timers
      /\ tail # <<>> => /\ y.shown = u.shown \cup {first}
                        /\ \A w \in Widgets \ {first} : y.timers[w] = u.timers[w]
  BY <1>6, <1>7, ShowFrontEffect
<1> HIDE DEF y, first
<1>9. z \in UiType
  BY <1>8 DEF Hidden, UiType
<1>10. /\ z.boxes = y.boxes /\ z.alert = y.alert /\ z.open = y.open
       /\ z.timers = y.timers /\ z.shown = y.shown \ {b}
  BY <1>8 DEF Hidden, UiType
<1> HIDE DEF z
<1>11. /\ v \in UiType
       /\ v.boxes = z.boxes /\ v.alert = z.alert /\ v.open = z.open
       /\ v.shown = z.shown \ {b}
       /\ v.timers[Alert] = z.timers[Alert]
       /\ ~v.timers[b].known /\ (HasTimer(v.timers[b]) => HasTimer(z.timers[b]))
       /\ \A c \in Boxes \ {b} : v.timers[c] = z.timers[c]
  <2>1. {b} \in SUBSET Boxes
    BY <1>2
  <2> QED
    BY <1>9, <2>1, DestroyedEffect
<1> HIDE DEF v
<1>12. tail # <<>> => first \in ToSet(u.boxes) /\ first \in Boxes /\ first # b /\ first # Alert
  BY <1>2, <1>3, <1>4
<1>13. /\ v.boxes = tail /\ v.alert = u.alert /\ v.open = u.open
       /\ tail = <<>> => v.shown = u.shown \ {b}
       /\ tail # <<>> => v.shown = (u.shown \ {b}) \cup {first}
  BY <1>8, <1>10, <1>11, <1>12
<1>14. v.timers[Alert] = u.timers[Alert]
  BY <1>4, <1>8, <1>10, <1>11, <1>12
<1>15. ASSUME NEW c \in Boxes \ {b}, c # first \/ tail = <<>>
       PROVE  v.timers[c] = u.timers[c]
  BY <1>4, <1>8, <1>10, <1>11, <1>15
<1>16. ASSUME NEW c \in Boxes
       PROVE  /\ HasTimer(v.timers[c]) => c \in S
              /\ v.timers[c].known => c \in ToSet(tail)
  <2>1. CASE c = b
    BY <1>2, <1>11, <2>1 DEF WidgetsFit
  <2>2. CASE c # b /\ (c # first \/ tail = <<>>)
    BY <1>2, <1>15, <2>2 DEF WidgetsFit
  <2>3. CASE c = first /\ tail # <<>>
    BY <1>2, <1>12, <2>3 DEF WidgetsFit
  <2> QED
    BY <2>1, <2>2, <2>3
<1>17. ASSUME NEW c \in ToSet(tail), HasTimer(v.timers[c])
       PROVE  c = first
  BY <1>2, <1>3, <1>15, <1>17 DEF WidgetsFit, b
<1>18. v.shown \subseteq {Alert} \cup (IF tail = <<>> THEN {} ELSE {first})
  BY <1>13 DEF WidgetsFit, b
<1>19. IsShown(v, Alert) <=> IsShown(u, Alert)
  BY <1>2, <1>4, <1>12, <1>13 DEF IsShown
<1>20. WidgetsFit(v, S)
  BY <1>2, <1>11, <1>13, <1>14, <1>16, <1>17, <1>18, <1>19 DEF WidgetsFit, first
<1>21. HasFront(v)
  BY <1>13 DEF HasFront, first
<1>22. IsShown(v, Alert) = IsShown(u, Alert)
  BY <1>2, <1>4, <1>12, <1>13 DEF IsShown
<1> QED
  BY <1>5, <1>13, <1>20, <1>21, <1>22 DEF b

(* A reply that was made into a box more does no harm.                     *)
LEMMA MoreMadeFits ==
  ASSUME NEW u, NEW S, NEW T, S \subseteq T, WidgetsFit(u, S)
  PROVE  WidgetsFit(u, T)
BY DEF WidgetsFit

(* A reply becomes the last box, and is shown if it is the only one.       *)
LEMMA NewResponseFits ==
  ASSUME NEW u, NEW S, WidgetsFit(u, S), HasFront(u), world \in WorldType,
         NEW e, e.box \in Boxes \ S
  PROVE  LET v == NewResponse(u, e)
         IN  /\ WidgetsFit(v, S \cup {e.box}) /\ HasFront(v)
             /\ v.alert = u.alert
             /\ IsShown(v, Alert) = IsShown(u, Alert)
<1>1. CASE u.console
  BY <1>1, MoreMadeFits DEF NewResponse
<1>2. CASE ~u.console
  <2> DEFINE b == e.box
             T == S \cup {b}
             boxes == Append(u.boxes, b)
             plain == IF e.plain THEN u.plain \cup {b} ELSE u.plain
             made == [u EXCEPT !.boxes = boxes, !.above = u.above \cup {b}, !.plain = plain]
             first == IF Len(made.boxes) = 1 THEN ShowFront(made) ELSE made
             v == IF IsShown(u, Alert) THEN Hidden(first, b) ELSE first
  <2>1. NewResponse(u, e) = v
    BY <1>2 DEF NewResponse
  <2>2. u \in UiType /\ u.boxes \in Seq(Boxes) /\ Distinct(u.boxes) /\ b \notin ToSet(u.boxes)
    BY TimerTypes DEF WidgetsFit, Widgets
  <2>3. /\ boxes \in Seq(Boxes) /\ Distinct(boxes) /\ boxes # <<>>
        /\ ToSet(boxes) = ToSet(u.boxes) \cup {b}
        /\ Head(boxes) = IF u.boxes = <<>> THEN b ELSE Head(u.boxes)
        /\ Len(boxes) = 1 <=> u.boxes = <<>>
    BY <2>2, AppendedList
  <2> HIDE DEF boxes
  <2>4. u.above \cup {b} \subseteq Boxes /\ plain \subseteq Boxes
    BY <2>2 DEF UiType
  <2> HIDE DEF plain
  <2>5. made \in UiType
    BY <2>2, <2>3, <2>4 DEF UiType
  <2>6. /\ made.boxes = boxes /\ made.alert = u.alert /\ made.open = u.open
        /\ made.shown = u.shown /\ made.timers = u.timers
    BY <2>2 DEF UiType
  <2> HIDE DEF made
  <2>7. ~HasTimer(u.timers[b])
    BY DEF WidgetsFit
  <2>8. IsShown(made, Alert) = IsShown(u, Alert)
    BY <2>6 DEF IsShown
  <2>9. WidgetsFit(made, T)
    <3>1. made.open <=> IsShown(made, Alert)
      BY <2>6 DEF WidgetsFit, IsShown
    <3>2. \A c \in ToSet(made.boxes) : HasTimer(made.timers[c]) => c = Head(made.boxes)
      <4>1. ASSUME NEW c \in ToSet(u.boxes) PROVE u.boxes # <<>>
        BY <2>2, LenProperties DEF ToSet
      <4> QED
        BY <2>3, <2>6, <2>7, <4>1 DEF WidgetsFit
    <3>3. made.shown \subseteq {Alert} \cup {Head(made.boxes)}
      BY <2>3, <2>6 DEF WidgetsFit
    <3> QED
      BY <2>3, <2>5, <2>6, <3>1, <3>2, <3>3 DEF WidgetsFit
  <2>10. WidgetsFit(first, T) /\ HasFront(first) /\ first.alert = u.alert
         /\ IsShown(first, Alert) = IsShown(u, Alert)
    <3>1. CASE Len(made.boxes) = 1
      BY <2>6, <2>8, <2>9, <3>1, ShowFrontFits
    <3>2. CASE Len(made.boxes) # 1
      BY <2>3, <2>6, <2>8, <2>9, <3>2 DEF HasFront
    <3> QED
      BY <3>1, <3>2
  <2> HIDE DEF first
  <2>11. CASE ~IsShown(u, Alert)
    BY <2>1, <2>10, <2>11
  <2>12. CASE IsShown(u, Alert)
    <3> DEFINE h == Hidden(first, b)
    <3>1. first \in UiType
      BY <2>10 DEF WidgetsFit
    <3>2. h \in UiType
      BY <3>1 DEF Hidden, UiType
    <3>3. /\ h.boxes = first.boxes /\ h.alert = first.alert /\ h.open = first.open
          /\ h.timers = first.timers /\ h.shown = first.shown \ {b}
      BY <3>1 DEF Hidden, UiType
    <3>4. b # Alert
      BY DEF Boxes, Alert
    <3> HIDE DEF h, b
    <3>5. IsShown(h, Alert)
      BY <2>10, <2>12, <3>3, <3>4 DEF IsShown
    <3>6. IsShown(h, Alert) = IsShown(u, Alert)
      BY <2>10, <3>3, <3>4 DEF IsShown
    <3>7. h.open <=> IsShown(h, Alert)
      BY <2>10, <2>12, <3>3, <3>5 DEF WidgetsFit
    <3>8. WidgetsFit(h, T)
      BY <2>10, <3>2, <3>3, <3>7 DEF WidgetsFit
    <3>9. HasFront(h)
      BY <3>5 DEF HasFront, IsShown
    <3> QED
      BY <2>1, <2>10, <2>12, <3>3, <3>6, <3>8, <3>9 DEF h, b
  <2> QED
    BY <2>11, <2>12
<1> QED
  BY <1>1, <1>2

(* A timer that fires is gone, whether the widget knows it or not.         *)
LEMMA TimerFiredFits ==
  ASSUME NEW u, NEW S, WidgetsFit(u, S), HasFront(u), NEW w \in Widgets,
         NEW t \in [known : BOOLEAN, lost : 0..MaxLost],
         HasTimer(t) => HasTimer(u.timers[w]), t.known => u.timers[w].known
  PROVE  LET v == [u EXCEPT !.timers = [u.timers EXCEPT ![w] = t]]
         IN  /\ WidgetsFit(v, S) /\ HasFront(v)
             /\ v.alert = u.alert /\ v.boxes = u.boxes
             /\ IsShown(v, Alert) = IsShown(u, Alert)
<1> DEFINE timers == [u.timers EXCEPT ![w] = t]
           v == [u EXCEPT !.timers = timers]
<1>1. u \in UiType /\ u.timers \in [Widgets -> [known : BOOLEAN, lost : 0..MaxLost]]
  BY DEF WidgetsFit, UiType
<1>2. timers \in [Widgets -> [known : BOOLEAN, lost : 0..MaxLost]]
  BY <1>1
<1>3. \A x \in Widgets : /\ HasTimer(timers[x]) => HasTimer(u.timers[x])
                         /\ timers[x].known => u.timers[x].known
  BY <1>1
<1> HIDE DEF timers
<1>5. v \in UiType /\ v.timers = timers
  BY <1>1, <1>2 DEF UiType
<1>6. v.boxes = u.boxes /\ v.alert = u.alert /\ v.open = u.open /\ v.shown = u.shown
  BY <1>1 DEF UiType
<1> HIDE DEF v
<1>7. Alert \in Widgets /\ \A b \in Boxes : b \in Widgets
  BY DEF Widgets
<1>8. /\ HasTimer(v.timers[Alert]) => HasTimer(u.timers[Alert])
      /\ \A b \in Boxes : /\ HasTimer(v.timers[b]) => HasTimer(u.timers[b])
                          /\ v.timers[b].known => u.timers[b].known
  BY <1>3, <1>5, <1>7
<1>9. WidgetsFit(v, S)
  BY <1>5, <1>6, <1>8, TimersFit
<1>10. HasFront(v) /\ IsShown(v, Alert) = IsShown(u, Alert)
  BY <1>6 DEF HasFront, IsShown
<1> QED
  BY <1>6, <1>9, <1>10 DEF v, timers

-----------------------------------------------------------------------------
(* The events.                                                             *)

(* What an event carries.                                                  *)
LEMMA EventTypes ==
  ASSUME NEW e \in EventType
  PROVE  /\ e.type \in {"response", "alert", "disconnected"}
         /\ e.type = "response" => e.box \in Boxes
         /\ e.type = "alert" => e.box \in 0..MaxAlerts
BY DEF EventType

(* An event joins the queue at its end.                                    *)
LEMMA PostedEvents ==
  ASSUME events \in Seq(EventType), NEW e \in EventType, events' = Append(events, e)
  PROVE  /\ events' \in Seq(EventType)
         /\ Len(events) \in Nat
         /\ DOMAIN events = 1..Len(events)
         /\ DOMAIN events' = 1..(Len(events) + 1)
         /\ \A i \in DOMAIN events : i \in DOMAIN events' /\ events'[i] = events[i]
         /\ events'[Len(events) + 1] = e
<1>1. /\ events' \in Seq(EventType) /\ Len(events') = Len(events) + 1
      /\ \A i \in 1..Len(events) : events'[i] = events[i]
      /\ events'[Len(events) + 1] = e
  BY AppendProperties
<1>2. Len(events) \in Nat /\ DOMAIN events = 1..Len(events) /\ DOMAIN events' = 1..(Len(events) + 1)
  BY <1>1, LenProperties
<1> QED
  BY <1>1, <1>2

(* An event is taken from the front of the queue.                          *)
LEMMA TailEvents ==
  ASSUME events \in Seq(EventType), events # <<>>, events' = Tail(events)
  PROVE  /\ events' \in Seq(EventType)
         /\ Head(events) \in EventType
         /\ Head(events) = events[1] /\ 1 \in DOMAIN events
         /\ \A i \in DOMAIN events' : /\ i \in Nat \ {0} /\ i + 1 \in DOMAIN events
                                      /\ events'[i] = events[i + 1]
         /\ \A i \in DOMAIN events : /\ i \in Nat \ {0}
                                     /\ i # 1 => i - 1 \in DOMAIN events' /\ events'[i - 1] = events[i]
<1>1. /\ Head(events) \in EventType /\ events' \in Seq(EventType)
      /\ Len(events') = Len(events) - 1
      /\ \A i \in 1..Len(events') : events'[i] = events[i + 1]
  BY HeadTailProperties
<1>2. Len(events) \in Nat \ {0} /\ DOMAIN events = 1..Len(events) /\ DOMAIN events' = 1..(Len(events) - 1)
  BY <1>1, LenProperties, EmptySeq
<1>3. Head(events) = events[1]
  BY <1>2
<1> QED
  BY <1>1, <1>2, <1>3

(* What is not a reply leaves the replies that wait as they are.           *)
LEMMA MadeUnchanged ==
  ASSUME Types, replies' = replies,
         \/ events' = events
         \/ \E e \in EventType : e.type # "response" /\ events' = Append(events, e)
  PROVE  Made' = Made /\ (RepliesFit => RepliesFit')
<1>1. CASE events' = events
  BY <1>1 DEF Made, Waiting, RepliesFit
<1>2. ASSUME NEW e \in EventType, e.type # "response", events' = Append(events, e)
      PROVE  Made' = Made /\ (RepliesFit => RepliesFit')
  <2>1. /\ Len(events) \in Nat
        /\ DOMAIN events = 1..Len(events)
        /\ DOMAIN events' = 1..(Len(events) + 1)
        /\ \A i \in DOMAIN events : i \in DOMAIN events' /\ events'[i] = events[i]
        /\ events'[Len(events) + 1] = e
    BY <1>2, PostedEvents DEF Types
  <2>2. \A i \in DOMAIN events' : events'[i].type = "response" => i \in DOMAIN events /\ events'[i] = events[i]
    <3>1. \A i \in DOMAIN events' : i \in DOMAIN events \/ i = Len(events) + 1
      BY <2>1
    <3> QED
      BY <1>2, <2>1, <3>1
  <2>3. \A b : Waiting(b)' <=> Waiting(b)
    BY <2>1, <2>2 DEF Waiting
  <2>4. Made' = Made
    BY <2>3 DEF Made
  <2>5. RepliesFit => RepliesFit'
    BY <2>2 DEF RepliesFit
  <2> QED
    BY <2>4, <2>5
<1> QED
  BY <1>1, <1>2

(* What the world of a behaviour is.                                       *)
LEMMA WorldOK ==
  ASSUME Types
  PROVE  /\ world \in WorldType /\ world.reconnects \in Nat /\ cleared \in Nat
         /\ world.alerts \in 0..MaxAlerts /\ world.responses \in 0..MaxResponses
         /\ raised < world.alerts => raised + 1 \in 1..MaxAlerts
         /\ replies < world.responses => replies \in 0..(MaxResponses - 1)
<1>1. /\ world \in WorldType /\ world.reconnects \in Nat /\ cleared \in Nat
      /\ world.alerts \in 0..MaxAlerts /\ world.responses \in 0..MaxResponses
  BY NotificationsAssumption DEF Types, WorldType
<1> QED
  BY <1>1, NotificationsAssumption DEF Types

(* A new reply waits behind the others.                                    *)
LEMMA ReplyKeeps ==
  ASSUME NotifyInv, NEW plain \in BOOLEAN, Reply(plain)
  PROVE  Made' = Made /\ RepliesFit' /\ events' \in Seq(EventType) /\ replies' \in 0..MaxResponses
<1> DEFINE e == [type |-> "response", box |-> replies + 1, plain |-> plain]
<1>1. /\ replies < MaxResponses /\ replies \in Nat /\ replies' = replies + 1
      /\ events' = Append(events, e)
  <2>1. replies < world.responses /\ replies' = replies + 1 /\ events' = Append(events, e)
    BY DEF Reply, Post
  <2> QED
    BY <2>1, WorldOK, NotificationsAssumption DEF NotifyInv
<1>2. e \in EventType
  <2>1. replies + 1 \in Boxes
    BY <1>1, NotificationsAssumption DEF Boxes
  <2> QED
    BY <2>1 DEF EventType
<1>3. /\ events' \in Seq(EventType) /\ Len(events) \in Nat
      /\ DOMAIN events = 1..Len(events)
      /\ DOMAIN events' = 1..(Len(events) + 1)
      /\ \A i \in DOMAIN events : i \in DOMAIN events' /\ events'[i] = events[i]
      /\ events'[Len(events) + 1] = e
  BY <1>1, <1>2, PostedEvents DEF NotifyInv, Types
<1>4. e.type = "response" /\ e.box = replies + 1
  OBVIOUS
<1> HIDE DEF e
<1>5. \A i \in DOMAIN events' : (i \in DOMAIN events /\ events'[i] = events[i]) \/ (i = Len(events) + 1 /\ events'[i] = e)
  BY <1>3
<1>6. \A b \in 1..replies : Waiting(b)' <=> Waiting(b)
  BY <1>1, <1>3, <1>4, <1>5 DEF Waiting
<1>7. ASSUME NEW b, b = replies + 1 PROVE Waiting(b)'
  <2>1. Len(events) + 1 \in DOMAIN events'
    BY <1>3
  <2> QED
    BY <1>3, <1>4, <1>7, <2>1 DEF Waiting
<1>8. Made' = Made
  <2>1. \A b : b \in 1..(replies + 1) <=> b \in 1..replies \/ b = replies + 1
    BY <1>1
  <2> QED
    BY <1>1, <1>6, <1>7, <2>1 DEF Made
<1>9. \A i \in DOMAIN events : events[i].type = "response" => events[i].box \in 1..replies
  BY <1>1, LenProperties, EventTypes DEF NotifyInv, Types, RepliesFit, Boxes
<1>10. RepliesFit'
  BY <1>1, <1>3, <1>4, <1>5, <1>9 DEF RepliesFit, NotifyInv
<1> QED
  BY <1>1, <1>3, <1>8, <1>10, NotificationsAssumption

-----------------------------------------------------------------------------
(* Types.                                                                  *)

(* What a timer answers is a box of the Duet.                              *)
LEMMA AnsweredByType ==
  ASSUME NotifyInv, NEW w \in Widgets, HasTimer(ui.timers[w])
  PROVE  AnsweredBy(w) \subseteq 1..MaxAlerts
<1>1. w = Alert => ui.alert \in 1..MaxAlerts
  BY TimerTypes, NotificationsAssumption DEF NotifyInv, WidgetsFit, Widgets
<1> QED
  BY <1>1 DEF AnsweredBy, NotifyInv, Types

(* The alert remembered is no longer on.                                   *)
LEMMA AlertForgotten ==
  ASSUME NEW T, NEW c \in [seq : T, on : BOOLEAN]
  PROVE  /\ [c EXCEPT !.on = FALSE] \in [seq : T, on : BOOLEAN]
         /\ [c EXCEPT !.on = FALSE].seq = c.seq
OBVIOUS

(* Every step keeps the types.                                             *)
LEMMA TypesStep ==
  ASSUME NotifyInv, Next
  PROVE  Types'
<1> USE NotificationsAssumption DEF NotifyInv, Types, constVars, askVars, duetVars, modelVars, Post
<1>1. ASSUME NEW k \in Kinds, RaiseBox(k) PROVE Types'
  <2>1. raised + 1 \in 1..MaxAlerts
    BY <1>1, WorldOK DEF RaiseBox
  <2> QED
    BY <1>1, <2>1 DEF RaiseBox
<1>2. CASE WithdrawBox
  BY <1>2 DEF WithdrawBox
<1>3. CASE Poll
  BY <1>3 DEF Poll
<1>4. CASE NullMessageBox
  <2>1. [type |-> "alert", box |-> 0] \in EventType
    BY DEF EventType
  <2>2. events' \in Seq(EventType)
    BY <1>4, <2>1, PostedEvents DEF NullMessageBox
  <2> QED
    BY <1>4, <2>2 DEF NullMessageBox, NoParse
<1>5. CASE MessageBoxFields
  BY <1>5 DEF MessageBoxFields
<1>6. CASE MessageBoxTitle
  <2>1. AlertEvent \in EventType
    BY DEF EventType, AlertEvent
  <2>2. events' \in Seq(EventType)
    BY <1>6, <2>1, PostedEvents DEF MessageBoxTitle
  <2> QED
    BY <1>6, <2>2 DEF MessageBoxTitle, NoParse
<1>7. ASSUME NEW plain \in BOOLEAN, Reply(plain) PROVE Types'
  <2>1. events' \in Seq(EventType) /\ replies' \in 0..MaxResponses
    BY <1>7, ReplyKeeps
  <2> QED
    BY <1>7, <2>1 DEF Reply
<1>8. CASE RemoveAll
  <2>1. [type |-> "disconnected"] \in EventType
    BY DEF EventType
  <2>2. events' \in Seq(EventType)
    BY <1>8, <2>1, PostedEvents DEF RemoveAll
  <2>3. cleared' \in 0..world.reconnects
    <3>1. world.reconnects \in Nat /\ cleared \in Nat
      BY WorldOK
    <3>2. cleared < world.reconnects /\ cleared' = cleared + 1
      BY <1>8 DEF RemoveAll
    <3> QED
      BY ONLY <3>1, <3>2
  <2>4. current' \in [seq : 0..MaxAlerts, on : BOOLEAN] /\ lastAlertSeq' \in 0..MaxAlerts
    <3>1. current' = [current EXCEPT !.on = FALSE] /\ lastAlertSeq' = 0
      BY <1>8 DEF RemoveAll
    <3> QED
      BY <3>1, AlertForgotten
  <2> QED
    BY <1>8, <2>2, <2>3, <2>4 DEF RemoveAll
<1>9. CASE Dispatch
  BY <1>9, TailEvents DEF Dispatch
<1>10. ASSUME NEW b \in ToSet(ui.boxes), CloseBox(b) \/ OkBox(b) PROVE Types'
  BY <1>10 DEF CloseBox, OkBox
<1>11. CASE AnswerAlert
  <2>1. ui.alert \in 1..MaxAlerts
    BY <1>11, TimerTypes DEF AnswerAlert, WidgetsFit, Widgets
  <2> QED
    BY <1>11, <2>1 DEF AnswerAlert
<1>12. CASE SwitchScreen
  BY <1>12 DEF SwitchScreen
<1>13. ASSUME NEW w \in Widgets, KnownTimer(w) PROVE Types'
  <2>1. answered' \subseteq 1..MaxAlerts
    BY <1>13, AnsweredByType DEF KnownTimer, HasTimer
  <2> QED
    BY <1>13, <2>1 DEF KnownTimer
<1>14. ASSUME NEW w \in Widgets, LostTimer(w) PROVE Types'
  <2>1. ui.timers[w].lost # 0
    BY <1>14, TimerTypes DEF LostTimer, WidgetsFit
  <2>2. answered' \subseteq 1..MaxAlerts
    BY <1>14, <2>1, AnsweredByType DEF LostTimer, HasTimer
  <2> QED
    BY <1>14, <2>2 DEF LostTimer
<1> QED
  BY <1>1, <1>2, <1>3, <1>4, <1>5, <1>6, <1>7, <1>8, <1>9, <1>10, <1>11, <1>12, <1>13, <1>14
     DEF Next, Decode

-----------------------------------------------------------------------------
(* The widgets.                                                            *)

WidgetsKept == WidgetsFit(ui', Made') /\ HasFront(ui') /\ RepliesFit'

(* An event opens, replaces or closes what it is about and leaves the      *)
(* rest.                                                                   *)
LEMMA DispatchFits ==
  ASSUME NotifyInv, Dispatch
  PROVE  /\ WidgetsKept
         /\ Head(events).type = "alert" =>
               LET a == Head(events).box
               IN  /\ a = 0 => ui'.alert = ui.alert /\ ~IsShown(ui', Alert)
                   /\ a # 0 => ui'.alert = a
         /\ Head(events).type # "alert" =>
               ui'.alert = ui.alert /\ IsShown(ui', Alert) = IsShown(ui, Alert)
<1> DEFINE e == Head(events)
<1>1. /\ events' \in Seq(EventType) /\ e \in EventType
      /\ e = events[1] /\ 1 \in DOMAIN events
      /\ \A i \in DOMAIN events' : /\ i \in Nat \ {0} /\ i + 1 \in DOMAIN events
                                   /\ events'[i] = events[i + 1]
      /\ \A i \in DOMAIN events : /\ i \in Nat \ {0}
                                  /\ i # 1 => i - 1 \in DOMAIN events' /\ events'[i - 1] = events[i]
  BY TailEvents DEF Dispatch, NotifyInv, Types
<1>2. ui' = Handled(e) /\ replies' = replies /\ replies \in Nat
  BY NotificationsAssumption DEF Dispatch, NotifyInv, Types
<1>3. WidgetsFit(ui, Made) /\ HasFront(ui) /\ world \in WorldType
      /\ kind \in [1..MaxAlerts -> Kinds] /\ RepliesFit
  BY WorldOK DEF NotifyInv, Types
<1> HIDE DEF e
<1>4. RepliesFit'
  <2>1. ASSUME NEW i \in DOMAIN events', NEW j \in DOMAIN events',
               events'[i].type = "response", events'[j].type = "response",
               events'[i].box = events'[j].box
        PROVE  i = j
    <3>1. i + 1 = j + 1
      BY <1>1, <1>3, <2>1 DEF RepliesFit
    <3> QED
      BY <1>1, <3>1
  <2>2. ASSUME NEW i \in DOMAIN events', events'[i].type = "response"
        PROVE  events'[i].box <= replies'
    BY <1>1, <1>2, <1>3, <2>2 DEF RepliesFit
  <2> QED
    BY <2>1, <2>2 DEF RepliesFit
<1>5. CASE e.type = "response"
  <2>1. e.box \in Boxes /\ e.box \in 1..replies /\ Waiting(e.box)
    BY <1>1, <1>2, <1>3, <1>5, EventTypes DEF Waiting, RepliesFit, Boxes
  <2>2. \A b : Waiting(b)' => Waiting(b)
    BY <1>1 DEF Waiting
  <2>3. ~\E i \in DOMAIN events' : events'[i].type = "response" /\ events'[i].box = e.box
    <3> SUFFICES ASSUME NEW i \in DOMAIN events', events'[i].type = "response", events'[i].box = e.box
                 PROVE  FALSE
      OBVIOUS
    <3>1. i + 1 \in DOMAIN events /\ events[i + 1].type = "response" /\ events[i + 1].box = events[1].box
      BY <1>1
    <3>2. i + 1 = 1
      BY <1>1, <1>3, <1>5, <3>1 DEF RepliesFit
    <3> QED
      BY <1>1, <3>2
  <2>4. \A b : b # e.box /\ Waiting(b) => Waiting(b)'
    BY <1>1 DEF Waiting
  <2>5. Made' = Made \cup {e.box}
    <3>1. ASSUME NEW b, b \in Made' PROVE b \in Made \cup {e.box}
      BY <1>2, <2>4, <3>1 DEF Made
    <3>2. ASSUME NEW b, b \in Made PROVE b \in Made'
      BY <1>2, <2>2, <3>2 DEF Made
    <3>3. ASSUME NEW b, b = e.box PROVE b \in Made'
      <4>1. ~Waiting(b)'
        BY <2>3, <3>3 DEF Waiting
      <4>2. b \in 1..replies'
        BY <1>2, <2>1, <3>3
      <4> QED
        BY <4>1, <4>2 DEF Made
    <3> QED
      BY <3>1, <3>2, <3>3
  <2>6. e.box \in Boxes \ Made
    BY <2>1 DEF Made
  <2>7. ui' = NewResponse(ui, e)
    BY <1>2, <1>5 DEF Handled
  <2>8. /\ WidgetsFit(ui', Made \cup {e.box}) /\ HasFront(ui')
        /\ ui'.alert = ui.alert /\ IsShown(ui', Alert) = IsShown(ui, Alert)
    BY <1>3, <2>6, <2>7, NewResponseFits
  <2> QED
    BY <1>4, <1>5, <2>5, <2>8 DEF WidgetsKept, e
<1>6. ASSUME e.type # "response" PROVE Made' = Made
  <2>1. \A b : Waiting(b)' <=> Waiting(b)
    <3>1. ASSUME NEW b, Waiting(b)' PROVE Waiting(b)
      BY <1>1, <3>1 DEF Waiting
    <3>2. ASSUME NEW b, Waiting(b) PROVE Waiting(b)'
      <4>1. PICK i \in DOMAIN events : events[i].type = "response" /\ events[i].box = b
        BY <3>2 DEF Waiting
      <4>2. i # 1
        BY <1>1, <1>6, <4>1
      <4>3. i - 1 \in DOMAIN events' /\ events'[i - 1] = events[i]
        BY <1>1, <4>2
      <4> QED
        BY <4>1, <4>3 DEF Waiting
    <3> QED
      BY <3>1, <3>2
  <2> QED
    BY <1>2, <2>1 DEF Made
<1>7. CASE e.type = "alert"
  <2>1. ui' = NewAlertData(ui, e.box) /\ e.box \in 0..MaxAlerts
    BY <1>1, <1>2, <1>7, EventTypes DEF Handled
  <2>2. /\ WidgetsFit(ui', Made) /\ HasFront(ui')
        /\ e.box = 0 => ui'.alert = ui.alert /\ ~IsShown(ui', Alert)
        /\ e.box # 0 => ui'.alert = e.box
    BY <1>3, <2>1, NewAlertDataFits
  <2> QED
    BY <1>4, <1>6, <1>7, <2>2 DEF WidgetsKept, e
<1>8. CASE e.type = "disconnected"
  <2>1. ui' = ClearMessageBoxes(ui)
    BY <1>2, <1>8 DEF Handled
  <2>2. /\ WidgetsFit(ui', Made) /\ HasFront(ui')
        /\ ui'.alert = ui.alert /\ IsShown(ui', Alert) = IsShown(ui, Alert)
    BY <1>3, <2>1, ClearMessageBoxesFits
  <2> QED
    BY <1>4, <1>6, <1>8, <2>2 DEF WidgetsKept, e
<1> QED
  BY <1>1, <1>5, <1>7, <1>8, EventTypes

(* What a click or a timer leaves.                                         *)
Closes(shown) ==
    /\ WidgetsFit(ui', Made) /\ HasFront(ui')
    /\ ui'.alert = ui.alert
    /\ IsShown(ui', Alert) => shown /\ IsShown(ui, Alert)

(* A click closes what was clicked, or everything.                         *)
LEMMA ClicksFit ==
  ASSUME NotifyInv
  PROVE  /\ \A b \in ToSet(ui.boxes) : CloseBox(b) \/ OkBox(b) => Closes(TRUE)
         /\ AnswerAlert => Closes(FALSE)
         /\ SwitchScreen => Closes(TRUE)
<1>1. WidgetsFit(ui, Made) /\ HasFront(ui) /\ world \in WorldType
  BY WorldOK DEF NotifyInv
<1>2. ASSUME NEW b \in ToSet(ui.boxes), CloseBox(b) PROVE Closes(TRUE)
  <2>1. ui.boxes \in Seq(Boxes)
    BY <1>1, TimerTypes DEF WidgetsFit, Widgets
  <2>2. b \in Boxes /\ ui.boxes # <<>>
    BY <2>1, LenProperties DEF ToSet
  <2>3. b # Alert
    BY <2>2 DEF Boxes, Alert
  <2>4. b = Head(ui.boxes) /\ ui' = CancelBox(ui, b)
    BY <1>1, <1>2, <2>2, <2>3 DEF CloseBox, Clickable, IsShown, WidgetsFit
  <2> QED
    BY <1>1, <2>2, <2>4, CancelBoxFits DEF Closes
<1>3. ASSUME NEW b \in ToSet(ui.boxes), OkBox(b) PROVE Closes(TRUE)
  <2> DEFINE x == ClearMessageBoxes(ui)
  <2>1. WidgetsFit(x, Made) /\ HasFront(x) /\ x.alert = ui.alert /\ IsShown(x, Alert) = IsShown(ui, Alert)
    BY <1>1, ClearMessageBoxesFits
  <2>2. ui' = OpenConsole(x)
    BY <1>3 DEF OkBox
  <2> HIDE DEF x
  <2> QED
    BY <1>1, <2>1, <2>2, OpenConsoleFits DEF Closes
<1>4. ASSUME AnswerAlert PROVE Closes(FALSE)
  BY <1>1, <1>4, CloseAlertFits DEF AnswerAlert, Closes
<1>5. ASSUME SwitchScreen PROVE Closes(TRUE)
  <2>1. CASE ui.console
    <3>1. LET v == [ui EXCEPT !.console = FALSE]
          IN  /\ WidgetsFit(v, Made) /\ HasFront(v) /\ v.alert = ui.alert
              /\ IsShown(v, Alert) = IsShown(ui, Alert)
      BY <1>1, ConsoleFits, Zenon
    <3>2. ui' = [ui EXCEPT !.console = FALSE]
      BY <1>5, <2>1 DEF SwitchScreen
    <3>3. WidgetsFit(ui', Made) /\ HasFront(ui') /\ ui'.alert = ui.alert
          /\ IsShown(ui', Alert) = IsShown(ui, Alert)
      BY <3>1, <3>2, Zenon
    <3>4. IsShown(ui', Alert) => IsShown(ui, Alert)
      BY <3>3, Zenon
    <3>5. WidgetsFit(ui', Made) /\ HasFront(ui') /\ ui'.alert = ui.alert
      BY <3>3, Zenon
    <3> QED
      BY <3>4, <3>5 DEF Closes
  <2>2. CASE ~ui.console
    BY <1>1, <1>5, <2>2, OpenConsoleFits DEF SwitchScreen, Closes
  <2> QED
    BY <2>1, <2>2
<1> QED
  BY <1>2, <1>3, <1>4, <1>5

(* A timer cancels its own widget.                                         *)
LEMMA CancelledFits ==
  ASSUME NEW u, NEW S, WidgetsFit(u, S), HasFront(u), world \in WorldType, NEW w \in Widgets,
         w = Alert \/ (u.boxes # <<>> /\ w = Head(u.boxes))
  PROVE  LET v == Cancelled(u, w)
         IN  /\ WidgetsFit(v, S) /\ HasFront(v)
             /\ v.alert = u.alert
             /\ IsShown(v, Alert) => w # Alert /\ IsShown(u, Alert)
<1>1. CASE w = Alert
  BY <1>1, CloseAlertFits DEF Cancelled
<1>2. CASE w # Alert
  BY <1>2, CancelBoxFits DEF Cancelled
<1> QED
  BY <1>1, <1>2

(* A timer that fires closes the widget that knows it.                     *)
LEMMA KnownTimerFits ==
  ASSUME NotifyInv, NEW w \in Widgets, KnownTimer(w)
  PROVE  Closes(w # Alert)
<1>1. WidgetsFit(ui, Made) /\ HasFront(ui) /\ world \in WorldType
  BY WorldOK DEF NotifyInv
<1> DEFINE t == [ui.timers[w] EXCEPT !.known = FALSE]
           u == [ui EXCEPT !.timers = [ui.timers EXCEPT ![w] = t]]
<1>2. t \in [known : BOOLEAN, lost : 0..MaxLost] /\ ~t.known
  BY <1>1, TimerTypes, TimerForgotten DEF WidgetsFit
<1>3. ui.timers[w].known /\ ui' = Cancelled(u, w)
  BY DEF KnownTimer
<1>4. HasTimer(ui.timers[w])
  BY <1>3 DEF HasTimer
<1>5. w = Alert \/ (ui.boxes # <<>> /\ w = Head(ui.boxes))
  <2>1. w # Alert => w \in Boxes
    BY DEF Widgets
  <2>2. w # Alert => w \in ToSet(ui.boxes) /\ w = Head(ui.boxes)
    BY <1>1, <1>3, <1>4, <2>1 DEF WidgetsFit
  <2>3. ui.boxes = <<>> => ToSet(ui.boxes) = {}
    BY DEF ToSet
  <2> QED
    BY <2>2, <2>3
<1> HIDE DEF t
<1>6. /\ WidgetsFit(u, Made) /\ HasFront(u)
      /\ u.alert = ui.alert /\ u.boxes = ui.boxes
      /\ IsShown(u, Alert) = IsShown(ui, Alert)
  BY <1>1, <1>2, <1>4, TimerFiredFits
<1> HIDE DEF u
<1> QED
  BY <1>1, <1>3, <1>5, <1>6, CancelledFits DEF Closes

(* A timer that was forgotten and fires closes what is there.              *)
LEMMA LostTimerFits ==
  ASSUME NotifyInv, NEW w \in Widgets, LostTimer(w)
  PROVE  /\ Closes(TRUE)
         /\ answered' # answered => w = Alert /\ Closes(FALSE)
<1>1. WidgetsFit(ui, Made) /\ HasFront(ui) /\ world \in WorldType
  BY WorldOK DEF NotifyInv
<1> DEFINE t == [ui.timers[w] EXCEPT !.lost = @ - 1]
           u == [ui EXCEPT !.timers = [ui.timers EXCEPT ![w] = t]]
<1>2. ui.timers[w] \in [known : BOOLEAN, lost : 0..MaxLost] /\ ui.timers[w].lost > 0
  BY <1>1, TimerTypes DEF WidgetsFit, LostTimer
<1>3. t \in [known : BOOLEAN, lost : 0..MaxLost] /\ (t.known => ui.timers[w].known)
  BY <1>2, NotificationsAssumption
<1>4. HasTimer(ui.timers[w])
  BY <1>2 DEF HasTimer
<1>5. \/ (w = Alert \/ w \in ToSet(ui.boxes)) /\ ui' = Cancelled(u, w) /\ answered' = AnsweredBy(w)
      \/ ui' = u /\ answered' = answered
  BY DEF LostTimer
<1>6. w \in ToSet(ui.boxes) => ui.boxes # <<>> /\ w = Head(ui.boxes)
  <2>1. w \in ToSet(ui.boxes) => ui.boxes # <<>>
    BY DEF ToSet
  <2> QED
    BY <1>1, <1>4, <2>1 DEF WidgetsFit
<1> HIDE DEF t
<1>7. /\ WidgetsFit(u, Made) /\ HasFront(u)
      /\ u.alert = ui.alert /\ u.boxes = ui.boxes
      /\ IsShown(u, Alert) = IsShown(ui, Alert)
  BY <1>1, <1>3, <1>4, TimerFiredFits
<1> HIDE DEF u
<1>8. Closes(w # Alert) \/ (Closes(TRUE) /\ answered' = answered)
  BY <1>1, <1>5, <1>6, <1>7, CancelledFits DEF Closes
<1>9. answered' # answered => w = Alert
  BY <1>5 DEF AnsweredBy
<1> QED
  BY <1>8, <1>9 DEF Closes

(* The widgets fit after every step.                                      *)
LEMMA WidgetsStep ==
  ASSUME NotifyInv, Next
  PROVE  WidgetsKept
<1>1. WidgetsFit(ui, Made) /\ HasFront(ui) /\ RepliesFit /\ Types
  BY DEF NotifyInv
<1>2. ASSUME ui' = ui, Made' = Made, RepliesFit' PROVE WidgetsKept
  BY <1>1, <1>2 DEF WidgetsKept
<1>3. ASSUME ui' = ui, replies' = replies,
             \/ events' = events
             \/ \E e \in EventType : e.type # "response" /\ events' = Append(events, e)
      PROVE  WidgetsKept
  BY <1>1, <1>2, <1>3, MadeUnchanged
<1>4. ASSUME NEW k \in Kinds, RaiseBox(k) PROVE WidgetsKept
  BY <1>3, <1>4 DEF RaiseBox
<1>5. CASE WithdrawBox \/ Poll
  BY <1>3, <1>5 DEF WithdrawBox, Poll
<1>6. CASE NullMessageBox
  <2> DEFINE e == [type |-> "alert", box |-> 0]
  <2>1. e \in EventType /\ e.type # "response" /\ events' = Append(events, e)
    BY <1>6, NotificationsAssumption DEF EventType, NullMessageBox, Post
  <2> HIDE DEF e
  <2> QED
    BY <1>3, <1>6, <2>1 DEF NullMessageBox
<1>7. CASE MessageBoxFields
  BY <1>3, <1>7 DEF MessageBoxFields
<1>8. CASE MessageBoxTitle
  <2>1. AlertEvent \in EventType /\ AlertEvent.type # "response"
    BY <1>1, NotificationsAssumption DEF AlertEvent, EventType, Types
  <2>2. events' = events \/ events' = Append(events, AlertEvent)
    BY <1>8 DEF MessageBoxTitle, Post
  <2> QED
    BY <1>3, <1>8, <2>1, <2>2 DEF MessageBoxTitle
<1>9. ASSUME NEW plain \in BOOLEAN, Reply(plain) PROVE WidgetsKept
  BY <1>2, <1>9, ReplyKeeps DEF Reply
<1>10. CASE RemoveAll
  <2> DEFINE e == [type |-> "disconnected"]
  <2>1. e \in EventType /\ e.type # "response"
    BY DEF EventType
  <2>2. events' = events \/ events' = Append(events, e)
    BY <1>10 DEF RemoveAll, Post
  <2> HIDE DEF e
  <2> QED
    BY <1>3, <1>10, <2>1, <2>2 DEF RemoveAll
<1>11. CASE Dispatch
  BY <1>11, DispatchFits
<1>12. ASSUME Closes(TRUE), replies' = replies, events' = events PROVE WidgetsKept
  <2>1. Made' = Made /\ RepliesFit'
    BY <1>1, <1>12, MadeUnchanged
  <2> QED
    BY <1>12, <2>1 DEF Closes, WidgetsKept
<1>13. ASSUME NEW b \in ToSet(ui.boxes), CloseBox(b) \/ OkBox(b) PROVE WidgetsKept
  <2>1. Closes(TRUE)
    BY <1>13, ClicksFit
  <2> QED
    BY <1>12, <1>13, <2>1 DEF CloseBox, OkBox
<1>14. CASE AnswerAlert
  <2>1. Closes(TRUE)
    BY <1>14, ClicksFit DEF Closes
  <2> QED
    BY <1>12, <1>14, <2>1 DEF AnswerAlert
<1>15. CASE SwitchScreen
  <2>1. Closes(TRUE)
    BY <1>15, ClicksFit
  <2> QED
    BY <1>12, <1>15, <2>1 DEF SwitchScreen
<1>16. ASSUME NEW w \in Widgets, KnownTimer(w) PROVE WidgetsKept
  <2>1. Closes(TRUE)
    BY <1>16, KnownTimerFits DEF Closes
  <2> QED
    BY <1>12, <1>16, <2>1 DEF KnownTimer
<1>17. ASSUME NEW w \in Widgets, LostTimer(w) PROVE WidgetsKept
  <2>1. Closes(TRUE)
    BY <1>17, LostTimerFits
  <2> QED
    BY <1>12, <1>17, <2>1 DEF LostTimer
<1> QED
  BY <1>4, <1>5, <1>6, <1>7, <1>8, <1>9, <1>10, <1>11, <1>13, <1>14, <1>15, <1>16, <1>17
     DEF Next, Decode

-----------------------------------------------------------------------------
(* The message boxes of the Duet.                                          *)

(* What is asked of an event that is posted, and of one that is read.      *)
LEMMA AlertPosted ==
  ASSUME Types, AlertsInOrder, NEW e \in EventType, events' = Append(events, e),
         lastAlertSeq <= lastAlertSeq', lastAlertSeq' \in Nat, ui'.alert = ui.alert,
         ui.alert \in Nat,
         IsAlert(e) => e.box = lastAlertSeq' /\ lastAlertSeq < lastAlertSeq'
  PROVE  /\ \A i \in DOMAIN events' :
               IsAlert(events'[i]) => ui'.alert < events'[i].box /\ events'[i].box <= lastAlertSeq'
         /\ \A i, j \in DOMAIN events' :
               i < j /\ IsAlert(events'[i]) /\ IsAlert(events'[j])
                   => events'[i].box < events'[j].box
<1>1. /\ Len(events) \in Nat
      /\ DOMAIN events = 1..Len(events)
      /\ DOMAIN events' = 1..(Len(events) + 1)
      /\ \A i \in DOMAIN events : i \in DOMAIN events' /\ events'[i] = events[i]
      /\ events'[Len(events) + 1] = e
  BY PostedEvents DEF Types
<1>2. \A i \in DOMAIN events' : i \in DOMAIN events \/ i = Len(events) + 1
  BY <1>1
<1>3. lastAlertSeq \in Nat /\ ui.alert <= lastAlertSeq
  BY NotificationsAssumption DEF Types, AlertsInOrder
<1>4. \A i \in DOMAIN events : IsAlert(events[i]) =>
          events[i].box \in Nat /\ ui.alert < events[i].box /\ events[i].box <= lastAlertSeq
  <2>1. \A i \in DOMAIN events : events[i] \in EventType
    BY LenProperties DEF Types
  <2> QED
    BY <2>1, EventTypes, NotificationsAssumption DEF IsAlert, AlertsInOrder
<1>5. ASSUME NEW i \in DOMAIN events', IsAlert(events'[i])
      PROVE  ui'.alert < events'[i].box /\ events'[i].box <= lastAlertSeq'
  BY <1>1, <1>2, <1>3, <1>4, <1>5
<1>6. ASSUME NEW i \in DOMAIN events', NEW j \in DOMAIN events', i < j,
             IsAlert(events'[i]), IsAlert(events'[j])
      PROVE  events'[i].box < events'[j].box
  <2>1. i \in DOMAIN events
    BY <1>1, <1>6
  <2>2. CASE j \in DOMAIN events
    BY <1>1, <1>6, <2>1, <2>2 DEF AlertsInOrder
  <2>3. CASE j = Len(events) + 1
    BY <1>1, <1>3, <1>4, <1>6, <2>1, <2>3
  <2> QED
    BY <1>2, <2>2, <2>3
<1> QED
  BY <1>5, <1>6

(* Every step of a connection keeps the numbers of the boxes in order.     *)
LEMMA AlertsStep ==
  ASSUME NotifyInv, Next, cleared' = 0
  PROVE  AlertsInOrder'
<1>1. cleared = 0 /\ ~RemoveAll
  <2>1. cleared \in Nat
    BY WorldOK DEF NotifyInv
  <2>2. ~RemoveAll
    BY <2>1 DEF RemoveAll
  <2>3. cleared' = cleared
    BY <2>2 DEF Next, Decode, RaiseBox, WithdrawBox, Poll, NullMessageBox, MessageBoxFields,
       MessageBoxTitle, Reply, Dispatch, CloseBox, OkBox, AnswerAlert, SwitchScreen, KnownTimer,
       LostTimer, constVars
  <2> QED
    BY <2>2, <2>3
<1>2. AlertsInOrder /\ Types /\ WidgetsFit(ui, Made) /\ ui.alert \in Nat
      /\ duetBox \in Nat /\ raised \in Nat /\ current.seq \in Nat /\ parse.box \in Nat
      /\ lastAlertSeq \in Nat
  BY <1>1, TimerTypes, NotificationsAssumption DEF NotifyInv, Types, WidgetsFit, Widgets
<1> USE DEF askVars, duetVars, modelVars, constVars, Post
<1>3. ASSUME NEW k \in Kinds, RaiseBox(k) PROVE AlertsInOrder'
  BY <1>2, <1>3 DEF RaiseBox, AlertsInOrder
<1>4. CASE WithdrawBox
  BY <1>2, <1>4 DEF WithdrawBox, AlertsInOrder
<1>5. CASE Poll
  BY <1>2, <1>5 DEF Poll, AlertsInOrder, Types, NoParse
<1>6. CASE NullMessageBox
  <2> DEFINE e == [type |-> "alert", box |-> 0]
  <2>1. e \in EventType /\ ~IsAlert(e) /\ events' = Append(events, e)
    BY <1>6, NotificationsAssumption DEF EventType, NullMessageBox, IsAlert
  <2>2. current' = [current EXCEPT !.on = FALSE] /\ parse' = NoParse /\ ui' = ui
        /\ UNCHANGED <<duetBox, raised, answered, lastAlertSeq>>
    BY <1>6 DEF NullMessageBox
  <2>3. current'.seq = current.seq
    BY <1>2, <2>2, AlertForgotten DEF Types
  <2>4. parse'.box = 0 /\ parse'.step = "none"
    BY <2>2 DEF NoParse
  <2> HIDE DEF e
  <2> QED
    BY <1>2, <2>1, <2>2, <2>3, <2>4, AlertPosted DEF AlertsInOrder
<1>7. CASE MessageBoxFields
  BY <1>2, <1>7 DEF MessageBoxFields, AlertsInOrder, Types
<1>8. CASE MessageBoxTitle
  <2>1. AlertEvent \in EventType /\ (IsAlert(AlertEvent) => AlertEvent.box = current.seq)
    BY <1>2, NotificationsAssumption DEF AlertEvent, EventType, Types, IsAlert
  <2>2. parse' = NoParse /\ ui' = ui /\ UNCHANGED <<duetBox, raised, answered, current>>
    BY <1>8 DEF MessageBoxTitle
  <2>3. parse'.box = 0 /\ parse'.step = "none"
    BY <2>2 DEF NoParse
  <2>4. CASE current.seq = lastAlertSeq
    BY <1>2, <1>8, <2>2, <2>3, <2>4 DEF MessageBoxTitle, AlertsInOrder
  <2>5. CASE current.seq # lastAlertSeq
    <3>1. lastAlertSeq' = current.seq /\ events' = Append(events, AlertEvent)
      BY <1>8, <2>5 DEF MessageBoxTitle
    <3>2. lastAlertSeq < current.seq
      BY <1>2, <2>5 DEF AlertsInOrder
    <3> QED
      BY <1>2, <2>1, <2>2, <2>3, <3>1, <3>2, AlertPosted DEF AlertsInOrder
  <2> QED
    BY <2>4, <2>5
<1>9. ASSUME NEW plain \in BOOLEAN, Reply(plain) PROVE AlertsInOrder'
  <2> DEFINE e == [type |-> "response", box |-> replies + 1, plain |-> plain]
  <2>1. replies + 1 \in Boxes
    BY <1>2, <1>9, WorldOK, NotificationsAssumption DEF Reply, Boxes
  <2>2. e \in EventType /\ ~IsAlert(e) /\ events' = Append(events, e)
    BY <1>9, <2>1 DEF EventType, Reply, IsAlert
  <2>3. ui' = ui /\ UNCHANGED <<duetBox, raised, answered, parse, current, lastAlertSeq>>
    BY <1>9 DEF Reply
  <2> HIDE DEF e
  <2> QED
    BY <1>2, <2>2, <2>3, AlertPosted DEF AlertsInOrder
<1>10. CASE Dispatch
  <2> DEFINE e == Head(events)
  <2>1. /\ e \in EventType /\ e = events[1] /\ 1 \in DOMAIN events
        /\ \A i \in DOMAIN events' : /\ i \in Nat \ {0} /\ i + 1 \in DOMAIN events
                                     /\ events'[i] = events[i + 1]
    BY <1>2, <1>10, TailEvents DEF Dispatch, Types
  <2>2. UNCHANGED <<duetBox, raised, answered, parse, current, lastAlertSeq>>
    BY <1>10 DEF Dispatch
  <2>3. /\ e.type = "alert" => /\ e.box = 0 => ui'.alert = ui.alert /\ ~IsShown(ui', Alert)
                               /\ e.box # 0 => ui'.alert = e.box
        /\ e.type # "alert" => /\ ui'.alert = ui.alert
                               /\ IsShown(ui', Alert) = IsShown(ui, Alert)
    BY <1>10, DispatchFits
  <2>4. IsAlert(e) => e.box \in Nat /\ ui.alert < e.box /\ e.box <= lastAlertSeq
    BY <1>2, <2>1, EventTypes, NotificationsAssumption DEF IsAlert, AlertsInOrder
  <2> HIDE DEF e
  <2>5. ui'.alert = IF IsAlert(e) THEN e.box ELSE ui.alert
    BY <2>3 DEF IsAlert
  <2>6. ui'.alert <= lastAlertSeq'
    BY <1>2, <2>2, <2>4, <2>5 DEF AlertsInOrder
  <2>7. ASSUME NEW i \in DOMAIN events', IsAlert(events'[i])
        PROVE  ui'.alert < events'[i].box /\ events'[i].box <= lastAlertSeq'
    <3>1. i + 1 \in DOMAIN events /\ 1 < i + 1 /\ events'[i] = events[i + 1]
      BY <2>1
    <3> QED
      BY <1>2, <2>1, <2>2, <2>5, <2>7, <3>1 DEF AlertsInOrder
  <2>8. ASSUME NEW i \in DOMAIN events', NEW j \in DOMAIN events', i < j,
               IsAlert(events'[i]), IsAlert(events'[j])
        PROVE  events'[i].box < events'[j].box
    <3>1. i + 1 \in DOMAIN events /\ j + 1 \in DOMAIN events /\ i + 1 < j + 1
          /\ events'[i] = events[i + 1] /\ events'[j] = events[j + 1]
      BY <2>1, <2>8
    <3> QED
      BY <1>2, <2>8, <3>1 DEF AlertsInOrder
  <2>9. \A a \in answered' : a <= ui'.alert /\ (IsAlert(e) => a < ui'.alert)
    <3>1. \A a \in answered : a \in Nat /\ a <= ui.alert
      BY <1>2, NotificationsAssumption DEF Types, AlertsInOrder
    <3> QED
      BY <1>2, <2>2, <2>4, <2>5, <3>1
  <2>10. IsShown(ui', Alert) => ui'.alert \notin answered'
    <3>1. CASE IsAlert(e)
      <4>1. ui'.alert \in Nat
        BY <2>4, <2>5, <3>1
      <4> QED
        BY <2>9, <3>1, <4>1
    <3>2. CASE ~IsAlert(e) /\ IsShown(ui', Alert)
      <4>1. e.type # "alert"
        BY <2>3, <3>2 DEF IsAlert
      <4>2. IsShown(ui, Alert)
        BY <2>3, <3>2, <4>1, Zenon
      <4> QED
        BY <1>2, <2>2, <2>5, <3>2, <4>2 DEF AlertsInOrder
    <3> QED
      BY <3>1, <3>2
  <2> QED
    BY <1>2, <2>2, <2>6, <2>7, <2>8, <2>9, <2>10 DEF AlertsInOrder
<1>11. ASSUME Closes(TRUE), UNCHANGED <<duetBox, raised, parse, current, lastAlertSeq, events>>,
              answered' = answered \/ (answered' = answered \cup {ui.alert} /\ Closes(FALSE))
       PROVE  AlertsInOrder'
  <2>1. ui'.alert = ui.alert /\ (IsShown(ui', Alert) => IsShown(ui, Alert) /\ answered' = answered)
    BY <1>11 DEF Closes
  <2>2. \A a \in answered' : a <= ui.alert
    <3>1. answered' \subseteq answered \cup {ui.alert}
      BY <1>11
    <3>2. \A a \in answered : a <= ui.alert
      BY <1>2 DEF AlertsInOrder
    <3> QED
      BY <1>2, <3>1, <3>2
  <2>3. IsShown(ui', Alert) => ui'.alert \notin answered'
    BY <1>2, <2>1 DEF AlertsInOrder
  <2> QED
    BY <1>2, <1>11, <2>1, <2>2, <2>3 DEF AlertsInOrder
<1>12. ASSUME NEW b \in ToSet(ui.boxes), CloseBox(b) \/ OkBox(b) PROVE AlertsInOrder'
  <2>1. Closes(TRUE)
    BY <1>12, ClicksFit
  <2> QED
    BY <1>11, <1>12, <2>1 DEF CloseBox, OkBox
<1>13. CASE AnswerAlert
  <2>1. Closes(TRUE) /\ Closes(FALSE)
    BY <1>13, ClicksFit DEF Closes
  <2> QED
    BY <1>11, <1>13, <2>1 DEF AnswerAlert
<1>14. CASE SwitchScreen
  <2>1. Closes(TRUE)
    BY <1>14, ClicksFit
  <2> QED
    BY <1>11, <1>14, <2>1 DEF SwitchScreen
<1>15. ASSUME NEW w \in Widgets PROVE AnsweredBy(w) = answered
                                      \/ (w = Alert /\ AnsweredBy(w) = answered \cup {ui.alert})
  BY DEF AnsweredBy
<1>16. ASSUME NEW w \in Widgets, KnownTimer(w) PROVE AlertsInOrder'
  <2>1. Closes(TRUE) /\ (w = Alert => Closes(FALSE))
    BY <1>16, KnownTimerFits DEF Closes
  <2> QED
    BY <1>11, <1>15, <1>16, <2>1 DEF KnownTimer
<1>17. ASSUME NEW w \in Widgets, LostTimer(w) PROVE AlertsInOrder'
  <2>1. Closes(TRUE) /\ (answered' # answered => w = Alert /\ Closes(FALSE))
    BY <1>17, LostTimerFits
  <2> QED
    BY <1>11, <1>15, <1>17, <2>1 DEF LostTimer
<1> QED
  BY <1>1, <1>3, <1>4, <1>5, <1>6, <1>7, <1>8, <1>9, <1>10, <1>12, <1>13, <1>14, <1>16, <1>17
     DEF Next, Decode

-----------------------------------------------------------------------------
(* The theorems.                                                           *)

(* At the start nothing is shown.                                          *)
LEMMA InitFits ==
  ASSUME Init
  PROVE  NotifyInv
<1> USE NotificationsAssumption DEF Init
<1>1. Types
  <2>1. events \in Seq(EventType)
    BY EmptySeq
  <2>2. cleared \in 0..world.reconnects
    BY DEF WorldType
  <2>3. kind \in [1..MaxAlerts -> Kinds] /\ current \in [seq : 0..MaxAlerts, on : BOOLEAN]
        /\ parse \in [step : {"none", "fields", "title"}, box : 0..MaxAlerts]
    BY DEF NoParse, Kinds
  <2>4. crashed \in BOOLEAN /\ world \in Worlds
    OBVIOUS
  <2>5. /\ duetBox \in 0..MaxAlerts /\ raised \in 0..MaxAlerts /\ answered \subseteq 1..MaxAlerts
        /\ lastAlertSeq \in 0..MaxAlerts /\ replies \in 0..MaxResponses
    OBVIOUS
  <2> QED
    BY <2>1, <2>2, <2>3, <2>4, <2>5 DEF Types
<1>2. ui \in UiType
  <2>1. \A w \in Widgets : NoTimer \in [known : BOOLEAN, lost : 0..MaxLost]
    BY DEF NoTimer
  <2>2. <<>> \in Seq(Boxes)
    BY EmptySeq
  <2> QED
    BY <2>1, <2>2 DEF UiType
<1>3. \A w \in Widgets : ui.timers[w] = NoTimer
  OBVIOUS
<1>4. \A w \in Widgets : ~HasTimer(ui.timers[w]) /\ ~ui.timers[w].known
  BY <1>3 DEF HasTimer, NoTimer
<1>5. Alert \in Widgets /\ \A b \in Boxes : b \in Widgets
  BY DEF Widgets
<1>6. ui.boxes = <<>> /\ ui.shown = {} /\ ui.alert = 0 /\ ui.open = FALSE
  OBVIOUS
<1>7. ToSet(ui.boxes) = {} /\ Distinct(ui.boxes)
  BY <1>6 DEF ToSet, Distinct
<1>8. WidgetsFit(ui, Made)
  BY <1>2, <1>4, <1>5, <1>6, <1>7 DEF WidgetsFit, IsShown
<1>9. HasFront(ui)
  BY <1>6 DEF HasFront
<1>10. RepliesFit
  BY DEF RepliesFit
<1>11. AlertsInOrder
  BY DEF AlertsInOrder, NoParse, IsShown
<1> QED
  BY <1>1, <1>8, <1>9, <1>10, <1>11 DEF NotifyInv

(* The invariant behind the next ones: of the boxes in the list only the   *)
(* first has a timer, or had one, or can be on the screen, and the numbers *)
(* of the message boxes only grow while the connection lasts.              *)
THEOREM WidgetsHold == Spec => []NotifyInv
<1>1. Init => NotifyInv
  BY InitFits
<1>2. NotifyInv /\ [Next]_vars => NotifyInv'
  <2>1. ASSUME NotifyInv, Next PROVE NotifyInv'
    <3>1. Types' /\ WidgetsKept /\ (cleared' = 0 => AlertsInOrder')
      BY <2>1, TypesStep, WidgetsStep, AlertsStep
    <3> QED
      BY <3>1 DEF NotifyInv, WidgetsKept, WidgetsFit, HasFront, IsShown
  <2>2. ASSUME NotifyInv, UNCHANGED vars PROVE NotifyInv'
    <3>1. Made' = Made
      BY <2>2 DEF vars, Made, Waiting
    <3> QED
      BY <2>2, <3>1 DEF vars, NotifyInv, Types, WidgetsFit, HasFront, IsShown, RepliesFit, AlertsInOrder
  <2> QED
    BY <2>1, <2>2
<1> QED
  BY <1>1, <1>2, PTL DEF Spec

(* Every variable and every widget has its type, and the alert is in the   *)
(* list of open modals exactly while it is shown (Modal::close, closeModal,*)
(* the close callback of newAlertData).                                    *)
THEOREM TypeCorrect == Spec => []TypeOK
<1>1. NotifyInv => TypeOK
  <2> SUFFICES ASSUME NotifyInv PROVE TypeOK
    OBVIOUS
  <2>1. Types /\ ui \in UiType /\ (ui.open <=> IsShown(ui, Alert)) /\ (ui.open => ui.alert # 0)
    BY DEF NotifyInv, WidgetsFit
  <2>2. ui.open = IsShown(ui, Alert)
    BY <2>1, TimerTypes DEF IsShown, Widgets
  <2> QED
    BY <2>1, <2>2 DEF Types, TypeOK
<1> QED
  BY <1>1, WidgetsHold, PTL

(* Of the replies only the first is ever on the screen, and it is unless   *)
(* the alert is (newResponse, newAlertData).                               *)
THEOREM FrontStaysShown == Spec => []FrontIsShown
<1>1. NotifyInv => FrontIsShown
  BY DEF NotifyInv, WidgetsFit, HasFront, FrontIsShown
<1> QED
  BY <1>1, WidgetsHold, PTL

(* The timer a box knows dies with it (~MessageBox).                       *)
THEOREM KnownTimersDie == Spec => []KnownTimerDies
<1>1. NotifyInv => KnownTimerDies
  BY DEF NotifyInv, WidgetsFit, KnownTimerDies
<1> QED
  BY <1>1, WidgetsHold, PTL

(* While the connection lasts, a message box that was answered is not      *)
(* shown again (messageBoxTitle, g_lastAlertSeq).                          *)
THEOREM AnsweredBoxesStayClosed == Spec => []AnsweredStaysClosed
<1>1. NotifyInv => AnsweredStaysClosed
  BY DEF NotifyInv, AlertsInOrder, AnsweredStaysClosed
<1> QED
  BY <1>1, WidgetsHold, PTL
=============================================================================
