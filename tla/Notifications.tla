--------------------------- MODULE Notifications ---------------------------
(***************************************************************************)
(* What the Duet tells the user: replies to G-code, each a message box of  *)
(* its own in a list, and the one message box of the object model, shown   *)
(* as the alert, a modal above everything else.                            *)
(*                                                                         *)
(* A receiving thread decodes the object model into g_currentAlert and     *)
(* posts events; the event loop hands them to HomePresenter; clicks and    *)
(* timeouts run on the thread of LVGL.  Whatever touches a widget holds    *)
(* the UI lock from its first to its last call, callbacks included, so it  *)
(* is one step on the record ui, composed of what each call does to it.    *)
(*                                                                         *)
(* A timeout is an LVGL timer: it fires once, and a widget knows only the  *)
(* one it made last.  Time is left out: what runs may fire at any moment.  *)
(***************************************************************************)
EXTENDS Naturals, Sequences, SequencesExt

CONSTANTS
    Worlds,         \* what may happen: records of WorldType
    MaxResponses,   \* bound: replies to G-code
    MaxAlerts,      \* bound: message boxes of the Duet
    MaxLost,        \* bound: timers of one widget that nothing points to
    MaxEvents       \* bound: events waiting when another is posted

(* timeouts: notifications close on their own (ID_NOTIFICATION_TIMEOUT);   *)
(* reconnects, alerts, responses: bounds, how often the object model is    *)
(* cleared, and how many message boxes and replies the Duet sends.         *)
WorldType == [timeouts : BOOLEAN, reconnects : Nat,
              alerts : 0..MaxAlerts, responses : 0..MaxResponses]

ASSUME NotificationsAssumption ==
    /\ Worlds \subseteq WorldType
    /\ MaxResponses \in Nat
    /\ MaxAlerts \in Nat
    /\ MaxLost \in Nat \ {0}
    /\ MaxEvents \in Nat \ {0}

VARIABLES
    world,
    duetBox,        \* state.messageBox of the Duet: 0 or its sequence number
    raised,         \* how many it has shown
    kind,           \* kind[a]: what the box a is, see Kinds
    answered,       \* the boxes M292 was sent for
    parse,          \* the answer to M409 K"state" on its way, and how far it is decoded
    current,        \* g_currentAlert: its sequence number, and whether mode is not None
    lastAlertSeq,
    events,         \* the queue of the event loop
    replies,        \* replies so far
    cleared,        \* how often RemoveAll ran
    ui,             \* the widgets: see UiType
    crashed         \* a timer ran for a widget that is gone

vars == <<world, duetBox, raised, kind, answered, parse, current, lastAlertSeq, events,
          replies, cleared, ui, crashed>>
askVars == <<duetBox, raised, kind>>
duetVars == <<askVars, answered>>
modelVars == <<current, lastAlertSeq>>
constVars == <<world, cleared>>

Alert == 0                              \* m_alert; the other widgets are boxes
Boxes == 1..MaxResponses
Widgets == {Alert} \cup Boxes

(* A note has a timeout; a question waits for its answer, and has a Cancel *)
(* button or not.                                                          *)
Kinds == {"note", "cancellable", "question"}

NoTimer == [known |-> FALSE, lost |-> 0]
NoParse == [step |-> "none", box |-> 0]

(* boxes: m_messageBoxList; shown: what has no LV_OBJ_FLAG_HIDDEN; timers: *)
(* of each widget, is the one it knows running, and how many others;       *)
(* alert: the box the alert was last set up for; open: is it in            *)
(* s_openModals; above: the boxes made since it was moved to the front;    *)
(* plain: the boxes whose type lets them close on their own; console: is   *)
(* its screen open?                                                        *)
UiType == [boxes : Seq(Boxes), shown : SUBSET Widgets,
           timers : [Widgets -> [known : BOOLEAN, lost : 0..MaxLost]],
           alert : 0..MaxAlerts, open : BOOLEAN, above : SUBSET Boxes,
           plain : SUBSET Boxes, console : BOOLEAN]

Init ==
    /\ world \in Worlds
    /\ duetBox = 0
    /\ raised = 0
    /\ kind = [a \in 1..MaxAlerts |-> "note"]
    /\ answered = {}
    /\ parse = NoParse
    /\ current = [seq |-> 0, on |-> FALSE]
    /\ lastAlertSeq = 0
    /\ events = <<>>
    /\ replies = 0
    /\ cleared = 0
    /\ ui = [boxes |-> <<>>, shown |-> {}, timers |-> [w \in Widgets |-> NoTimer],
             alert |-> 0, open |-> FALSE, above |-> {}, plain |-> {}, console |-> FALSE]
    /\ crashed = FALSE

-----------------------------------------------------------------------------
(* The Duet.                                                               *)

RaiseBox(k) ==
    /\ raised < world.alerts
    /\ raised' = raised + 1
    /\ duetBox' = raised + 1
    /\ kind' = [kind EXCEPT ![raised + 1] = k]
    /\ UNCHANGED <<constVars, answered, parse, modelVars, events, replies, ui, crashed>>

(* Answered by the panel or by another one, or over.                       *)
WithdrawBox ==
    /\ duetBox # 0
    /\ duetBox' = 0
    /\ UNCHANGED <<constVars, raised, kind, answered, parse, modelVars, events, replies, ui,
                   crashed>>

(* M409 K"state" is answered.                                              *)
Poll ==
    /\ parse = NoParse
    /\ Len(events) < MaxEvents
    /\ parse' = [step |-> "fields", box |-> duetBox]
    /\ UNCHANGED <<constVars, duetVars, modelVars, events, replies, ui, crashed>>

-----------------------------------------------------------------------------
(* The receiving thread: StateSubscribers and ResponseSubscribers.         *)

Post(event) == events' = Append(events, event)

AlertEvent == [type |-> "alert", box |-> IF current.on THEN current.seq ELSE 0]

(* Mutant: nobody is told that the box is gone. *)
NullMessageBox_Silent ==
    /\ parse.step = "fields"
    /\ parse.box = 0
    /\ current' = [current EXCEPT !.on = FALSE]
    /\ parse' = NoParse
    /\ UNCHANGED <<constVars, duetVars, lastAlertSeq, events, replies, ui, crashed>>

NullMessageBox ==
    /\ parse.step = "fields"
    /\ parse.box = 0
    /\ current' = [current EXCEPT !.on = FALSE]
    /\ Post([type |-> "alert", box |-> 0])
    /\ parse' = NoParse
    /\ UNCHANGED <<constVars, duetVars, lastAlertSeq, replies, ui, crashed>>

(* Mutant: the number is remembered with the field, not with the title. *)
MessageBoxFields_Remembers ==
    /\ parse.step = "fields"
    /\ parse.box # 0
    /\ current' = [seq |-> parse.box, on |-> TRUE]
    /\ lastAlertSeq' = parse.box
    /\ parse' = [parse EXCEPT !.step = "title"]
    /\ UNCHANGED <<constVars, duetVars, events, replies, ui, crashed>>

(* messageBoxMode, messageBoxSeq and the others that only store.           *)
MessageBoxFields ==
    /\ parse.step = "fields"
    /\ parse.box # 0
    /\ current' = [seq |-> parse.box, on |-> TRUE]
    /\ parse' = [parse EXCEPT !.step = "title"]
    /\ UNCHANGED <<constVars, duetVars, lastAlertSeq, events, replies, ui, crashed>>

(* Mutant: every answer counts as news. *)
MessageBoxTitle_Always ==
    /\ parse.step = "title"
    /\ lastAlertSeq' = current.seq
    /\ Post(AlertEvent)
    /\ parse' = NoParse
    /\ UNCHANGED <<constVars, duetVars, current, replies, ui, crashed>>

(* The title is the last field of the object.                              *)
MessageBoxTitle ==
    /\ parse.step = "title"
    /\ IF current.seq # lastAlertSeq
       THEN lastAlertSeq' = current.seq /\ Post(AlertEvent)
       ELSE UNCHANGED <<lastAlertSeq, events>>
    /\ parse' = NoParse
    /\ UNCHANGED <<constVars, duetVars, current, replies, ui, crashed>>

(* A reply of type error stays until it is closed.                         *)
Reply(plain) ==
    /\ replies < world.responses
    /\ Len(events) < MaxEvents
    /\ replies' = replies + 1
    /\ Post([type |-> "response", box |-> replies + 1, plain |-> plain])
    /\ UNCHANGED <<constVars, duetVars, parse, modelVars, ui, crashed>>

(* RemoveAll on the request thread, at both ends of a reconnection.        *)
RemoveAll ==
    /\ cleared < world.reconnects
    /\ cleared' = cleared + 1
    /\ Len(events) < MaxEvents
    /\ current' = [current EXCEPT !.on = FALSE]
    /\ lastAlertSeq' = 0
    /\ \/ Post([type |-> "disconnected"])
       \/ UNCHANGED events
    /\ UNCHANGED <<world, duetVars, parse, replies, ui, crashed>>

-----------------------------------------------------------------------------
(* Calls on widgets: what each makes of the record u.                      *)

IsShown(u, w) == w \in u.shown

Shown(u, w) == [u EXCEPT !.shown = @ \cup {w}]

Hidden(u, w) == [u EXCEPT !.shown = @ \ {w}]

(* MessageBox::setTimeout. *)
SetTimeout(u, w, on) ==
    [u EXCEPT !.timers[w] =
        IF on THEN [known |-> TRUE,
                    lost |-> IF @.known /\ @.lost < MaxLost THEN @.lost + 1 ELSE @.lost]
        ELSE [@ EXCEPT !.known = FALSE]]

(* The front of the list appears, with its timeout.                        *)
ShowFront(u) ==
    IF u.boxes = <<>> THEN u
    ELSE LET b == Head(u.boxes)
         IN IF world.timeouts /\ b \in u.plain THEN SetTimeout(Shown(u, b), b, TRUE)
            ELSE Shown(u, b)

(* Mutant: the destructor leaves its timer running. *)
Destroyed_KeepsTimer(u, gone) ==
    [u EXCEPT !.shown = @ \ gone, !.above = @ \ gone]

(* ~MessageBox of each. *)
Destroyed(u, gone) ==
    [u EXCEPT !.shown = @ \ gone,
              !.above = @ \ gone,
              !.timers = [w \in Widgets |->
                             IF w \in gone THEN [@[w] EXCEPT !.known = FALSE] ELSE @[w]]]

(* Mutant: the close callback only closes the modal. *)
CloseCallback_NoFront(u) ==
    IF u.alert = 0 THEN u ELSE [u EXCEPT !.open = FALSE]

(* Mutant: it leaves the modal in the list. *)
CloseCallback_StaysOpen(u) ==
    IF u.alert = 0 THEN u ELSE ShowFront(u)

(* The close callback newAlertData sets: Modal::close, then the list.      *)
CloseCallback(u) ==
    IF u.alert = 0 THEN u ELSE ShowFront([u EXCEPT !.open = FALSE])

(* LvObj::hide; onHide is MessageBox::onHide, which calls close, which     *)
(* finds the alert hidden already.                                         *)
HideAlert(u) ==
    IF IsShown(u, Alert) THEN CloseCallback(Hidden(u, Alert)) ELSE u

(* MessageBox::close of the alert.                                         *)
CloseAlert(u) == CloseCallback(HideAlert(u))

CloseAllModals(u) ==
    IF u.open THEN [HideAlert(u) EXCEPT !.open = FALSE] ELSE u

OpenAlert(u) == [Shown(u, Alert) EXCEPT !.open = TRUE, !.above = {}]

OpenConsole(u) == [CloseAllModals(u) EXCEPT !.console = TRUE]

ClearMessageBoxes(u) ==
    [Destroyed(u, ToSet(u.boxes)) EXCEPT !.boxes = <<>>]

(* MessageBox::cancel of a box, by a click or its timeout: the callback    *)
(* newResponse sets pops the front, and the box closes.                    *)
CancelBox(u, b) ==
    LET popped == Head(u.boxes)
        next == ShowFront([u EXCEPT !.boxes = Tail(@)])
    IN Destroyed(Hidden(next, b), {popped})

-----------------------------------------------------------------------------
(* The event loop.                                                         *)

NewResponse(u, event) ==
    IF u.console THEN u
    ELSE LET b == event.box
             made == [u EXCEPT !.boxes = Append(@, b),
                               !.above = @ \cup {b},
                               !.plain = IF event.plain THEN @ \cup {b} ELSE @]
             first == IF Len(made.boxes) = 1 THEN ShowFront(made) ELSE made
         IN IF IsShown(u, Alert) THEN Hidden(first, b) ELSE first

NewAlertData(u, box) ==
    IF box = 0
    THEN IF IsShown(u, Alert) THEN CloseAlert(u) ELSE u
    ELSE OpenAlert(SetTimeout([u EXCEPT !.alert = box], Alert, kind[box] = "note"))

Handled(event) ==
    CASE event.type = "response" -> NewResponse(ui, event)
      [] event.type = "alert" -> NewAlertData(ui, event.box)
      [] event.type = "disconnected" -> ClearMessageBoxes(ui)

Dispatch ==
    /\ events # <<>>
    /\ ui' = Handled(Head(events))
    /\ events' = Tail(events)
    /\ UNCHANGED <<constVars, duetVars, parse, modelVars, replies, crashed>>

-----------------------------------------------------------------------------
(* The thread of LVGL.                                                     *)

(* The modal's background covers what was there before it.                 *)
Clickable(b) == IsShown(ui, b) /\ (IsShown(ui, Alert) => b \in ui.above)

CloseBox(b) ==
    /\ Clickable(b)
    /\ ui' = CancelBox(ui, b)
    /\ UNCHANGED <<constVars, duetVars, parse, modelVars, events, replies, crashed>>

(* The OK button of a reply leads to the console.                          *)
OkBox(b) ==
    /\ Clickable(b)
    /\ ui' = OpenConsole(ClearMessageBoxes(ui))
    /\ UNCHANGED <<constVars, duetVars, parse, modelVars, events, replies, crashed>>

(* The buttons of the alert; a note sends its M292 as well.                *)
AnswerAlert ==
    /\ IsShown(ui, Alert)
    /\ answered' = answered \cup {ui.alert}
    /\ ui' = CloseAlert(ui)
    /\ UNCHANGED <<constVars, askVars, parse, modelVars, events, replies, crashed>>

(* The side bar, which an alert covers.                                    *)
SwitchScreen ==
    /\ ~IsShown(ui, Alert)
    /\ ui' = IF ui.console THEN [ui EXCEPT !.console = FALSE] ELSE OpenConsole(ui)
    /\ UNCHANGED <<constVars, duetVars, parse, modelVars, events, replies, crashed>>

(* The callback of a timer: cancel.  The alert has a callback for it only  *)
(* with a Cancel button, and that answers the question; otherwise the box  *)
(* just closes.                                                            *)
Cancelled(u, w) == IF w = Alert THEN CloseAlert(u) ELSE CancelBox(u, w)

AnsweredBy(w) ==
    IF w = Alert /\ kind[ui.alert] = "cancellable" THEN answered \cup {ui.alert}
    ELSE answered

KnownTimer(w) ==
    /\ ui.timers[w].known
    /\ ui' = Cancelled([ui EXCEPT !.timers[w].known = FALSE], w)
    /\ answered' = AnsweredBy(w)
    /\ UNCHANGED <<constVars, askVars, parse, modelVars, events, replies, crashed>>

(* The same by a timer that was replaced by another; its widget may be     *)
(* gone, and what a callback then finds is anything.                       *)
LostTimer(w) ==
    /\ ui.timers[w].lost > 0
    /\ LET u == [ui EXCEPT !.timers[w].lost = @ - 1]
       IN IF w = Alert \/ w \in ToSet(ui.boxes)
          THEN ui' = Cancelled(u, w) /\ answered' = AnsweredBy(w) /\ UNCHANGED crashed
          ELSE ui' = u /\ UNCHANGED answered /\ crashed' = TRUE
    /\ UNCHANGED <<constVars, askVars, parse, modelVars, events, replies>>

-----------------------------------------------------------------------------
Decode == NullMessageBox \/ MessageBoxFields \/ MessageBoxTitle

Next ==
    /\ ~crashed
    /\ \/ (\E k \in Kinds : RaiseBox(k)) \/ WithdrawBox
       \/ Poll \/ Decode \/ (\E plain \in BOOLEAN : Reply(plain)) \/ RemoveAll
       \/ Dispatch
       \/ (\E b \in ToSet(ui.boxes) : CloseBox(b) \/ OkBox(b))
       \/ AnswerAlert \/ SwitchScreen
       \/ \E w \in Widgets : KnownTimer(w) \/ LostTimer(w)

Spec == Init /\ [][Next]_vars

(* The panel polls, decodes and dispatches again and again.                *)
FairSpec ==
    /\ Spec
    /\ WF_vars(~crashed /\ Poll)
    /\ WF_vars(~crashed /\ Decode)
    /\ WF_vars(~crashed /\ Dispatch)
-----------------------------------------------------------------------------
(* The widgets keep their types, and the alert is in the list of open      *)
(* modals exactly while it is shown, set up for a box.                     *)
TypeOK ==
    /\ world \in Worlds
    /\ duetBox \in 0..MaxAlerts /\ raised \in 0..MaxAlerts
    /\ kind \in [1..MaxAlerts -> Kinds]
    /\ answered \subseteq 1..MaxAlerts
    /\ parse \in [step : {"none", "fields", "title"}, box : 0..MaxAlerts]
    /\ current \in [seq : 0..MaxAlerts, on : BOOLEAN]
    /\ lastAlertSeq \in 0..MaxAlerts
    /\ replies \in 0..MaxResponses
    /\ cleared \in 0..world.reconnects
    /\ ui \in UiType
    /\ ui.open = IsShown(ui, Alert)
    /\ ui.open => ui.alert # 0
    /\ crashed \in BOOLEAN

(* Of the replies only the first is ever on the screen, and it is unless   *)
(* an alert is: closing the alert, by whichever of its ways, brings it     *)
(* back, and closing it brings the next (HomePresenter.cpp:178, 216, 267). *)
FrontIsShown ==
    IF ui.boxes = <<>> THEN ui.shown \subseteq {Alert}
    ELSE /\ ui.shown \subseteq {Alert, Head(ui.boxes)}
         /\ {Alert, Head(ui.boxes)} \cap ui.shown # {}

(* The timer a box knows dies with it: of the ways a box is destroyed, in  *)
(* its own callback, by another one's or by a disconnect, none leaves it.  *)
KnownTimerDies == \A b \in Boxes : ui.timers[b].known => b \in ToSet(ui.boxes)

(* A box of the Duet that was answered is not shown again, although the    *)
(* Duet goes on reporting it until it has read the answer.                 *)
AnsweredStaysClosed ==
    cleared = 0 /\ IsShown(ui, Alert) => ui.alert \notin answered

(* A note's timer is only forgotten when another note is shown, and may    *)
(* then close, unanswered, a question without a Cancel button.             *)
NoTimerForgotten(a) == \A b, c \in 1..(a - 1) : kind[b] = "note" /\ kind[c] = "note" => b = c

SureToBeAsked(a) ==
    kind[a] = "cancellable" \/ (kind[a] = "question" /\ NoTimerForgotten(a))

(* Every question the Duet keeps open is on the panel until it is          *)
(* answered, whatever else is reported, answered or closed: any question   *)
(* with a Cancel button, and one without, if there was at most one note    *)
(* before it.                                                              *)
QuestionIsAsked ==
    \A a \in 1..MaxAlerts :
        (duetBox = a /\ SureToBeAsked(a) /\ ~world.timeouts /\ world.reconnects = 0)
            ~> (duetBox # a \/ a \in answered \/ (IsShown(ui, Alert) /\ ui.alert = a))

(* A box the Duet has withdrawn disappears.                                *)
WithdrawnIsClosed ==
    (duetBox = 0 /\ IsShown(ui, Alert)) ~> (duetBox # 0 \/ ~IsShown(ui, Alert) \/ crashed)

(* "This stops an infrequent segfault when HomePresenter destroys the      *)
(* response message boxes" (MessageBox.cpp:158): no timer is left that     *)
(* would run for a box that is gone.                                       *)
NoTimerOutlivesItsBox ==
    \A b \in Boxes : ui.timers[b].lost > 0 => b \in ToSet(ui.boxes)
=============================================================================
