------------------------------ MODULE Screens ------------------------------
(***************************************************************************)
(* What is on the screen: the dashboard or one screen opened over it, one  *)
(* tab of each tab view, and which presenters hear of the machine's state. *)
(*                                                                         *)
(* A view that is shown activates its presenter and binds it to the model, *)
(* and so do those of its visible children; hiding unbinds them, and a     *)
(* presenter that is not bound misses events.  The event loop and the      *)
(* clicks hold the UI lock from the first to the last call they make, so   *)
(* each is one step on the record ui, composed of what each call does to   *)
(* it.  OM::SetStatus holds no lock: the thread that decodes answers, the  *)
(* request thread and the thread of LVGL, which set "connecting", run its  *)
(* lines in any order.                                                     *)
(*                                                                         *)
(* The side bar and HomePresenter are never hidden, and are bound first.   *)
(* Files stands for the screens with tabs, Control for the others.  Nobody *)
(* calls UI::back in this build, so s_returnableScreens, which only it     *)
(* reads, is left out, and so are the layout and the order of children.    *)
(***************************************************************************)
EXTENDS Naturals, Sequences, SequencesExt, FiniteSets

CONSTANTS
    MaxUnderway,    \* bound: events that wait and threads about to post one
    Posters         \* the threads that set the status

ASSUME ScreensAssumption == MaxUnderway \in Nat \ {0}

VARIABLES
    animated,       \* ID_UI_ANIMATIONS_ENABLED
    om,             \* OM::GetStatus, as IsPrintingStatus has it, and OM::GetJobName
    posting,        \* where each thread is in setting and posting: see PosterType
    overtaken,      \* history: see SetStatus and SetUnchanged
    events,         \* the queue of the event loop
    ui              \* the views: see UiType

vars == <<animated, om, posting, overtaken, events, ui>>

-----------------------------------------------------------------------------
(* The tree of views.  A tab and the view inside it are one.               *)

Screens == {"files", "control"}             \* what openScreen is called with
Faces == Screens \cup {"dash"}              \* children of m_mainWindow
Tabs == [dash |-> <<"dJobs", "dMacros", "dStatus">>, files |-> <<"fMacros", "fJobs">>]
TabViews == DOMAIN Tabs
TabsOf(t) == {Tabs[t][i] : i \in DOMAIN Tabs[t]}
AllTabs == UNION {TabsOf(t) : t \in TabViews}
TabViewOf(tab) == CHOOSE t \in TabViews : tab \in TabsOf(t)
JobsTab == [dash |-> "dJobs", files |-> "fJobs"]
FileViews == AllTabs \ {"dStatus"}

Views == Faces \cup AllTabs \cup {"graph"}
Presenters == Views \ {"files"}             \* m_files is a TabView and has none
Children(v) == CASE v = "dash" -> TabsOf("dash") \cup {"graph"}
                 [] v = "files" -> TabsOf("files")
                 [] OTHER -> {}
IsRoot(v) == v \in Faces

NoScreen == "none"

(* hidden: what has LV_OBJ_FLAG_HIDDEN; bound: the presenters that are     *)
(* ACTIVE and in m_presenters; open: s_openScreens; current, disabled,     *)
(* leaving: of each tab view, m_currentTabIndex, the tabs whose button is  *)
(* disabled and those sliding out; asking: the file view whose m_startPrint*)
(* is open; status: what the status tab displays; selected: the button the *)
(* side bar has checked.                                                   *)
UiType == [hidden : SUBSET Views, bound : SUBSET Presenters,
           open : {<<>>} \cup {<<s>> : s \in Screens},
           current : [TabViews -> 1..3], disabled : SUBSET AllTabs, leaving : SUBSET AllTabs,
           asking : FileViews \cup {NoScreen},
           status : [printing : BOOLEAN, job : BOOLEAN], selected : Faces]

Idle == [printing |-> FALSE, job |-> FALSE]

(* A thread has found the status unchanged, has set another one, has read  *)
(* what it is about to enqueue, or has set the job name.                   *)
PosterType == [stage : {"away", "unchanged", "set", "read", "named"}, printing : BOOLEAN]

Away == [stage |-> "away", printing |-> FALSE]
At(p, stage) == posting[p].stage = stage
Goes(p, stage, printing) ==
    posting' = [posting EXCEPT ![p] = [stage |-> stage, printing |-> printing]]

Init ==
    /\ animated \in BOOLEAN
    /\ om = Idle
    /\ posting = [p \in Posters |-> Away]
    /\ overtaken = FALSE
    /\ events = <<>>
    /\ ui = [hidden |-> Screens \cup {"dMacros", "dStatus", "fJobs"},
             bound |-> {"dash", "graph", "dJobs"}, open |-> <<>>,
             current |-> [t \in TabViews |-> 1], disabled |-> {}, leaving |-> {},
             asking |-> NoScreen, status |-> Idle, selected |-> "dash"]

-----------------------------------------------------------------------------
(* LvObj, View and Presenter: each maps the record ui to what it becomes.  *)

IsVisible(u, v) == v \notin u.hidden
Family(u, v) == {v} \cup {c \in Children(v) : IsVisible(u, c)}

(* Mutant: the status tab waits for the next event. *)
Activated_NoRefresh(u, vs) ==
    [u EXCEPT !.bound = @ \cup (vs \cap Presenters),
              !.asking = IF @ \in vs THEN NoScreen ELSE @]

(* activate, bind and onShow of each: the status tab reads the object      *)
(* model, a file view closes its question.                                 *)
Activated(u, vs) ==
    [u EXCEPT !.bound = @ \cup (vs \cap Presenters),
              !.status = IF "dStatus" \in vs THEN om ELSE @,
              !.asking = IF @ \in vs THEN NoScreen ELSE @]

(* onHide of the dashboard keeps the graph bound.                          *)
Deactivated(u, vs) ==
    [u EXCEPT !.bound = (@ \ vs) \cup {g \in {"graph"} : "dash" \in vs}]

Shown(u, v) == LET visible == [u EXCEPT !.hidden = @ \ {v}] IN Activated(visible, Family(visible, v))

Hidden(u, v) ==
    IF IsVisible(u, v)
    THEN Deactivated([u EXCEPT !.hidden = @ \cup {v}], Family(u, v))
    ELSE u

-----------------------------------------------------------------------------
(* TabView.                                                                *)

IndexOf(tab) == CHOOSE i \in DOMAIN Tabs[TabViewOf(tab)] : Tabs[TabViewOf(tab)][i] = tab
CurrentTab(u, t) == Tabs[t][u.current[t]]

(* lv_anim_delete, or the end of the animation: outgoingTabDeletedCb.      *)
SlidOut(u, tab) ==
    IF tab \in u.leaving THEN Hidden([u EXCEPT !.leaving = @ \ {tab}], tab) ELSE u

(* Mutant: a tab that slides out is not stopped when it is asked for. *)
SetActiveTab_LetsSlide(u, tab) ==
    LET t == TabViewOf(tab)
        previous == CurrentTab(u, t)
        moved == [u EXCEPT !.current[t] = IndexOf(tab)]
    IN  IF tab = previous THEN u
        ELSE IF animated
             THEN Shown([SlidOut(moved, previous) EXCEPT !.leaving = @ \cup {previous}], tab)
             ELSE Shown(Hidden(moved, previous), tab)

SetActiveTab(u, tab) ==
    LET t == TabViewOf(tab)
        previous == CurrentTab(u, t)
        moved == [u EXCEPT !.current[t] = IndexOf(tab)]
        stopped == SlidOut(SlidOut(moved, previous), tab)
    IN  IF tab = previous THEN u
        ELSE IF animated
             THEN [Shown(stopped, tab) EXCEPT !.leaving = @ \cup {previous}]
             ELSE Shown(Hidden(moved, previous), tab)

(* The first enabled tab after a disabled one, round the end; no instance  *)
(* disables them all, so there is one.                                     *)
NextEnabled(u, tab) ==
    LET ts == Tabs[TabViewOf(tab)]
        After(i) == ts[((IndexOf(tab) + i - 1) % Len(ts)) + 1]
        steps == {i \in 1..(Len(ts) - 1) : After(i) \notin u.disabled}
    IN  After(CHOOSE i \in steps : \A j \in steps : i <= j)

(* Mutant: the tab that is open stays open. *)
DisableTab_StaysOpen(u, tab, disable) ==
    [u EXCEPT !.disabled = IF disable THEN @ \cup {tab} ELSE @ \ {tab}]

DisableTab(u, tab, disable) ==
    LET set == [u EXCEPT !.disabled = IF disable THEN @ \cup {tab} ELSE @ \ {tab}]
    IN  IF disable /\ tab \notin u.disabled /\ CurrentTab(u, TabViewOf(tab)) = tab
        THEN SetActiveTab(set, NextEnabled(set, tab))
        ELSE set

-----------------------------------------------------------------------------
(* Navigation.                                                             *)

CurrentScreen(u) == IF u.open = <<>> THEN "dash" ELSE u.open[Len(u.open)]

(* notifySideBar: several calls of one step post the same, and the side    *)
(* bar sets what it has set: one event stands for them.                    *)
NavigationEvent(u) == [type |-> "screen", screen |-> CurrentScreen(u)]

CloseAllModals(u) == [u EXCEPT !.asking = NoScreen]

(* Mutant: the screen is hidden and stays in s_openScreens. *)
CloseScreen_StaysOpen(u, s) == Hidden(CloseAllModals(u), s)

CloseScreen(u, s) ==
    LET closed == [Hidden(CloseAllModals(u), s) EXCEPT !.open = RemoveFirst(@, s)]
    IN  IF closed.open = <<>> /\ u.open # <<>> THEN Shown(closed, "dash") ELSE closed

(* openScreen with closePrevious, as every caller has it.                  *)
OpenScreen(u, s) ==
    LET closed == IF u.open = <<>> THEN CloseAllModals(u) ELSE CloseScreen(u, CurrentScreen(u))
    IN  IF u.open # <<>> /\ CurrentScreen(u) = s /\ IsVisible(u, s)
        THEN CloseAllModals(u)
        ELSE Shown([Hidden(closed, "dash") EXCEPT !.open = Append(RemoveFirst(@, s), s)], s)

Home(u) ==
    IF u.open # <<>>
    THEN CloseScreen(CloseAllModals(u), CurrentScreen(u))
    ELSE Shown(CloseAllModals(u), "dash")

-----------------------------------------------------------------------------
(* The threads that set the object model.                                  *)

Busy == {p \in Posters : posting[p] # Away}
Room == Len(events) + Cardinality(Busy) < MaxUnderway
Post(event) == events' = Append(events, event)

(* sendEvent is TRUE: the status is another, which may agree with the old  *)
(* one on what is printed, or it is "connecting".  While another thread is *)
(* about to enqueue an older one, it may not be the last that is heard of. *)
SetStatus(p, printing) ==
    /\ posting[p] = Away
    /\ Room
    /\ overtaken' = (\E q \in Posters : At(q, "read") /\ posting[q].printing # printing)
    /\ om' = [om EXCEPT !.printing = printing]
    /\ Goes(p, "set", FALSE)
    /\ UNCHANGED <<animated, events, ui>>

(* sendEvent is FALSE.                                                     *)
FindUnchanged(p) ==
    /\ posting[p] = Away
    /\ Room
    /\ Goes(p, "unchanged", om.printing)
    /\ UNCHANGED <<animated, om, overtaken, events, ui>>

(* The comparison is made again, and may now set what nobody hears of.     *)
SetUnchanged(p) ==
    /\ At(p, "unchanged")
    /\ overtaken' = (overtaken \/ om.printing # posting[p].printing)
    /\ om' = [om EXCEPT !.printing = posting[p].printing]
    /\ posting' = [posting EXCEPT ![p] = Away]
    /\ UNCHANGED <<animated, events, ui>>

(* GetStatus(), the argument of post, is read before enqueueEvent locks.   *)
ReadStatus(p) ==
    /\ At(p, "set")
    /\ Goes(p, "read", om.printing)
    /\ UNCHANGED <<animated, om, overtaken, events, ui>>

PostStatus(p) ==
    /\ At(p, "read")
    /\ posting' = [posting EXCEPT ![p] = Away]
    /\ Post([type |-> "status", printing |-> posting[p].printing])
    /\ UNCHANGED <<animated, om, overtaken, ui>>

(* Only one thread at a time decodes the job.                              *)
SetJobName(p, job) ==
    /\ posting[p] = Away
    /\ Room
    /\ \A q \in Posters : ~At(q, "named")
    /\ om' = [om EXCEPT !.job = job]
    /\ Goes(p, "named", FALSE)
    /\ UNCHANGED <<animated, overtaken, events, ui>>

PostJobName(p) ==
    /\ At(p, "named")
    /\ posting' = [posting EXCEPT ![p] = Away]
    /\ Post([type |-> "job", job |-> om.job])
    /\ UNCHANGED <<animated, om, overtaken, ui>>

-----------------------------------------------------------------------------
(* The event loop: HomePresenter, the side bar, then what is bound.        *)

NewStatus(u, printing) ==
    LET home == DisableTab(u, "fJobs", printing)
        dash == IF "dash" \in home.bound THEN DisableTab(home, "dJobs", printing) ELSE home
    IN  IF "dStatus" \in dash.bound THEN [dash EXCEPT !.status.printing = printing] ELSE dash

(* The status tab that the dashboard opens is bound behind it and hears    *)
(* the same event.                                                         *)
NewJobFileName(u, job) ==
    LET dash == IF "dash" \in u.bound /\ job THEN SetActiveTab(u, "dStatus") ELSE u
    IN  IF "dStatus" \in dash.bound THEN [dash EXCEPT !.status.job = job] ELSE dash

Handled(event) ==
    CASE event.type = "status" -> NewStatus(ui, event.printing)
      [] event.type = "job" -> NewJobFileName(ui, event.job)
      [] event.type = "screen" -> [ui EXCEPT !.selected = event.screen]

Dispatch ==
    /\ events # <<>>
    /\ ui' = Handled(Head(events))
    /\ events' = Tail(events)
    /\ UNCHANGED <<animated, om, posting, overtaken>>

-----------------------------------------------------------------------------
(* The thread of LVGL: clicks, and animations that end.  A question covers *)
(* the main window and leaves the side bar free.                           *)

OnScreen(u, v) ==
    /\ IsVisible(u, v)
    /\ \/ IsRoot(v)
       \/ \E p \in Faces : v \in Children(p) /\ IsVisible(u, p)

Click(becomes) == ui' = becomes /\ UNCHANGED <<animated, om, posting, overtaken>>
Navigate(becomes) ==
    /\ Room
    /\ Click(becomes)
    /\ Post(NavigationEvent(becomes))

ClickTab(tab) ==
    /\ ui.asking = NoScreen
    /\ IsVisible(ui, TabViewOf(tab))
    /\ tab \notin ui.disabled
    /\ Click(SetActiveTab(ui, tab))
    /\ UNCHANGED events

SlideEnds(tab) ==
    /\ tab \in ui.leaving
    /\ Click(SlidOut(ui, tab))
    /\ UNCHANGED events

ClickScreen(s) == Navigate(OpenScreen(ui, s))
ClickHome == Navigate(Home(ui))

AskStartPrint(tab) ==
    /\ ui.asking = NoScreen
    /\ tab \in FileViews
    /\ OnScreen(ui, tab)
    /\ Navigate([ui EXCEPT !.asking = tab])

(* FilePresenter::startPrint; macros run without leaving the screen.       *)
StartPrint ==
    /\ ui.asking \in {"dJobs", "fJobs"}
    /\ Navigate(Home(DisableTab(ui, "dJobs", TRUE)))

CloseQuestion ==
    /\ ui.asking # NoScreen
    /\ Navigate(CloseAllModals(ui))

Next ==
    \/ \E p \in Posters :
           \/ \E b \in BOOLEAN : SetStatus(p, b) \/ SetJobName(p, b)
           \/ FindUnchanged(p) \/ SetUnchanged(p)
           \/ ReadStatus(p) \/ PostStatus(p) \/ PostJobName(p)
    \/ Dispatch
    \/ \E tab \in AllTabs : ClickTab(tab) \/ SlideEnds(tab) \/ AskStartPrint(tab)
    \/ \E s \in Screens : ClickScreen(s)
    \/ ClickHome \/ StartPrint \/ CloseQuestion

Spec == Init /\ [][Next]_vars

-----------------------------------------------------------------------------
(* Properties.                                                             *)

Underway(type) ==
    \/ \E i \in DOMAIN events : events[i].type = type
    \/ type = "status" /\ \E p \in Posters : At(p, "set") \/ At(p, "read")
    \/ type = "job" /\ \E p \in Posters : At(p, "named")

(* The news of the status is on its way, or was overtaken on it: the       *)
(* status was set while another thread held an older one, and the next     *)
(* change puts it right.  It takes two threads.                            *)
StatusUnsure == Underway("status") \/ overtaken

(* Every variable has its type; in particular no sequence of clicks leaves *)
(* two screens open (s_openScreens, Navigation.cpp).                       *)
TypeOK ==
    /\ animated \in BOOLEAN
    /\ om \in [printing : BOOLEAN, job : BOOLEAN]
    /\ posting \in [Posters -> PosterType]
    /\ overtaken \in BOOLEAN
    /\ events \in Seq([type : {"status"}, printing : BOOLEAN]
                      \cup [type : {"job"}, job : BOOLEAN]
                      \cup [type : {"screen"}, screen : Faces])
    /\ ui \in UiType

(* Of the dashboard and the screens exactly the one that was opened last   *)
(* is visible, of each tab view exactly the current tab besides those that *)
(* slide out, and the side bar names the screen once it has heard of it    *)
(* (closeScreenImpl, setActiveTab, setSelectedView).                       *)
OneFace ==
    /\ {f \in Faces : IsVisible(ui, f)} = {CurrentScreen(ui)}
    /\ \A t \in TabViews :
           {tab \in TabsOf(t) : IsVisible(ui, tab)} \ ui.leaving = {CurrentTab(ui, t)}
    /\ ~Underway("screen") => ui.selected = CurrentScreen(ui)

(* What can be seen is bound, and so the status tab that can be seen has   *)
(* the status and the job of the object model unless news is on its way,   *)
(* or the status was overtaken by an older one                             *)
(* (View::showInner, StatusPresenter::onActivate, SetStatus).              *)
SeenIsCurrent ==
    /\ \A v \in Presenters : OnScreen(ui, v) => v \in ui.bound
    /\ OnScreen(ui, "dStatus") =>
           /\ StatusUnsure \/ ui.status.printing = om.printing
           /\ Underway("job") \/ ui.status.job = om.job

(* HomePresenter::newStatus: "Disable "Jobs" tab when printing to prevent  *)
(* changes": unless news is on its way or was overtaken, the files screen  *)
(* offers its jobs tab just when nothing is printed, and it never stands   *)
(* on a tab that it does not offer.                                        *)
JobsFollowStatus ==
    /\ ~StatusUnsure => ("fJobs" \in ui.disabled <=> om.printing)
    /\ "fJobs" \in ui.disabled => CurrentTab(ui, "files") # "fJobs"
=============================================================================
