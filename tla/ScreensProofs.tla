--------------------------- MODULE ScreensProofs ---------------------------
(***************************************************************************)
(* Proofs about the screens, for any number of events that wait and of     *)
(* threads that post: one screen and one tab of a view are seen, what is   *)
(* seen is bound and current, and the jobs tab follows the status.         *)
(*                                                                         *)
(* A handler is composed of calls on the record ui: first what each call   *)
(* makes of it, then what a whole handler leaves (ViewsFit).               *)
(***************************************************************************)
EXTENDS Screens, SequenceTheorems, TLAPS

-----------------------------------------------------------------------------
(* The inductive invariant.                                                *)

EventType == [type : {"status"}, printing : BOOLEAN]
             \cup [type : {"job"}, job : BOOLEAN]
             \cup [type : {"screen"}, screen : Faces]

Types ==
    /\ animated \in BOOLEAN
    /\ om \in [printing : BOOLEAN, job : BOOLEAN]
    /\ posting \in [Posters -> PosterType]
    /\ overtaken \in BOOLEAN
    /\ events \in Seq(EventType)

(* The faces; a tab that is open does not slide out, and nothing else than *)
(* it and what slides out is visible; the jobs tabs alone are disabled.    *)
FacesFit(u) == \A f \in Faces : f \in u.hidden <=> f # CurrentScreen(u)

TabsFit(u) ==
    /\ "graph" \notin u.hidden /\ "graph" \in u.bound
    /\ animated \/ u.leaving = {}
    /\ \A t \in TabViews :
           /\ CurrentTab(u, t) \in TabsOf(t) \ u.leaving
           /\ \A tab \in TabsOf(t) :
                  tab \in u.hidden <=> tab \notin u.leaving /\ tab # CurrentTab(u, t)

JobsFit(u) ==
    /\ u.disabled \subseteq {"dJobs", "fJobs"}
    /\ "fJobs" \in u.disabled => CurrentTab(u, "files") # "fJobs"

(* What a face shows is bound while it is visible.                         *)
BoundFit(u) ==
    /\ "control" \notin u.hidden => "control" \in u.bound
    /\ "dash" \notin u.hidden => "dash" \in u.bound
    /\ \A t \in TabViews : \A tab \in TabsOf(t) :
           t \notin u.hidden /\ tab \notin u.hidden => tab \in u.bound

Fits(u) == u \in UiType /\ FacesFit(u) /\ TabsFit(u) /\ BoundFit(u)

ViewsFit(u) == Fits(u) /\ JobsFit(u)

(* A thread that set the status or the job is about to post it.            *)
StatusComes == \E p \in Posters : At(p, "set") \/ At(p, "read")
JobComes == \E p \in Posters : At(p, "named")

(* What the threads hold is the status, unless it was overtaken, and one   *)
(* thread is never overtaken.                                              *)
HeldFit ==
    /\ ~overtaken => \A p \in Posters : At(p, "read") => posting[p].printing = om.printing
    /\ (\A p, q \in Posters : p = q) =>
           /\ ~overtaken
           /\ \A p \in Posters : At(p, "unchanged") => posting[p].printing = om.printing

(* The last event of a type that waits is the news, unless there is more   *)
(* on the way or the status was overtaken, and what was heard is the news  *)
(* if none waits.                                                          *)
IsLast(i) ==
    /\ i \in DOMAIN events
    /\ \A j \in DOMAIN events : j > i => events[j].type # events[i].type

NewsFit ==
    \A i \in DOMAIN events : IsLast(i) =>
        /\ events[i].type = "status" /\ ~StatusComes /\ ~overtaken => events[i].printing = om.printing
        /\ events[i].type = "job" /\ ~JobComes => events[i].job = om.job
        /\ events[i].type = "screen" => events[i].screen = CurrentScreen(ui)

HeardFit ==
    /\ ~StatusUnsure =>
           /\ "fJobs" \in ui.disabled <=> om.printing
           /\ "dStatus" \in ui.bound => ui.status.printing = om.printing
    /\ ~Underway("job") => ("dStatus" \in ui.bound => ui.status.job = om.job)
    /\ ~Underway("screen") => ui.selected = CurrentScreen(ui)

ScreensInv == Types /\ ViewsFit(ui) /\ HeldFit /\ NewsFit /\ HeardFit

-----------------------------------------------------------------------------
(* The tree of views, spelled out.                                         *)

DashTabs == {"dJobs", "dMacros", "dStatus"}
FilesTabs == {"fMacros", "fJobs"}

(* The tab views and their tabs.                                           *)
LEMMA Tree ==
  /\ TabViews = {"dash", "files"}
  /\ TabsOf("dash") = DashTabs /\ TabsOf("files") = FilesTabs
  /\ AllTabs = DashTabs \cup FilesTabs
  /\ \A tab \in DashTabs : TabViewOf(tab) = "dash"
  /\ \A tab \in FilesTabs : TabViewOf(tab) = "files"
<1>1. TabViews = {"dash", "files"}
  BY DEF TabViews, Tabs
<1>2. DOMAIN Tabs["dash"] = 1..3 /\ DOMAIN Tabs["files"] = 1..2
  BY DEF Tabs
<1>3. TabsOf("dash") = DashTabs
  <2>1. \A i \in 1..3 : Tabs["dash"][i] \in DashTabs
    BY DEF Tabs, DashTabs
  <2>2. Tabs["dash"][1] = "dJobs" /\ Tabs["dash"][2] = "dMacros" /\ Tabs["dash"][3] = "dStatus"
    BY DEF Tabs
  <2> QED
    BY <1>2, <2>1, <2>2 DEF TabsOf, DashTabs
<1>4. TabsOf("files") = FilesTabs
  <2>1. \A i \in 1..2 : Tabs["files"][i] \in FilesTabs
    BY DEF Tabs, FilesTabs
  <2>2. Tabs["files"][1] = "fMacros" /\ Tabs["files"][2] = "fJobs"
    BY DEF Tabs
  <2> QED
    BY <1>2, <2>1, <2>2 DEF TabsOf, FilesTabs
<1>5. AllTabs = DashTabs \cup FilesTabs
  BY <1>1, <1>3, <1>4 DEF AllTabs
<1>6. \A tab \in DashTabs : TabViewOf(tab) = "dash"
  BY <1>1, <1>3, <1>4 DEF TabViewOf, DashTabs, FilesTabs
<1>7. \A tab \in FilesTabs : TabViewOf(tab) = "files"
  BY <1>1, <1>3, <1>4 DEF TabViewOf, DashTabs, FilesTabs
<1> QED
  BY <1>1, <1>3, <1>4, <1>5, <1>6, <1>7

(* The views below each view.                                              *)
LEMMA Kinship ==
  /\ Children("dash") = DashTabs \cup {"graph"}
  /\ Children("files") = FilesTabs
  /\ \A v : v # "dash" /\ v # "files" => Children(v) = {}
  /\ Faces = {"dash", "files", "control"}
  /\ Views = Faces \cup DashTabs \cup FilesTabs \cup {"graph"}
  /\ Presenters = Views \ {"files"}
BY Tree DEF Children, Faces, Screens, Views, Presenters

(* A tab and its number.                                                   *)
LEMMA Numbers ==
  /\ Tabs["dash"][1] = "dJobs" /\ Tabs["dash"][2] = "dMacros" /\ Tabs["dash"][3] = "dStatus"
  /\ Tabs["files"][1] = "fMacros" /\ Tabs["files"][2] = "fJobs"
  /\ IndexOf("dJobs") = 1 /\ IndexOf("dMacros") = 2 /\ IndexOf("dStatus") = 3
  /\ IndexOf("fMacros") = 1 /\ IndexOf("fJobs") = 2
<1>1. DOMAIN Tabs["dash"] = 1..3 /\ DOMAIN Tabs["files"] = 1..2
  BY DEF Tabs
<1>2. /\ Tabs["dash"][1] = "dJobs" /\ Tabs["dash"][2] = "dMacros" /\ Tabs["dash"][3] = "dStatus"
      /\ Tabs["files"][1] = "fMacros" /\ Tabs["files"][2] = "fJobs"
  BY DEF Tabs
<1>3. \A i : i \in 1..3 <=> i = 1 \/ i = 2 \/ i = 3
  OBVIOUS
<1>4. \A i : i \in 1..2 <=> i = 1 \/ i = 2
  OBVIOUS
<1>5. ASSUME NEW tab \in DashTabs
      PROVE  IndexOf(tab) \in 1..3 /\ Tabs["dash"][IndexOf(tab)] = tab
  BY <1>1, <1>2, <1>3, Tree DEF IndexOf, DashTabs
<1>6. ASSUME NEW tab \in FilesTabs
      PROVE  IndexOf(tab) \in 1..2 /\ Tabs["files"][IndexOf(tab)] = tab
  BY <1>1, <1>2, <1>4, Tree DEF IndexOf, FilesTabs
<1>7. IndexOf("dJobs") = 1 /\ IndexOf("dMacros") = 2 /\ IndexOf("dStatus") = 3
  BY <1>2, <1>3, <1>5 DEF DashTabs
<1>8. IndexOf("fMacros") = 1 /\ IndexOf("fJobs") = 2
  BY <1>2, <1>4, <1>6 DEF FilesTabs
<1> QED
  BY <1>2, <1>7, <1>8

(* Tabs and their numbers.                                                 *)
LEMMA NumbersOf ==
  /\ \A tab \in DashTabs : IndexOf(tab) \in 1..3 /\ Tabs["dash"][IndexOf(tab)] = tab
  /\ \A tab \in FilesTabs : IndexOf(tab) \in 1..2 /\ Tabs["files"][IndexOf(tab)] = tab
  /\ \A i \in 1..3 : Tabs["dash"][i] \in DashTabs /\ IndexOf(Tabs["dash"][i]) = i
  /\ \A i \in 1..2 : Tabs["files"][i] \in FilesTabs /\ IndexOf(Tabs["files"][i]) = i
<1>1. \A i : i \in 1..3 <=> i = 1 \/ i = 2 \/ i = 3
  OBVIOUS
<1>2. \A i : i \in 1..2 <=> i = 1 \/ i = 2
  OBVIOUS
<1> QED
  BY <1>1, <1>2, Numbers DEF DashTabs, FilesTabs

-----------------------------------------------------------------------------
(* What showing and hiding a view make of the record.                      *)

(* Fields that Shown, Hidden and what is made of them leave alone.         *)
SameTabs(u, v) ==
    /\ v.current = u.current /\ v.disabled = u.disabled /\ v.leaving = u.leaving
    /\ v.selected = u.selected

(* The status tab that is bound after calls was so before, or reads om.    *)
Hears(u, x) ==
    "dStatus" \in x.bound => x.status = om \/ ("dStatus" \in u.bound /\ x.status = u.status)

(* The views that hear of it when v is shown or hidden.                    *)
Relatives(u, v) == {v} \cup {c \in Children(v) : c \notin u.hidden}

(* What hiding a view makes of the panel.                                  *)
LEMMA HiddenEffect ==
  ASSUME NEW u \in UiType, NEW v \in Views, v # "graph"
  PROVE  LET x == Hidden(u, v)
         IN  /\ x \in UiType /\ SameTabs(u, x)
             /\ x.hidden = u.hidden \cup {v}
             /\ x.open = u.open /\ x.asking = u.asking /\ x.status = u.status
             /\ x.bound \subseteq u.bound \cup {"graph"}
             /\ \A w \in u.bound : w \notin Relatives(u, v) \/ w = "graph" => w \in x.bound
<1> DEFINE x == Hidden(u, v)
           h == [u EXCEPT !.hidden = u.hidden \cup {v}]
           vs == Family(u, v)
<1>1. CASE v \in u.hidden
  BY <1>1 DEF Hidden, IsVisible, SameTabs
<1>2. CASE v \notin u.hidden
  <2>1. vs = Relatives(u, v)
    BY DEF Family, IsVisible, Relatives
  <2>2. h \in UiType
    BY DEF UiType
  <2>3. /\ h.hidden = u.hidden \cup {v} /\ h.bound = u.bound /\ h.open = u.open /\ h.current = u.current
        /\ h.disabled = u.disabled /\ h.leaving = u.leaving /\ h.asking = u.asking
        /\ h.status = u.status /\ h.selected = u.selected
    BY DEF UiType
  <2> DEFINE bound == (u.bound \ vs) \cup {g \in {"graph"} : "dash" \in vs}
  <2>4. x = [h EXCEPT !.bound = bound]
    BY <1>2, <2>3 DEF Hidden, IsVisible, Deactivated
  <2>5. bound \subseteq Presenters
    BY Kinship DEF UiType, DashTabs, FilesTabs
  <2>6. "dash" \in vs <=> v = "dash"
    BY <2>1, Kinship DEF Relatives, DashTabs, FilesTabs
  <2>7. "graph" \in vs => v = "dash"
    BY <2>1, Kinship DEF Relatives, DashTabs, FilesTabs
  <2>8. bound \subseteq u.bound \cup {"graph"}
    OBVIOUS
  <2>9. \A w \in u.bound : w \notin vs \/ w = "graph" => w \in bound
    BY <2>6, <2>7
  <2> HIDE DEF bound, h, vs
  <2>10. /\ x \in UiType /\ x.bound = bound
         /\ x.hidden = h.hidden /\ x.open = h.open /\ x.current = h.current
         /\ x.disabled = h.disabled /\ x.leaving = h.leaving /\ x.asking = h.asking
         /\ x.status = h.status /\ x.selected = h.selected
    BY <2>2, <2>4, <2>5 DEF UiType
  <2> QED
    BY <2>1, <2>3, <2>8, <2>9, <2>10 DEF SameTabs
<1> QED
  BY <1>1, <1>2

(* What showing a view makes of the panel.                                 *)
LEMMA ShownEffect ==
  ASSUME NEW u \in UiType, NEW v \in Views, om \in [printing : BOOLEAN, job : BOOLEAN]
  PROVE  LET x == Shown(u, v)
         IN  /\ x \in UiType /\ SameTabs(u, x)
             /\ x.hidden = u.hidden \ {v}
             /\ x.open = u.open
             /\ x.bound = u.bound \cup (Relatives(u, v) \cap Presenters)
             /\ x.status = IF "dStatus" \in Relatives(u, v) THEN om ELSE u.status
             /\ x.asking \in {u.asking, NoScreen}
<1> DEFINE x == Shown(u, v)
           h == [u EXCEPT !.hidden = u.hidden \ {v}]
           vs == Family(h, v)
<1>1. h \in UiType
  BY DEF UiType
<1>2. /\ h.hidden = u.hidden \ {v} /\ h.bound = u.bound /\ h.open = u.open /\ h.current = u.current
      /\ h.disabled = u.disabled /\ h.leaving = u.leaving /\ h.asking = u.asking
      /\ h.status = u.status /\ h.selected = u.selected
  BY DEF UiType
<1>3. vs = Relatives(u, v)
  <2>1. v \notin Children(v)
    BY Kinship DEF DashTabs, FilesTabs
  <2> QED
    BY <1>2, <2>1 DEF Family, IsVisible, Relatives
<1> DEFINE bound == h.bound \cup (vs \cap Presenters)
           status == IF "dStatus" \in vs THEN om ELSE h.status
           asking == IF h.asking \in vs THEN NoScreen ELSE h.asking
<1>4. x = [h EXCEPT !.bound = bound, !.status = status, !.asking = asking]
  BY DEF Shown, Activated
<1>5. bound \subseteq Presenters /\ status \in [printing : BOOLEAN, job : BOOLEAN]
      /\ asking \in FileViews \cup {NoScreen}
  BY <1>1 DEF UiType
<1> HIDE DEF bound, status, asking, h, vs
<1>6. /\ x \in UiType /\ x.bound = bound /\ x.status = status /\ x.asking = asking
      /\ x.hidden = h.hidden /\ x.open = h.open /\ x.current = h.current
      /\ x.disabled = h.disabled /\ x.leaving = h.leaving /\ x.selected = h.selected
  BY <1>1, <1>4, <1>5 DEF UiType
<1>7. SameTabs(u, x) /\ x.hidden = u.hidden \ {v} /\ x.open = u.open
  BY <1>2, <1>6 DEF SameTabs
<1>8. x.bound = u.bound \cup (Relatives(u, v) \cap Presenters)
  BY <1>2, <1>3, <1>6 DEF bound
<1>9. x.status = IF "dStatus" \in Relatives(u, v) THEN om ELSE u.status
  BY <1>2, <1>3, <1>6 DEF status
<1>10. x.asking \in {u.asking, NoScreen}
  BY <1>2, <1>6 DEF asking
<1> QED
  BY <1>6, <1>7, <1>8, <1>9, <1>10

-----------------------------------------------------------------------------
(* Tabs.                                                                   *)

(* What is true of every tab.                                              *)
LEMMA TabFacts ==
  ASSUME NEW tab \in AllTabs
  PROVE  /\ TabViewOf(tab) \in TabViews /\ tab \in TabsOf(TabViewOf(tab))
         /\ \A t \in TabViews : tab \in TabsOf(t) => t = TabViewOf(tab)
         /\ IndexOf(tab) \in 1..3 /\ Tabs[TabViewOf(tab)][IndexOf(tab)] = tab
         /\ tab \in Views \ {"graph"} /\ tab \in Presenters /\ tab \notin Faces
         /\ \A u : Relatives(u, tab) = {tab}
<1>1. tab \in DashTabs \cup FilesTabs
  BY Tree
<1>2. DashTabs \cap FilesTabs = {}
  BY DEF DashTabs, FilesTabs
<1>3. \A i \in 1..2 : i \in 1..3
  OBVIOUS
<1>4. tab \notin {"graph", "dash", "files", "control"}
  BY <1>1 DEF DashTabs, FilesTabs
<1>5. \A u : Relatives(u, tab) = {tab}
  BY <1>4, Kinship DEF Relatives
<1> QED
  BY <1>1, <1>2, <1>3, <1>4, <1>5, Tree, NumbersOf, Kinship

(* What the end of an animation makes of the panel.                        *)
LEMMA SlidOutEffect ==
  ASSUME NEW u \in UiType, NEW tab \in AllTabs
  PROVE  LET x == SlidOut(u, tab)
         IN  /\ x \in UiType
             /\ x.current = u.current /\ x.disabled = u.disabled /\ x.selected = u.selected
             /\ x.open = u.open /\ x.asking = u.asking /\ x.status = u.status
             /\ x.leaving = u.leaving \ {tab}
             /\ \A w : w \in x.hidden <=> w \in u.hidden \/ (w = tab /\ tab \in u.leaving)
             /\ x.bound \subseteq u.bound \cup {"graph"}
             /\ \A w \in u.bound : w # tab \/ tab \notin u.leaving => w \in x.bound
<1> DEFINE x == SlidOut(u, tab)
           h == [u EXCEPT !.leaving = u.leaving \ {tab}]
<1>1. CASE tab \notin u.leaving
  BY <1>1 DEF SlidOut
<1>2. CASE tab \in u.leaving
  <2>1. h \in UiType
    BY DEF UiType
  <2>2. /\ h.leaving = u.leaving \ {tab} /\ h.bound = u.bound /\ h.open = u.open
        /\ h.current = u.current /\ h.disabled = u.disabled /\ h.hidden = u.hidden
        /\ h.asking = u.asking /\ h.status = u.status /\ h.selected = u.selected
    BY DEF UiType
  <2>3. x = Hidden(h, tab)
    BY <1>2 DEF SlidOut
  <2> HIDE DEF h, x
  <2>4. tab \in Views /\ tab # "graph" /\ Relatives(h, tab) = {tab}
    BY TabFacts
  <2>5. /\ x \in UiType /\ SameTabs(h, x)
        /\ x.hidden = h.hidden \cup {tab}
        /\ x.open = h.open /\ x.asking = h.asking /\ x.status = h.status
        /\ x.bound \subseteq h.bound \cup {"graph"}
        /\ \A w \in h.bound : w \notin {tab} \/ w = "graph" => w \in x.bound
    BY <2>1, <2>3, <2>4, HiddenEffect
  <2>6. /\ \A w : w \in x.hidden <=> w \in u.hidden \/ (w = tab /\ tab \in u.leaving)
        /\ \A w \in u.bound : w # tab \/ tab \notin u.leaving => w \in x.bound
    BY <1>2, <2>2, <2>5
  <2> QED
    BY <2>2, <2>5, <2>6 DEF SameTabs, x
<1> QED
  BY <1>1, <1>2

(* The tab that is asked for is the one that is open.                      *)
LEMMA SetActiveTabEffect ==
  ASSUME NEW u, Fits(u), NEW tab \in AllTabs,
         animated \in BOOLEAN, om \in [printing : BOOLEAN, job : BOOLEAN]
  PROVE  LET x == SetActiveTab(u, tab)
         IN  /\ Fits(x) /\ x.open = u.open /\ x.disabled = u.disabled
             /\ x.selected = u.selected
             /\ CurrentTab(x, TabViewOf(tab)) = tab
             /\ \A t \in TabViews \ {TabViewOf(tab)} : CurrentTab(x, t) = CurrentTab(u, t)
             /\ Hears(u, x)
<1> DEFINE t == TabViewOf(tab)
           previous == CurrentTab(u, t)
           m == [u EXCEPT !.current[t] = IndexOf(tab)]
           x == SetActiveTab(u, tab)
<1>1. CASE tab = previous
  BY <1>1 DEF SetActiveTab, Hears
<1>2. ASSUME tab # previous
      PROVE  /\ Fits(x) /\ x.open = u.open /\ x.disabled = u.disabled
             /\ x.selected = u.selected
             /\ CurrentTab(x, t) = tab
             /\ \A r \in TabViews \ {t} : CurrentTab(x, r) = CurrentTab(u, r)
             /\ Hears(u, x)
  <2>1. u \in UiType /\ FacesFit(u) /\ TabsFit(u) /\ BoundFit(u)
    BY DEF Fits
  <2>2. /\ t \in TabViews /\ tab \in TabsOf(t) /\ IndexOf(tab) \in 1..3
        /\ Tabs[t][IndexOf(tab)] = tab /\ tab \notin Faces
        /\ \A r \in TabViews : tab \in TabsOf(r) => r = t
        /\ tab \in Views \ {"graph"} /\ tab \in Presenters
    BY TabFacts
  <2>3. previous \in TabsOf(t) \ u.leaving /\ previous \notin u.hidden
    BY <2>1, <2>2 DEF TabsFit
  <2>4. previous \in AllTabs
    BY <2>2, <2>3 DEF AllTabs
  <2>5. /\ previous \notin Faces /\ previous \in Views \ {"graph"}
        /\ \A r \in TabViews : previous \in TabsOf(r) => r = t
        /\ \A w : Relatives(w, previous) = {previous}
        /\ \A w : Relatives(w, tab) = {tab}
    BY <2>2, <2>3, <2>4, TabFacts
  <2>6. m \in UiType /\ m.current = [u.current EXCEPT ![t] = IndexOf(tab)]
    BY <2>1, <2>2 DEF UiType
  <2>7. /\ m.hidden = u.hidden /\ m.bound = u.bound /\ m.open = u.open
        /\ m.disabled = u.disabled /\ m.leaving = u.leaving /\ m.asking = u.asking
        /\ m.status = u.status /\ m.selected = u.selected
    BY <2>1 DEF UiType
  <2>8. /\ CurrentTab(m, t) = tab
        /\ \A r \in TabViews \ {t} : CurrentTab(m, r) = CurrentTab(u, r)
    BY <2>1, <2>2, <2>6 DEF CurrentTab, UiType
  <2> HIDE DEF t, previous, m, x
  <2>9. /\ x \in UiType /\ x.current = m.current /\ x.open = u.open
        /\ x.disabled = u.disabled /\ x.selected = u.selected
        /\ x.leaving = IF animated THEN (u.leaving \ {tab}) \cup {previous} ELSE u.leaving
        /\ \A w : w \in x.hidden <=>
               w # tab /\ (w \in u.hidden \/ (~animated /\ w = previous))
        /\ tab \in x.bound
        /\ \A w \in u.bound : w = previous \/ w \in x.bound
        /\ animated => \A w \in u.bound : w \in x.bound
        /\ Hears(u, x)
    <3>1. ASSUME ~animated
          PROVE  <2>9!:
      <4> DEFINE h == Hidden(m, previous)
      <4>1. x = Shown(h, tab)
        BY <1>2, <3>1 DEF SetActiveTab, x, m, t, previous
      <4>2. /\ h \in UiType /\ SameTabs(m, h)
            /\ h.hidden = m.hidden \cup {previous}
            /\ h.open = m.open /\ h.status = m.status
            /\ h.bound \subseteq m.bound \cup {"graph"}
            /\ \A w \in m.bound : w \notin {previous} \/ w = "graph" => w \in h.bound
        BY <2>5, <2>6, HiddenEffect
      <4> HIDE DEF h
      <4>3. /\ x \in UiType /\ SameTabs(h, x)
            /\ x.hidden = h.hidden \ {tab} /\ x.open = h.open
            /\ x.bound = h.bound \cup ({tab} \cap Presenters)
            /\ x.status = IF "dStatus" \in {tab} THEN om ELSE h.status
        BY <2>2, <2>5, <4>1, <4>2, ShownEffect
      <4>4. x.hidden = (u.hidden \cup {previous}) \ {tab}
        BY <2>7, <4>2, <4>3
      <4>5. tab \in x.bound /\ \A w \in u.bound : w = previous \/ w \in x.bound
        BY <2>2, <2>7, <4>2, <4>3
      <4>6. Hears(u, x)
        BY <2>7, <4>2, <4>3 DEF Hears
      <4> QED
        BY <2>7, <3>1, <4>2, <4>3, <4>4, <4>5, <4>6 DEF SameTabs
    <3>2. ASSUME animated
          PROVE  <2>9!:
      <4> DEFINE p == SlidOut(m, previous)
                 q == SlidOut(p, tab)
                 y == Shown(q, tab)
      <4>1. x = [y EXCEPT !.leaving = @ \cup {previous}]
        BY <1>2, <3>2 DEF SetActiveTab, x, m, t, previous
      <4>2. p = m
        BY <2>3, <2>7 DEF SlidOut
      <4>3. /\ q \in UiType
            /\ q.current = m.current /\ q.disabled = m.disabled /\ q.selected = m.selected
            /\ q.open = m.open /\ q.status = m.status
            /\ q.leaving = m.leaving \ {tab}
            /\ \A w : w \in q.hidden <=> w \in m.hidden \/ (w = tab /\ tab \in m.leaving)
            /\ q.bound \subseteq m.bound \cup {"graph"}
            /\ \A w \in m.bound : w # tab \/ tab \notin m.leaving => w \in q.bound
        BY <2>6, <4>2, SlidOutEffect
      <4> HIDE DEF q
      <4>4. /\ y \in UiType /\ SameTabs(q, y)
            /\ y.hidden = q.hidden \ {tab} /\ y.open = q.open
            /\ y.bound = q.bound \cup ({tab} \cap Presenters)
            /\ y.status = IF "dStatus" \in {tab} THEN om ELSE q.status
        BY <2>2, <2>5, <4>3, ShownEffect
      <4> HIDE DEF y
      <4>5. /\ x \in UiType /\ x.leaving = y.leaving \cup {previous}
            /\ x.hidden = y.hidden /\ x.bound = y.bound /\ x.open = y.open
            /\ x.current = y.current /\ x.disabled = y.disabled
            /\ x.status = y.status /\ x.selected = y.selected
        BY <2>4, <4>1, <4>4 DEF UiType
      <4>6. \A w : w \in x.hidden <=> w # tab /\ w \in u.hidden
        BY <2>7, <4>3, <4>4, <4>5
      <4>7. tab \in x.bound /\ \A w \in u.bound : w \in x.bound
        BY <2>2, <2>7, <4>3, <4>4, <4>5
      <4>8. Hears(u, x)
        BY <2>7, <4>3, <4>4, <4>5 DEF Hears
      <4> QED
        BY <2>7, <3>2, <4>3, <4>4, <4>5, <4>6, <4>7, <4>8 DEF SameTabs
    <3> QED
      BY <3>1, <3>2
  <2>10. \A r \in TabViews : CurrentTab(x, r) = CurrentTab(m, r)
    BY <2>9 DEF CurrentTab
  <2>11. FacesFit(x)
    BY <2>1, <2>2, <2>5, <2>9 DEF FacesFit, CurrentScreen
  <2>12. "graph" \notin x.hidden /\ "graph" \in x.bound
    BY <2>1, <2>2, <2>5, <2>9 DEF TabsFit
  <2>13. animated \/ x.leaving = {}
    BY <2>1, <2>9 DEF TabsFit
  <2>14. ASSUME NEW r \in TabViews
         PROVE  /\ CurrentTab(x, r) \in TabsOf(r) \ x.leaving
                /\ \A b \in TabsOf(r) : b \in x.hidden <=> b \notin x.leaving /\ b # CurrentTab(x, r)
    <3>1. /\ CurrentTab(u, r) \in TabsOf(r) \ u.leaving
          /\ \A b \in TabsOf(r) : b \in u.hidden <=> b \notin u.leaving /\ b # CurrentTab(u, r)
      BY <2>1 DEF TabsFit
    <3>2. CASE r = t
      <4>1. CurrentTab(x, r) = tab /\ CurrentTab(u, r) = previous
        BY <2>8, <2>10, <3>2 DEF previous, t
      <4>2. CASE animated
        BY <1>2, <2>2, <2>9, <3>1, <3>2, <4>1, <4>2
      <4>3. CASE ~animated
        BY <1>2, <2>1, <2>2, <2>9, <3>1, <3>2, <4>1, <4>3 DEF TabsFit
      <4> QED
        BY <4>2, <4>3
    <3>3. CASE r # t
      <4>1. CurrentTab(x, r) = CurrentTab(u, r) /\ tab \notin TabsOf(r) /\ previous \notin TabsOf(r)
        BY <2>2, <2>5, <2>8, <2>10, <3>3
      <4> QED
        BY <2>9, <3>1, <4>1
    <3> QED
      BY <3>2, <3>3
  <2>15. TabsFit(x)
    BY <2>12, <2>13, <2>14 DEF TabsFit
  <2>16. BoundFit(x)
    <3>1. "control" \notin x.hidden => "control" \in x.bound
      BY <2>1, <2>2, <2>5, <2>9, Kinship DEF BoundFit
    <3>2. "dash" \notin x.hidden => "dash" \in x.bound
      BY <2>1, <2>2, <2>5, <2>9, Kinship DEF BoundFit
    <3>3. ASSUME NEW r \in TabViews, NEW b \in TabsOf(r), r \notin x.hidden, b \notin x.hidden
          PROVE  b \in x.bound
      <4>1. r \in Faces
        BY Tree, Kinship
      <4>2. r \notin u.hidden
        BY <2>2, <2>5, <2>9, <3>3, <4>1
      <4>3. CASE b = tab
        BY <2>9, <4>3
      <4>4. CASE b # tab
        <5>1. b \notin u.hidden
          BY <2>9, <3>3, <4>4
        <5>2. b \in u.bound
          BY <2>1, <4>2, <5>1 DEF BoundFit
        <5> QED
          BY <2>9, <3>3, <5>2
      <4> QED
        BY <4>3, <4>4
    <3> QED
      BY <3>1, <3>2, <3>3 DEF BoundFit
  <2> QED
    BY <2>2, <2>8, <2>9, <2>10, <2>11, <2>15, <2>16 DEF Fits
<1> QED
  BY <1>1, <1>2

(* Where the jobs tab gives way to.                                        *)
LEMMA NextTab ==
  ASSUME NEW u, u.disabled \subseteq {"dJobs", "fJobs"}
  PROVE  NextEnabled(u, "fJobs") = "fMacros" /\ NextEnabled(u, "dJobs") = "dMacros"
<1>1. /\ Len(Tabs["dash"]) = 3 /\ Len(Tabs["files"]) = 2
      /\ TabViewOf("dJobs") = "dash" /\ TabViewOf("fJobs") = "files"
  BY Tree DEF Tabs, DashTabs, FilesTabs
<1>2. NextEnabled(u, "fJobs") = "fMacros"
  <2> DEFINE ts == Tabs[TabViewOf("fJobs")]
             After(i) == ts[((IndexOf("fJobs") + i - 1) % Len(ts)) + 1]
             steps == {i \in 1..(Len(ts) - 1) : After(i) \notin u.disabled}
  <2>1. NextEnabled(u, "fJobs") = After(CHOOSE i \in steps : \A j \in steps : i <= j)
    BY DEF NextEnabled
  <2>2. After(1) = "fMacros"
    BY <1>1, Numbers
  <2> HIDE DEF After
  <2>3. steps = {1}
    <3>1. Len(ts) - 1 = 1
      BY <1>1
    <3>2. 1..1 = {1}
      OBVIOUS
    <3> QED
      BY <2>2, <3>1, <3>2
  <2> HIDE DEF steps
  <2>4. (CHOOSE i \in steps : \A j \in steps : i <= j) = 1
    BY <2>3
  <2> QED
    BY <2>1, <2>2, <2>4
<1>3. NextEnabled(u, "dJobs") = "dMacros"
  <2> DEFINE ts == Tabs[TabViewOf("dJobs")]
             After(i) == ts[((IndexOf("dJobs") + i - 1) % Len(ts)) + 1]
             steps == {i \in 1..(Len(ts) - 1) : After(i) \notin u.disabled}
  <2>1. NextEnabled(u, "dJobs") = After(CHOOSE i \in steps : \A j \in steps : i <= j)
    BY DEF NextEnabled
  <2>2. After(1) = "dMacros" /\ After(2) = "dStatus"
    <3>1. ((1 + 1 - 1) % 3) + 1 = 2 /\ ((1 + 2 - 1) % 3) + 1 = 3
      OBVIOUS
    <3> QED
      BY <1>1, <3>1, Numbers
  <2> HIDE DEF After
  <2>3. steps = {1, 2}
    <3>1. Len(ts) - 1 = 2
      BY <1>1
    <3>2. 1..2 = {1, 2}
      OBVIOUS
    <3> QED
      BY <2>2, <3>1, <3>2
  <2> HIDE DEF steps
  <2>4. (CHOOSE i \in steps : \A j \in steps : i <= j) = 1
    BY <2>3
  <2> QED
    BY <2>1, <2>2, <2>4
<1> QED
  BY <1>2, <1>3

(* A tab that is disabled does not stay open.                              *)
LEMMA DisableTabEffect ==
  ASSUME NEW u, ViewsFit(u), NEW tab \in {"dJobs", "fJobs"}, NEW disable \in BOOLEAN,
         animated \in BOOLEAN, om \in [printing : BOOLEAN, job : BOOLEAN]
  PROVE  LET x == DisableTab(u, tab, disable)
         IN  /\ ViewsFit(x) /\ x.open = u.open /\ x.selected = u.selected /\ Hears(u, x)
             /\ x.disabled = IF disable THEN u.disabled \cup {tab} ELSE u.disabled \ {tab}
<1> DEFINE ds == IF disable THEN u.disabled \cup {tab} ELSE u.disabled \ {tab}
           set == [u EXCEPT !.disabled = ds]
           x == DisableTab(u, tab, disable)
           next == NextEnabled(set, tab)
<1>1. u \in UiType /\ Fits(u) /\ JobsFit(u)
  BY DEF ViewsFit, Fits
<1>2. tab \in AllTabs /\ ds \subseteq {"dJobs", "fJobs"} /\ ds \subseteq AllTabs
  BY <1>1, Tree DEF JobsFit, DashTabs, FilesTabs
<1> HIDE DEF ds
<1>3. /\ set \in UiType /\ set.disabled = ds
      /\ set.hidden = u.hidden /\ set.bound = u.bound /\ set.open = u.open
      /\ set.current = u.current /\ set.leaving = u.leaving /\ set.asking = u.asking
      /\ set.status = u.status /\ set.selected = u.selected
  BY <1>1, <1>2 DEF UiType
<1>4. x = IF disable /\ tab \notin u.disabled /\ CurrentTab(u, TabViewOf(tab)) = tab
          THEN SetActiveTab(set, next) ELSE set
  BY DEF DisableTab, ds
<1>5. next = IF tab = "fJobs" THEN "fMacros" ELSE "dMacros"
  BY <1>2, <1>3, NextTab
<1> HIDE DEF set, x, next
<1>6. \A t : CurrentTab(set, t) = CurrentTab(u, t)
  BY <1>3 DEF CurrentTab
<1>7. Fits(set)
  BY <1>1, <1>3, <1>6 DEF Fits, FacesFit, CurrentScreen, TabsFit, BoundFit
<1>8. next \in AllTabs /\ TabViewOf(next) = TabViewOf(tab)
  BY <1>5, Tree DEF DashTabs, FilesTabs
<1>9. CASE x = set
  <2>1. JobsFit(x)
    <3>1. ASSUME "fJobs" \in ds PROVE CurrentTab(u, "files") # "fJobs"
      <4>1. CASE "fJobs" \in u.disabled
        BY <1>1, <4>1 DEF JobsFit
      <4>2. CASE "fJobs" \notin u.disabled
        <5>1. disable /\ tab = "fJobs"
          BY <3>1, <4>2 DEF ds
        <5>2. ASSUME CurrentTab(u, "files") = "fJobs" PROVE FALSE
          <6>1. x = SetActiveTab(set, next) /\ next = "fMacros"
            BY <1>4, <1>5, <4>2, <5>1, <5>2, Tree DEF FilesTabs
          <6>2. CurrentTab(x, "files") = "fMacros"
            BY <1>7, <1>8, <6>1, SetActiveTabEffect, Tree DEF FilesTabs
          <6> QED
            BY <1>6, <1>9, <5>2, <6>2
        <5> QED
          BY <5>2
      <4> QED
        BY <4>1, <4>2
    <3> QED
      BY <1>2, <1>3, <1>6, <1>9, <3>1 DEF JobsFit
  <2> QED
    BY <1>3, <1>7, <1>9, <2>1 DEF ViewsFit, Hears, ds, x
<1>10. CASE x = SetActiveTab(set, next)
  <2>1. /\ Fits(x) /\ x.open = set.open /\ x.disabled = set.disabled
        /\ x.selected = set.selected
        /\ CurrentTab(x, TabViewOf(next)) = next
        /\ \A t \in TabViews \ {TabViewOf(next)} : CurrentTab(x, t) = CurrentTab(set, t)
        /\ Hears(set, x)
    BY <1>7, <1>8, <1>10, SetActiveTabEffect
  <2>2. JobsFit(x)
    <3>1. CASE tab = "fJobs"
      BY <1>2, <1>3, <1>5, <1>8, <2>1, <3>1, Tree DEF JobsFit, FilesTabs
    <3>2. CASE tab = "dJobs"
      <4>1. "fJobs" \in ds => "fJobs" \in u.disabled
        BY <3>2 DEF ds
      <4>2. CurrentTab(x, "files") = CurrentTab(u, "files")
        BY <1>6, <1>8, <2>1, <3>2, Tree DEF DashTabs
      <4> QED
        BY <1>1, <1>2, <1>3, <2>1, <4>1, <4>2 DEF JobsFit
    <3> QED
      BY <3>1, <3>2
  <2>3. Hears(u, x)
    BY <1>3, <2>1 DEF Hears
  <2> QED
    BY <1>3, <2>1, <2>2, <2>3 DEF ViewsFit, ds, x
<1> QED
  BY <1>4, <1>9, <1>10 DEF x

-----------------------------------------------------------------------------
(* Screens.                                                                *)

(* The list has one screen at most.                                        *)
LEMMA RemoveOnly ==
  ASSUME NEW s
  PROVE  RemoveFirst(<<s>>, s) = <<>> /\ RemoveFirst(<<>>, s) = <<>>
<1>1. Len(<<s>>) = 1 /\ <<s>>[1] = s /\ 1..1 = {1}
  OBVIOUS
<1>2. {j \in 1..Len(<<s>>) : <<s>>[j] = s} = {1}
  BY <1>1
<1>3. Min({1}) = 1
  BY DEF Min
<1>4. SelectInSeq(<<s>>, LAMBDA v : v = s) = 1
  BY <1>2, <1>3 DEF SelectInSeq
<1>5. RemoveAt(<<s>>, 1) = <<>>
  BY DEF RemoveAt
<1>6. RemoveFirst(<<s>>, s) = <<>>
  BY <1>1, <1>4, <1>5 DEF RemoveFirst
<1>7. RemoveFirst(<<>>, s) = <<>>
  BY DEF RemoveFirst
<1> QED
  BY <1>6, <1>7

(* Showing and hiding faces leaves the tabs alone.                         *)
LEMMA TabsStay ==
  ASSUME NEW u, NEW x, TabsFit(u), SameTabs(u, x), "graph" \in x.bound,
         \A w : w \notin Faces => (w \in x.hidden <=> w \in u.hidden)
  PROVE  TabsFit(x)
<1>1. "graph" \notin Faces
  BY Kinship
<1>2. \A t \in TabViews : \A tab \in TabsOf(t) : tab \notin Faces
  BY Tree, Kinship DEF DashTabs, FilesTabs
<1>3. \A t \in TabViews : CurrentTab(x, t) = CurrentTab(u, t)
  BY DEF SameTabs, CurrentTab
<1>4. "graph" \notin x.hidden /\ (animated \/ x.leaving = {})
  BY <1>1 DEF TabsFit, SameTabs
<1> QED
  BY <1>2, <1>3, <1>4 DEF TabsFit, SameTabs

(* At most one screen is open over the dashboard.                          *)
LEMMA OpenIs ==
  ASSUME NEW u \in UiType
  PROVE  /\ u.open = <<>> => CurrentScreen(u) = "dash"
         /\ u.open # <<>> => CurrentScreen(u) \in Screens /\ u.open = <<CurrentScreen(u)>>
<1>1. u.open = <<>> \/ \E s \in Screens : u.open = <<s>>
  BY DEF UiType
<1>2. ASSUME NEW s \in Screens, u.open = <<s>>
      PROVE  CurrentScreen(u) = s
  BY <1>2 DEF CurrentScreen
<1> QED
  BY <1>1, <1>2 DEF CurrentScreen

(* What a whole call leaves.                                               *)
FacesChange(u, x) == Fits(x) /\ SameTabs(u, x) /\ Hears(u, x)

(* A question on a screen moves no face.                                   *)
LEMMA AskingEffect ==
  ASSUME NEW u, Fits(u), NEW asking \in FileViews \cup {NoScreen}
  PROVE  LET x == [u EXCEPT !.asking = asking]
         IN  FacesChange(u, x) /\ x.open = u.open /\ x.hidden = u.hidden
<1> DEFINE x == [u EXCEPT !.asking = asking]
<1>1. u \in UiType /\ FacesFit(u) /\ TabsFit(u) /\ BoundFit(u)
  BY DEF Fits
<1>2. /\ x \in UiType /\ x.hidden = u.hidden /\ x.bound = u.bound /\ x.open = u.open
      /\ x.current = u.current /\ x.leaving = u.leaving /\ x.disabled = u.disabled
      /\ x.status = u.status /\ x.selected = u.selected
  BY <1>1 DEF UiType
<1> HIDE DEF x
<1>3. SameTabs(u, x) /\ Hears(u, x)
  BY <1>2 DEF SameTabs, Hears
<1>4. "graph" \in x.bound
  BY <1>1, <1>2 DEF TabsFit
<1>5. TabsFit(x)
  BY <1>1, <1>2, <1>3, <1>4, TabsStay
<1>6. FacesFit(x) /\ BoundFit(x)
  BY <1>1, <1>2 DEF FacesFit, BoundFit, CurrentScreen
<1> QED
  BY <1>2, <1>3, <1>5, <1>6 DEF FacesChange, Fits, x

(* Nor does closing the modals.                                            *)
LEMMA CloseAllModalsEffect ==
  ASSUME NEW u, Fits(u)
  PROVE  LET x == CloseAllModals(u)
         IN  FacesChange(u, x) /\ x.open = u.open /\ x.hidden = u.hidden
BY AskingEffect DEF CloseAllModals

(* A screen that closes shows the dashboard.                               *)
LEMMA CloseScreenEffect ==
  ASSUME NEW u, Fits(u), u.open # <<>>, om \in [printing : BOOLEAN, job : BOOLEAN]
  PROVE  LET x == CloseScreen(u, CurrentScreen(u))
         IN  FacesChange(u, x) /\ x.open = <<>>
<1> DEFINE s == CurrentScreen(u)
           a == CloseAllModals(u)
           h == Hidden(a, s)
           c == [h EXCEPT !.open = RemoveFirst(@, s)]
           x == CloseScreen(u, s)
<1>1. u \in UiType /\ FacesFit(u) /\ TabsFit(u) /\ BoundFit(u)
  BY DEF Fits
<1>2. s \in Screens /\ u.open = <<s>>
  BY <1>1, OpenIs
<1>3. s \in Views /\ s # "graph" /\ s # "dash" /\ s \in Faces
  BY <1>2, Kinship DEF Screens
<1>4. /\ a \in UiType /\ a.hidden = u.hidden /\ a.bound = u.bound /\ a.open = u.open
      /\ a.current = u.current /\ a.leaving = u.leaving /\ a.disabled = u.disabled
      /\ a.status = u.status /\ a.selected = u.selected
  BY <1>1 DEF CloseAllModals, UiType
<1> HIDE DEF s, a, h, x
<1>5. /\ h \in UiType /\ SameTabs(a, h)
      /\ h.hidden = a.hidden \cup {s}
      /\ h.open = a.open /\ h.status = a.status
      /\ h.bound \subseteq a.bound \cup {"graph"}
      /\ \A w \in a.bound : w \notin Relatives(a, s) \/ w = "graph" => w \in h.bound
  BY <1>3, <1>4, HiddenEffect DEF h
<1>6. RemoveFirst(h.open, s) = <<>>
  BY <1>2, <1>4, <1>5, RemoveOnly
<1>7. c = [h EXCEPT !.open = <<>>]
  BY <1>6
<1> HIDE DEF c
<1>8. /\ c \in UiType /\ c.open = <<>> /\ c.hidden = h.hidden /\ c.bound = h.bound
      /\ c.current = h.current /\ c.leaving = h.leaving /\ c.disabled = h.disabled
      /\ c.status = h.status /\ c.selected = h.selected
  BY <1>5, <1>7 DEF UiType
<1>9. x = Shown(c, "dash")
  BY <1>8 DEF CloseScreen, x, c, h, a
<1>10. "dash" \in Views
  BY Kinship
<1>11. /\ x \in UiType /\ SameTabs(c, x)
       /\ x.hidden = c.hidden \ {"dash"} /\ x.open = c.open
       /\ x.bound = c.bound \cup (Relatives(c, "dash") \cap Presenters)
       /\ x.status = IF "dStatus" \in Relatives(c, "dash") THEN om ELSE c.status
  BY <1>8, <1>9, <1>10, ShownEffect
<1>12. x.hidden = (u.hidden \cup {s}) \ {"dash"} /\ x.open = <<>>
  BY <1>4, <1>5, <1>8, <1>11
<1>13. SameTabs(u, x)
  BY <1>4, <1>5, <1>8, <1>11 DEF SameTabs
<1>14. Hears(u, x)
  BY <1>4, <1>5, <1>8, <1>11 DEF Hears
<1>15. "graph" \in x.bound
  BY <1>1, <1>4, <1>5, <1>8, <1>11 DEF TabsFit
<1>16. \A w : w \notin Faces => (w \in x.hidden <=> w \in u.hidden)
  BY <1>3, <1>12, Kinship
<1>17. TabsFit(x)
  BY <1>1, <1>13, <1>15, <1>16, TabsStay
<1>18. FacesFit(x)
  BY <1>1, <1>12, Kinship DEF FacesFit, CurrentScreen, s
<1>19. BoundFit(x)
  <2>1. "control" \in x.hidden /\ "files" \in x.hidden
    BY <1>1, <1>2, <1>12, Kinship DEF FacesFit, s
  <2>2. Relatives(c, "dash") = {"dash"} \cup {b \in DashTabs \cup {"graph"} : b \notin x.hidden}
    BY <1>11, Kinship DEF Relatives, DashTabs
  <2>3. "dash" \in x.bound /\ \A tab \in DashTabs : tab \notin x.hidden => tab \in x.bound
    BY <1>11, <2>2, Kinship DEF DashTabs
  <2> QED
    BY <2>1, <2>3, Tree DEF BoundFit
<1> QED
  BY <1>11, <1>12, <1>13, <1>14, <1>17, <1>18, <1>19 DEF FacesChange, Fits, x, s

(* Changes of the faces follow each other.                                 *)
LEMMA ChangeFurther ==
  ASSUME NEW u, NEW v, NEW x, FacesChange(u, v), FacesChange(v, x)
  PROVE  FacesChange(u, x)
BY DEF FacesChange, SameTabs, Hears

(* The screen that is opened over the dashboard.                           *)
LEMMA OpenOverDash ==
  ASSUME NEW u, Fits(u), u.open = <<>>, NEW s \in Screens,
         om \in [printing : BOOLEAN, job : BOOLEAN]
  PROVE  LET x == Shown([Hidden(u, "dash") EXCEPT !.open = Append(RemoveFirst(@, s), s)], s)
         IN  FacesChange(u, x) /\ x.open = <<s>>
<1> DEFINE h == Hidden(u, "dash")
           c == [h EXCEPT !.open = Append(RemoveFirst(@, s), s)]
           x == Shown(c, s)
<1>1. u \in UiType /\ FacesFit(u) /\ TabsFit(u) /\ BoundFit(u)
  BY DEF Fits
<1>2. s \in Views /\ s # "graph" /\ s # "dash" /\ s \in Faces
  BY Kinship DEF Screens
<1>3. "dash" \in Views /\ "dash" # "graph"
  BY Kinship
<1> HIDE DEF h
<1>4. /\ h \in UiType /\ SameTabs(u, h)
      /\ h.hidden = u.hidden \cup {"dash"}
      /\ h.open = u.open /\ h.status = u.status
      /\ h.bound \subseteq u.bound \cup {"graph"}
      /\ \A w \in u.bound : w \notin Relatives(u, "dash") \/ w = "graph" => w \in h.bound
  BY <1>1, <1>3, HiddenEffect DEF h
<1>5. RemoveFirst(h.open, s) = <<>>
  BY <1>4, RemoveOnly
<1>6. c = [h EXCEPT !.open = <<s>>]
  BY <1>5
<1> HIDE DEF c, x
<1>7. /\ c \in UiType /\ c.open = <<s>> /\ c.hidden = h.hidden /\ c.bound = h.bound
      /\ c.current = h.current /\ c.leaving = h.leaving /\ c.disabled = h.disabled
      /\ c.status = h.status /\ c.selected = h.selected
  BY <1>4, <1>6 DEF UiType
<1>8. /\ x \in UiType /\ SameTabs(c, x)
      /\ x.hidden = c.hidden \ {s} /\ x.open = c.open
      /\ x.bound = c.bound \cup (Relatives(c, s) \cap Presenters)
      /\ x.status = IF "dStatus" \in Relatives(c, s) THEN om ELSE c.status
  BY <1>2, <1>7, ShownEffect DEF x
<1>9. x.hidden = (u.hidden \cup {"dash"}) \ {s} /\ x.open = <<s>>
  BY <1>4, <1>7, <1>8
<1>10. SameTabs(u, x)
  BY <1>4, <1>7, <1>8 DEF SameTabs
<1>11. Hears(u, x)
  BY <1>4, <1>7, <1>8 DEF Hears
<1>12. "graph" \in x.bound
  BY <1>1, <1>4, <1>7, <1>8 DEF TabsFit
<1>13. \A w : w \notin Faces => (w \in x.hidden <=> w \in u.hidden)
  BY <1>2, <1>9, Kinship
<1>14. TabsFit(x)
  BY <1>1, <1>10, <1>12, <1>13, TabsStay
<1>15. CurrentScreen(x) = s /\ CurrentScreen(u) = "dash"
  BY <1>9 DEF CurrentScreen
<1>16. FacesFit(x)
  BY <1>1, <1>2, <1>9, <1>15, Kinship DEF FacesFit
<1>17. BoundFit(x)
  <2>1. \A f \in Faces : f # s => f \in x.hidden
    BY <1>15, <1>16 DEF FacesFit
  <2>2. "dash" \in x.hidden
    BY <1>2, <2>1, Kinship
  <2>3. s = "control" => "control" \in x.bound
    BY <1>8, Kinship DEF Relatives
  <2>4. s = "files" => \A tab \in FilesTabs : tab \notin x.hidden => tab \in x.bound
    <3>1. \A tab \in FilesTabs : tab \notin Faces /\ tab \in Presenters
      BY Kinship DEF FilesTabs
    <3>2. s = "files" => \A tab \in FilesTabs : tab \notin x.hidden => tab \in Relatives(c, s)
      BY <1>2, <1>8, <3>1, Kinship DEF Relatives
    <3> QED
      BY <1>8, <3>1, <3>2
  <2> QED
    BY <2>1, <2>2, <2>3, <2>4, Tree, Kinship DEF BoundFit
<1> QED
  BY <1>8, <1>9, <1>10, <1>11, <1>14, <1>16, <1>17 DEF FacesChange, Fits, x, c, h

(* A screen that opens hides the one before.                               *)
LEMMA OpenScreenEffect ==
  ASSUME NEW u, Fits(u), NEW s \in Screens, om \in [printing : BOOLEAN, job : BOOLEAN]
  PROVE  LET x == OpenScreen(u, s)
         IN  FacesChange(u, x) /\ x.open = <<s>>
<1> DEFINE closed == IF u.open = <<>> THEN CloseAllModals(u) ELSE CloseScreen(u, CurrentScreen(u))
           again == u.open # <<>> /\ CurrentScreen(u) = s /\ IsVisible(u, s)
           x == OpenScreen(u, s)
<1>1. u \in UiType
  BY DEF Fits
<1>2. CASE again
  <2>1. x = CloseAllModals(u)
    BY <1>2 DEF OpenScreen
  <2>2. u.open = <<s>>
    BY <1>1, <1>2, OpenIs
  <2> QED
    BY <2>1, <2>2, CloseAllModalsEffect
<1>3. CASE ~again
  <2>1. x = Shown([Hidden(closed, "dash") EXCEPT !.open = Append(RemoveFirst(@, s), s)], s)
    BY <1>3 DEF OpenScreen
  <2>2. FacesChange(u, closed) /\ closed.open = <<>>
    BY CloseAllModalsEffect, CloseScreenEffect
  <2>3. Fits(closed)
    BY <2>2 DEF FacesChange
  <2> HIDE DEF closed, x
  <2>4. FacesChange(closed, x) /\ x.open = <<s>>
    BY <2>1, <2>2, <2>3, OpenOverDash
  <2> QED
    BY <2>2, <2>4, ChangeFurther DEF x
<1> QED
  BY <1>2, <1>3

(* Home closes whatever is open.                                           *)
LEMMA HomeEffect ==
  ASSUME NEW u, Fits(u), om \in [printing : BOOLEAN, job : BOOLEAN]
  PROVE  LET x == Home(u)
         IN  FacesChange(u, x) /\ x.open = <<>>
<1> DEFINE a == CloseAllModals(u)
           x == Home(u)
<1>1. FacesChange(u, a) /\ a.open = u.open /\ a.hidden = u.hidden /\ Fits(a)
  BY CloseAllModalsEffect DEF FacesChange
<1> HIDE DEF a
<1>2. CASE u.open # <<>>
  <2>1. CurrentScreen(u) = CurrentScreen(a)
    BY <1>1 DEF CurrentScreen
  <2>2. x = CloseScreen(a, CurrentScreen(a))
    BY <1>2, <2>1 DEF Home, a
  <2>3. FacesChange(a, x) /\ x.open = <<>>
    BY <1>1, <1>2, <2>2, CloseScreenEffect
  <2> QED
    BY <1>1, <2>3, ChangeFurther
<1>3. CASE u.open = <<>>
  <2>1. x = Shown(a, "dash")
    BY <1>3 DEF Home, a
  <2>2. a \in UiType /\ FacesFit(a) /\ TabsFit(a) /\ BoundFit(a)
    BY <1>1 DEF Fits
  <2>3. "dash" \in Views /\ "dash" \in Faces
    BY Kinship
  <2> HIDE DEF x
  <2>4. /\ x \in UiType /\ SameTabs(a, x)
        /\ x.hidden = a.hidden \ {"dash"} /\ x.open = a.open
        /\ x.bound = a.bound \cup (Relatives(a, "dash") \cap Presenters)
        /\ x.status = IF "dStatus" \in Relatives(a, "dash") THEN om ELSE a.status
    BY <2>1, <2>2, <2>3, ShownEffect
  <2>5. CurrentScreen(a) = "dash"
    BY <1>1, <1>3 DEF CurrentScreen
  <2>6. x.hidden = a.hidden
    BY <2>2, <2>3, <2>4, <2>5 DEF FacesFit
  <2>7. Hears(a, x)
    BY <2>4 DEF Hears
  <2>8. "graph" \in x.bound
    BY <2>2, <2>4 DEF TabsFit
  <2>9. TabsFit(x)
    BY <2>2, <2>4, <2>6, <2>8, TabsStay
  <2>10. FacesFit(x) /\ BoundFit(x)
    BY <2>2, <2>4, <2>6 DEF FacesFit, CurrentScreen, BoundFit
  <2>11. FacesChange(a, x)
    BY <2>4, <2>7, <2>9, <2>10 DEF FacesChange, Fits
  <2> QED
    BY <1>1, <1>3, <2>4, <2>11, ChangeFurther DEF x
<1> QED
  BY <1>2, <1>3

-----------------------------------------------------------------------------
(* Handlers.                                                               *)

(* A click keeps the views fit, and what the files screen offers.          *)
Keeps(u, x) ==
    /\ ViewsFit(x) /\ Hears(u, x) /\ x.selected = u.selected
    /\ "fJobs" \in x.disabled <=> "fJobs" \in u.disabled

(* A change of the faces keeps the tabs.                                   *)
LEMMA FacesKeep ==
  ASSUME NEW u, NEW x, ViewsFit(u), FacesChange(u, x)
  PROVE  Keeps(u, x)
<1>1. CurrentTab(x, "files") = CurrentTab(u, "files")
  BY DEF FacesChange, SameTabs, CurrentTab
<1> QED
  BY <1>1 DEF Keeps, FacesChange, SameTabs, ViewsFit, JobsFit

(* The end of an animation hides a tab that is not current.                *)
LEMMA SlidOutKeeps ==
  ASSUME NEW u, ViewsFit(u), NEW tab \in AllTabs, tab \in u.leaving
  PROVE  LET x == SlidOut(u, tab) IN Keeps(u, x) /\ x.open = u.open
<1> DEFINE x == SlidOut(u, tab)
<1>1. u \in UiType /\ FacesFit(u) /\ TabsFit(u) /\ BoundFit(u) /\ JobsFit(u)
  BY DEF ViewsFit, Fits
<1> HIDE DEF x
<1>2. /\ x \in UiType
      /\ x.current = u.current /\ x.disabled = u.disabled /\ x.selected = u.selected
      /\ x.open = u.open /\ x.status = u.status
      /\ x.leaving = u.leaving \ {tab}
      /\ \A w : w \in x.hidden <=> w \in u.hidden \/ (w = tab /\ tab \in u.leaving)
      /\ x.bound \subseteq u.bound \cup {"graph"}
      /\ \A w \in u.bound : w # tab \/ tab \notin u.leaving => w \in x.bound
  BY <1>1, SlidOutEffect DEF x
<1>3. tab \notin Faces /\ tab # "graph"
  BY TabFacts
<1>4. \A t : CurrentTab(x, t) = CurrentTab(u, t)
  BY <1>2 DEF CurrentTab
<1>5. FacesFit(x)
  BY <1>1, <1>2, <1>3 DEF FacesFit, CurrentScreen
<1>6. TabsFit(x)
  BY <1>1, <1>2, <1>3, <1>4 DEF TabsFit
<1>7. BoundFit(x)
  <2>1. \A t \in TabViews : t \in Faces
    BY Tree, Kinship
  <2>2. "dash" \in Faces /\ "control" \in Faces
    BY Kinship
  <2> QED
    BY <1>1, <1>2, <1>3, <2>1, <2>2 DEF BoundFit
<1>8. JobsFit(x)
  BY <1>1, <1>2, <1>4 DEF JobsFit
<1>9. Hears(u, x)
  BY <1>2 DEF Hears
<1> QED
  BY <1>2, <1>5, <1>6, <1>7, <1>8, <1>9 DEF Keeps, ViewsFit, Fits, x

(* Another tab is shown, and the one before hidden or on its way out.      *)
LEMMA SetActiveTabKeeps ==
  ASSUME NEW u, ViewsFit(u), NEW tab \in AllTabs, tab \notin u.disabled,
         animated \in BOOLEAN, om \in [printing : BOOLEAN, job : BOOLEAN]
  PROVE  LET x == SetActiveTab(u, tab)
         IN  Keeps(u, x) /\ x.open = u.open /\ x.disabled = u.disabled
<1> DEFINE x == SetActiveTab(u, tab)
<1>1. Fits(u) /\ JobsFit(u)
  BY DEF ViewsFit
<1> HIDE DEF x
<1>2. /\ Fits(x) /\ x.open = u.open /\ x.disabled = u.disabled
      /\ x.selected = u.selected
      /\ CurrentTab(x, TabViewOf(tab)) = tab
      /\ \A t \in TabViews \ {TabViewOf(tab)} : CurrentTab(x, t) = CurrentTab(u, t)
      /\ Hears(u, x)
  BY <1>1, SetActiveTabEffect DEF x
<1>3. JobsFit(x)
  <2>1. CASE TabViewOf(tab) = "files"
    BY <1>1, <1>2, <2>1 DEF JobsFit
  <2>2. CASE TabViewOf(tab) # "files"
    BY <1>1, <1>2, <2>2, Tree DEF JobsFit
  <2> QED
    BY <2>1, <2>2
<1> QED
  BY <1>2, <1>3 DEF Keeps, ViewsFit, x

(* What the status tab displays is not part of how the views fit.          *)
LEMMA DisplayFits ==
  ASSUME NEW u, ViewsFit(u), NEW status \in [printing : BOOLEAN, job : BOOLEAN]
  PROVE  LET x == [u EXCEPT !.status = status]
         IN  /\ ViewsFit(x) /\ x.open = u.open /\ x.selected = u.selected
             /\ x.disabled = u.disabled /\ x.bound = u.bound /\ x.status = status
<1> DEFINE x == [u EXCEPT !.status = status]
<1>1. u \in UiType /\ FacesFit(u) /\ TabsFit(u) /\ BoundFit(u) /\ JobsFit(u)
  BY DEF ViewsFit, Fits
<1>2. /\ x \in UiType /\ x.hidden = u.hidden /\ x.bound = u.bound /\ x.open = u.open
      /\ x.current = u.current /\ x.leaving = u.leaving /\ x.disabled = u.disabled
      /\ x.status = status /\ x.selected = u.selected
  BY <1>1 DEF UiType
<1> HIDE DEF x
<1>3. \A t : CurrentTab(x, t) = CurrentTab(u, t)
  BY <1>2 DEF CurrentTab
<1> QED
  BY <1>1, <1>2, <1>3 DEF ViewsFit, Fits, FacesFit, CurrentScreen, TabsFit, BoundFit, JobsFit, x

(* A status that is heard disables or enables the jobs tab, and is what    *)
(* the status tab shows.                                                   *)
LEMMA NewStatusEffect ==
  ASSUME NEW u, ViewsFit(u), NEW p \in BOOLEAN,
         animated \in BOOLEAN, om \in [printing : BOOLEAN, job : BOOLEAN]
  PROVE  LET x == NewStatus(u, p)
         IN  /\ ViewsFit(x) /\ x.open = u.open /\ x.selected = u.selected
             /\ "fJobs" \in x.disabled <=> p
             /\ "dStatus" \in x.bound =>
                    /\ x.status.printing = p
                    /\ \/ x.status.job = om.job
                       \/ "dStatus" \in u.bound /\ x.status.job = u.status.job
<1> DEFINE home == DisableTab(u, "fJobs", p)
           dash == IF "dash" \in home.bound THEN DisableTab(home, "dJobs", p) ELSE home
           status == [dash.status EXCEPT !.printing = p]
           x == NewStatus(u, p)
<1>1. /\ ViewsFit(home) /\ home.open = u.open /\ home.selected = u.selected /\ Hears(u, home)
      /\ home.disabled = IF p THEN u.disabled \cup {"fJobs"} ELSE u.disabled \ {"fJobs"}
  BY DisableTabEffect
<1> HIDE DEF home
<1>2. /\ ViewsFit(dash) /\ dash.open = home.open /\ dash.selected = home.selected
      /\ Hears(home, dash)
      /\ "fJobs" \in dash.disabled <=> "fJobs" \in home.disabled
  <2>1. CASE "dash" \in home.bound
    <3> DEFINE d == DisableTab(home, "dJobs", p)
    <3>1. /\ ViewsFit(d) /\ d.open = home.open /\ d.selected = home.selected /\ Hears(home, d)
          /\ d.disabled = IF p THEN home.disabled \cup {"dJobs"} ELSE home.disabled \ {"dJobs"}
      BY <1>1, DisableTabEffect
    <3> HIDE DEF d
    <3>2. dash = d
      BY <2>1 DEF d
    <3> HIDE DEF dash
    <3> QED
      BY <3>1, <3>2
  <2>2. CASE "dash" \notin home.bound
    BY <1>1, <2>2 DEF Hears
  <2> QED
    BY <2>1, <2>2
<1> HIDE DEF dash
<1>3. dash.status \in [printing : BOOLEAN, job : BOOLEAN]
  BY <1>2 DEF ViewsFit, Fits, UiType
<1>4. status \in [printing : BOOLEAN, job : BOOLEAN] /\ status.printing = p /\ status.job = dash.status.job
  BY <1>3
<1>5. x = IF "dStatus" \in dash.bound THEN [dash EXCEPT !.status = status] ELSE dash
  BY DEF NewStatus, dash, home
<1> HIDE DEF status, x
<1>6. /\ ViewsFit(x) /\ x.open = dash.open /\ x.selected = dash.selected
      /\ x.disabled = dash.disabled /\ x.bound = dash.bound
      /\ "dStatus" \in dash.bound => x.status = status
  BY <1>2, <1>4, <1>5, DisplayFits
<1>7. "fJobs" \in home.disabled <=> p
  BY <1>1
<1>8. "dStatus" \in dash.bound =>
         \/ dash.status.job = om.job
         \/ "dStatus" \in u.bound /\ dash.status.job = u.status.job
  BY <1>1, <1>2 DEF Hears
<1>9. "dStatus" \in x.bound => x.status.printing = p /\ x.status.job = dash.status.job
  BY <1>4, <1>6
<1> QED
  BY <1>1, <1>2, <1>6, <1>7, <1>8, <1>9 DEF x

(* So is the name of a job.                                                *)
LEMMA NewJobFileNameEffect ==
  ASSUME NEW u, ViewsFit(u), NEW job \in BOOLEAN,
         animated \in BOOLEAN, om \in [printing : BOOLEAN, job : BOOLEAN]
  PROVE  LET x == NewJobFileName(u, job)
         IN  /\ ViewsFit(x) /\ x.open = u.open /\ x.selected = u.selected
             /\ x.disabled = u.disabled
             /\ "dStatus" \in x.bound =>
                    /\ x.status.job = job
                    /\ \/ x.status.printing = om.printing
                       \/ "dStatus" \in u.bound /\ x.status.printing = u.status.printing
<1> DEFINE dash == IF "dash" \in u.bound /\ job THEN SetActiveTab(u, "dStatus") ELSE u
           status == [dash.status EXCEPT !.job = job]
           x == NewJobFileName(u, job)
<1>1. "dStatus" \in AllTabs /\ "dStatus" \notin u.disabled
  BY Tree DEF DashTabs, ViewsFit, JobsFit
<1>2. /\ ViewsFit(dash) /\ dash.open = u.open /\ dash.selected = u.selected
      /\ Hears(u, dash) /\ dash.disabled = u.disabled
  <2>1. CASE "dash" \in u.bound /\ job
    <3> DEFINE d == SetActiveTab(u, "dStatus")
    <3>1. Keeps(u, d) /\ d.open = u.open /\ d.disabled = u.disabled
      BY <1>1, SetActiveTabKeeps
    <3> HIDE DEF d
    <3>2. dash = d
      BY <2>1 DEF d
    <3> HIDE DEF dash
    <3> QED
      BY <3>1, <3>2 DEF Keeps
  <2>2. CASE ~("dash" \in u.bound /\ job)
    BY <2>2 DEF Hears
  <2> QED
    BY <2>1, <2>2
<1> HIDE DEF dash
<1>3. dash.status \in [printing : BOOLEAN, job : BOOLEAN]
  BY <1>2 DEF ViewsFit, Fits, UiType
<1>4. status \in [printing : BOOLEAN, job : BOOLEAN] /\ status.job = job /\ status.printing = dash.status.printing
  BY <1>3
<1>5. x = IF "dStatus" \in dash.bound THEN [dash EXCEPT !.status = status] ELSE dash
  BY DEF NewJobFileName, dash
<1> HIDE DEF status, x
<1>6. /\ ViewsFit(x) /\ x.open = dash.open /\ x.selected = dash.selected
      /\ x.disabled = dash.disabled /\ x.bound = dash.bound
      /\ "dStatus" \in dash.bound => x.status = status
  BY <1>2, <1>4, <1>5, DisplayFits
<1>7. "dStatus" \in dash.bound =>
         \/ dash.status.printing = om.printing
         \/ "dStatus" \in u.bound /\ dash.status.printing = u.status.printing
  BY <1>2 DEF Hears
<1>8. "dStatus" \in x.bound => x.status.job = job /\ x.status.printing = dash.status.printing
  BY <1>4, <1>6
<1> QED
  BY <1>2, <1>6, <1>7, <1>8 DEF x

-----------------------------------------------------------------------------
(* The queue of events.                                                    *)

Waits(type) == \E i \in DOMAIN events : events[i].type = type

(* An event that is posted is the last of its kind.                        *)
LEMMA Posted ==
  ASSUME Types, NEW e \in EventType, events' = Append(events, e)
  PROVE  /\ events' \in Seq(EventType)
         /\ \A type : Waits(type)' <=> Waits(type) \/ e.type = type
         /\ \A i : IsLast(i)' =>
                \/ events'[i] = e
                \/ IsLast(i) /\ events'[i] = events[i] /\ events[i].type # e.type
<1> DEFINE n == Len(events)
<1>1. events \in Seq(EventType) /\ n \in Nat /\ DOMAIN events = 1..n
  BY DEF Types
<1>2. /\ events' \in Seq(EventType) /\ Len(events') = n + 1 /\ DOMAIN events' = 1..(n + 1)
      /\ events'[n + 1] = e /\ \A i \in 1..n : events'[i] = events[i]
  BY <1>1
<1> HIDE DEF n
<1>4. \A i : i \in 1..(n + 1) <=> i \in 1..n \/ i = n + 1
  BY <1>1
<1>5. \A type : Waits(type)' <=> Waits(type) \/ e.type = type
  BY <1>1, <1>2, <1>4 DEF Waits
<1>6. ASSUME NEW i, IsLast(i)', i # n + 1
      PROVE  IsLast(i) /\ events'[i] = events[i] /\ events[i].type # e.type
  <2>1. i \in 1..n /\ events'[i] = events[i]
    BY <1>2, <1>4, <1>6 DEF IsLast
  <2>2. n + 1 > i /\ n + 1 \in DOMAIN events'
    BY <1>1, <1>2, <2>1
  <2>3. events[i].type # e.type
    BY <1>2, <1>6, <2>1, <2>2 DEF IsLast
  <2>4. \A j \in 1..n : j > i => events[j].type # events[i].type
    BY <1>2, <1>4, <1>6, <2>1 DEF IsLast
  <2> QED
    BY <1>1, <2>1, <2>3, <2>4 DEF IsLast
<1> QED
  BY <1>2, <1>5, <1>6

(* An event that is taken was the first; the last of a kind stays it.      *)
LEMMA Taken ==
  ASSUME Types, events # <<>>, events' = Tail(events)
  PROVE  /\ events' \in Seq(EventType)
         /\ Head(events) = events[1] /\ Head(events) \in EventType /\ 1 \in DOMAIN events
         /\ \A type : Waits(type) <=> Waits(type)' \/ events[1].type = type
         /\ \A i : IsLast(i)' => IsLast(i + 1) /\ events'[i] = events[i + 1]
         /\ \A type : events[1].type = type /\ ~Waits(type)' => IsLast(1)
<1> DEFINE n == Len(events)
<1>1. events \in Seq(EventType) /\ n \in Nat /\ n >= 1 /\ DOMAIN events = 1..n
  BY DEF Types
<1>2. /\ events' \in Seq(EventType) /\ Len(events') = n - 1 /\ DOMAIN events' = 1..(n - 1)
      /\ \A i \in 1..(n - 1) : events'[i] = events[i + 1]
  BY <1>1
<1>4. Head(events) = events[1] /\ Head(events) \in EventType
  BY <1>1
<1> HIDE DEF n
<1>5. \A i \in 1..n : i = 1 \/ (i - 1 \in 1..(n - 1) /\ (i - 1) + 1 = i)
  BY <1>1
<1>6. \A i \in 1..(n - 1) : i + 1 \in 1..n /\ i + 1 > 1
  BY <1>1
<1>7. ASSUME NEW type
      PROVE  Waits(type) <=> Waits(type)' \/ events[1].type = type
  <2>1. ASSUME Waits(type), events[1].type # type
        PROVE  Waits(type)'
    <3>1. PICK i \in 1..n : events[i].type = type
      BY <1>1, <2>1 DEF Waits
    <3>2. i - 1 \in 1..(n - 1) /\ events'[i - 1] = events[i]
      BY <1>2, <1>5, <2>1, <3>1
    <3> QED
      BY <1>2, <3>1, <3>2 DEF Waits
  <2>2. ASSUME Waits(type)'
        PROVE  Waits(type)
    BY <1>1, <1>2, <1>6, <2>2 DEF Waits
  <2>3. 1 \in DOMAIN events
    BY <1>1
  <2> QED
    BY <2>1, <2>2, <2>3 DEF Waits
<1>8. ASSUME NEW i, IsLast(i)'
      PROVE  IsLast(i + 1) /\ events'[i] = events[i + 1]
  <2>1. i \in 1..(n - 1) /\ events'[i] = events[i + 1]
    BY <1>2, <1>8 DEF IsLast
  <2>2. ASSUME NEW j \in 1..n, j > i + 1
        PROVE  events[j].type # events[i + 1].type
    <3>1. j - 1 \in 1..(n - 1) /\ j - 1 > i /\ events'[j - 1] = events[j]
      BY <1>1, <1>2, <1>5, <2>1, <2>2
    <3> QED
      BY <1>2, <1>8, <2>1, <3>1 DEF IsLast
  <2> QED
    BY <1>1, <1>6, <2>1, <2>2 DEF IsLast
<1>9. ASSUME NEW type, events[1].type = type, ~Waits(type)'
      PROVE  IsLast(1)
  <2>1. ASSUME NEW j \in 1..n, j > 1
        PROVE  events[j].type # events[1].type
    <3>1. j - 1 \in 1..(n - 1) /\ events'[j - 1] = events[j]
      BY <1>1, <1>2, <1>5, <2>1
    <3> QED
      BY <1>2, <1>9, <3>1 DEF Waits
  <2> QED
    BY <1>1, <2>1 DEF IsLast
<1>10. 1 \in DOMAIN events
  BY <1>1
<1> QED
  BY <1>2, <1>4, <1>7, <1>8, <1>9, <1>10

(* What an event carries.                                                  *)
LEMMA EventTypes ==
  ASSUME NEW e \in EventType
  PROVE  /\ e.type \in {"status", "job", "screen"}
         /\ e.type = "status" => e.printing \in BOOLEAN
         /\ e.type = "job" => e.job \in BOOLEAN
         /\ e.type = "screen" => e.screen \in Faces
BY DEF EventType

(* News is under way while its event waits or is about to be posted.       *)
LEMMA UnderwayIs ==
  /\ Underway("status") <=> Waits("status") \/ StatusComes
  /\ Underway("job") <=> Waits("job") \/ JobComes
  /\ Underway("screen") <=> Waits("screen")
BY DEF Underway, Waits, StatusComes, JobComes

-----------------------------------------------------------------------------
(* The invariant.                                                          *)

(* At the start the dashboard is shown.                                    *)
LEMMA InitInv == Init => ScreensInv
<1> SUFFICES ASSUME Init PROVE ScreensInv
  OBVIOUS
<1>1. /\ animated \in BOOLEAN /\ om = [printing |-> FALSE, job |-> FALSE]
      /\ posting = [p \in Posters |-> Away] /\ overtaken = FALSE /\ events = <<>>
  BY DEF Init, Idle
<1>2. /\ ui.hidden = {"files", "control", "dMacros", "dStatus", "fJobs"}
      /\ ui.bound = {"dash", "graph", "dJobs"} /\ ui.open = <<>>
      /\ ui.current = [t \in TabViews |-> 1] /\ ui.disabled = {} /\ ui.leaving = {}
      /\ ui.asking = NoScreen /\ ui.status = [printing |-> FALSE, job |-> FALSE]
      /\ ui.selected = "dash"
  BY DEF Init, Idle, Screens
<1>3. Types
  <2>1. Away \in PosterType
    BY DEF PosterType, Away
  <2>2. posting \in [Posters -> PosterType]
    BY <1>1, <2>1
  <2>3. events \in Seq(EventType)
    BY <1>1
  <2> QED
    BY ONLY <1>1, <2>2, <2>3 DEF Types
<1>4. ui \in UiType
  <2>1. ui.hidden \subseteq Views /\ ui.bound \subseteq Presenters /\ ui.selected \in Faces
    BY <1>2, Kinship DEF DashTabs, FilesTabs
  <2>2. ui = [hidden |-> ui.hidden, bound |-> ui.bound, open |-> <<>>,
              current |-> ui.current, disabled |-> {}, leaving |-> {},
              asking |-> NoScreen, status |-> ui.status, selected |-> ui.selected]
    BY DEF Init
  <2>3. ui.current \in [TabViews -> 1..3]
    BY <1>2
  <2>4. ui.status \in [printing : BOOLEAN, job : BOOLEAN]
    BY <1>2
  <2> QED
    BY <2>1, <2>2, <2>3, <2>4 DEF UiType
<1>5. FacesFit(ui) /\ CurrentScreen(ui) = "dash"
  BY <1>2, Kinship DEF FacesFit, CurrentScreen
<1>6. CurrentTab(ui, "dash") = "dJobs" /\ CurrentTab(ui, "files") = "fMacros"
  BY <1>2, Tree, Numbers DEF CurrentTab
<1>7. TabsFit(ui)
  BY <1>2, <1>6, Tree DEF TabsFit, DashTabs, FilesTabs
<1>8. BoundFit(ui)
  BY <1>2, Tree DEF BoundFit, DashTabs, FilesTabs
<1>9. JobsFit(ui)
  BY <1>2 DEF JobsFit
<1>10. NewsFit
  BY <1>1 DEF NewsFit, IsLast
<1>11. HeardFit
  BY <1>1, <1>2, <1>5 DEF HeardFit
<1>12. HeldFit
  BY <1>1 DEF HeldFit, At, Away
<1> QED
  BY <1>3, <1>4, <1>5, <1>7, <1>8, <1>9, <1>10, <1>11, <1>12 DEF ScreensInv, ViewsFit, Fits

(* How the views fit depends on the record and on animated.                *)
LEMMA FitsNext ==
  ASSUME animated' = animated, ViewsFit(ui')
  PROVE  ViewsFit(ui)'
BY DEF ViewsFit, Fits, FacesFit, CurrentScreen, TabsFit, CurrentTab, BoundFit, JobsFit

(* The current screen is the open one.                                     *)
LEMMA CurrentScreenNext == ASSUME ui'.open = ui.open PROVE CurrentScreen(ui)' = CurrentScreen(ui)
BY DEF CurrentScreen

(* Only the threads move: what is shown and what waits stay.               *)
ThreadsMove ==
    /\ UNCHANGED <<animated, events, ui>>
    /\ om' \in [printing : BOOLEAN, job : BOOLEAN]
    /\ posting' \in [Posters -> PosterType]
    /\ overtaken' \in BOOLEAN

(* News that is not on its way after such a step was not before, and then  *)
(* the model has not changed.                                              *)
LEMMA ThreadsKeep ==
  ASSUME ScreensInv, ThreadsMove, HeldFit',
         ~StatusComes' /\ ~overtaken' =>
             ~StatusComes /\ ~overtaken /\ om'.printing = om.printing,
         ~JobComes' => ~JobComes /\ om'.job = om.job
  PROVE  ScreensInv'
<1>1. /\ Types /\ ViewsFit(ui) /\ NewsFit /\ HeardFit
  BY DEF ScreensInv
<1>2. animated' = animated /\ events' = events /\ ui' = ui
  BY DEF ThreadsMove
<1>3. Types'
  BY <1>1, <1>2 DEF Types, ThreadsMove
<1>4. ViewsFit(ui)'
  BY <1>1, <1>2, FitsNext
<1>5. CurrentScreen(ui)' = CurrentScreen(ui)
  BY <1>2, CurrentScreenNext
<1>6. \A type : Waits(type)' <=> Waits(type)
  BY <1>2 DEF Waits
<1>7. /\ Underway("status")' <=> Waits("status") \/ StatusComes'
      /\ Underway("job")' <=> Waits("job") \/ JobComes'
      /\ Underway("screen")' <=> Waits("screen")
  <2>1. UnderwayIs!1' /\ UnderwayIs!2' /\ UnderwayIs!3'
    BY UnderwayIs, PTL
  <2> QED
    BY <1>6, <2>1
<1>8. NewsFit'
  BY <1>1, <1>2, <1>5 DEF NewsFit, IsLast
<1>9. HeardFit'
  BY <1>1, <1>2, <1>5, <1>7, UnderwayIs DEF HeardFit, StatusUnsure
<1> QED
  BY <1>3, <1>4, <1>8, <1>9 DEF ScreensInv

(* The stages of the threads after one of them has moved.                  *)
LEMMA Moved ==
  ASSUME Types, NEW p \in Posters, NEW x \in PosterType, posting' = [posting EXCEPT ![p] = x]
  PROVE  /\ posting' \in [Posters -> PosterType]
         /\ posting'[p] = x
         /\ \A q \in Posters : q # p => posting'[q] = posting[q]
BY DEF Types

(* What a thread is made of.                                               *)
LEMMA Stages ==
  ASSUME NEW stage \in {"away", "unchanged", "set", "read", "named"}, NEW b \in BOOLEAN
  PROVE  /\ [stage |-> stage, printing |-> b] \in PosterType
         /\ Away \in PosterType /\ Away.stage = "away"
BY DEF PosterType, Away

(* A thread that sets the status owes an event.  Who holds an older one    *)
(* overtakes it.                                                           *)
LEMMA SetStatusKeeps ==
  ASSUME ScreensInv, NEW p \in Posters, NEW b \in BOOLEAN, SetStatus(p, b)
  PROVE  ScreensInv'
<1> DEFINE x == [stage |-> "set", printing |-> FALSE]
<1>1. Types /\ HeldFit
  BY DEF ScreensInv
<1>2. /\ om' = [om EXCEPT !.printing = b] /\ posting' = [posting EXCEPT ![p] = x]
      /\ posting[p] = Away /\ UNCHANGED <<animated, events, ui>>
      /\ overtaken' = (\E q \in Posters : At(q, "read") /\ posting[q].printing # b)
  BY DEF SetStatus, Goes
<1>3. /\ posting' \in [Posters -> PosterType] /\ posting'[p] = x
      /\ \A q \in Posters : q # p => posting'[q] = posting[q]
  <2>1. x \in PosterType
    BY Stages
  <2> HIDE DEF x
  <2> QED
    BY <1>1, <1>2, <2>1, Moved
<1>4. /\ om' \in [printing : BOOLEAN, job : BOOLEAN] /\ om'.job = om.job /\ om'.printing = b
      /\ overtaken' \in BOOLEAN
  BY <1>1, <1>2 DEF Types
<1>5. StatusComes' /\ (~JobComes' => ~JobComes)
  BY <1>2, <1>3, Stages DEF StatusComes, JobComes, At
<1>6. HeldFit'
  BY <1>1, <1>2, <1>3, <1>4, Stages DEF HeldFit, At
<1> QED
  BY <1>2, <1>3, <1>4, <1>5, <1>6, ThreadsKeep DEF ThreadsMove

(* A thread that finds the status unchanged.                               *)
LEMMA FindUnchangedKeeps ==
  ASSUME ScreensInv, NEW p \in Posters, FindUnchanged(p)
  PROVE  ScreensInv'
<1> DEFINE x == [stage |-> "unchanged", printing |-> om.printing]
<1>1. Types /\ HeldFit
  BY DEF ScreensInv
<1>2. /\ om' = om /\ overtaken' = overtaken /\ posting' = [posting EXCEPT ![p] = x]
      /\ posting[p] = Away /\ UNCHANGED <<animated, events, ui>>
  BY DEF FindUnchanged, Goes
<1>3. om \in [printing : BOOLEAN, job : BOOLEAN] /\ overtaken \in BOOLEAN
  BY <1>1 DEF Types
<1>4. /\ posting' \in [Posters -> PosterType] /\ posting'[p] = x
      /\ \A q \in Posters : q # p => posting'[q] = posting[q]
  <2>1. x \in PosterType
    BY <1>3, Stages
  <2> HIDE DEF x
  <2> QED
    BY <1>1, <1>2, <2>1, Moved
<1>5. (~StatusComes' => ~StatusComes) /\ (~JobComes' => ~JobComes)
  BY <1>2, <1>4, Stages DEF StatusComes, JobComes, At
<1>6. HeldFit'
  BY <1>1, <1>2, <1>4 DEF HeldFit, At
<1> QED
  BY <1>2, <1>3, <1>4, <1>5, <1>6, ThreadsKeep DEF ThreadsMove

(* What it sets then is what is there already, or overtakes it.            *)
LEMMA SetUnchangedKeeps ==
  ASSUME ScreensInv, NEW p \in Posters, SetUnchanged(p)
  PROVE  ScreensInv'
<1> DEFINE b == posting[p].printing
<1>1. Types /\ HeldFit
  BY DEF ScreensInv
<1>2. /\ om' = [om EXCEPT !.printing = b] /\ posting' = [posting EXCEPT ![p] = Away]
      /\ At(p, "unchanged") /\ UNCHANGED <<animated, events, ui>>
      /\ overtaken' = (overtaken \/ om.printing # b)
  BY DEF SetUnchanged
<1>3. b \in BOOLEAN
  BY <1>1 DEF Types, PosterType
<1> HIDE DEF b
<1>4. /\ posting' \in [Posters -> PosterType] /\ posting'[p] = Away
      /\ \A q \in Posters : q # p => posting'[q] = posting[q]
  BY <1>1, <1>2, Stages, Moved
<1>5. /\ om' \in [printing : BOOLEAN, job : BOOLEAN] /\ om'.job = om.job /\ om'.printing = b
      /\ overtaken' \in BOOLEAN
  BY <1>1, <1>2, <1>3 DEF Types
<1>6. (~StatusComes' => ~StatusComes) /\ (~JobComes' => ~JobComes)
  BY <1>2, <1>4 DEF StatusComes, JobComes, At
<1>7. HeldFit'
  BY <1>1, <1>2, <1>4, <1>5, Stages DEF HeldFit, At, b
<1>8. ~overtaken' => ~overtaken /\ om'.printing = om.printing
  BY <1>2, <1>5
<1> QED
  BY <1>2, <1>4, <1>5, <1>6, <1>7, <1>8, ThreadsKeep DEF ThreadsMove

(* What a thread reads is the status.                                      *)
LEMMA ReadStatusKeeps ==
  ASSUME ScreensInv, NEW p \in Posters, ReadStatus(p)
  PROVE  ScreensInv'
<1> DEFINE x == [stage |-> "read", printing |-> om.printing]
<1>1. Types /\ HeldFit
  BY DEF ScreensInv
<1>2. /\ om' = om /\ overtaken' = overtaken /\ posting' = [posting EXCEPT ![p] = x]
      /\ At(p, "set") /\ UNCHANGED <<animated, events, ui>>
  BY DEF ReadStatus, Goes
<1>3. om \in [printing : BOOLEAN, job : BOOLEAN] /\ overtaken \in BOOLEAN
  BY <1>1 DEF Types
<1>4. /\ posting' \in [Posters -> PosterType] /\ posting'[p] = x
      /\ \A q \in Posters : q # p => posting'[q] = posting[q]
  <2>1. x \in PosterType
    BY <1>3, Stages
  <2> HIDE DEF x
  <2> QED
    BY <1>1, <1>2, <2>1, Moved
<1>5. StatusComes' /\ (~JobComes' => ~JobComes)
  BY <1>2, <1>4 DEF StatusComes, JobComes, At
<1>6. HeldFit'
  BY <1>1, <1>2, <1>4 DEF HeldFit, At
<1> QED
  BY <1>2, <1>3, <1>4, <1>5, <1>6, ThreadsKeep DEF ThreadsMove

(* The name of the job is set before it is posted.                         *)
LEMMA SetJobNameKeeps ==
  ASSUME ScreensInv, NEW p \in Posters, NEW b \in BOOLEAN, SetJobName(p, b)
  PROVE  ScreensInv'
<1> DEFINE x == [stage |-> "named", printing |-> FALSE]
<1>1. Types /\ HeldFit
  BY DEF ScreensInv
<1>2. /\ om' = [om EXCEPT !.job = b] /\ overtaken' = overtaken /\ posting' = [posting EXCEPT ![p] = x]
      /\ posting[p] = Away /\ UNCHANGED <<animated, events, ui>>
  BY DEF SetJobName, Goes
<1>3. /\ posting' \in [Posters -> PosterType] /\ posting'[p] = x
      /\ \A q \in Posters : q # p => posting'[q] = posting[q]
  <2>1. x \in PosterType
    BY Stages
  <2> HIDE DEF x
  <2> QED
    BY <1>1, <1>2, <2>1, Moved
<1>4. /\ om' \in [printing : BOOLEAN, job : BOOLEAN] /\ om'.printing = om.printing
      /\ overtaken' \in BOOLEAN
  BY <1>1, <1>2 DEF Types
<1>5. JobComes' /\ (~StatusComes' => ~StatusComes)
  BY <1>2, <1>3, Stages DEF StatusComes, JobComes, At
<1>6. HeldFit'
  BY <1>1, <1>2, <1>3, <1>4 DEF HeldFit, At
<1> QED
  BY <1>2, <1>3, <1>4, <1>5, <1>6, ThreadsKeep DEF ThreadsMove

(* A thread enqueues the event e and is away: e has the news if nobody     *)
(* else is about to post it.                                               *)
LEMMA PostKeeps ==
  ASSUME ScreensInv, NEW p \in Posters, NEW e \in EventType,
         e.type \in {"status", "job"},
         posting' = [posting EXCEPT ![p] = Away],
         UNCHANGED <<animated, om, overtaken, ui>>, events' = Append(events, e),
         e.type = "status" => At(p, "read") /\ (~overtaken => e.printing = om.printing),
         e.type = "job" => At(p, "named") /\ e.job = om.job
  PROVE  ScreensInv'
<1>1. /\ Types /\ ViewsFit(ui) /\ HeldFit /\ NewsFit /\ HeardFit
  BY DEF ScreensInv
<1>2. animated' = animated /\ om' = om /\ overtaken' = overtaken /\ ui' = ui
  OBVIOUS
<1>3. /\ posting' \in [Posters -> PosterType] /\ posting'[p] = Away
      /\ \A q \in Posters : q # p => posting'[q] = posting[q]
  BY <1>1, Stages, Moved
<1>4. /\ e.type # "status" => (StatusComes' <=> StatusComes)
      /\ e.type # "job" => (JobComes' <=> JobComes)
  BY <1>3, Stages DEF StatusComes, JobComes, At
<1>5. /\ events' \in Seq(EventType)
      /\ \A type : Waits(type)' <=> Waits(type) \/ e.type = type
      /\ \A i : IsLast(i)' =>
             \/ events'[i] = e
             \/ IsLast(i) /\ events'[i] = events[i] /\ events[i].type # e.type
  BY <1>1, Posted
<1>6. Types'
  BY <1>1, <1>2, <1>3, <1>5 DEF Types
<1>7. ViewsFit(ui)'
  BY <1>1, <1>2, FitsNext
<1>8. CurrentScreen(ui)' = CurrentScreen(ui)
  BY <1>2, CurrentScreenNext
<1>9. HeldFit'
  <2>1. posting'[p].stage = "away"
    BY <1>3 DEF Away
  <2>2. \A q \in Posters : posting'[q].stage \in {"read", "unchanged"} => posting'[q] = posting[q]
    BY <1>3, <2>1
  <2> QED
    BY <1>1, <1>2, <2>2 DEF HeldFit, At
<1>10. NewsFit'
  <2> SUFFICES ASSUME NEW i \in DOMAIN events', IsLast(i)'
               PROVE  /\ events'[i].type = "status" /\ ~StatusComes' /\ ~overtaken' => events'[i].printing = om'.printing
                      /\ events'[i].type = "job" /\ ~JobComes' => events'[i].job = om'.job
                      /\ events'[i].type = "screen" => events'[i].screen = CurrentScreen(ui)'
    BY DEF NewsFit
  <2>1. CASE events'[i] = e
    BY <1>2, <2>1
  <2>2. CASE IsLast(i) /\ events'[i] = events[i] /\ events[i].type # e.type
    BY <1>1, <1>2, <1>4, <1>8, <2>2 DEF NewsFit, IsLast
  <2> QED
    BY <1>5, <2>1, <2>2
<1>11. /\ Underway("status")' <=> Waits("status")' \/ StatusComes'
       /\ Underway("job")' <=> Waits("job")' \/ JobComes'
       /\ Underway("screen")' <=> Waits("screen")'
  BY UnderwayIs, PTL
<1>12. HeardFit'
  <2>1. Waits("screen")' <=> Waits("screen")
    BY <1>5
  <2>2. /\ ~Underway("status")' => ~Underway("status")
        /\ ~Underway("job")' => ~Underway("job")
        /\ ~Underway("screen")' => ~Underway("screen")
    BY <1>4, <1>5, <1>11, <2>1, UnderwayIs
  <2> QED
    BY <1>1, <1>2, <1>8, <2>2 DEF HeardFit, StatusUnsure
<1> QED
  BY <1>6, <1>7, <1>9, <1>10, <1>12 DEF ScreensInv

(* The status that is posted is the one that was read.                     *)
LEMMA PostStatusKeeps ==
  ASSUME ScreensInv, NEW p \in Posters, PostStatus(p)
  PROVE  ScreensInv'
<1> DEFINE e == [type |-> "status", printing |-> posting[p].printing]
<1>1. Types /\ HeldFit
  BY DEF ScreensInv
<1>2. /\ At(p, "read") /\ posting' = [posting EXCEPT ![p] = Away]
      /\ events' = Append(events, e) /\ UNCHANGED <<animated, om, overtaken, ui>>
  BY DEF PostStatus, Post
<1>3. posting[p].printing \in BOOLEAN
  BY <1>1 DEF Types, PosterType
<1>4. /\ e \in EventType /\ e.type = "status"
      /\ ~overtaken => e.printing = om.printing
  BY <1>1, <1>2, <1>3 DEF EventType, HeldFit
<1> HIDE DEF e
<1> QED
  BY <1>2, <1>4, PostKeeps

(* The name that is posted is the one that was set.                        *)
LEMMA PostJobNameKeeps ==
  ASSUME ScreensInv, NEW p \in Posters, PostJobName(p)
  PROVE  ScreensInv'
<1> DEFINE e == [type |-> "job", job |-> om.job]
<1>1. Types
  BY DEF ScreensInv
<1>2. /\ At(p, "named") /\ posting' = [posting EXCEPT ![p] = Away]
      /\ events' = Append(events, e) /\ UNCHANGED <<animated, om, overtaken, ui>>
  BY DEF PostJobName, Post
<1>3. e \in EventType /\ e.type = "job" /\ e.job = om.job
  BY <1>1 DEF Types, EventType
<1> HIDE DEF e
<1> QED
  BY <1>2, <1>3, PostKeeps

(* Where the threads are is left alone.                                    *)
LEMMA HeldNext ==
  ASSUME HeldFit, om' = om, posting' = posting, overtaken' = overtaken
  PROVE  HeldFit'
BY DEF HeldFit, At

(* The handler of the event at the head: it was the news if no other of    *)
(* its type is on the way.                                                 *)
HeadIsNews ==
    LET e == events[1]
    IN  /\ e.type = "status" /\ ~StatusUnsure' => e.printing = om.printing
        /\ e.type = "job" /\ ~Underway("job")' => e.job = om.job
        /\ e.type = "screen" /\ ~Underway("screen")' => e.screen = CurrentScreen(ui)

(* An event that is heard is old, or it is the news.                       *)
LEMMA DispatchKeeps ==
  ASSUME ScreensInv, Dispatch
  PROVE  ScreensInv'
<1> DEFINE e == events[1]
<1>1. /\ Types /\ ViewsFit(ui) /\ HeldFit /\ NewsFit /\ HeardFit
  BY DEF ScreensInv
<1>2. /\ events # <<>> /\ events' = Tail(events) /\ ui' = Handled(Head(events))
      /\ animated' = animated /\ om' = om /\ posting' = posting /\ overtaken' = overtaken
  BY DEF Dispatch
<1>3. /\ events' \in Seq(EventType)
      /\ Head(events) = e /\ e \in EventType /\ 1 \in DOMAIN events
      /\ \A type : Waits(type) <=> Waits(type)' \/ e.type = type
      /\ \A i : IsLast(i)' => IsLast(i + 1) /\ events'[i] = events[i + 1]
      /\ \A type : e.type = type /\ ~Waits(type)' => IsLast(1)
  BY <1>1, <1>2, Taken
<1>4. animated \in BOOLEAN /\ om \in [printing : BOOLEAN, job : BOOLEAN]
  BY <1>1 DEF Types
<1>5. Types'
  BY <1>1, <1>2, <1>3 DEF Types
<1>6. HeadIsNews
  <2>1. ASSUME IsLast(1)
        PROVE  /\ e.type = "status" /\ ~StatusComes /\ ~overtaken => e.printing = om.printing
               /\ e.type = "job" /\ ~JobComes => e.job = om.job
               /\ e.type = "screen" => e.screen = CurrentScreen(ui)
    BY <1>1, <1>3, <2>1 DEF NewsFit
  <2>3. ~StatusUnsure' => ~Waits("status")' /\ ~StatusComes /\ ~overtaken
    BY <1>2 DEF StatusUnsure, Underway, Waits, StatusComes, At
  <2>4. ~Underway("job")' => ~Waits("job")' /\ ~JobComes
    BY <1>2 DEF Underway, Waits, JobComes, At
  <2>5. ~Underway("screen")' => ~Waits("screen")'
    BY DEF Underway, Waits
  <2> QED
    BY <1>3, <2>1, <2>3, <2>4, <2>5 DEF HeadIsNews
<1>7. /\ e.type # "status" => (Underway("status")' <=> Underway("status"))
      /\ e.type # "job" => (Underway("job")' <=> Underway("job"))
      /\ e.type # "screen" => (Underway("screen")' <=> Underway("screen"))
      /\ e.type # "status" => (StatusUnsure' <=> StatusUnsure)
  <2>1. /\ e.type # "status" => (Waits("status")' <=> Waits("status"))
        /\ e.type # "job" => (Waits("job")' <=> Waits("job"))
        /\ e.type # "screen" => (Waits("screen")' <=> Waits("screen"))
    BY <1>3
  <2> QED
    BY <1>2, <2>1 DEF StatusUnsure, Underway, Waits, At
<1>8. ASSUME CurrentScreen(ui)' = CurrentScreen(ui)
      PROVE  NewsFit'
  BY <1>1, <1>2, <1>3, <1>8 DEF NewsFit, IsLast, StatusComes, JobComes, At
<1>9. /\ e.type \in {"status", "job", "screen"}
      /\ e.type = "status" => e.printing \in BOOLEAN
      /\ e.type = "job" => e.job \in BOOLEAN
      /\ e.type = "screen" => e.screen \in Faces
  BY <1>3, EventTypes
<1>13. HeldFit'
  BY <1>1, <1>2, HeldNext
<1> HIDE DEF e
<1>10. CASE e.type = "status"
  <2>1. ui' = NewStatus(ui, e.printing)
    BY <1>2, <1>3, <1>10 DEF Handled
  <2>2. /\ ViewsFit(ui') /\ ui'.open = ui.open /\ ui'.selected = ui.selected
        /\ "fJobs" \in ui'.disabled <=> e.printing
        /\ "dStatus" \in ui'.bound =>
               /\ ui'.status.printing = e.printing
               /\ \/ ui'.status.job = om.job
                  \/ "dStatus" \in ui.bound /\ ui'.status.job = ui.status.job
    BY <1>1, <1>4, <1>9, <1>10, <2>1, NewStatusEffect
  <2>3. ViewsFit(ui)' /\ CurrentScreen(ui)' = CurrentScreen(ui)
    BY <1>2, <2>2, FitsNext, CurrentScreenNext
  <2>4. HeardFit'
    BY <1>1, <1>2, <1>6, <1>7, <1>10, <2>2, <2>3 DEF HeardFit, HeadIsNews, e
  <2> QED
    BY <1>5, <1>13, <1>8, <2>3, <2>4 DEF ScreensInv
<1>11. CASE e.type = "job"
  <2>1. ui' = NewJobFileName(ui, e.job)
    BY <1>2, <1>3, <1>11 DEF Handled
  <2>2. /\ ViewsFit(ui') /\ ui'.open = ui.open /\ ui'.selected = ui.selected
        /\ ui'.disabled = ui.disabled
        /\ "dStatus" \in ui'.bound =>
               /\ ui'.status.job = e.job
               /\ \/ ui'.status.printing = om.printing
                  \/ "dStatus" \in ui.bound /\ ui'.status.printing = ui.status.printing
    BY <1>1, <1>4, <1>9, <1>11, <2>1, NewJobFileNameEffect
  <2>3. ViewsFit(ui)' /\ CurrentScreen(ui)' = CurrentScreen(ui)
    BY <1>2, <2>2, FitsNext, CurrentScreenNext
  <2>4. HeardFit'
    BY <1>1, <1>2, <1>6, <1>7, <1>11, <2>2, <2>3 DEF HeardFit, HeadIsNews, e
  <2> QED
    BY <1>5, <1>13, <1>8, <2>3, <2>4 DEF ScreensInv
<1>12. CASE e.type = "screen"
  <2>1. ui' = [ui EXCEPT !.selected = e.screen]
    BY <1>2, <1>3, <1>12 DEF Handled
  <2>2. ui \in UiType /\ FacesFit(ui) /\ TabsFit(ui) /\ BoundFit(ui) /\ JobsFit(ui)
    BY <1>1 DEF ViewsFit, Fits
  <2>3. /\ ui' \in UiType /\ ui'.hidden = ui.hidden /\ ui'.bound = ui.bound /\ ui'.open = ui.open
        /\ ui'.current = ui.current /\ ui'.leaving = ui.leaving /\ ui'.disabled = ui.disabled
        /\ ui'.status = ui.status /\ ui'.selected = e.screen
    BY <1>9, <1>12, <2>1, <2>2 DEF UiType
  <2>4. ViewsFit(ui') /\ CurrentScreen(ui)' = CurrentScreen(ui)
    BY <2>2, <2>3 DEF ViewsFit, Fits, FacesFit, CurrentScreen, TabsFit, CurrentTab, BoundFit, JobsFit
  <2>5. ViewsFit(ui)'
    BY <1>2, <2>4, FitsNext
  <2>6. HeardFit'
    BY <1>1, <1>2, <1>6, <1>7, <1>12, <2>3, <2>4 DEF HeardFit, HeadIsNews, e
  <2> QED
    BY <1>5, <1>13, <1>8, <2>4, <2>5, <2>6 DEF ScreensInv
<1> QED
  BY <1>9, <1>10, <1>11, <1>12

(* A click that stays on the screen, and one that navigates.               *)
LEMMA ClickKeeps ==
  ASSUME ScreensInv, NEW x, Keeps(ui, x), x.open = ui.open, Click(x), UNCHANGED events
  PROVE  ScreensInv'
<1>1. /\ Types /\ ViewsFit(ui) /\ HeldFit /\ NewsFit /\ HeardFit
  BY DEF ScreensInv
<1>2. ui' = x /\ animated' = animated /\ om' = om /\ posting' = posting /\ overtaken' = overtaken /\ events' = events
  BY DEF Click
<1>3. Types'
  BY <1>1, <1>2 DEF Types
<1>4. ViewsFit(ui)' /\ CurrentScreen(ui)' = CurrentScreen(ui)
  BY <1>2, FitsNext, CurrentScreenNext DEF Keeps
<1>5. NewsFit'
  BY <1>1, <1>2, <1>4 DEF NewsFit, IsLast, StatusComes, JobComes, At
<1>6. HeardFit'
  BY <1>1, <1>2, <1>4 DEF HeardFit, Keeps, Hears, StatusUnsure, Underway, At
<1>7. HeldFit'
  BY <1>1, <1>2, HeldNext
<1> QED
  BY <1>3, <1>4, <1>7, <1>5, <1>6 DEF ScreensInv

(* What the user opens, closes or changes leaves the events alone.         *)
LEMMA NavigateKeeps ==
  ASSUME ScreensInv, NEW x, Keeps(ui, x), Navigate(x)
  PROVE  ScreensInv'
<1> DEFINE e == NavigationEvent(x)
<1>1. /\ Types /\ ViewsFit(ui) /\ HeldFit /\ NewsFit /\ HeardFit
  BY DEF ScreensInv
<1>2. /\ ui' = x /\ animated' = animated /\ om' = om /\ posting' = posting /\ overtaken' = overtaken
      /\ events' = Append(events, e)
  BY DEF Navigate, Click, Post
<1>3. CurrentScreen(x) \in Faces
  <2>1. x \in UiType
    BY DEF Keeps, ViewsFit, Fits
  <2> QED
    BY <2>1, OpenIs DEF Faces
<1>4. e \in EventType /\ e.type = "screen" /\ e.screen = CurrentScreen(x)
  BY <1>3 DEF NavigationEvent, EventType
<1> HIDE DEF e
<1>5. /\ events' \in Seq(EventType)
      /\ \A type : Waits(type)' <=> Waits(type) \/ e.type = type
      /\ \A i : IsLast(i)' =>
             \/ events'[i] = e
             \/ IsLast(i) /\ events'[i] = events[i] /\ events[i].type # e.type
  BY <1>1, <1>2, <1>4, Posted
<1>6. Types'
  BY <1>1, <1>2, <1>5 DEF Types
<1>7. ViewsFit(ui)'
  BY <1>2, FitsNext DEF Keeps
<1>8. CurrentScreen(ui)' = CurrentScreen(x)
  BY <1>2 DEF CurrentScreen
<1>9. NewsFit'
  <2> SUFFICES ASSUME NEW i \in DOMAIN events', IsLast(i)'
               PROVE  /\ events'[i].type = "status" /\ ~StatusComes' /\ ~overtaken' => events'[i].printing = om'.printing
                      /\ events'[i].type = "job" /\ ~JobComes' => events'[i].job = om'.job
                      /\ events'[i].type = "screen" => events'[i].screen = CurrentScreen(ui)'
    BY DEF NewsFit
  <2>1. CASE events'[i] = e
    BY <1>4, <1>8, <2>1
  <2>2. CASE IsLast(i) /\ events'[i] = events[i] /\ events[i].type # e.type
    BY <1>1, <1>2, <1>4, <2>2 DEF NewsFit, IsLast, StatusComes, JobComes, At
  <2> QED
    BY <1>5, <2>1, <2>2
<1>10. HeardFit'
  <2>1. Underway("screen")' /\ (StatusUnsure' <=> StatusUnsure) /\ (Underway("job")' <=> Underway("job"))
    <3>1. Waits("screen")' /\ (Waits("status")' <=> Waits("status")) /\ (Waits("job")' <=> Waits("job"))
      BY <1>4, <1>5
    <3> QED
      BY <1>2, <3>1 DEF StatusUnsure, Underway, Waits, At
  <2> QED
    BY <1>1, <1>2, <2>1 DEF HeardFit, Keeps, Hears
<1>11. HeldFit'
  BY <1>1, <1>2, HeldNext
<1> QED
  BY <1>6, <1>11, <1>7, <1>9, <1>10 DEF ScreensInv

(* Every step keeps the invariant.                                         *)
LEMMA NextInv == ScreensInv /\ [Next]_vars => ScreensInv'
<1> SUFFICES ASSUME ScreensInv, [Next]_vars PROVE ScreensInv'
  OBVIOUS
<1>1. /\ ViewsFit(ui) /\ Fits(ui) /\ animated \in BOOLEAN /\ om \in [printing : BOOLEAN, job : BOOLEAN]
  BY DEF ScreensInv, ViewsFit, Types
<1>2. ASSUME NEW p \in Posters, NEW b \in BOOLEAN, SetStatus(p, b)
      PROVE  ScreensInv'
  BY <1>2, SetStatusKeeps
<1>3. ASSUME NEW p \in Posters, NEW b \in BOOLEAN, SetJobName(p, b)
      PROVE  ScreensInv'
  BY <1>3, SetJobNameKeeps
<1>4. ASSUME NEW p \in Posters, FindUnchanged(p) \/ SetUnchanged(p) \/ ReadStatus(p)
      PROVE  ScreensInv'
  BY <1>4, FindUnchangedKeeps, SetUnchangedKeeps, ReadStatusKeeps
<1>5. ASSUME NEW p \in Posters, PostStatus(p) \/ PostJobName(p)
      PROVE  ScreensInv'
  BY <1>5, PostStatusKeeps, PostJobNameKeeps
<1>6. CASE Dispatch
  BY <1>6, DispatchKeeps
<1>7. ASSUME NEW tab \in AllTabs, ClickTab(tab)
      PROVE  ScreensInv'
  <2> DEFINE x == SetActiveTab(ui, tab)
  <2>1. Keeps(ui, x) /\ x.open = ui.open
    BY <1>1, <1>7, SetActiveTabKeeps DEF ClickTab
  <2>2. Click(x) /\ UNCHANGED events
    BY <1>7 DEF ClickTab
  <2> HIDE DEF x
  <2> QED
    BY <2>1, <2>2, ClickKeeps
<1>8. ASSUME NEW tab \in AllTabs, SlideEnds(tab)
      PROVE  ScreensInv'
  <2> DEFINE x == SlidOut(ui, tab)
  <2>1. Keeps(ui, x) /\ x.open = ui.open
    BY <1>1, <1>8, SlidOutKeeps DEF SlideEnds
  <2>2. Click(x) /\ UNCHANGED events
    BY <1>8 DEF SlideEnds
  <2> HIDE DEF x
  <2> QED
    BY <2>1, <2>2, ClickKeeps
<1>9. ASSUME NEW tab \in AllTabs, AskStartPrint(tab)
      PROVE  ScreensInv'
  <2> DEFINE x == [ui EXCEPT !.asking = tab]
  <2>1. Navigate(x) /\ tab \in FileViews \cup {NoScreen}
    BY <1>9 DEF AskStartPrint
  <2>2. FacesChange(ui, x)
    BY <1>1, <2>1, AskingEffect
  <2> HIDE DEF x
  <2> QED
    BY <1>1, <2>1, <2>2, FacesKeep, NavigateKeeps
<1>10. ASSUME NEW s \in Screens, ClickScreen(s)
       PROVE  ScreensInv'
  <2> DEFINE x == OpenScreen(ui, s)
  <2>1. Navigate(x)
    BY <1>10 DEF ClickScreen
  <2>2. FacesChange(ui, x)
    BY <1>1, OpenScreenEffect
  <2> HIDE DEF x
  <2> QED
    BY <1>1, <2>1, <2>2, FacesKeep, NavigateKeeps
<1>11. CASE ClickHome
  <2> DEFINE x == Home(ui)
  <2>1. Navigate(x)
    BY <1>11 DEF ClickHome
  <2>2. FacesChange(ui, x)
    BY <1>1, HomeEffect
  <2> HIDE DEF x
  <2> QED
    BY <1>1, <2>1, <2>2, FacesKeep, NavigateKeeps
<1>12. CASE StartPrint
  <2> DEFINE disable == TRUE
             d == DisableTab(ui, "dJobs", disable)
             x == Home(d)
  <2>1. Navigate(x)
    BY <1>12 DEF StartPrint
  <2>2. disable \in BOOLEAN /\ disable
    OBVIOUS
  <2> HIDE DEF disable
  <2>3. /\ ViewsFit(d) /\ d.selected = ui.selected /\ Hears(ui, d)
        /\ d.disabled = ui.disabled \cup {"dJobs"}
    BY <1>1, <2>2, DisableTabEffect
  <2> HIDE DEF d
  <2>4. FacesChange(d, x)
    BY <1>1, <2>3, HomeEffect DEF ViewsFit
  <2> HIDE DEF x
  <2>5. Keeps(d, x)
    BY <2>3, <2>4, FacesKeep
  <2>6. Keeps(ui, x)
    BY <2>3, <2>5 DEF Keeps, Hears
  <2> QED
    BY <2>1, <2>6, NavigateKeeps
<1>13. CASE CloseQuestion
  <2> DEFINE x == CloseAllModals(ui)
  <2>1. Navigate(x)
    BY <1>13 DEF CloseQuestion
  <2>2. FacesChange(ui, x)
    BY <1>1, CloseAllModalsEffect
  <2> HIDE DEF x
  <2> QED
    BY <1>1, <2>1, <2>2, FacesKeep, NavigateKeeps
<1>14. CASE UNCHANGED vars
  <2>1. animated' = animated /\ om' = om /\ posting' = posting /\ overtaken' = overtaken /\ events' = events /\ ui' = ui
    BY <1>14 DEF vars
  <2>2. ViewsFit(ui)' /\ CurrentScreen(ui)' = CurrentScreen(ui)
    BY <1>1, <2>1, FitsNext, CurrentScreenNext
  <2> QED
    BY <2>1, <2>2, HeldNext
    DEF ScreensInv, Types, NewsFit, IsLast, HeardFit, StatusUnsure, Underway, StatusComes, JobComes, At
<1> QED
  BY <1>2, <1>3, <1>4, <1>5, <1>6, <1>7, <1>8, <1>9, <1>10, <1>11, <1>12, <1>13, <1>14 DEF Next

(* Every run keeps the invariant: the views fit, and what was heard is the *)
(* news unless more is on the way (View::showInner, StatusPresenter).      *)
THEOREM ScreensHold == Spec => []ScreensInv
<1>1. Init => ScreensInv
  BY InitInv
<1>2. ScreensInv /\ [Next]_vars => ScreensInv'
  BY NextInv
<1> QED
  BY <1>1, <1>2, PTL DEF Spec

-----------------------------------------------------------------------------
(* What follows.                                                           *)

(* Every variable has its type, and no sequence of clicks leaves two       *)
(* screens open (s_openScreens, Navigation.cpp).                           *)
THEOREM TypeCorrect == Spec => []TypeOK
<1>1. ScreensInv => TypeOK
  BY DEF ScreensInv, Types, EventType, ViewsFit, Fits, TypeOK
<1> QED
  BY <1>1, ScreensHold, PTL

(* One face is visible, one tab of each tab view besides those that slide  *)
(* out, and the side bar names the screen (closeScreenImpl, setActiveTab,  *)
(* setSelectedView).                                                       *)
THEOREM OneFaceSeen == Spec => []OneFace
<1>1. ScreensInv => OneFace
  <2> SUFFICES ASSUME ScreensInv PROVE OneFace
    OBVIOUS
  <2>1. ui \in UiType /\ FacesFit(ui) /\ TabsFit(ui) /\ HeardFit
    BY DEF ScreensInv, ViewsFit, Fits
  <2>2. CurrentScreen(ui) \in Faces
    BY <2>1, OpenIs DEF Faces
  <2>3. {f \in Faces : IsVisible(ui, f)} = {CurrentScreen(ui)}
    BY <2>1, <2>2 DEF FacesFit, IsVisible
  <2>4. ASSUME NEW t \in TabViews
        PROVE  {tab \in TabsOf(t) : IsVisible(ui, tab)} \ ui.leaving = {CurrentTab(ui, t)}
    BY <2>1 DEF TabsFit, IsVisible
  <2> QED
    BY <2>1, <2>3, <2>4 DEF OneFace, HeardFit
<1> QED
  BY <1>1, ScreensHold, PTL

(* What is seen is bound, and the status tab that is seen is current       *)
(* (View::showInner, StatusPresenter::onActivate, SetStatus).              *)
THEOREM SeenAreCurrent == Spec => []SeenIsCurrent
<1>1. ScreensInv => SeenIsCurrent
  <2> SUFFICES ASSUME ScreensInv PROVE SeenIsCurrent
    OBVIOUS
  <2>1. TabsFit(ui) /\ BoundFit(ui) /\ HeardFit
    BY DEF ScreensInv, ViewsFit, Fits
  <2>2. ASSUME NEW v \in Presenters, OnScreen(ui, v)
        PROVE  v \in ui.bound
    <3>1. CASE v \in Faces
      BY <2>1, <2>2, <3>1, Kinship DEF BoundFit, OnScreen, IsVisible
    <3>2. CASE v = "graph"
      BY <2>1, <3>2 DEF TabsFit
    <3>3. CASE v \in AllTabs
      <4>1. PICK p \in Faces : v \in Children(p) /\ p \notin ui.hidden /\ v \notin ui.hidden
        BY <2>2, <3>3, TabFacts DEF OnScreen, IsRoot, IsVisible
      <4>2. p \in TabViews /\ v \in TabsOf(p)
        BY <3>3, <4>1, Tree, Kinship DEF DashTabs, FilesTabs
      <4> QED
        BY <2>1, <4>1, <4>2 DEF BoundFit
    <3> QED
      BY <3>1, <3>2, <3>3, Tree, Kinship
  <2>3. "dStatus" \in Presenters
    BY Kinship DEF DashTabs
  <2> QED
    BY <2>1, <2>2, <2>3 DEF SeenIsCurrent, HeardFit
<1> QED
  BY <1>1, ScreensHold, PTL

(* The files screen offers its jobs tab just when nothing is printed       *)
(* (HomePresenter::newStatus).                                             *)
THEOREM JobsTabFollows == Spec => []JobsFollowStatus
<1>1. ScreensInv => JobsFollowStatus
  BY DEF ScreensInv, ViewsFit, JobsFit, HeardFit, JobsFollowStatus
<1> QED
  BY <1>1, ScreensHold, PTL

(* The status is overtaken only by a second thread (PrinterStatus.cpp,     *)
(* SetStatus): while one thread alone sets it, what is seen and offered    *)
(* follows it as soon as no news is on its way.                            *)
THEOREM AloneIsNeverOvertaken ==
  ASSUME \A p, q \in Posters : p = q
  PROVE  Spec => []~overtaken
<1>1. ScreensInv => ~overtaken
  BY DEF ScreensInv, HeldFit
<1> QED
  BY <1>1, ScreensHold, PTL
=============================================================================
