--------------------------- MODULE DisplayScreen ---------------------------
(***************************************************************************)
(* What the display shows full screen and what it tells the Core of it:    *)
(* the recipe, weather, place and camera views and the music screen of     *)
(* AssistantController, the two settings pages that change what a turn is  *)
(* for, and the engine's one slot for the display context, which every     *)
(* turn reads as it starts.                                                *)
(*                                                                         *)
(* A handler runs to its end on the UI thread: _emit installs the state    *)
(* and pushes the music's context if that changed, then the handler pushes *)
(* the contexts of its views.  The slot keeps the last write.  (A turn     *)
(* that starts between two writes of a handler reads one of the earlier    *)
(* ones; here a turn starts between two handlers.)                         *)
(*                                                                         *)
(* A recipe's tab, scroll position and step are one pane; which music      *)
(* style a push carries is open, since MusicControls decides it.           *)
(***************************************************************************)
EXTENDS Integers, Sequences, FiniteSets

CONSTANTS
  Recipes, Panes,     \* recipes, and where one can be in a recipe
  Reports,            \* forecasts
  PlaceCards,         \* places
  Cameras,            \* names of cameras
  Tracks,             \* what can be playing
  Stations,           \* the live ones among them, which have no queue
  MaxOpens,           \* bound: camera views opened
  MaxEngineStarts     \* bound: times the engine is started again

ASSUME ScreenAssumption ==
  /\ Panes # {} /\ Stations \subseteq Tracks
  /\ "none" \notin Recipes \cup Reports \cup PlaceCards \cup Cameras \cup Tracks
  /\ MaxOpens \in Nat /\ MaxEngineStarts \in Nat

VARIABLES
  recipe, pane, weather, place,  \* the views, "none" when closed
  camera,       \* the camera session: its seq is 0 when closed
  timers,       \* views whose auto-close timer is armed
  fetches,      \* stream fetches under way
  opens,        \* _cameraSeq
  music, musicScreen, style,
  watched,      \* someone is there, or a turn is on the screen
  musicKey,     \* _musicContextKey
  slot,         \* DISPLAY_CONTEXT
  page,         \* the settings page in the foreground, of those that own turns
  starts,       \* engine starts still to come
  left,         \* history: what a replaced controller left in the slot
  wiped,        \* history: a closing handler left the slot empty
  overheard     \* history: pages a turn on which went to the assistant

viewVars == <<recipe, pane, weather, place, camera, timers>>
fetchVars == <<fetches, opens>>
musicVars == <<music, musicScreen, style, watched>>
contextVars == <<musicKey, slot, left, wiped>>
otherVars == <<page, starts, overheard>>
displayVars == <<viewVars, fetchVars, musicVars, contextVars, otherVars>>

MusicScreens == {"hidden", "nowPlaying", "nextUp"}
Styles == {"compact", "fullscreen"}
Pages == {"diagnostics", "enroll"}
Timed == {"weather", "place", "camera"}

NoCamera == [name |-> "none", seq |-> 0, url |-> 0]
Loading == 0
Failed == -1
TopPane == CHOOSE p \in Panes : TRUE
-----------------------------------------------------------------------------
(* The contexts.                                                           *)

Nothing == <<"nothing">>

RecipeContext ==
  IF recipe = "none" THEN Nothing ELSE <<"recipe", recipe, pane>>
WeatherContext == IF weather = "none" THEN Nothing ELSE <<"weather", weather>>
PlaceContext == IF place = "none" THEN Nothing ELSE <<"place", place>>
CameraContext ==
  IF camera.seq = 0 THEN Nothing ELSE <<"camera", camera.name>>

\* effectiveMusicScreen: a view wins, then what was opened, then the style.
ShownMusic ==
  IF \/ music = "none" \/ recipe # "none" \/ weather # "none"
     \/ place # "none" \/ camera.seq # 0
    THEN "hidden"
  ELSE IF musicScreen # "hidden" THEN musicScreen
  ELSE IF style = "fullscreen" /\ watched THEN "nowPlaying" ELSE "hidden"

MusicContext ==
  IF ShownMusic = "hidden" THEN Nothing ELSE <<"music", music, ShownMusic>>

\* _emit with _syncMusicContext, then the pushes of the handler in their order.
Writes(pushes) ==
  (IF MusicContext' # musicKey THEN <<MusicContext'>> ELSE << >>) \o pushes

Emitted(pushes) ==
  /\ musicKey' = MusicContext'
  /\ slot' = IF Writes(pushes) = << >> THEN slot
             ELSE Writes(pushes)[Len(Writes(pushes))]
  /\ left' = IF Writes(pushes) = << >> THEN left ELSE Nothing

\* The two kinds of handler, for the history: one that puts a screen up, and
\* one that takes a screen away.
Opening == wiped' = FALSE
Closing == wiped' = (slot' = Nothing)
Moving == wiped' = (slot' = Nothing /\ (wiped \/ slot # Nothing))
-----------------------------------------------------------------------------
ScreenInit ==
  /\ recipe = "none" /\ pane = TopPane /\ weather = "none" /\ place = "none"
  /\ camera = NoCamera /\ timers = {} /\ fetches = {} /\ opens = 0
  /\ music = "none" /\ musicScreen = "hidden" /\ style = "compact"
  /\ watched = TRUE
  /\ musicKey = Nothing /\ slot = Nothing /\ page = "none"
  /\ starts = MaxEngineStarts
  /\ left = Nothing /\ wiped = FALSE /\ overheard = {}
-----------------------------------------------------------------------------
(* The views.  Opening one unloads the others and any music screen, and    *)
(* stops their timers.                                                     *)

ShowRecipe(r) ==
  /\ recipe' = r /\ pane' = TopPane
  /\ weather' = "none" /\ place' = "none" /\ camera' = NoCamera
  /\ timers' = {}
  /\ musicScreen' = "hidden"
  /\ UNCHANGED <<fetchVars, music, style, watched, otherVars>>
  /\ Emitted(<<PlaceContext', CameraContext', RecipeContext'>>)
  /\ Opening

\* Mutant of WeatherPushes: the replaced views are cleared last.
WeatherPushesFirst == <<WeatherContext', PlaceContext', CameraContext'>>

WeatherPushes == <<PlaceContext', CameraContext', WeatherContext'>>

ShowWeather(w) ==
  /\ weather' = w
  /\ recipe' = "none" /\ pane' = TopPane /\ place' = "none"
  /\ camera' = NoCamera
  /\ timers' = (timers \ {"place", "camera"}) \cup {"weather"}
  /\ musicScreen' = "hidden"
  /\ UNCHANGED <<fetchVars, music, style, watched, otherVars>>
  /\ Emitted(WeatherPushes)
  /\ Opening

ShowPlace(p) ==
  /\ place' = p
  /\ recipe' = "none" /\ pane' = TopPane /\ weather' = "none"
  /\ camera' = NoCamera
  /\ timers' = (timers \ {"weather", "camera"}) \cup {"place"}
  /\ musicScreen' = "hidden"
  /\ UNCHANGED <<fetchVars, music, style, watched, otherVars>>
  /\ Emitted(<<RecipeContext', WeatherContext', CameraContext', PlaceContext'>>)
  /\ Opening

\* The camera's stream is fetched from the Core once the view is up.
OpenCamera(name) ==
  /\ opens < MaxOpens
  /\ opens' = opens + 1
  /\ camera' = [name |-> name, seq |-> opens', url |-> Loading]
  /\ fetches' = fetches \cup {opens'}
  /\ recipe' = "none" /\ pane' = TopPane
  /\ weather' = "none" /\ place' = "none"
  /\ timers' = (timers \ {"weather", "place"}) \cup {"camera"}
  /\ musicScreen' = "hidden"
  /\ UNCHANGED <<music, style, watched, otherVars>>
  /\ Emitted(<<RecipeContext', WeatherContext', PlaceContext', CameraContext'>>)
  /\ Opening

\* Mutant of Current: any camera view takes the answer.
CurrentAny(f) == camera.seq # 0

Current(f) == camera.seq = f

\* The answer of fetch f: dropped unless its session is the one on screen.
\* The Core may know the camera by another name.
StreamArrives(f, name) ==
  /\ f \in fetches
  /\ fetches' = fetches \ {f}
  /\ UNCHANGED <<recipe, pane, weather, place, timers, opens, musicVars,
                 otherVars>>
  /\ IF Current(f)
       THEN \/ /\ camera' = [camera EXCEPT !.url = f, !.name = name]
               /\ Emitted(IF name # camera.name THEN <<CameraContext'>>
                                                ELSE << >>)
            \/ /\ camera' = [camera EXCEPT !.url = Failed]
               /\ Emitted(<< >>)
       ELSE UNCHANGED <<camera, musicKey, slot, left>>
  /\ Moving

\* A voice dismissal comes whether the view is up or not; the close buttons
\* and the timers act only when it is.
DismissRecipe ==
  /\ recipe' = "none" /\ pane' = TopPane
  /\ UNCHANGED <<weather, place, camera, timers, fetchVars, musicVars,
                 otherVars>>
  /\ Emitted(<<RecipeContext'>>)
  /\ Closing

DismissWeather ==
  /\ weather' = "none" /\ timers' = timers \ {"weather"}
  /\ UNCHANGED <<recipe, pane, place, camera, fetchVars, musicVars, otherVars>>
  /\ Emitted(<<WeatherContext'>>)
  /\ Closing

DismissPlace ==
  /\ place' = "none" /\ timers' = timers \ {"place"}
  /\ UNCHANGED <<recipe, pane, weather, camera, fetchVars, musicVars,
                 otherVars>>
  /\ Emitted(<<PlaceContext'>>)
  /\ Closing

CloseCamera ==
  /\ camera.seq # 0
  /\ camera' = NoCamera /\ timers' = timers \ {"camera"}
  /\ UNCHANGED <<recipe, pane, weather, place, fetchVars, musicVars, otherVars>>
  /\ Emitted(<<CameraContext'>>)
  /\ Closing

\* An auto-close timer fires; what it closes is the view that is up.
WeatherTimer == "weather" \in timers /\ weather # "none" /\ DismissWeather
PlaceTimer == "place" \in timers /\ place # "none" /\ DismissPlace
CameraTimer == "camera" \in timers /\ CloseCamera

\* Another tab, scroll position or step, by voice or by touch.
MoveInRecipe(p) ==
  /\ recipe # "none"
  /\ pane' = p
  /\ UNCHANGED <<recipe, weather, place, camera, timers, fetchVars, musicVars,
                 otherVars>>
  /\ Emitted(<<RecipeContext'>>)
  /\ Moving
-----------------------------------------------------------------------------
(* The music screen.                                                       *)

\* A push of what is playing, with the style it makes this display adopt.
MusicPush(track, s) ==
  /\ music' = track /\ style' = s
  /\ musicScreen' =
       IF s # style THEN "hidden"
       ELSE IF track \in Stations /\ musicScreen = "nextUp" THEN "nowPlaying"
       ELSE musicScreen
  /\ UNCHANGED <<viewVars, fetchVars, watched, otherVars>>
  /\ Emitted(<< >>)
  /\ Moving

MusicEnds ==
  /\ music # "none"
  /\ music' = "none" /\ musicScreen' = "hidden"
  /\ UNCHANGED <<viewVars, fetchVars, style, watched, otherVars>>
  /\ Emitted(<< >>)
  /\ Moving

SetStyle(s) ==
  /\ style' = s /\ musicScreen' = "hidden"
  /\ UNCHANGED <<viewVars, fetchVars, music, watched, otherVars>>
  /\ Emitted(<< >>)
  /\ Moving

ShowMusic(screen) ==
  /\ music # "none" /\ musicScreen # screen
  /\ musicScreen' = screen
  /\ UNCHANGED <<viewVars, fetchVars, music, style, watched, otherVars>>
  /\ Emitted(<< >>)
  /\ Moving

OpenNowPlaying == ShowMusic("nowPlaying")
ShowMusicQueue ==
  ShowMusic(IF music \in Stations THEN "nowPlaying" ELSE "nextUp")

\* With the full-screen style, closing is choosing the compact one.
CloseMusicScreen ==
  \/ music # "none" /\ style = "fullscreen" /\ SetStyle("compact")
  \/ /\ music = "none" \/ style = "compact"
     /\ musicScreen # "hidden"
     /\ musicScreen' = "hidden"
     /\ UNCHANGED <<viewVars, fetchVars, music, style, watched, otherVars>>
     /\ Emitted(<< >>)
     /\ Moving

\* Someone comes or goes, a turn begins or its reply has been heard.
Watch ==
  /\ watched' = ~watched
  /\ UNCHANGED <<viewVars, fetchVars, music, musicScreen, style, otherVars>>
  /\ Emitted(<< >>)
  /\ Moving
-----------------------------------------------------------------------------
(* The settings pages write the slot themselves: when they come up (an     *)
(* enrollment once there is a name), before each phrase of an enrollment,  *)
(* and when they go.                                                       *)

PageWrites(context) ==
  /\ slot' = context
  /\ left' = Nothing
  /\ UNCHANGED <<viewVars, fetchVars, musicVars, musicKey, starts, overheard>>

OpenPage(p) ==
  /\ page = "none"
  /\ page' = p
  /\ PageWrites(<<p>>)
  /\ Opening

\* The enrollment of somebody new begins with a name.
AskName ==
  /\ page = "none"
  /\ page' = "naming"
  /\ UNCHANGED <<viewVars, fetchVars, musicVars, contextVars, starts,
                 overheard>>

Begin ==
  /\ page = "naming"
  /\ page' = "enroll"
  /\ PageWrites(<<"enroll">>)
  /\ Opening

NextPhrase ==
  /\ page = "enroll"
  /\ PageWrites(<<"enroll">>)
  /\ UNCHANGED page
  /\ Opening

ClosePage ==
  /\ page # "none"
  /\ page' = "none"
  /\ PageWrites(Nothing)
  /\ Closing

\* Settings can start the engine again.  That replaces the controller: the
\* new one has no views, the slot is the engine's and stays.
EngineStarts ==
  /\ starts > 0
  /\ starts' = starts - 1
  /\ recipe' = "none" /\ pane' = TopPane /\ weather' = "none"
  /\ place' = "none" /\ camera' = NoCamera /\ timers' = {} /\ fetches' = {}
  /\ music' = "none" /\ musicScreen' = "hidden" /\ style' = "compact"
  /\ watched' = TRUE
  /\ musicKey' = Nothing /\ left' = slot
  /\ UNCHANGED <<opens, slot, wiped, page, overheard>>

\* What the Core does not take to the assistant: diagnostics end with the
\* transcript, an enrollment takes the voice.
Suppressed(context) == context[1] \in Pages

\* A turn stamps the slot on its audio-start.
TurnStarts ==
  /\ overheard' = IF page \notin Pages \/ Suppressed(slot) THEN overheard
                  ELSE overheard \cup {page}
  /\ UNCHANGED <<viewVars, fetchVars, musicVars, contextVars, page, starts>>
-----------------------------------------------------------------------------
ScreenNext ==
  \/ \E r \in Recipes : ShowRecipe(r)
  \/ \E w \in Reports : ShowWeather(w)
  \/ \E p \in PlaceCards : ShowPlace(p)
  \/ \E c \in Cameras : OpenCamera(c) \/ \E f \in fetches : StreamArrives(f, c)
  \/ DismissRecipe \/ DismissWeather \/ DismissPlace \/ CloseCamera
  \/ WeatherTimer \/ PlaceTimer \/ CameraTimer
  \/ \E p \in Panes : MoveInRecipe(p)
  \/ \E t \in Tracks, s \in Styles : MusicPush(t, s)
  \/ \E s \in Styles : SetStyle(s)
  \/ MusicEnds \/ OpenNowPlaying \/ ShowMusicQueue \/ CloseMusicScreen \/ Watch
  \/ \E p \in Pages : OpenPage(p)
  \/ AskName \/ Begin \/ NextPhrase \/ ClosePage
  \/ EngineStarts \/ TurnStarts

ScreenSpec == ScreenInit /\ [][ScreenNext]_displayVars
-----------------------------------------------------------------------------
\* The types; and the key is the music context as it was last pushed.
ScreenTypeOK ==
  /\ recipe \in Recipes \cup {"none"} /\ pane \in Panes
  /\ weather \in Reports \cup {"none"} /\ place \in PlaceCards \cup {"none"}
  /\ camera \in [name : Cameras \cup {"none"}, seq : 0 .. MaxOpens,
                 url : {Failed} \cup 0 .. MaxOpens]
  /\ timers \subseteq Timed
  /\ fetches \subseteq 1 .. MaxOpens /\ opens \in 0 .. MaxOpens
  /\ music \in Tracks \cup {"none"}
  /\ musicScreen \in MusicScreens /\ style \in Styles
  /\ watched \in BOOLEAN
  /\ page \in Pages \cup {"none", "naming"} /\ starts \in 0 .. MaxEngineStarts
  /\ wiped \in BOOLEAN /\ overheard \subseteq Pages
  /\ musicKey = MusicContext

\* What is open, in front or behind.
OnScreen ==
  ({RecipeContext, WeatherContext, PlaceContext, CameraContext, MusicContext}
     \cup (IF page \in Pages THEN {<<page>>} ELSE {}))
  \ {Nothing}

\* Six setters write one slot, and what a turn tells the Core is never false:
\* the slot holds the present content of something that is open, and it is
\* empty with something open only when a closing screen emptied it.  The
\* exception is what a controller replaced with the engine left behind.
ContextTellsNoLies ==
  /\ slot \in OnScreen \cup {Nothing, left}
  /\ slot = Nothing /\ ~wiped => OnScreen = {}

\* The views never stack, a view that is up will close on its own and no timer
\* is left that would close a later one early, and a camera view plays the
\* stream fetched for that opening of it.
ViewsAreTheirOwn ==
  /\ \A x, y \in OnScreen \ {<<"diagnostics">>, <<"enroll">>} : x = y
  /\ timers = (IF weather # "none" THEN {"weather"} ELSE {})
              \cup (IF place # "none" THEN {"place"} ELSE {})
              \cup (IF camera.seq # 0 THEN {"camera"} ELSE {})
  /\ camera.url \in {Loading, Failed, camera.seq}

\* Not true: on the diagnostics page a voice "must never be processed by the
\* assistant".  The page writes the slot once, and any view, music screen or
\* closing behind it writes over that.
DiagnosticsStayLocal == "diagnostics" \notin overheard
=============================================================================
