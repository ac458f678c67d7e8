------------------------------- MODULE Screen -------------------------------
(***************************************************************************)
(* The dashboard: which pane is drawn, which worker is selected, which rows*)
(* of a pane fit, and what a click hits (src/ui/view.go, src/ui/panels.go, *)
(* the keys and the mouse in src/ui/update.go).  View runs after every     *)
(* Update, and leaves in the shared layout where it has drawn what.  Rows  *)
(* are counted from the top of the terminal; columns are left out.         *)
(***************************************************************************)
EXTENDS Integers, FiniteSetsExt

CONSTANTS Heights,     \* heights that the terminal may have
          PublicURLs   \* URLs that the tunnel may have, one after the other

ASSUME ScreenAssumption == Heights \subseteq Nat \ {0}

VARIABLES phase,       \* the display: View's displayState
          height,      \* Model.Height, 0 before the first WindowSizeMsg
          pane,        \* Model.ActivePane
          selected,    \* Model.SelectedWorker
          zoom,        \* Model.ZoomWorker
          link,        \* the tunnel's URL, which changes beside the event loop
          layout,      \* layoutBounds: where the last View left what
          drawn,       \* what the last View has drawn
          opened       \* the URL the last click has opened, and the click's row

screenVars == <<phase, height, pane, selected, zoom, link, layout, drawn, opened>>

Phases == {"scanning", "catchingUp", "dashboard", "done"}
Panes  == 0..4                    \* allPanes, in the order of the sidebar
Progress == 0
Transfers == 1
WebUI == 4
NoLink == "no link"
LanURL == "lan"

(* The header with its margin and the help with its margin have a fixed    *)
(* number of rows; the panes have what is left, within their borders.      *)
HeaderRows  == 4
HelpRows    == 2
SidebarRows == 7                  \* "PANELS", an empty row, five entries
InnerAt(h) == Max({6, h - HeaderRows - HelpRows - 1}) - 2
Inner      == InnerAt(height)
ViewRows   == HeaderRows + Max({Inner, SidebarRows}) + 2 + HelpRows

(* Bubble Tea leaves out the first rows of a view that is too long. *)
Fits == height >= ViewRows

LanRow == 2                       \* the links' rows in the web pane
PubRow == 3

NotYet   == [sidebarTop |-> 0, contentTop |-> 0, lan |-> NoLink, pub |-> NoLink]
Nothing  == [pane |-> -1, first |-> 0, pub |-> NoLink]
NoClick  == [url |-> NoLink, row |-> 0]

ScreenInit ==
  /\ phase = "scanning" /\ height = 0 /\ pane = Progress /\ selected = 0
  /\ zoom = FALSE /\ link = NoLink /\ layout = NotYet /\ drawn = Nothing
  /\ opened = NoClick

(* The list of the workers ends with an empty row and a hint. *)
PaneLines(workers) == Max({workers, 1}) + 2

(* A bug: the last worker that is selected is one row below the pane. *)
ShortFirstRow(sel, inner, workers) ==
  IF sel < inner THEN 0 ELSE Min({sel - inner, Max({0, PaneLines(workers) - inner})})

(* The first row of the transfers pane that is drawn.  View has a copy of  *)
(* the Model, so that every time it scrolls from the top.                  *)
FirstRow(sel, inner, workers) ==
  IF sel < inner THEN 0 ELSE Min({sel - inner + 1, Max({0, PaneLines(workers) - inner})})

(* A bug: a public link that is gone stays in the layout. *)
KeepingWebPane(web) ==
  IF web THEN [lan |-> LanURL, pub |-> IF link = NoLink THEN layout.pub ELSE link]
         ELSE [lan |-> layout.lan, pub |-> layout.pub]

(* renderWebPane: what the layout has of the links afterwards. *)
WebPane(web) ==
  IF web THEN [lan |-> LanURL, pub |-> link] ELSE [lan |-> layout.lan, pub |-> layout.pub]

(* What View makes of the state that an Update leaves.  The panels for     *)
(* scanning, catching up and the summary leave the layout alone.           *)
View(workers, web) ==
  IF phase' # "dashboard" THEN drawn' = Nothing /\ UNCHANGED layout
  ELSE LET links == IF pane' = WebUI THEN WebPane(web)
                    ELSE [lan |-> layout.lan, pub |-> layout.pub]
       IN  /\ layout' = [sidebarTop |-> HeaderRows + 2, contentTop |-> HeaderRows + 1,
                         lan |-> links.lan, pub |-> links.pub]
           /\ drawn' = [pane |-> pane',
                        first |-> IF pane' = Transfers /\ ~zoom'
                                    THEN FirstRow(selected', InnerAt(height'), workers)
                                    ELSE 0,
                        pub |-> IF pane' = WebUI /\ web THEN link ELSE NoLink]

(* ------------------------------- messages ------------------------------ *)
(* Tab, Shift+Tab and the digits, whatever is on display. *)
KeyPane ==
  /\ pane' \in {(pane + 1) % 5, (pane + 4) % 5} \cup Panes
  /\ UNCHANGED <<phase, height, selected, zoom>>

(* A bug: down goes past the last worker. *)
FallingKeySelect(workers) ==
  /\ selected' \in {Max({0, selected - 1}), 0, workers - 1, selected + 1}
  /\ UNCHANGED <<phase, height, pane, zoom>>

(* Up, down, Home and End: with no worker at all, End selects none. *)
KeySelect(workers) ==
  /\ selected' \in {Max({0, selected - 1}), 0, workers - 1}
                     \cup {s \in {selected + 1} : s < workers}
  /\ UNCHANGED <<phase, height, pane, zoom>>

KeyZoom(workers) ==
  /\ zoom' = (workers > 0 /\ ~zoom)
  /\ UNCHANGED <<phase, height, pane, selected>>

KeyUnzoom == zoom' = FALSE /\ UNCHANGED <<phase, height, pane, selected>>

Resize ==
  /\ height' \in Heights
  /\ UNCHANGED <<phase, pane, selected, zoom>>

(* The messages that move the run on: the display changes with its state.  *)
Moves ==
  /\ phase' \in Phases
  /\ phase # "scanning" => phase' # "scanning"
  /\ phase = "done" => phase' = "done"
  /\ UNCHANGED <<height, pane, selected, zoom>>

(* A click in the columns of the sidebar, which has none before the first  *)
(* dashboard.                                                              *)
ClickSidebar(y) ==
  /\ layout.sidebarTop # 0
  /\ pane' = IF y - layout.sidebarTop \in Panes THEN y - layout.sidebarTop ELSE pane
  /\ UNCHANGED <<phase, height, selected, zoom>>

(* A click beside the sidebar selects a worker, in the transfers pane.     *)
ClickWorker(y, workers) ==
  /\ pane = Transfers /\ ~zoom
  /\ selected' = IF y - layout.sidebarTop \in 0..workers-1 THEN y - layout.sidebarTop
                                                           ELSE selected
  /\ UNCHANGED <<phase, height, pane, zoom>>

(* The link that a click beside the sidebar opens, in the web pane.        *)
Hit(y) ==
  LET row == y - layout.contentTop
  IN  IF row = LanRow THEN layout.lan ELSE IF row = PubRow THEN layout.pub ELSE NoLink

ClickLink(y) ==
  /\ pane = WebUI
  /\ opened' = [url |-> Hit(y), row |-> y]
  /\ UNCHANGED <<phase, height, pane, selected, zoom>>

(* One message: Update, then View. *)
Update(workers, web) ==
  /\ \/ /\ \/ KeyPane \/ KeySelect(workers) \/ KeyZoom(workers) \/ KeyUnzoom
           \/ Resize \/ Moves
           \/ \E y \in 0..height-1 : ClickSidebar(y) \/ ClickWorker(y, workers)
        /\ opened' = NoClick
     \/ \E y \in 0..height-1 : ClickLink(y)
  /\ View(workers, web)
  /\ UNCHANGED link

(* The tunnel goes on or off, and the loop does not know yet. *)
LinkChanges ==
  /\ link' \in (PublicURLs \cup {NoLink}) \ {link}
  /\ UNCHANGED <<phase, height, pane, selected, zoom, layout, drawn, opened>>

ScreenStep(workers, web) == Update(workers, web) \/ (web /\ LinkChanges)
=============================================================================
