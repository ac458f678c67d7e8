------------------------------ MODULE Session -------------------------------
(***************************************************************************)
(* One run of the program, from its flags to its end: Launch, and Screen   *)
(* between the start and the end of the event loop (run in src/main.go).   *)
(***************************************************************************)
EXTENDS Launch, Screen

vars == <<launchVars, screenVars>>

Init == LaunchInit /\ ScreenInit

Launching == LaunchStep /\ UNCHANGED screenVars
Drawing   == /\ step = "ui" /\ ScreenStep(jobs, "page" \in open)
             /\ UNCHANGED launchVars
Leaving   == Leave /\ UNCHANGED screenVars

Next == Launching \/ Drawing \/ Leaving

Spec == Init /\ [][Next]_vars

(* ------------------------------ properties ----------------------------- *)
(* Types.  Only a run without workers selects none of them. *)
TypeOK ==
  /\ step \in {"file", "source", "dest", "web", "ui", "failed", "over"}
  /\ lines \in Seq(Lines) /\ useSSL \in BOOLEAN /\ jobs \in JobCounts
  /\ endpoint \in URLs({"flag", "env", "file1", "file2"}) \cup {NoURL}
  /\ open \subseteq Sides \cup {"page"}
  /\ phase \in Phases /\ height \in Heights \cup {0} /\ pane \in Panes
  /\ selected \in -1..Max({0, jobs - 1}) /\ (jobs > 0 => selected # -1)
  /\ zoom \in BOOLEAN /\ (zoom => jobs > 0)
  /\ {link, layout.pub, drawn.pub} \subseteq PublicURLs \cup {NoLink}

(* The selected worker is among the rows that are drawn, whatever the keys *)
(* and clicks that selected it and however the terminal was resized since  *)
(* (View scrolls, and clamps the offset to the end of the list).           *)
SelectedIsShown ==
  drawn.pane = Transfers /\ ~zoom /\ jobs > 0
    => selected - drawn.first \in 0..Inner-1

(* "a plain click is handled" (README): on the dashboard a click that opens*)
(* a link opens the one drawn in that row, not one that was drawn there    *)
(* once, though the tunnel may stop or change between the drawing and the  *)
(* click.                                                                  *)
DrawnAt(y) ==
  IF y = HeaderRows + 1 + LanRow THEN LanURL
  ELSE IF y = HeaderRows + 1 + PubRow THEN drawn.pub
  ELSE NoLink

ClickOpensDrawn ==
  [][phase = "dashboard" /\ Fits /\ opened'.url # NoLink /\ opened' # opened
       => opened'.url = DrawnAt(opened'.row)]_vars
=============================================================================
