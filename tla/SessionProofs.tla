--------------------------- MODULE SessionProofs ----------------------------
(***************************************************************************)
(* What Session promises, for every file, every number of workers and every*)
(* terminal.  The invariant has two halves that hardly meet.  LaunchInv:   *)
(* while ~/.s3cfg is read, the endpoint and use_https are what the lines   *)
(* read so far make of them (ReadSoFar), and from then on what all of them *)
(* make (ReadAll).  ScreenInv: what is drawn is drawn from the state as it *)
(* is (DrawnFresh), and the links in the layout, which clicks are compared *)
(* with, are those in the panes (LinksFresh); nothing is drawn before the  *)
(* event loop starts (NotStarted).                                         *)
(***************************************************************************)
EXTENDS Session, NaturalsInduction, WellFoundedInduction, TLAPS

-----------------------------------------------------------------------------
(* The larger and the smaller of two numbers.                              *)

LEMMA Max2 ==
    ASSUME NEW a \in Int, NEW b \in Int
    PROVE  Max({a, b}) = IF a >= b THEN a ELSE b
<1> DEFINE x == IF a >= b THEN a ELSE b
<1>1. x \in {a, b} /\ \A y \in {a, b} : x >= y
  OBVIOUS
<1>2. \A z \in {a, b} : (\A y \in {a, b} : z >= y) => z = x
  OBVIOUS
<1>3. Max({a, b}) \in {a, b} /\ \A y \in {a, b} : Max({a, b}) >= y
  BY <1>1 DEF Max
<1> QED
  BY <1>2, <1>3

LEMMA Min2 ==
    ASSUME NEW a \in Int, NEW b \in Int
    PROVE  Min({a, b}) = IF a <= b THEN a ELSE b
<1> DEFINE x == IF a <= b THEN a ELSE b
<1>1. x \in {a, b} /\ \A y \in {a, b} : x =< y
  OBVIOUS
<1>2. \A z \in {a, b} : (\A y \in {a, b} : z =< y) => z = x
  OBVIOUS
<1>3. Min({a, b}) \in {a, b} /\ \A y \in {a, b} : Min({a, b}) =< y
  BY <1>1 DEF Min
<1> QED
  BY <1>2, <1>3

-----------------------------------------------------------------------------
(* The types of the screen, and what the last View left.                   *)

ScreenTypes ==
    /\ phase \in Phases /\ height \in Heights \cup {0} /\ pane \in Panes
    /\ selected \in -1 .. jobs /\ IF jobs > 0 THEN selected \in 0 .. jobs - 1
                                              ELSE selected \in {-1, 0}
    /\ zoom \in BOOLEAN /\ (zoom => jobs > 0)
    /\ layout \in [sidebarTop : Nat, contentTop : Nat,
                   lan : {NoLink, LanURL}, pub : PublicURLs \cup {NoLink}]
    /\ drawn \in [pane : Int, first : Int, pub : PublicURLs \cup {NoLink}]
    /\ link \in PublicURLs \cup {NoLink}

\* What is drawn is drawn from the state: the transfers pane from the selected
\* worker, the links' rows from the links that the layout keeps for clicks.
Unseen == layout = NotYet /\ phase = "scanning"
DrawnFresh ==
    drawn.pane = Transfers =>
        /\ phase = "dashboard" /\ pane = Transfers
        /\ ~zoom => drawn.first = FirstRow(selected, Inner, jobs)
LinksFresh ==
    step = "ui" =>
        /\ (phase = "dashboard" /\ pane = WebUI) =>
                /\ layout.contentTop = HeaderRows + 1
                /\ "page" \in open => layout.lan = LanURL /\ layout.pub = drawn.pub
        /\ "page" \notin open => layout.lan = NoLink /\ layout.pub = NoLink
NotStarted == step \in {"file", "source", "dest", "web"} => Unseen

ScreenInv == ScreenTypes /\ DrawnFresh /\ LinksFresh /\ NotStarted

\* The first row drawn keeps the selected worker in the pane.
LEMMA RowInPane ==
    ASSUME NEW s \in Int, NEW inner \in Int, NEW workers \in Nat,
           inner >= 1, s \in 0 .. workers - 1
    PROVE  /\ FirstRow(s, inner, workers) \in Int
           /\ s - FirstRow(s, inner, workers) \in 0 .. inner - 1
<1>1. Max({workers, 1}) = workers
  BY Max2
<1>2. PaneLines(workers) = workers + 2
  BY <1>1 DEF PaneLines
<1>3. Max({0, PaneLines(workers) - inner}) =
        IF 0 >= workers + 2 - inner THEN 0 ELSE workers + 2 - inner
  BY <1>2, Max2
<1>4. CASE s < inner
  BY <1>4 DEF FirstRow
<1>5. CASE ~(s < inner)
  <2>1. Max({0, PaneLines(workers) - inner}) = workers + 2 - inner
    BY <1>3, <1>5
  <2>2. Min({s - inner + 1, workers + 2 - inner}) = s - inner + 1
    BY Min2
  <2>3. FirstRow(s, inner, workers) = s - inner + 1
    BY <1>5, <2>1, <2>2 DEF FirstRow
  <2>4. QED
    BY <1>5, <2>3
<1>6. QED
  BY <1>4, <1>5

\* A pane has four rows at least, however low the terminal is.
LEMMA InnerIs == ASSUME NEW h \in Int PROVE InnerAt(h) \in Int /\ InnerAt(h) >= 4
<1>1. h - HeaderRows - HelpRows - 1 \in Int
  BY DEF HeaderRows, HelpRows
<1>2. Max({6, h - HeaderRows - HelpRows - 1}) \in Int
      /\ Max({6, h - HeaderRows - HelpRows - 1}) >= 6
  BY <1>1, Max2
<1>3. QED
  BY <1>2 DEF InnerAt

\* What one View makes of the state that an Update leaves.
LEMMA Viewed ==
    ASSUME ScreenTypes, jobs \in Nat, NEW web \in BOOLEAN, View(jobs, web),
           height' \in Int, pane' \in Panes, selected' \in Int,
           selected' \in -1 .. jobs, jobs > 0 => selected' \in 0 .. jobs - 1,
           jobs = 0 => selected' \in {-1, 0}
    PROVE  /\ layout' \in [sidebarTop : Nat, contentTop : Nat,
                           lan : {NoLink, LanURL}, pub : PublicURLs \cup {NoLink}]
           /\ drawn' \in [pane : Int, first : Int, pub : PublicURLs \cup {NoLink}]
           /\ drawn'.pane = Transfers =>
                /\ phase' = "dashboard" /\ pane' = Transfers
                /\ ~zoom' => drawn'.first = FirstRow(selected', InnerAt(height'), jobs)
           /\ (phase' = "dashboard" /\ pane' = WebUI) =>
                /\ layout'.contentTop = HeaderRows + 1
                /\ web => layout'.lan = LanURL /\ layout'.pub = drawn'.pub
           /\ (~web /\ layout.lan = NoLink /\ layout.pub = NoLink) =>
                    layout'.lan = NoLink /\ layout'.pub = NoLink
<1>1. CASE phase' # "dashboard"
  <2>1. drawn' = Nothing /\ layout' = layout
    BY <1>1 DEF View
  <2>2. QED
    BY <1>1, <2>1 DEF ScreenTypes, Nothing, Transfers
<1>2. CASE phase' = "dashboard"
  <2>1. PICK first : first = IF pane' = Transfers /\ ~zoom'
                             THEN FirstRow(selected', InnerAt(height'), jobs) ELSE 0
    OBVIOUS
  <2>2. first \in Int
    <3>1. CASE jobs > 0
      BY <2>1, <3>1, InnerIs, RowInPane
    <3>2. CASE ~(jobs > 0)
      <4>1. selected' < InnerAt(height')
        BY <3>2, InnerIs
      <4>2. FirstRow(selected', InnerAt(height'), jobs) = 0
        BY <4>1 DEF FirstRow
      <4>3. QED
        BY <2>1, <4>2
    <3>3. QED
      BY <3>1, <3>2
  <2>3. PICK lan, pub :
            /\ lan = IF pane' = WebUI /\ web THEN LanURL ELSE layout.lan
            /\ pub = IF pane' = WebUI /\ web THEN link ELSE layout.pub
    OBVIOUS
  <2>4. /\ layout' = [sidebarTop |-> HeaderRows + 2, contentTop |-> HeaderRows + 1,
                      lan |-> lan, pub |-> pub]
        /\ drawn' = [pane |-> pane', first |-> first,
                     pub |-> IF pane' = WebUI /\ web THEN link ELSE NoLink]
    BY <1>2, <2>1, <2>3 DEF View, WebPane
  <2>5. lan \in {NoLink, LanURL} /\ {pub, link, NoLink} \subseteq PublicURLs \cup {NoLink}
    BY <2>3 DEF ScreenTypes
  <2>6. HeaderRows + 2 \in Nat /\ HeaderRows + 1 \in Nat /\ pane' \in Int
    BY DEF HeaderRows, Panes
  <2>7. layout' \in [sidebarTop : Nat, contentTop : Nat,
                     lan : {NoLink, LanURL}, pub : PublicURLs \cup {NoLink}]
    BY <2>4, <2>5, <2>6
  <2>8. drawn' \in [pane : Int, first : Int, pub : PublicURLs \cup {NoLink}]
    BY <2>2, <2>4, <2>5, <2>6
  <2>9. /\ drawn'.pane = pane' /\ drawn'.first = first
        /\ layout'.contentTop = HeaderRows + 1 /\ layout'.lan = lan
        /\ layout'.pub = pub
        /\ (pane' = WebUI /\ web) => drawn'.pub = link
    BY <2>4
  <2>10. QED
    BY <1>2, <2>1, <2>3, <2>7, <2>8, <2>9
<1>3. QED
  BY <1>1, <1>2

\* What an Update does to the state that View draws.
UpdatedTypes ==
    /\ phase \in Phases /\ height \in Heights \cup {0} /\ pane \in Panes
    /\ selected \in -1 .. jobs /\ IF jobs > 0 THEN selected \in 0 .. jobs - 1
                                              ELSE selected \in {-1, 0}
    /\ zoom \in BOOLEAN /\ (zoom => jobs > 0)

\* A worker stays selected whatever the key or the click.
LEMMA UpdateTypes ==
    ASSUME ScreenTypes, jobs \in Nat, jobs' = jobs, NEW web \in BOOLEAN,
           Update(jobs, web)
    PROVE  UpdatedTypes'
<1> USE DEF ScreenTypes
<1>1. Heights \subseteq Nat /\ selected \in Int /\ pane \in Int
  BY ScreenAssumption DEF Panes
<1>2. CASE KeyPane
  <2>1. (pane + 1) % 5 \in Panes /\ (pane + 4) % 5 \in Panes
    BY <1>1 DEF Panes
  <2>2. QED
    BY <1>2, <2>1 DEF KeyPane, UpdatedTypes
<1>3. CASE KeySelect(jobs)
  <2>1. Max({0, selected - 1}) = IF 0 >= selected - 1 THEN 0 ELSE selected - 1
    BY <1>1, Max2
  <2>2. selected' \in {Max({0, selected - 1}), 0, jobs - 1}
            \/ (selected' = selected + 1 /\ selected + 1 < jobs)
    BY <1>3 DEF KeySelect
  <2>3. /\ selected' \in -1 .. jobs
        /\ IF jobs > 0 THEN selected' \in 0 .. jobs - 1 ELSE selected' \in {-1, 0}
    BY <1>1, <2>1, <2>2
  <2>4. QED
    BY <1>3, <2>3 DEF KeySelect, UpdatedTypes
<1>4. CASE KeyZoom(jobs)
  <2>1. (jobs > 0 /\ ~zoom) \in BOOLEAN
    OBVIOUS
  <2>2. zoom' = (jobs > 0 /\ ~zoom)
    BY <1>4 DEF KeyZoom
  <2>3. zoom' \in BOOLEAN
    BY <2>1, <2>2, Zenon
  <2>4. zoom' => jobs > 0
    BY <2>2
  <2>5. QED
    BY <1>4, <2>3, <2>4 DEF KeyZoom, UpdatedTypes
<1>5. CASE KeyUnzoom \/ Resize \/ Moves
  <2>1. CASE KeyUnzoom
    BY <2>1 DEF KeyUnzoom, UpdatedTypes
  <2>2. CASE Resize
    BY <2>2 DEF Resize, UpdatedTypes
  <2>3. CASE Moves
    BY <2>3 DEF Moves, UpdatedTypes
  <2>4. QED
    BY <1>5, <2>1, <2>2, <2>3
<1>6. ASSUME NEW y \in 0 .. height - 1,
             ClickSidebar(y) \/ ClickWorker(y, jobs) \/ ClickLink(y)
      PROVE  UpdatedTypes'
  <2>1. CASE ClickSidebar(y) \/ ClickLink(y)
    BY <2>1 DEF ClickSidebar, ClickLink, UpdatedTypes
  <2>2. CASE ClickWorker(y, jobs)
    <3>1. selected' = selected \/ selected' \in 0 .. jobs - 1
      BY <2>2 DEF ClickWorker
    <3>2. QED
      BY <2>2, <3>1 DEF ClickWorker, UpdatedTypes
  <2>3. QED
    BY <1>6, <2>1, <2>2
<1>7. QED
  BY <1>2, <1>3, <1>4, <1>5, <1>6 DEF Update

\* Update and View, or the tunnel beside them.
LEMMA NextScreen ==
    ASSUME ScreenInv, jobs \in Nat, Drawing PROVE ScreenInv'
<1>1. /\ jobs' = jobs /\ step' = step /\ step = "ui" /\ open' = open
      /\ ("page" \in open) \in BOOLEAN
  BY DEF Drawing, launchVars
<1>2. PICK web \in BOOLEAN : web = ("page" \in open) /\ ScreenStep(jobs, web)
  <2>1. ScreenStep(jobs, "page" \in open)
    BY DEF Drawing
  <2>2. QED
    BY <1>1, <2>1
<1>3. CASE LinkChanges
  <2>1. /\ UNCHANGED <<phase, height, pane, selected, zoom, layout, drawn>>
        /\ link' \in PublicURLs \cup {NoLink}
    BY <1>3 DEF LinkChanges
  <2>2. ScreenTypes'
    BY <1>1, <2>1 DEF ScreenInv, ScreenTypes
  <2>3. QED
    BY <1>1, <2>1, <2>2 DEF ScreenInv, DrawnFresh, LinksFresh, NotStarted, Inner
<1>4. CASE Update(jobs, web)
  <2>1. View(jobs, web) /\ link' = link
    BY <1>4 DEF Update
  <2>2. UpdatedTypes'
    BY <1>1, <1>4, UpdateTypes DEF ScreenInv
  <2>3. /\ height' \in Int /\ pane' \in Panes /\ selected' \in Int
        /\ selected' \in -1 .. jobs /\ (jobs > 0 => selected' \in 0 .. jobs - 1)
        /\ jobs = 0 => selected' \in {-1, 0}
    BY <1>1, <2>2, ScreenAssumption DEF UpdatedTypes
  <2>4. ScreenTypes /\ LinksFresh
    BY DEF ScreenInv
  <2>5. /\ layout' \in [sidebarTop : Nat, contentTop : Nat,
                        lan : {NoLink, LanURL}, pub : PublicURLs \cup {NoLink}]
        /\ drawn' \in [pane : Int, first : Int, pub : PublicURLs \cup {NoLink}]
        /\ drawn'.pane = Transfers =>
             /\ phase' = "dashboard" /\ pane' = Transfers
             /\ ~zoom' => drawn'.first = FirstRow(selected', InnerAt(height'), jobs)
        /\ (phase' = "dashboard" /\ pane' = WebUI) =>
             /\ layout'.contentTop = HeaderRows + 1
             /\ web => layout'.lan = LanURL /\ layout'.pub = drawn'.pub
        /\ (~web /\ layout.lan = NoLink /\ layout.pub = NoLink) =>
                 layout'.lan = NoLink /\ layout'.pub = NoLink
    BY <2>1, <2>3, <2>4, Viewed
  <2>6. ScreenTypes'
    BY <2>1, <2>2, <2>4, <2>5 DEF UpdatedTypes, ScreenTypes
  <2>7. DrawnFresh'
    BY <1>1, <2>5 DEF DrawnFresh, Inner
  <2>8. LinksFresh'
    BY <1>1, <1>2, <2>4, <2>5 DEF LinksFresh
  <2>9. QED
    BY <1>1, <2>6, <2>7, <2>8 DEF ScreenInv, NotStarted
<1>5. QED
  BY <1>2, <1>3, <1>4 DEF ScreenStep

-----------------------------------------------------------------------------
(* The settings, line by line.                                             *)

\* The largest of some numbers, where it is known, and the smallest.
LEMMA MaxIs ==
    ASSUME NEW S \in SUBSET Int, NEW x \in S, \A y \in S : x >= y
    PROVE  Max(S) = x
<1>1. \A z \in S : (\A y \in S : z >= y) => z = x
  OBVIOUS
<1>2. Max(S) \in S /\ \A y \in S : Max(S) >= y
  BY DEF Max
<1>3. QED
  BY <1>1, <1>2

LEMMA MinIs ==
    ASSUME NEW S \in SUBSET Nat, S # {}
    PROVE  Min(S) \in S /\ \A y \in S : Min(S) =< y
<1>1. PICK x \in S : \A y \in S : ~ (<<y, x>> \in OpToRel(<, Nat))
  BY NatLessThanWellFounded, WFMin
<1>2. \A y \in S : x =< y
  <2> SUFFICES ASSUME NEW y \in S, y < x PROVE FALSE
    OBVIOUS
  <2>1. <<y, x>> \in OpToRel(<, Nat)
    BY DEF OpToRel
  <2>2. QED
    BY <1>1, <2>1
<1>3. QED
  BY <1>2 DEF Min

FileHosts == {"file1", "file2"}
AskedTypes ==
    asked \in [endpoint : URLs({"flag", "env"}) \cup {NoURL}, useSSL : BOOLEAN,
               lines : Seq(Lines), env : URLs({"env"}) \cup {NoURL}]
LaunchTypes ==
    /\ step \in {"file", "source", "dest", "web", "ui", "failed", "over"}
    /\ AskedTypes
    /\ lines \in Seq(Lines) /\ useSSL \in BOOLEAN /\ jobs \in JobCounts
    /\ endpoint \in URLs({"flag", "env", "file1", "file2"}) \cup {NoURL}
    /\ client \in [Sides -> URLs({"flag", "env", "file1", "file2"}) \cup {NoURL}]
    /\ open \subseteq Sides \cup {"page"}

\* What has been read is what asked.lines has before what is still to be read.
Read == Len(asked.lines) - Len(lines)
LinesLeft ==
    /\ Len(lines) <= Len(asked.lines)
    /\ \A j \in 1 .. Len(lines) : lines[j] = asked.lines[Read + j]

\* The endpoint after the first k lines, where it is given by then.
SecuredBy(k) == \E j \in DOMAIN asked.lines :
                    j > GivenAt /\ j <= k /\ Said(j) = UseHTTPS(TRUE)
After(k) == IF GivenAt > k THEN NoURL
            ELSE IF Given.scheme = "http" /\ SecuredBy(k)
                    THEN [Given EXCEPT !.scheme = "https"]
            ELSE Given
ReadSoFar ==
    step = "file" =>
        /\ LinesLeft
        /\ useSSL = SSLAbove(Read + 1)
        /\ endpoint = After(Read)

\* Once the file is read, and until the event loop starts.
Final == IF Given.scheme = "http" /\ MadeSecure
            THEN [Given EXCEPT !.scheme = "https"] ELSE Given
ReadAll ==
    /\ step \in {"source", "dest", "web", "failed"} =>
            useSSL = SSLAbove(Len(asked.lines) + 1) /\ endpoint = Final
    /\ \A s \in Sides : client[s] # NoURL =>
            /\ step \in {"source", "dest", "web", "failed"}
            /\ endpoint # NoURL /\ client[s] = WithScheme(endpoint, useSSL)

LaunchInv == LaunchTypes /\ ReadSoFar /\ ReadAll

\* A line is of one kind or the other.
LEMMA LineKinds ==
    ASSUME NEW l \in Lines
    PROVE  /\ l.key = "host_base" => /\ l.url \in URLs(FileHosts)
                                     /\ \A b : l # UseHTTPS(b)
           /\ l.key # "host_base" => /\ l.key = "use_https" /\ l.yes \in BOOLEAN
                                     /\ l = UseHTTPS(l.yes)
<1>1. CASE \E u \in URLs(FileHosts) : l = HostBase(u)
  <2>1. PICK u \in URLs(FileHosts) : l = HostBase(u)
    BY <1>1
  <2>2. l.key = "host_base" /\ l.url = u
    BY <2>1 DEF HostBase
  <2>3. \A b : UseHTTPS(b).key = "use_https"
    BY DEF UseHTTPS
  <2>4. QED
    BY <2>2, <2>3
<1>2. CASE \E b \in BOOLEAN : l = UseHTTPS(b)
  BY <1>2 DEF UseHTTPS
<1>3. QED
  BY <1>1, <1>2 DEF Lines, FileHosts

\* Where the endpoint is given, and what is given there.
LEMMA GivenIs ==
    ASSUME AskedTypes
    PROVE  /\ GivenAt \in 0 .. Len(asked.lines) + 1
           /\ GivenAt = 0 <=> asked.endpoint # NoURL
           /\ GivenAt \in HostLines \cup {0, Len(asked.lines) + 1}
           /\ GivenAt # 0 => \A k \in HostLines : GivenAt <= k
           /\ HostLines \subseteq 1 .. Len(asked.lines)
<1>1. HostLines \subseteq 1 .. Len(asked.lines) /\ Len(asked.lines) \in Nat
  BY DEF HostLines, AskedTypes
<1>2. HostLines # {} => Min(HostLines) \in HostLines
                        /\ \A k \in HostLines : Min(HostLines) <= k
  BY <1>1, MinIs
<1>3. PICK n, m : n = Len(asked.lines) /\ m = Min(HostLines)
  OBVIOUS
<1>4. GivenAt = IF asked.endpoint # NoURL THEN 0
                ELSE IF HostLines # {} THEN m ELSE n + 1
  BY <1>3 DEF GivenAt
<1>5. /\ n \in Nat /\ HostLines \subseteq 1 .. n
      /\ HostLines # {} => m \in HostLines /\ \A k \in HostLines : m <= k
  BY <1>1, <1>2, <1>3
<1>6. QED
  BY <1>3, <1>4, <1>5

\* While what was asked stays, so does what it means.
LEMMA AskedStays ==
    ASSUME asked' = asked
    PROVE  /\ GivenAt' = GivenAt /\ Given' = Given /\ (MadeSecure' <=> MadeSecure)
           /\ HostLines' = HostLines
           /\ \A k : SSLAbove(k)' = SSLAbove(k)
           /\ \A k : After(k)' = After(k)
           /\ Final' = Final
<1>1. \A k : Said(k)' = Said(k)
  BY DEF Said
<1>2. HostLines' = HostLines
  BY DEF HostLines, Said
<1>3. GivenAt' = GivenAt
  BY <1>2 DEF GivenAt
<1>4. \A k : SSLAbove(k)' = SSLAbove(k)
  BY DEF SSLAbove, Said
<1>5. Given' = Given
  BY <1>1, <1>2, <1>3, <1>4 DEF Given
<1>6. MadeSecure' <=> MadeSecure
  BY <1>1, <1>3 DEF MadeSecure
<1>7. \A k : SecuredBy(k)' <=> SecuredBy(k)
  BY <1>1, <1>3 DEF SecuredBy
<1>8. QED
  BY <1>2, <1>3, <1>4, <1>5, <1>6, <1>7 DEF After, Final

\* What use_https says above line k + 1, from what it says above line k.
LEMMA SSLNext ==
    ASSUME AskedTypes, NEW k \in DOMAIN asked.lines
    PROVE  SSLAbove(k + 1) = IF Said(k).key = "use_https" THEN Said(k).yes
                                                         ELSE SSLAbove(k)
<1> DEFINE above(n) == {i \in DOMAIN asked.lines : i < n /\ Said(i).key = "use_https"}
<1>1. DOMAIN asked.lines \subseteq Int /\ k \in Int
  BY DEF AskedTypes
<1>2. CASE Said(k).key = "use_https"
  <2>1. k \in above(k + 1) /\ above(k + 1) \in SUBSET Int
        /\ \A y \in above(k + 1) : k >= y
    BY <1>1, <1>2
  <2>2. Max(above(k + 1)) = k
    BY <2>1, MaxIs
  <2>3. QED
    BY <1>2, <2>1, <2>2 DEF SSLAbove
<1>3. CASE Said(k).key # "use_https"
  <2>1. above(k + 1) = above(k)
    BY <1>1, <1>3
  <2>2. QED
    BY <1>3, <2>1 DEF SSLAbove
<1>4. QED
  BY <1>2, <1>3

\* The first line is read with what the flag says.
LEMMA SSLFirst == ASSUME AskedTypes PROVE SSLAbove(1) = asked.useSSL
<1>1. {i \in DOMAIN asked.lines : i < 1 /\ Said(i).key = "use_https"} = {}
  BY DEF AskedTypes
<1>2. QED
  BY <1>1 DEF SSLAbove

\* The endpoint is not given between the lines.
LEMMA AfterIs ==
    ASSUME AskedTypes, NEW k \in Nat, k <= Len(asked.lines)
    PROVE  /\ After(k) = NoURL <=> GivenAt > k
           /\ After(k).scheme \in Schemes
           /\ After(k) \in URLs({"flag", "env", "file1", "file2"}) \cup {NoURL}
           /\ GivenAt <= k => Given # NoURL
           /\ Given \in URLs({"flag", "env", "file1", "file2"}) \cup {NoURL}
<1> DEFINE Hosts == {"flag", "env", "file1", "file2"}
<1>1. GivenAt \in Nat /\ Len(asked.lines) \in Nat
  BY GivenIs DEF AskedTypes
<1>2. Given \in URLs(Hosts) \cup {NoURL} /\ (GivenAt <= k => Given # NoURL)
  <2>1. CASE GivenAt = 0
    BY <2>1, GivenIs DEF Given, AskedTypes, URLs
  <2>2. CASE GivenAt # 0 /\ GivenAt \in HostLines
    <3>1. PICK l \in Lines : l = Said(GivenAt) /\ l.key = "host_base"
      BY <2>2 DEF HostLines, Said, AskedTypes
    <3>2. l.url \in [host : FileHosts, scheme : Schemes]
      BY <3>1, LineKinds DEF URLs
    <3>3. PICK w : w = WithScheme(l.url, SSLAbove(GivenAt))
      OBVIOUS
    <3>4. w \in [host : FileHosts, scheme : Schemes]
      BY <3>2, <3>3 DEF WithScheme, Default, Schemes
    <3>5. Given = w
      BY <2>2, <3>1, <3>3 DEF Given
    <3>6. w \in URLs(Hosts) /\ w # NoURL
      <4>1. NoURL.host = "" /\ w.host \in FileHosts
        BY <3>4 DEF NoURL
      <4>2. FileHosts \subseteq Hosts /\ "" \notin FileHosts
        BY DEF FileHosts
      <4>3. QED
        BY <3>4, <4>1, <4>2 DEF URLs
    <3>7. QED
      BY <3>5, <3>6
  <2>3. CASE GivenAt # 0 /\ GivenAt \notin HostLines
    <3>1. Given = asked.env /\ GivenAt = Len(asked.lines) + 1
      BY <2>3, GivenIs DEF Given
    <3>2. ~(GivenAt <= k)
      BY <1>1, <3>1
    <3>3. QED
      BY <3>1, <3>2 DEF AskedTypes, URLs
  <2>4. QED
    BY <2>1, <2>2, <2>3
<1>3. PICK g : g = Given
  OBVIOUS
<1>4. g \in [host : Hosts, scheme : Schemes] \cup {NoURL}
  BY <1>2, <1>3 DEF URLs
<1>5. g # NoURL => [g EXCEPT !.scheme = "https"] \in [host : Hosts, scheme : Schemes]
  BY <1>4 DEF Schemes
<1>6. \A u \in [host : Hosts, scheme : Schemes] : u # NoURL /\ u.scheme \in Schemes
  <2>1. NoURL.host = "" /\ "" \notin Hosts
    BY DEF NoURL
  <2>2. QED
    BY <2>1
<1>7. NoURL.scheme = "" /\ "" \in Schemes
  BY DEF NoURL, Schemes
<1>8. CASE GivenAt > k
  <2>1. After(k) = NoURL
    BY <1>8 DEF After
  <2>2. QED
    BY <1>1, <1>2, <1>7, <1>8, <2>1
<1>9. CASE ~(GivenAt > k)
  <2>1. After(k) = IF g.scheme = "http" /\ SecuredBy(k)
                     THEN [g EXCEPT !.scheme = "https"] ELSE g
    BY <1>3, <1>9 DEF After
  <2>2. After(k) \in [host : Hosts, scheme : Schemes]
    BY <1>1, <1>2, <1>3, <1>4, <1>5, <1>9, <2>1
  <2>3. After(k) # NoURL /\ After(k).scheme \in Schemes
    BY <1>6, <2>2
  <2>4. QED
    BY <1>1, <1>2, <1>9, <2>2, <2>3 DEF URLs
<1>10. QED
  BY <1>8, <1>9

\* One more line: the settings are what the lines so far make of them.
LEMMA NextLine ==
    ASSUME LaunchInv, ParseLine PROVE LaunchInv'
<1>1. /\ step = "file" /\ step' = "file" /\ lines # <<>> /\ lines' = Tail(lines)
      /\ UNCHANGED <<asked, client, open, jobs>>
  BY DEF ParseLine
<1>2. /\ LaunchTypes /\ AskedTypes /\ LinesLeft /\ useSSL = SSLAbove(Read + 1)
      /\ endpoint = After(Read) /\ \A s \in Sides : client[s] = NoURL
  BY <1>1 DEF LaunchInv, ReadSoFar, ReadAll, LaunchTypes
<1>3. PICK n, m, k, l : /\ n = Len(lines) /\ m = Len(asked.lines)
                        /\ k = Read + 1 /\ l = Head(lines)
  OBVIOUS
<1>4. /\ n \in Nat \ {0} /\ m \in Nat /\ n <= m /\ k = m - n + 1 /\ k \in 1 .. m
      /\ lines \in Seq(Lines) /\ asked.lines \in Seq(Lines)
      /\ DOMAIN asked.lines = 1 .. m
  BY <1>1, <1>2, <1>3 DEF LaunchTypes, AskedTypes, LinesLeft, Read
<1>5. /\ lines' \in Seq(Lines) /\ Len(lines') = n - 1
      /\ \A j \in 1 .. n - 1 : lines'[j] = lines[j + 1]
  BY <1>1, <1>3, <1>4
<1>6. l \in Lines /\ l = Said(k) /\ k \in DOMAIN asked.lines
  <2>1. l = lines[1] /\ l \in Lines
    BY <1>1, <1>3, <1>4
  <2>2. lines[1] = asked.lines[Read + 1]
    BY <1>2, <1>3, <1>4 DEF LinesLeft
  <2>3. QED
    BY <1>3, <1>4, <2>1, <2>2 DEF Said
<1>7. Read' = k
  BY <1>1, <1>3, <1>4, <1>5 DEF Read
<1>8. LinesLeft'
  <2>1. \A j \in 1 .. n : lines[j] = asked.lines[m - n + j]
    BY <1>2, <1>3, <1>4 DEF LinesLeft, Read
  <2>2. ASSUME NEW j \in 1 .. n - 1 PROVE lines'[j] = asked.lines[k + j]
    <3>1. j + 1 \in 1 .. n /\ m - n + (j + 1) = k + j
      BY <1>4
    <3>2. lines[j + 1] = asked.lines[m - n + (j + 1)]
      BY <2>1, <3>1
    <3>3. QED
      BY <1>5, <3>1, <3>2
  <2>3. QED
    <3>1. Len(lines') <= m
      BY <1>4, <1>5
    <3>2. \A j \in 1 .. Len(lines') : lines'[j] = asked.lines[k + j]
      BY <1>5, <2>2
    <3>3. m = Len(asked.lines')  /\ asked.lines' = asked.lines
      BY <1>1, <1>3
    <3>4. QED
      BY <1>7, <3>1, <3>2, <3>3 DEF LinesLeft
<1>9. SSLAbove(k + 1) = IF l.key = "use_https" THEN l.yes ELSE SSLAbove(k)
  BY <1>2, <1>6, SSLNext
<1>10. k - 1 \in Nat /\ k - 1 <= m /\ Read = k - 1 /\ GivenAt \in Nat /\ k \in Nat
       /\ k <= m
  <2>1. GivenAt \in 0 .. m + 1
    BY <1>2, <1>3, GivenIs
  <2>2. Read = k - 1
    BY <1>3, <1>4 DEF Read
  <2>3. QED
    BY <1>4, <2>1, <2>2
<1>11. useSSL = SSLAbove(k) /\ endpoint = After(k - 1)
  BY <1>2, <1>3, <1>10
<1> DEFINE secure == UseHTTPS(TRUE)
<1>12. \A p : SecuredBy(p) <=> \E j \in 1 .. m : j > GivenAt /\ j <= p /\ Said(j) = secure
  BY <1>4, Zenon DEF SecuredBy
<1> HIDE DEF secure
<1>13. useSSL' = SSLAbove(k + 1) /\ useSSL' \in BOOLEAN /\ endpoint' = After(k)
  <2>1. CASE ReadHostBase(l)
    <3>1. /\ l.key = "host_base" /\ useSSL' = useSSL
          /\ endpoint' = IF endpoint # NoURL THEN endpoint ELSE WithScheme(l.url, useSSL)
      BY <2>1 DEF ReadHostBase
    <3>2. useSSL' = SSLAbove(k + 1) /\ useSSL' \in BOOLEAN
      <4>1. useSSL' = SSLAbove(k + 1)
        BY <1>9, <1>11, <3>1
      <4>2. useSSL' \in BOOLEAN
        BY <1>2, <3>1, Zenon DEF LaunchTypes
      <4>3. QED
        BY <4>1, <4>2
    <3>3. k \in HostLines /\ Said(k) # secure
      BY <1>6, <3>1, LineKinds, Zenon DEF HostLines, secure
    <3>4. CASE endpoint # NoURL
      <4>1. GivenAt <= k - 1
        BY <1>2, <1>3, <1>10, <1>11, <3>4, AfterIs
      <4>2. SecuredBy(k) <=> SecuredBy(k - 1)
        BY <1>4, <1>10, <1>12, <3>3
      <4>3. After(k) = After(k - 1)
        BY <1>10, <4>1, <4>2 DEF After
      <4>4. QED
        BY <1>11, <3>1, <3>2, <3>4, <4>3
    <3>5. CASE endpoint = NoURL
      <4>1. GivenAt > k - 1
        BY <1>2, <1>3, <1>10, <1>11, <3>5, AfterIs
      <4>2. GivenAt = k
        <5>1. GivenAt # 0
          BY <1>10, <4>1
        <5>2. GivenAt <= k
          BY <1>2, <3>3, <5>1, GivenIs
        <5>3. QED
          BY <1>10, <4>1, <5>2
      <4>3. Given = WithScheme(l.url, SSLAbove(k))
        BY <1>4, <1>6, <3>3, <4>2 DEF Given
      <4>4. ~ SecuredBy(k)
        BY <1>4, <1>12, <4>2
      <4>5. After(k) = Given
        BY <1>10, <4>2, <4>4 DEF After
      <4>6. QED
        BY <1>11, <3>1, <3>2, <3>5, <4>3, <4>5
    <3>6. QED
      BY <3>4, <3>5
  <2>2. CASE ReadUseHTTPS(l)
    <3>1. /\ l.key = "use_https" /\ useSSL' = l.yes
          /\ endpoint' = IF l.yes /\ endpoint.scheme = "http"
                           THEN [endpoint EXCEPT !.scheme = "https"] ELSE endpoint
      BY <2>2 DEF ReadUseHTTPS
    <3>2. l.yes \in BOOLEAN /\ l = UseHTTPS(l.yes) /\ k \notin HostLines
      BY <1>6, <3>1, LineKinds DEF HostLines
    <3>3. useSSL' = SSLAbove(k + 1) /\ useSSL' \in BOOLEAN
      BY <1>9, <3>1, <3>2
    <3>4. l.yes <=> Said(k) = secure
      BY <1>6, <3>2 DEF UseHTTPS, secure
    <3>5. CASE GivenAt > k - 1
      <4>1. GivenAt # k
        BY <1>2, <1>3, <1>4, <1>10, <3>2, GivenIs
      <4>2. After(k) = NoURL /\ endpoint = NoURL
        BY <1>10, <1>11, <3>5, <4>1 DEF After
      <4>3. endpoint.scheme # "http"
        BY <4>2 DEF NoURL
      <4>4. QED
        BY <3>1, <3>3, <4>2, <4>3
    <3>6. CASE GivenAt <= k - 1
      <4>1. SecuredBy(k) <=> SecuredBy(k - 1) \/ l.yes
        BY <1>4, <1>6, <1>10, <1>12, <3>4, <3>6
      <4>2. PICK g : g = Given
        OBVIOUS
      <4>3. /\ After(k - 1) = IF g.scheme = "http" /\ SecuredBy(k - 1)
                                THEN [g EXCEPT !.scheme = "https"] ELSE g
            /\ After(k) = IF g.scheme = "http" /\ (SecuredBy(k - 1) \/ l.yes)
                            THEN [g EXCEPT !.scheme = "https"] ELSE g
        BY <1>10, <3>6, <4>1, <4>2 DEF After
      <4>4. g \in URLs({"flag", "env", "file1", "file2"})
        BY <1>2, <1>3, <1>10, <3>6, <4>2, AfterIs
      <4>5. endpoint' = After(k)
        BY <1>11, <3>1, <4>3, <4>4 DEF URLs
      <4>6. QED
        BY <3>3, <4>5
    <3>7. QED
      BY <1>10, <3>5, <3>6
  <2>3. QED
    BY <1>3, <2>1, <2>2 DEF ParseLine
<1>14. endpoint' \in URLs({"flag", "env", "file1", "file2"}) \cup {NoURL}
  BY <1>2, <1>3, <1>10, <1>13, AfterIs
<1>15. AskedTypes' /\ LaunchTypes'
  BY <1>1, <1>2, <1>5, <1>13, <1>14 DEF LaunchTypes, AskedTypes
<1>16. After(k)' = After(k) /\ SSLAbove(k + 1)' = SSLAbove(k + 1)
  BY <1>1, AskedStays
<1>17. ReadSoFar'
  <2>1. useSSL' = SSLAbove(Read + 1)' /\ endpoint' = After(Read)'
    BY <1>1, <1>7, <1>13, <1>16, AskedStays DEF ReadSoFar
  <2>2. QED
    BY <1>8, <2>1 DEF ReadSoFar
<1>18. ReadAll'
  BY <1>1, <1>2 DEF ReadAll
<1>19. QED
  BY <1>15, <1>17, <1>18 DEF LaunchInv

\* Every line has been read: what is not known by now is the environment's.
LEMMA FileRead ==
    ASSUME LaunchInv, FallBackToEnv PROVE LaunchInv'
<1>1. /\ step = "file" /\ step' = "source" /\ lines = <<>>
      /\ endpoint' = IF endpoint = NoURL THEN asked.env ELSE endpoint
      /\ UNCHANGED <<asked, lines, useSSL, client, open, jobs>>
  BY DEF FallBackToEnv
<1>2. /\ LaunchTypes /\ AskedTypes /\ useSSL = SSLAbove(Read + 1)
      /\ endpoint = After(Read) /\ \A s \in Sides : client[s] = NoURL
  BY <1>1 DEF LaunchInv, ReadSoFar, ReadAll, LaunchTypes
<1>3. PICK m : m = Len(asked.lines)
  OBVIOUS
<1>4. m \in Nat /\ Read = m /\ GivenAt \in 0 .. m + 1 /\ DOMAIN asked.lines = 1 .. m
  BY <1>1, <1>2, <1>3, GivenIs DEF Read, AskedTypes
<1>5. endpoint' = Final
  <2> DEFINE secure == UseHTTPS(TRUE)
  <2>1. /\ SecuredBy(m) <=> \E j \in 1 .. m : j > GivenAt /\ j <= m /\ Said(j) = secure
        /\ MadeSecure <=> \E j \in 1 .. m : j > GivenAt /\ Said(j) = secure
    BY <1>4, Zenon DEF SecuredBy, MadeSecure
  <2> HIDE DEF secure
  <2>2. SecuredBy(m) <=> MadeSecure
    BY <1>4, <2>1
  <2>3. CASE GivenAt = m + 1
    <3>1. endpoint = NoURL
      BY <1>2, <1>4, <2>3 DEF After
    <3>2. GivenAt # 0 /\ GivenAt \notin HostLines
      BY <1>2, <1>3, <1>4, <2>3, GivenIs
    <3>3. Given = asked.env
      BY <3>2 DEF Given
    <3>4. ~ MadeSecure
      BY <1>4, <2>1, <2>3
    <3>5. QED
      BY <1>1, <3>1, <3>3, <3>4 DEF Final
  <2>4. CASE GivenAt # m + 1
    <3>1. ~(GivenAt > m) /\ m <= Len(asked.lines)
      BY <1>3, <1>4, <2>4
    <3>2. endpoint # NoURL
      BY <1>2, <1>4, <3>1, AfterIs
    <3>3. endpoint = Final
      BY <1>2, <1>4, <2>2, <3>1, Zenon DEF After, Final
    <3>4. QED
      BY <1>1, <3>2, <3>3
  <2>5. QED
    BY <2>3, <2>4
<1>6. endpoint' \in URLs({"flag", "env", "file1", "file2"}) \cup {NoURL}
  BY <1>1, <1>2 DEF LaunchTypes, AskedTypes, URLs
<1>7. LaunchTypes'
  BY <1>1, <1>2, <1>6 DEF LaunchTypes, AskedTypes
<1>8. ReadSoFar'
  BY <1>1 DEF ReadSoFar
<1>9. Final' = Final /\ SSLAbove(m + 1)' = SSLAbove(m + 1)
  BY <1>1, AskedStays
<1>10. ReadAll'
  <2>1. useSSL' = SSLAbove(Len(asked.lines) + 1)'
    BY <1>1, <1>2, <1>3, <1>4, <1>9
  <2>2. \A s \in Sides : client'[s] = NoURL
    BY <1>1, <1>2
  <2>3. QED
    BY <1>5, <1>9, <2>1, <2>2 DEF ReadAll
<1>11. QED
  BY <1>7, <1>8, <1>10 DEF LaunchInv

\* Each side has no client, or one for the endpoint that is known.
LEMMA SideOpened ==
    ASSUME LaunchInv, step \in Sides, step' \in {"source", "dest", "web", "failed"},
           UNCHANGED <<settings, jobs>>, NEW side \in Sides, Opened(side)
    PROVE  LaunchInv'
<1>1. /\ asked' = asked /\ lines' = lines /\ endpoint' = endpoint /\ useSSL' = useSSL
      /\ jobs' = jobs /\ open' = open \cup {side}
  BY DEF settings, Opened, NewS3, NewFiles
<1>2. LaunchTypes /\ ReadAll
  BY DEF LaunchInv
<1>3. PICK c : c = WithScheme(endpoint, useSSL)
  OBVIOUS
<1>4. endpoint # NoURL => c \in URLs({"flag", "env", "file1", "file2"})
  BY <1>2, <1>3 DEF LaunchTypes, URLs, WithScheme, Default, Schemes
<1>5. client' = client \/ client' = [client EXCEPT ![side] = NoURL]
      \/ (endpoint # NoURL /\ client' = [client EXCEPT ![side] = c])
  BY <1>3 DEF Opened, NewS3, NewFiles
<1>6. /\ client' \in [Sides -> URLs({"flag", "env", "file1", "file2"}) \cup {NoURL}]
      /\ \A s \in Sides : client'[s] = client[s] \/ client'[s] = NoURL
                          \/ (endpoint # NoURL /\ client'[s] = c)
  BY <1>2, <1>4, <1>5 DEF LaunchTypes
<1>7. LaunchTypes'
  BY <1>1, <1>2, <1>6 DEF LaunchTypes, AskedTypes, Sides
<1>8. ReadSoFar'
  BY DEF ReadSoFar
<1>9. /\ Final' = Final
      /\ SSLAbove(Len(asked.lines) + 1)' = SSLAbove(Len(asked.lines) + 1)
  BY <1>1, AskedStays
<1>10. step \in {"source", "dest", "web", "failed"}
  BY DEF Sides
<1>11. ReadAll'
  BY <1>1, <1>2, <1>3, <1>6, <1>9, <1>10 DEF ReadAll
<1>12. QED
  BY <1>7, <1>8, <1>11 DEF LaunchInv

\* The steps that leave the settings and the clients as they are.
LEMMA SettingsStay ==
    ASSUME LaunchInv, UNCHANGED <<settings, client, jobs>>,
           open' \subseteq Sides \cup {"page"},
           \/ step' = step
           \/ step \in Sides /\ step' \in {"web", "failed"}
           \/ step = "ui" /\ step' = "over"
    PROVE  LaunchInv'
<1>1. /\ asked' = asked /\ lines' = lines /\ endpoint' = endpoint /\ useSSL' = useSSL
      /\ jobs' = jobs /\ client' = client
  BY DEF settings
<1>2. LaunchTypes /\ ReadAll /\ ReadSoFar
  BY DEF LaunchInv
<1>3. LaunchTypes'
  BY <1>1, <1>2 DEF LaunchTypes, AskedTypes
<1>4. /\ Final' = Final
      /\ \A k : SSLAbove(k)' = SSLAbove(k)
      /\ \A k : After(k)' = After(k)
  BY <1>1, AskedStays
<1>5. SSLAbove(Len(asked.lines) + 1)' = SSLAbove(Len(asked.lines) + 1)
  BY <1>1, <1>4
<1>6. SSLAbove(Read + 1)' = SSLAbove(Read + 1) /\ After(Read)' = After(Read)
  BY <1>1, <1>4 DEF Read
<1>7. LinesLeft' <=> LinesLeft
  BY <1>1 DEF LinesLeft, Read
<1>8. step' = "file" => step = "file"
  OBVIOUS
<1>9. ReadSoFar'
  BY <1>1, <1>2, <1>6, <1>7, <1>8 DEF ReadSoFar
<1>10. step = "ui" => \A s \in Sides : client[s] = NoURL
  BY <1>2 DEF ReadAll
<1>11. ReadAll'
  BY <1>1, <1>2, <1>4, <1>5, <1>10 DEF ReadAll, Sides
<1>12. QED
  BY <1>3, <1>9, <1>11 DEF LaunchInv

\* The event loop starts, and the settings are forgotten.
LEMMA StartsUI ==
    ASSUME LaunchInv, StartUI PROVE LaunchInv'
<1>1. /\ step' = "ui" /\ open' \subseteq open \cup {"page"} /\ jobs' = jobs
      /\ asked' = Silent /\ lines' = <<>> /\ endpoint' = NoURL /\ useSSL' = TRUE
      /\ client' = Nobody
  BY DEF StartUI
<1>2. \A s \in Sides : client'[s] = NoURL
  BY <1>1 DEF Nobody
<1>3. client' \in [Sides -> URLs({"flag", "env", "file1", "file2"}) \cup {NoURL}]
  BY <1>1 DEF Nobody
<1>4. LaunchTypes'
  BY <1>1, <1>3 DEF LaunchInv, LaunchTypes, AskedTypes, Silent
<1>5. QED
  BY <1>1, <1>2, <1>4 DEF LaunchInv, ReadSoFar, ReadAll

\* Before the first line the settings are those of the flags.
LEMMA InitLaunch == ASSUME LaunchInit PROVE LaunchInv
<1>1. /\ asked.endpoint \in URLs({"flag", "env"}) \cup {NoURL}
      /\ asked.useSSL \in BOOLEAN /\ asked.env \in URLs({"env"}) \cup {NoURL}
      /\ lines = asked.lines /\ endpoint = asked.endpoint /\ useSSL = asked.useSSL
      /\ step = "file" /\ client = Nobody /\ open = {} /\ jobs \in JobCounts
  BY DEF LaunchInit
<1>2. AskedTypes /\ asked.lines \in Seq(Lines)
  <2>1. SeqOf(Lines, MaxLines) \subseteq Seq(Lines)
    BY LaunchAssumption DEF SeqOf
  <2>2. QED
    BY <2>1 DEF LaunchInit, AskedTypes
<1>3. \A s \in Sides : client[s] = NoURL
  BY <1>1 DEF Nobody
<1>4. client \in [Sides -> URLs({"flag", "env", "file1", "file2"}) \cup {NoURL}]
  BY <1>1 DEF Nobody
<1>5. endpoint \in URLs({"flag", "env", "file1", "file2"}) \cup {NoURL}
  BY <1>1 DEF URLs
<1>6. LaunchTypes
  BY <1>1, <1>2, <1>4, <1>5 DEF LaunchTypes
<1>7. Read = 0 /\ LinesLeft
  BY <1>1, <1>2 DEF Read, LinesLeft
<1>8. useSSL = SSLAbove(Read + 1)
  BY <1>1, <1>2, <1>7, SSLFirst
<1>9. endpoint = After(0)
  <2>1. GivenAt \in Nat /\ (GivenAt = 0 <=> asked.endpoint # NoURL)
    BY <1>2, GivenIs
  <2>2. CASE GivenAt = 0
    <3>1. Given = endpoint
      BY <1>1, <2>2 DEF Given
    <3>2. ~ SecuredBy(0)
      <4>1. \A j \in DOMAIN asked.lines : ~(j > 0 /\ j <= 0)
        BY <1>2
      <4>2. QED
        BY <2>2, <4>1, Zenon DEF SecuredBy
    <3>3. QED
      BY <2>2, <3>1, <3>2 DEF After
  <2>3. CASE GivenAt # 0
    BY <1>1, <2>1, <2>3 DEF After
  <2>4. QED
    BY <2>2, <2>3
<1>10. ReadSoFar /\ ReadAll
  BY <1>1, <1>3, <1>7, <1>8, <1>9 DEF ReadSoFar, ReadAll
<1>11. QED
  BY <1>6, <1>10 DEF LaunchInv

-----------------------------------------------------------------------------
(* The two together: the launch comes first, and the screen after it.      *)

SessionInv == LaunchInv /\ ScreenInv

\* Nothing is read yet and nothing drawn.
LEMMA InitSession == Init => SessionInv
<1> SUFFICES ASSUME Init PROVE SessionInv
  OBVIOUS
<1>1. LaunchInit /\ ScreenInit
  BY DEF Init
<1>2. LaunchInv
  BY <1>1, InitLaunch
<1>3. step = "file" /\ jobs \in Nat
  BY <1>1, LaunchAssumption DEF LaunchInit
<1>4. /\ phase = "scanning" /\ height = 0 /\ pane = 0 /\ selected = 0 /\ zoom = FALSE
      /\ link = NoLink /\ layout = NotYet /\ drawn = Nothing
  BY <1>1 DEF ScreenInit, Progress
<1>5. layout \in [sidebarTop : Nat, contentTop : Nat,
                  lan : {NoLink, LanURL}, pub : PublicURLs \cup {NoLink}]
  BY <1>4 DEF NotYet
<1>6. drawn \in [pane : Int, first : Int, pub : PublicURLs \cup {NoLink}]
      /\ drawn.pane # Transfers
  BY <1>4 DEF Nothing, Transfers
<1>7. ScreenTypes
  <2>1. selected \in -1 .. jobs
        /\ IF jobs > 0 THEN selected \in 0 .. jobs - 1 ELSE selected \in {-1, 0}
    BY <1>3, <1>4
  <2>2. phase \in Phases /\ height \in Heights \cup {0} /\ pane \in Panes
    BY <1>4 DEF Phases, Panes
  <2>3. zoom \in BOOLEAN /\ (zoom => jobs > 0) /\ link \in PublicURLs \cup {NoLink}
    BY <1>4
  <2>4. QED
    BY <1>5, <1>6, <2>1, <2>2, <2>3, Zenon DEF ScreenTypes
<1>8. QED
  BY <1>2, <1>3, <1>4, <1>6, <1>7
     DEF SessionInv, ScreenInv, DrawnFresh, LinksFresh, NotStarted, Unseen

\* Neither the launch nor the end of the program touches the screen.
LEMMA ScreenStays ==
    ASSUME ScreenInv, UNCHANGED <<screenVars, jobs>>,
           \/ step' = step /\ open' = open
           \/ step # "ui" /\ step' \in {"source", "dest", "web", "failed"}
                /\ step \in {"file", "source", "dest", "web"}
           \/ step = "web" /\ step' = "ui"
           \/ step' = "over"
    PROVE  ScreenInv'
<1>1. /\ phase' = phase /\ height' = height /\ pane' = pane /\ selected' = selected
      /\ zoom' = zoom /\ link' = link /\ layout' = layout /\ drawn' = drawn
      /\ jobs' = jobs
  BY DEF screenVars
<1>2. ScreenTypes /\ DrawnFresh /\ LinksFresh /\ NotStarted
  BY DEF ScreenInv
<1>3. ScreenTypes'
  BY <1>1, <1>2 DEF ScreenTypes
<1>4. DrawnFresh'
  BY <1>1, <1>2 DEF DrawnFresh, Inner
<1>5. NotStarted'
  BY <1>1, <1>2 DEF NotStarted, Unseen
<1>6. CASE step = "web" /\ step' = "ui"
  <2>1. layout = NotYet /\ phase = "scanning"
    BY <1>2, <1>6 DEF NotStarted, Unseen
  <2>2. layout.lan = NoLink /\ layout.pub = NoLink
    BY <2>1 DEF NotYet
  <2>3. LinksFresh'
    BY <1>1, <2>1, <2>2 DEF LinksFresh
  <2>4. QED
    BY <1>3, <1>4, <1>5, <2>3 DEF ScreenInv
<1>7. CASE step' = step /\ open' = open
  <2>1. LinksFresh'
    BY <1>1, <1>2, <1>7 DEF LinksFresh
  <2>2. QED
    BY <1>3, <1>4, <1>5, <2>1 DEF ScreenInv
<1>8. CASE step' # "ui"
  BY <1>3, <1>4, <1>5, <1>8 DEF ScreenInv, LinksFresh
<1>9. QED
  BY <1>6, <1>7, <1>8

\* Every step of the session keeps both halves.
LEMMA NextSession == ASSUME SessionInv, [Next]_vars PROVE SessionInv'
<1>1. LaunchInv /\ ScreenInv /\ jobs \in Nat /\ open \subseteq Sides \cup {"page"}
  BY LaunchAssumption DEF SessionInv, LaunchInv, LaunchTypes
<1>2. CASE Launching
  <2>1. UNCHANGED screenVars /\ LaunchStep
    BY <1>2 DEF Launching
  <2>2. CASE ParseLine
    <3>1. step' = step /\ open' = open /\ jobs' = jobs
      BY <2>2 DEF ParseLine
    <3>2. QED
      BY <1>1, <2>1, <2>2, <3>1, NextLine, ScreenStays DEF SessionInv
  <2>3. CASE FallBackToEnv
    <3>1. step = "file" /\ step' = "source" /\ jobs' = jobs
      BY <2>3 DEF FallBackToEnv
    <3>2. QED
      BY <1>1, <2>1, <2>3, <3>1, FileRead, ScreenStays DEF SessionInv
  <2>4. CASE OpenSource \/ OpenDestination
    <3>1. PICK side \in Sides :
              /\ step = side /\ Opened(side) /\ UNCHANGED <<settings, jobs>>
              /\ step' \in {"dest", "web"}
      BY <2>4 DEF OpenSource, OpenDestination, Sides
    <3>2. LaunchInv'
      BY <1>1, <3>1, SideOpened
    <3>3. ScreenInv'
      BY <1>1, <2>1, <3>1, ScreenStays DEF Sides
    <3>4. QED
      BY <3>2, <3>3 DEF SessionInv
  <2>5. CASE OpenFails \/ OpenDemo
    <3>1. /\ step \in Sides /\ step' \in {"web", "failed"}
          /\ UNCHANGED <<settings, client, jobs>> /\ open' \subseteq Sides \cup {"page"}
      BY <1>1, <2>5 DEF OpenFails, OpenDemo, Sides
    <3>2. LaunchInv'
      BY <1>1, <3>1, SettingsStay
    <3>3. ScreenInv'
      BY <1>1, <2>1, <3>1, ScreenStays DEF Sides
    <3>4. QED
      BY <3>2, <3>3 DEF SessionInv
  <2>6. CASE StartUI
    <3>1. step = "web" /\ step' = "ui" /\ jobs' = jobs
      BY <2>6 DEF StartUI
    <3>2. QED
      BY <1>1, <2>1, <2>6, <3>1, StartsUI, ScreenStays DEF SessionInv
  <2>7. QED
    BY <2>1, <2>2, <2>3, <2>4, <2>5, <2>6 DEF LaunchStep
<1>3. CASE Drawing
  <2>1. ScreenInv'
    BY <1>1, <1>3, NextScreen
  <2>2. UNCHANGED <<settings, client, jobs>> /\ step' = step /\ open' = open
    BY <1>3 DEF Drawing, launchVars
  <2>3. LaunchInv'
    BY <1>1, <2>2, SettingsStay
  <2>4. QED
    BY <2>1, <2>3 DEF SessionInv
<1>4. CASE Leaving
  <2>1. /\ UNCHANGED screenVars /\ step = "ui" /\ step' = "over" /\ open' = {}
        /\ UNCHANGED <<settings, client, jobs>>
    BY <1>4 DEF Leaving, Leave
  <2>2. LaunchInv'
    BY <1>1, <2>1, SettingsStay
  <2>3. ScreenInv'
    BY <1>1, <2>1, ScreenStays
  <2>4. QED
    BY <2>2, <2>3 DEF SessionInv
<1>5. CASE UNCHANGED vars
  <2>1. /\ UNCHANGED <<settings, client, jobs>> /\ step' = step /\ open' = open
        /\ UNCHANGED <<screenVars, jobs>>
    BY <1>5 DEF vars, launchVars
  <2>2. LaunchInv'
    BY <1>1, <2>1, SettingsStay
  <2>3. ScreenInv'
    BY <1>1, <2>1, ScreenStays
  <2>4. QED
    BY <2>2, <2>3 DEF SessionInv
<1>6. QED
  BY <1>2, <1>3, <1>4, <1>5 DEF Next

\* So they hold in every state of every run.
LEMMA SessionInvariant == Spec => []SessionInv
<1>1. SessionInv /\ [Next]_vars => SessionInv'
  BY NextSession
<1>2. QED
  BY <1>1, InitSession, PTL DEF Spec

-----------------------------------------------------------------------------
(* What follows for the user.                                              *)

(* The settings, the screen and what the last View left of them keep their *)
(* types from the flags to the end; a worker is selected whenever there    *)
(* are workers at all (the keys and the clicks of src/ui/update.go).       *)
THEOREM SessionTypes == Spec => []TypeOK
<1>1. ASSUME SessionInv PROVE TypeOK
  <2>1. LaunchTypes /\ ScreenTypes /\ jobs \in Nat
    BY <1>1, LaunchAssumption DEF SessionInv, LaunchInv, ScreenInv, LaunchTypes
  <2>2. Max({0, jobs - 1}) = IF 0 >= jobs - 1 THEN 0 ELSE jobs - 1
    BY <2>1, Max2
  <2>3. selected \in -1 .. Max({0, jobs - 1}) /\ (jobs > 0 => selected # -1)
    BY <2>1, <2>2 DEF ScreenTypes
  <2>4. {link, layout.pub, drawn.pub} \subseteq PublicURLs \cup {NoLink}
    BY <2>1 DEF ScreenTypes
  <2>5. zoom \in BOOLEAN /\ (zoom => jobs > 0)
    BY <2>1, Zenon DEF ScreenTypes
  <2>6. useSSL \in BOOLEAN
    BY <2>1, Zenon DEF LaunchTypes
  <2>7. QED
    BY <2>1, <2>3, <2>4, <2>5, <2>6 DEF TypeOK, LaunchTypes, ScreenTypes
<1>2. QED
  BY <1>1, SessionInvariant, PTL

(* Whatever the flags, the environment and the lines of ~/.s3cfg say, and  *)
(* in whatever order, each S3 client is built for the endpoint they mean   *)
(* (ParseS3Cfg in src/config/config.go, run in src/main.go), for a file of *)
(* any length.  On settings about whose order the README and the code      *)
(* disagree nothing is claimed.                                            *)
THEOREM EndpointTrue == Spec => []EndpointAsResolved
<1>1. ASSUME SessionInv PROVE EndpointAsResolved
  <2> SUFFICES ASSUME NEW s \in Sides, client[s] # NoURL PROVE client[s] = Resolved
    BY DEF EndpointAsResolved
  <2>1. /\ endpoint # NoURL /\ client[s] = WithScheme(endpoint, useSSL)
        /\ useSSL = SSLAbove(Len(asked.lines) + 1) /\ endpoint = Final
    BY <1>1 DEF SessionInv, LaunchInv, ReadAll
  <2>2. AskedTypes /\ Len(asked.lines) \in Nat
    BY <1>1 DEF SessionInv, LaunchInv, LaunchTypes, AskedTypes
  <2>3. PICK g : g = Given
    OBVIOUS
  <2>4. g \in URLs({"flag", "env", "file1", "file2"}) \cup {NoURL}
    BY <2>2, <2>3, AfterIs
  <2>5. g # NoURL
    <3>1. endpoint = IF g.scheme = "http" /\ MadeSecure
                       THEN [g EXCEPT !.scheme = "https"] ELSE g
      BY <2>1, <2>3, Zenon DEF Final
    <3>2. NoURL.scheme # "http"
      BY DEF NoURL
    <3>3. QED
      BY <2>1, <3>1, <3>2
  <2>6. CASE g.scheme = "http" /\ MadeSecure
    <3>1. endpoint = [g EXCEPT !.scheme = "https"] /\ Resolved = endpoint
      BY <2>1, <2>3, <2>5, <2>6 DEF Final, Resolved
    <3>2. endpoint.scheme # ""
      BY <2>4, <2>5, <3>1 DEF URLs
    <3>3. QED
      BY <2>1, <3>1, <3>2 DEF WithScheme
  <2>7. CASE ~(g.scheme = "http" /\ MadeSecure)
    BY <2>1, <2>3, <2>5, <2>7 DEF Final, Resolved
  <2>8. QED
    BY <2>6, <2>7
<1>2. QED
  BY <1>1, SessionInvariant, PTL

(* The row of the selected worker is drawn, for every number of workers    *)
(* and every height of the terminal (View's scroll offset).                *)
THEOREM SelectedShown == Spec => []SelectedIsShown
<1>1. ASSUME SessionInv PROVE SelectedIsShown
  <2> SUFFICES ASSUME drawn.pane = Transfers, ~zoom, jobs > 0
               PROVE  selected - drawn.first \in 0 .. Inner - 1
    BY DEF SelectedIsShown
  <2>1. jobs \in Nat /\ height \in Int /\ selected \in 0 .. jobs - 1
    BY <1>1, LaunchAssumption, ScreenAssumption
       DEF SessionInv, LaunchInv, LaunchTypes, ScreenInv, ScreenTypes
  <2>2. drawn.first = FirstRow(selected, Inner, jobs)
    BY <1>1 DEF SessionInv, ScreenInv, DrawnFresh
  <2>3. Inner \in Int /\ Inner >= 1
    BY <2>1, InnerIs DEF Inner
  <2>4. QED
    BY <2>1, <2>2, <2>3, RowInPane
<1>2. QED
  BY <1>1, SessionInvariant, PTL

(* A click on the dashboard opens the link that is drawn in its row, for   *)
(* every sequence of URLs that the tunnel goes through between the drawing *)
(* and the click (handleMouse in src/ui/update.go and renderWebPane in     *)
(* src/ui/panels.go share the layout).                                     *)
THEOREM ClicksOpen == Spec => ClickOpensDrawn
<1>1. ASSUME SessionInv, [Next]_vars, phase = "dashboard", Fits,
             opened'.url # NoLink, opened' # opened
      PROVE  opened'.url = DrawnAt(opened'.row)
  <2>1. /\ Drawing /\ step = "ui" /\ ScreenStep(jobs, "page" \in open)
    BY <1>1 DEF Next, Launching, Leaving, vars, screenVars, Drawing
  <2>2. NoClick.url = NoLink
    BY DEF NoClick
  <2>3. PICK y \in 0 .. height - 1 : ClickLink(y)
    BY <1>1, <2>1, <2>2 DEF ScreenStep, Update, LinkChanges
  <2>4. pane = WebUI /\ opened' = [url |-> Hit(y), row |-> y]
    BY <2>3 DEF ClickLink
  <2>5. opened'.url = Hit(y) /\ opened'.row = y
    BY <2>4
  <2>6. /\ layout.contentTop = HeaderRows + 1
        /\ "page" \in open => layout.lan = LanURL /\ layout.pub = drawn.pub
        /\ "page" \notin open => layout.lan = NoLink /\ layout.pub = NoLink
    BY <1>1, <2>1, <2>4 DEF SessionInv, ScreenInv, LinksFresh
  <2>7. "page" \in open
    BY <1>1, <2>5, <2>6 DEF Hit
  <2>8. y \in Int /\ HeaderRows \in Int
    BY <1>1, <2>3, ScreenAssumption DEF SessionInv, ScreenInv, ScreenTypes, HeaderRows
  <2>9. (y - (HeaderRows + 1) = LanRow <=> y = HeaderRows + 1 + LanRow)
        /\ (y - (HeaderRows + 1) = PubRow <=> y = HeaderRows + 1 + PubRow)
    BY <2>8 DEF LanRow, PubRow
  <2>10. Hit(y) = DrawnAt(y)
    BY <2>6, <2>7, <2>9 DEF Hit, DrawnAt
  <2>11. QED
    BY <2>5, <2>10
<1>2. SessionInv /\ [Next]_vars =>
        [phase = "dashboard" /\ Fits /\ opened'.url # NoLink /\ opened' # opened
           => opened'.url = DrawnAt(opened'.row)]_vars
  BY <1>1
<1>3. QED
  BY <1>2, SessionInvariant, PTL DEF Spec, ClickOpensDrawn
=============================================================================
