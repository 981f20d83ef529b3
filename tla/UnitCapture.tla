------------------------------ MODULE UnitCapture ------------------------------
(***************************************************************************)
(* How the units of a converted document are measured and photographed in  *)
(* a browser (evaluate/multiformat_candidate_browser.py), and how a        *)
(* security case is inspected (multiformat_candidate_security_browser.py). *)
(* Requests, errors and windows are reported to callbacks, which only fill *)
(* lists that are looked at later.  A callback runs while the browser does *)
(* something for the harness, which is between any two steps here.         *)
(***************************************************************************)
EXTENDS Naturals, Sequences

CONSTANT LastUnit   \* the units of a page are numbered from 1

Units == 1..LastUnit
Impostor == 0          \* an element with the id of a unit, before it in the page
NoUnit == LastUnit + 1

VARIABLES
  kind,      \* "units": each for itself; "pages": all in one picture; "security"
  doc,       \* what there is in the page
  hidden,    \* the elements whose display the harness has set to none
  active,    \* the one that it has shown last
  requests,  \* requests to other places were reported
  failures,  \* and errors, windows, downloads or a crash: "none", "before" or only
             \* "closing"
  crashed,   \* the page is gone
  pc, unit,  \* the step, and the unit that it is about
  captured,  \* the records of the units
  result     \* "running", "ok" or "failed"

page == <<kind, doc>>
display == <<hidden, active>>
reports == <<requests, failures, crashed>>
vars == <<page, display, reports, pc, unit, captured, result>>

\* own: the units that the author shows; impostor: the unit whose id it has; nested: the
\* last unit lies in the first; sound: the units are those that were asked for, in order
\* and of the right size; links: the page names other places; scripts: it has some.
Documents ==
  [own : {Units, Units \ {LastUnit}}, impostor : 0..LastUnit, nested : BOOLEAN,
   sound : BOOLEAN, links : BOOLEAN, scripts : BOOLEAN]

Init ==
  /\ kind \in {"units", "pages", "security"} /\ doc \in Documents
  /\ hidden = {} /\ active = NoUnit
  /\ requests = FALSE /\ failures = "none" /\ crashed = FALSE
  /\ pc = "goto" /\ unit = 1 /\ captured = <<>> /\ result = "running"

-----------------------------------------------------------------------------
(* The page.                                                                *)

\* querySelector finds the first element with the id.
Found(u) == IF doc.impostor = u THEN Impostor ELSE u

Displayed(n) == n \notin hidden /\ n \in doc.own \cup {Impostor}
Visible(n) == Displayed(n) /\ (doc.nested /\ n = LastUnit => Displayed(1))
Seen == {u \in Units : Visible(u)}

Closing == {"close context", "close browser"}
Listening == result = "running" /\ pc \notin {"goto", "judge"}

\* route_request: the request is aborted.
Request ==
  /\ Listening /\ requests' = TRUE
  /\ UNCHANGED <<page, display, failures, crashed, pc, unit, captured, result>>

\* What is reported when the page is crashed already is reported no more.
Failure ==
  /\ Listening /\ ~crashed
  /\ failures' = IF pc \in Closing /\ failures = "none" THEN "closing"
                 ELSE IF pc \in Closing THEN failures ELSE "before"
  /\ crashed' \in BOOLEAN
  /\ UNCHANGED <<page, display, requests, pc, unit, captured, result>>

-----------------------------------------------------------------------------
(* The harness.                                                             *)

At(step) == result = "running" /\ pc = step
Fail == result' = "failed" /\ UNCHANGED <<pc, unit, captured>>
Goto(step) == pc' = step /\ UNCHANGED <<unit, captured, result>>

\* A step of the browser may fail, and does when the page has crashed.
Works == ~crashed
Browser(step) == Fail \/ (Works /\ Goto(step))

Load ==
  /\ At("goto")
  /\ Browser(IF kind = "security" THEN "look for scripts" ELSE "resources")
  /\ UNCHANGED <<page, display, reports>>

Resources ==
  /\ At("resources") /\ Browser("check requests")
  /\ requests' = (requests \/ doc.links)
  /\ UNCHANGED <<page, display, failures, crashed>>

CheckRequests ==
  /\ At("check requests") /\ (IF requests THEN Fail ELSE Goto("prepare"))
  /\ UNCHANGED <<page, display, reports>>

\* The static style, the size of a presentation, and what must be loaded.
Prepare ==
  /\ At("prepare") /\ Browser("check") /\ UNCHANGED <<page, display, reports>>

Noticed == requests \/ failures # "none"
Check ==
  /\ At("check") /\ (IF Noticed THEN Fail ELSE Goto("discover"))
  /\ UNCHANGED <<page, display, reports>>

Discover ==
  /\ At("discover")
  /\ IF doc.sound THEN Browser(IF kind = "units" THEN "hide" ELSE "extract") ELSE Fail
  /\ UNCHANGED <<page, display, reports>>

\* INITIALIZE_DISCOVERED_UNIT_ISOLATION_SCRIPT.
Hide ==
  /\ At("hide") /\ Browser("isolate")
  /\ hidden' = {Found(u) : u \in Units} /\ UNCHANGED <<page, active, reports>>

\* Mutant of NowHidden: the unit that was shown before stays.
NeverHidden == hidden \ {Found(unit)}

\* ISOLATE_DISCOVERED_UNIT_SCRIPT: the display is as the author has set it.
NowHidden == (hidden \cup ({active} \ {NoUnit})) \ {Found(unit)}
Isolate ==
  /\ At("isolate") /\ Browser("extract")
  /\ hidden' = NowHidden /\ active' = Found(unit) /\ UNCHANGED <<page, reports>>

\* EXTRACT_DOM_SCRIPT: the inventory is of the elements that are found.
Roots == IF kind = "pages" THEN [u \in Units |-> Found(u)] ELSE <<Found(unit)>>
Extract ==
  /\ At("extract") /\ pc' = "shoot" /\ UNCHANGED <<unit, result>> /\ Works
  /\ captured' = Append(captured, [roots |-> Roots, seen |-> Seen, picture |-> <<>>])
  /\ UNCHANGED <<page, display, reports>>
ExtractFails ==
  /\ At("extract") /\ Fail /\ UNCHANGED <<page, display, reports>>

\* A picture needs one element with the id, and that it is visible.
CanShoot(u) == Works /\ doc.impostor # u /\ Visible(u)
Shoot(u) == captured' = [captured EXCEPT ![Len(captured)].picture = Append(@, <<u, Seen>>)]
Screenshot ==
  /\ At("shoot")
  /\ \/ CanShoot(unit) /\ Shoot(unit) /\ result' = result
        /\ IF unit < LastUnit
           THEN unit' = unit + 1 /\ pc' = IF kind = "pages" THEN "shoot" ELSE "isolate"
           ELSE unit' = unit /\ pc' = "last check"
     \/ Fail
  /\ UNCHANGED <<page, display, reports>>

LastCheck ==
  /\ At("last check") /\ (IF Noticed THEN Fail ELSE Goto("close context"))
  /\ UNCHANGED <<page, display, reports>>

\* Scripts, or what can start one; popups and downloads so far count too.
LookForScripts ==
  /\ At("look for scripts")
  /\ (IF doc.scripts \/ failures # "none" THEN Fail ELSE Browser("close context"))
  /\ UNCHANGED <<page, display, reports>>

CloseContext ==
  /\ At("close context") /\ (Fail \/ Goto("close browser"))
  /\ UNCHANGED <<page, display, reports>>
CloseBrowser ==
  /\ At("close browser") /\ (Fail \/ Goto("judge"))
  /\ UNCHANGED <<page, display, reports>>

\* capture_clean_run and execute_candidate_security_case look at the requests again.
Judge ==
  /\ At("judge") /\ result' = (IF requests THEN "failed" ELSE "ok")
  /\ UNCHANGED <<page, display, reports, pc, unit, captured>>

Step ==
  \/ Load \/ Resources \/ CheckRequests \/ Prepare \/ Check \/ Discover \/ Hide \/ Isolate
  \/ Extract \/ ExtractFails \/ Screenshot \/ LastCheck \/ LookForScripts \/ CloseContext
  \/ CloseBrowser \/ Judge

Next == Request \/ Failure \/ Step

Spec == Init /\ [][Next]_vars

-----------------------------------------------------------------------------
\* The record of unit u alone, and that of all pages.
Alone(u) == [roots |-> <<u>>, seen |-> {u}, picture |-> <<<<u, {u}>>>>]
Together == [roots |-> [u \in Units |-> u], seen |-> Units,
             picture |-> [u \in Units |-> <<u, Units>>]]

(* A capture that succeeded shows the document: each unit has an inventory  *)
(* and a picture of itself, in order, taken while no other unit was shown   *)
(* (or of all pages while all were), whatever the ids and styles in the     *)
(* page; and nothing was reported since the start but errors while it was   *)
(* being closed.                                                            *)
PicturesAreTrue ==
  result = "ok" =>
    /\ kind = "units" => captured = [u \in Units |-> Alone(u)]
    /\ kind = "pages" => captured = <<Together>>
    /\ ~requests /\ failures # "before"
=============================================================================
