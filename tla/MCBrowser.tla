------------------------------ MODULE MCBrowser ------------------------------
(* Three parts of the in-app browser that share no state, one at a time:    *)
(* `subject` is the part that moves, the others keep one initial state.     *)
EXTENDS BrowserChrome, ChromeBar, BrowserPane

VARIABLE subject

MCSessions == {[tabs |-> <<>>, active |-> 0], [tabs |-> <<"p", "p">>, active |-> 1]}

BrowserInit ==
  /\ subject \in {"chrome", "bar", "pane"}
  /\ ChromeInit /\ (subject # "chrome" => ~deepLinked /\ reply.active = 0)
  /\ BarInit
  /\ PaneInit /\ (subject # "pane" => ~mirror)

BrowserNext ==
  /\ UNCHANGED subject
  /\ \/ subject = "chrome" /\ ChromeNext /\ UNCHANGED <<barVars, paneVars>>
     \/ subject = "bar" /\ BarNext /\ UNCHANGED <<chromeVars, paneVars>>
     \/ subject = "pane" /\ PaneNext /\ UNCHANGED <<chromeVars, barVars>>

BrowserSpec == BrowserInit /\ [][BrowserNext]_<<subject, chromeVars, barVars, paneVars>>

\* The type invariants of the three parts, with the budget of live webviews and
\* the one thing that the row may show.
BrowserTypeOK == ChromeTypeOK /\ BarTypeOK /\ PaneTypeOK
=============================================================================
