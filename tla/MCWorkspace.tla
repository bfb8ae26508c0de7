----------------------------- MODULE MCWorkspace -----------------------------
(* Four parts of the workspace page that share no state, one at a time:     *)
(* `subject` is the part that moves, the others keep one initial state.     *)
EXTENDS AppTabs, Workbench, Terminal, TerminalPaint

VARIABLE subject

MCAreas == 1..3
MCViews == 1..2
MCShells == 1..3

WorkspaceInit ==
  /\ subject \in {"tabs", "workbench", "terminal", "paint"}
  /\ TabsInit /\ (subject # "tabs" => tabs = <<>>)
  /\ WorkInit
  /\ TermInit
  /\ PaintInit /\ (subject # "paint" => active)

WorkspaceNext ==
  /\ UNCHANGED subject
  /\ \/ subject = "tabs" /\ TabsNext /\ UNCHANGED <<workVars, termVars, paintVars>>
     \/ subject = "workbench" /\ WorkNext /\ UNCHANGED <<tabVars, termVars, paintVars>>
     \/ subject = "terminal" /\ TermNext /\ UNCHANGED <<tabVars, workVars, paintVars>>
     \/ subject = "paint" /\ PaintNext /\ UNCHANGED <<tabVars, workVars, termVars>>

WorkspaceSpec ==
  WorkspaceInit /\ [][WorkspaceNext]_<<subject, tabVars, workVars, termVars, paintVars>>

\* The type invariants of the four parts, with what they say of the strip, the
\* arrangement, the listeners and the text that is held back.
WorkspaceTypeOK == TabsTypeOK /\ WorkTypeOK /\ TermTypeOK /\ PaintTypeOK
=============================================================================
