------------------------------ MODULE NoteDraft ------------------------------
(* A note being written: the surface and the hidden textarea of the          *)
(* NoteEditor hook, the autosave that sends the textarea after a pause, the  *)
(* NotesComponent that saves it against the revision it last read, and       *)
(* whoever else writes the same file.  Events and patches travel in order.   *)
(* A text is the set of the edits it holds, and its revision is the text.    *)
EXTENDS Naturals, Sequences

CONSTANTS
    Notes,
    MaxEdits,       \* bound: edits, typed or made outside
    MaxClicks,      \* bound: notes chosen and closed, conflicts resolved
    MaxSubmits      \* bound: presses of the save chord

VARIABLES
    disk,           \* disk[n]: the text of note n
    server,         \* the component's assigns
    pane,           \* the hook and its elements
    events, patches,    \* to the server, and back
    edits,          \* history: edits made so far
    theirs,         \* history: those made outside
    written,        \* history: written[n], the edits typed while n was on the screen
    clicks,         \* history: clicks so far
    dropped         \* history: an editor went from the screen with its pause running
noteVars == <<disk, server, pane, events, patches, edits, theirs, written, clicks, dropped>>

NoNote == "no note"
ASSUME NotesAssumption == NoNote \notin Notes
ASSUME EditsAssumption == MaxEdits \in Nat /\ MaxClicks \in Nat /\ MaxSubmits \in Nat

Text == SUBSET (1..MaxEdits)
Status == {"idle", "unsaved", "saved", "conflict", "error"}
Assigns == [selected : Notes \cup {NoNote}, body : Text, form : Text, revision : Text,
            status : Status, conflict : SUBSET Text]   \* conflict: nil or the note on the disk
Pane == [path : Notes \cup {NoNote}, status : Status, textarea : Text, surface : Text,
         focused : BOOLEAN, dirty : BOOLEAN, debounce : BOOLEAN]
Event == [what : {"note_dirty", "reload_conflict", "overwrite_conflict", "close_note"}]
    \cup [what : {"save_note"}, body : Text] \cup [what : {"select_note"}, path : Notes]
Patched == [path : Notes \cup {NoNote}, status : Status, form : Text, changed : BOOLEAN]

\* The type invariant: a pause is measured only where there is an editor, and no
\* draft that is marked dirty waits without one.
NoteTypeOK ==
    /\ disk \in [Notes -> Text] /\ server \in Assigns /\ pane \in Pane
    /\ events \in Seq(Event) /\ patches \in Seq(Patched)
    /\ edits \in 0..MaxEdits /\ theirs \in Text /\ written \in [Notes -> Text] /\ dropped \in BOOLEAN
    /\ clicks \in [click : 0..MaxClicks, submit : 0..MaxSubmits]
    /\ (server.selected = NoNote) = (server.status = "idle")
    /\ server.status = "conflict" => server.conflict # {}
    /\ server.selected = NoNote => server.form = {}
    /\ pane.path = NoNote => ~pane.debounce /\ ~pane.dirty

ClosedServer == [selected |-> NoNote, body |-> {}, form |-> {}, revision |-> {}, status |-> "idle", conflict |-> {}]
ClosedPane == [path |-> NoNote, status |-> "idle", textarea |-> {}, surface |-> {},
               focused |-> FALSE, dirty |-> FALSE, debounce |-> FALSE]

NoteInit ==
    /\ disk = [n \in Notes |-> {}] /\ server = ClosedServer /\ pane = ClosedPane
    /\ events = <<>> /\ patches = <<>> /\ edits = 0 /\ theirs = {} /\ written = [n \in Notes |-> {}]
    /\ clicks = [click |-> 0, submit |-> 0] /\ dropped = FALSE

NewEdit == edits < MaxEdits /\ edits' = edits + 1
Clicked(what, max) == clicks[what] < max /\ clicks' = [clicks EXCEPT ![what] = @ + 1]

-----------------------------------------------------------------------------
(* The hook.                                                               *)

\* pushModel: the textarea takes the text, the server hears once that the draft
\* is ahead, and the pause before the autosave begins anew.
ShouldAnnounceDirty == ~pane.dirty /\ pane.status # "conflict"
PushModel(text) ==
    /\ pane' = [pane EXCEPT !.surface = text, !.textarea = text, !.focused = TRUE, !.debounce = TRUE,
                            !.dirty = @ \/ ShouldAnnounceDirty]
    /\ events' = IF ShouldAnnounceDirty THEN Append(events, [what |-> "note_dirty"]) ELSE events

\* A keystroke changes the surface; a toolbar command takes the textarea's text.
Write(base) ==
    /\ pane.path # NoNote /\ NewEdit /\ PushModel(base \cup {edits + 1})
    /\ written' = [written EXCEPT ![pane.path] = @ \cup {edits + 1}]
    /\ UNCHANGED <<disk, server, patches, theirs, clicks, dropped>>
Keystroke == Write(pane.surface)
ToolbarCommand == Write(pane.textarea)

SaveEvent == Append(events, [what |-> "save_note", body |-> pane.textarea])
Autosave ==
    /\ pane.debounce /\ pane' = [pane EXCEPT !.debounce = FALSE] /\ events' = SaveEvent
    /\ UNCHANGED <<disk, server, patches, edits, theirs, written, clicks, dropped>>
\* The save chord submits the form at once.
SubmitNote ==
    /\ pane.path # NoNote /\ Clicked("submit", MaxSubmits) /\ pane' = [pane EXCEPT !.debounce = FALSE]
    /\ events' = SaveEvent /\ UNCHANGED <<disk, server, patches, edits, theirs, written, dropped>>

\* A click outside of the surface: another note, or the same one, a resolved conflict.
ClickOn(event) ==
    /\ Clicked("click", MaxClicks) /\ events' = Append(events, event) /\ pane' = [pane EXCEPT !.focused = FALSE]
    /\ UNCHANGED <<disk, server, patches, edits, theirs, written, dropped>>
SelectNote(n) == ClickOn([what |-> "select_note", path |-> n])
Resolve(how) == pane.status = "conflict" /\ ClickOn([what |-> how])
Close == pane.path # NoNote /\ ClickOn([what |-> "close_note"])

\* updated(): the mark is cleared once the server is not behind, and a text of
\* the server is drawn unless the caret is in the surface.
StaysDirty(status) == pane.dirty                    \* mutant: never announced again
StillDirty(status) == pane.dirty /\ status = "unsaved"
SyncFromModel(text) == IF pane.focused THEN pane.surface ELSE text

ApplyPatch ==
    /\ patches # <<>> /\ patches' = Tail(patches)
    /\ LET p == Head(patches)
           text == IF p.changed THEN p.form ELSE pane.textarea IN
       pane' = IF p.path = NoNote THEN ClosedPane
               ELSE IF pane.path = NoNote
               THEN [ClosedPane EXCEPT !.path = p.path, !.status = p.status, !.textarea = p.form, !.surface = p.form]
               ELSE [pane EXCEPT !.path = p.path, !.status = p.status, !.textarea = text,
                                 !.surface = SyncFromModel(text), !.dirty = StillDirty(p.status)]
    /\ dropped' = (dropped \/ (Head(patches).path = NoNote /\ pane.debounce))
    /\ UNCHANGED <<disk, server, events, edits, theirs, written, clicks>>

-----------------------------------------------------------------------------
(* The component.                                                          *)

\* The new assigns, and a patch when one changed.
Assign(new) ==
    /\ server' = new
    /\ patches' = IF new = server THEN patches
                  ELSE Append(patches, [path |-> new.selected, status |-> new.status, form |-> new.form,
                                        changed |-> new.form # server.form])
    /\ UNCHANGED <<pane, edits, theirs, written, clicks, dropped>>

\* assign_body records a text; assign_draft also renders the field again.
AssignDraft(body) == [server EXCEPT !.body = body, !.form = body]
AssignBody(body) == [server EXCEPT !.body = body]

OpenNote(n, text) ==
    Assign([AssignDraft(text) EXCEPT !.selected = n, !.revision = text, !.status = "saved", !.conflict = {}])

\* Notes.save against a revision that may have gone, which may also fail.
Save(body, force) ==
    LET n == server.selected IN
    \/ /\ disk[n] = server.revision \/ force
       /\ disk' = [disk EXCEPT ![n] = body]
       /\ Assign([AssignBody(body) EXCEPT !.revision = body, !.status = "saved", !.conflict = {}])
    \/ /\ disk[n] # server.revision /\ ~force /\ UNCHANGED disk
       /\ Assign([AssignBody(body) EXCEPT !.status = "conflict", !.conflict = {disk[n]}])
    \/ Assign([AssignBody(body) EXCEPT !.status = "error"]) /\ UNCHANGED disk

Received(what) == events # <<>> /\ Head(events).what = what /\ events' = Tail(events)

HandleSaveNote ==
    /\ Received("save_note")
    /\ LET body == Head(events).body IN
       \/ server.selected = NoNote /\ Assign(server) /\ UNCHANGED disk
       \/ server.selected # NoNote /\ server.status = "conflict" /\ Assign(AssignBody(body)) /\ UNCHANGED disk
       \/ server.selected # NoNote /\ server.status # "conflict" /\ Save(body, FALSE)
DirtyAnyway == TRUE                                 \* mutant: also with no note open
TakesDirt == server.selected # NoNote /\ server.status # "conflict"
HandleNoteDirty ==
    /\ Received("note_dirty") /\ UNCHANGED disk
    /\ Assign(IF TakesDirt THEN [server EXCEPT !.status = "unsaved"] ELSE server)
HandleSelectNote == Received("select_note") /\ OpenNote(Head(events).path, disk[Head(events).path]) /\ UNCHANGED disk
HandleReload ==
    /\ Received("reload_conflict") /\ UNCHANGED disk
    /\ \/ server.conflict = {} /\ Assign(server)
       \/ \E text \in server.conflict : OpenNote(server.selected, text)
HandleOverwrite ==
    /\ Received("overwrite_conflict")
    /\ IF server.selected = NoNote THEN Assign(server) /\ UNCHANGED disk ELSE Save(server.body, TRUE)
HandleClose == Received("close_note") /\ Assign(ClosedServer) /\ UNCHANGED disk

\* check_revision and the broadcast of a change: reconcile.
Reconcile ==
    /\ server.selected # NoNote /\ server.status # "conflict" /\ disk[server.selected] # server.revision
    /\ IF server.status = "unsaved"
       THEN Assign([server EXCEPT !.status = "conflict", !.conflict = {disk[server.selected]}])
       ELSE OpenNote(server.selected, disk[server.selected])
    /\ UNCHANGED <<disk, events>>

\* An agent's command, another window, another program.
OutsideWrite(n) ==
    /\ NewEdit /\ disk' = [disk EXCEPT ![n] = @ \cup {edits + 1}] /\ theirs' = theirs \cup {edits + 1}
    /\ UNCHANGED <<server, pane, events, patches, written, clicks, dropped>>

NoteNext ==
    \/ Keystroke \/ ToolbarCommand \/ Autosave \/ SubmitNote \/ Close \/ ApplyPatch
    \/ \E how \in {"reload_conflict", "overwrite_conflict"} : Resolve(how)
    \/ HandleSaveNote \/ HandleNoteDirty \/ HandleSelectNote \/ HandleReload \/ HandleOverwrite \/ HandleClose
    \/ Reconcile \/ \E n \in Notes : SelectNote(n) \/ OutsideWrite(n)

NoteSpec == NoteInit /\ [][NoteNext]_noteVars

-----------------------------------------------------------------------------
(* Properties.                                                             *)

NoteAtRest == events = <<>> /\ patches = <<>> /\ ~pane.debounce

\* While nobody else writes, an editor at rest that says "saved", of a note opened
\* once, shows what is on the disk with everything that was typed: nothing typed
\* during a save is replaced by the text that was saved (notes_component.ex:437-456).
SavedIsWhatIsShown ==
    NoteAtRest /\ theirs = {} /\ pane.status = "saved" /\ clicks.click = 1 =>
        /\ pane.surface = disk[pane.path] /\ written[pane.path] = pane.surface
        /\ server.revision = pane.surface

\* "Unsaved" never stays: each announced draft is followed by its save, and the
\* next draft is announced again (notes_component.ex:299-305, note_editor.js:92-95).
\* An editor that is closed while its pause runs takes the save with it, and its
\* announcement may reach the note chosen next.
UnsavedPasses == NoteAtRest => (server.status # "unsaved" \/ dropped) /\ ~pane.dirty

\* An editor that comes to rest has told the truth about the draft.
SaveSettles == SavedIsWhatIsShown /\ UnsavedPasses

\* Documented (notes.ex:191-192): a save returns a conflict "without writing when
\* another editor changed the file. Pass :force only after explicit user confirmation":
\* what somebody else wrote stays in the file unless the operator overwrites it.
OutsideEditsSurvive ==
    [][\A n \in Notes : HandleSaveNote => disk[n] \cap theirs \subseteq disk'[n]]_noteVars
=============================================================================
