------------------------------ MODULE Composer ------------------------------
(* The chat composer of the page: the keyboard contract and the delivery    *)
(* field (hooks/composer.js, lib/compose_keys.js), files dropped or pasted  *)
(* (hooks/chat_dropzone.js, lib/attachments.js), the queue rail and Escape  *)
(* (hooks/chat.js), and what the LiveView and the conversation make of the  *)
(* events they push (chat_attachments.ex, status/chat.ex, chat.ex).         *)
EXTENDS Naturals, Sequences, FiniteSets, SequencesExt, Lists

CONSTANTS
    FileCap,        \* files that may sit in the composer (5 in the code)
    MaxFiles,       \* bound: files offered
    MaxSends,       \* bound: messages submitted
    MaxWire,        \* bound: events on their way to the LiveView
    MaxReopens      \* bound: times the conversation is shown again
ASSUME ComposerBounds == {FileCap, MaxFiles, MaxSends, MaxWire, MaxReopens} \subseteq Nat

VARIABLES
    native, steerable,  \* the packaged app, or a browser; whether the backend takes steers
    typed, hidden, frame,   \* the textarea, the delivery field, and the frame that clears them
    shown, rail,        \* data-running and the queue's ids as last rendered
    offered, uploading, \* files offered so far, and those that LiveView uploads
    wire,               \* events pushed to the LiveView, in order
    pending, refusal,   \* chat_attachments and chat_attach_error
    running, waiting,   \* the conversation: a turn runs, and its queue
    staged, cited,      \* files in the store, and those the transcript names
    sends, reopens,     \* history: submits, and times the conversation was shown again
    turnedAway          \* history: files refused, or taken back by the operator
fieldVars == <<typed, hidden, frame>>
fileVars == <<offered, uploading>>
chipVars == <<pending, refusal, reopens>>
turnVars == <<running, waiting, cited>>
composerVars == <<native, steerable, fieldVars, shown, rail, fileVars, wire, chipVars, turnVars,
                  staged, sends, turnedAway>>

Files == 1..MaxFiles
Deliveries == {"auto", "next", "steer"}
Note(ev, files) == [ev |-> ev, files |-> files, delivery |-> "auto", meant |-> "auto", words |-> FALSE]
PushedEvents == [ev : {"attach_error", "attach_paths", "remove", "dismiss", "select", "send", "reorder", "cut"},
          files : Seq(Nat), delivery : Deliveries, meant : Deliveries, words : BOOLEAN]
Riding == UNION {Range(waiting[i].files) : i \in DOMAIN waiting}
Ids(queue) == [i \in DOMAIN queue |-> queue[i].id]

\* The type invariant; at most FileCap chips belong to the message being
\* written, however many drops and uploads were under way at once.
ComposerTypeOK ==
    /\ native \in BOOLEAN /\ steerable \in BOOLEAN /\ typed \in BOOLEAN /\ frame \in BOOLEAN
    /\ hidden \in Deliveries /\ shown \in BOOLEAN /\ rail \in Seq(1..MaxSends) /\ wire \in Seq(PushedEvents)
    /\ offered \in 0..MaxFiles /\ uploading \subseteq Files /\ pending \in Seq(Files)
    /\ refusal \in BOOLEAN /\ running \in BOOLEAN /\ waiting \in Seq([id : 1..MaxSends, files : Seq(Files)])
    /\ staged \subseteq Files /\ cited \subseteq Files /\ Range(pending) \subseteq staged
    /\ IsInjective(pending) /\ Cardinality(Range(pending) \ (Riding \cup cited)) <= FileCap

ComposerInit ==
    /\ native \in BOOLEAN /\ steerable \in BOOLEAN
    /\ typed = FALSE /\ hidden = "auto" /\ frame = FALSE /\ shown = FALSE /\ rail = <<>>
    /\ offered = 0 /\ uploading = {} /\ wire = <<>> /\ pending = <<>> /\ refusal = FALSE
    /\ running = FALSE /\ waiting = <<>> /\ staged = {} /\ cited = {}
    /\ sends = 0 /\ reopens = 0 /\ turnedAway = {}

PushNotes(s) == Len(wire) + Len(s) <= MaxWire /\ wire' = wire \o s

-----------------------------------------------------------------------------
(* The form.                                                               *)

\* What each action delivers, given the state on screen.
DeliveryFor(on, which) ==
    CASE ~on -> "auto"
      [] on /\ ~steerable -> "next"
      [] OTHER -> IF which = "secondary" THEN "next" ELSE "steer"

Type == /\ ~typed /\ ~frame /\ sends < MaxSends /\ typed' = TRUE
        /\ UNCHANGED <<native, steerable, hidden, frame, shown, rail, fileVars, wire, chipVars, turnVars,
                       staged, sends, turnedAway>>

Submit(which, delivery) ==
    /\ sends < MaxSends /\ sends' = sends + 1
    /\ PushNotes(<<[Note("send", <<>>) EXCEPT !.delivery = delivery, !.meant = DeliveryFor(shown, which), !.words = typed]>>)
    /\ frame' = TRUE
    /\ UNCHANGED <<native, steerable, typed, shown, rail, fileVars, chipVars, turnVars, staged, turnedAway>>

\* Enter, and Cmd/Ctrl+Shift+Enter; Enter with no text does nothing.
Keydown(intent) ==
    /\ typed /\ ~frame
    /\ hidden' = DeliveryFor(shown, intent)
    /\ Submit(intent, hidden')

\* The buttons, which post the field as it stands, or "next"; nobody clicks
\* within the frame of another submit.
ClickPrimary   == ~frame /\ Submit("primary", hidden) /\ UNCHANGED hidden
ClickSecondary == ~frame /\ shown /\ steerable /\ Submit("secondary", "next") /\ UNCHANGED hidden

KeepsTheChord == hidden                                         \* mutant: the field is not put back
FieldAfterSubmit == DeliveryFor(shown, "primary")

\* The next animation frame empties the text, whatever becomes of the message.
SubmitFrame ==
    /\ frame /\ frame' = FALSE /\ typed' = FALSE /\ hidden' = FieldAfterSubmit
    /\ UNCHANGED <<native, steerable, shown, rail, fileVars, wire, chipVars, turnVars, staged, sends, turnedAway>>

\* The server renders: a changed data-running renders the field with it.
Render ==
    /\ shown' = running /\ rail' = Ids(waiting) /\ <<shown, rail>>' # <<shown, rail>>
    /\ hidden' = IF shown' # shown THEN DeliveryFor(shown', "primary") ELSE hidden
    /\ UNCHANGED <<native, steerable, typed, frame, fileVars, wire, chipVars, turnVars, staged, sends, turnedAway>>

Escape ==
    /\ shown /\ PushNotes(<<Note("cut", <<>>)>>)
    /\ UNCHANGED <<native, steerable, fieldVars, shown, rail, fileVars, chipVars, turnVars, staged, sends, turnedAway>>

\* The order is read off the rail when the drag ends.
DragRail ==
    /\ \E i \in DOMAIN rail : PushNotes(<<Note("reorder", [rail EXCEPT ![1] = rail[i], ![i] = rail[1]])>>)
    /\ UNCHANGED <<native, steerable, fieldVars, shown, rail, fileVars, chipVars, turnVars, staged, sends, turnedAway>>

-----------------------------------------------------------------------------
(* Files.                                                                  *)

\* inspectFile: each file by its name, its type and its size.
Acceptable(files) == SUBSET Range(files)

\* inspectFiles: the verdicts on one gesture.  data-attach-count is rendered
\* nowhere, so the room is that of an empty composer each time.
Room == FileCap
Accepted(files, good) ==
    LET fit == Only(files, good) IN SubSeq(fit, 1, IF Len(fit) < Room THEN Len(fit) ELSE Room)
RejectsOnlyBad(files, good) == AllBut(files, good)   \* mutant: too many is not said
Rejected(files, good) == AllBut(files, Range(Accepted(files, good)))
Refusals(no) == [i \in DOMAIN no |-> Note("attach_error", <<no[i]>>)]

\* takePaths: a drop on the desktop; the refusals are pushed first.
TakePaths(files, good) ==
    LET ok == Accepted(files, good) IN
    /\ native
    /\ PushNotes(Refusals(Rejected(files, good)) \o IF ok # <<>> THEN <<Note("attach_paths", ok)>> ELSE <<>>)
    /\ UNCHANGED uploading

\* takeFiles: a paste anywhere, a drop in a plain browser.
TakeFiles(files, good) ==
    /\ PushNotes(Refusals(Rejected(files, good)))
    /\ uploading' = uploading \cup Range(Accepted(files, good))

Offer ==
    \E n \in 1..(MaxFiles - offered) :
        LET files == [i \in 1..n |-> offered + i] IN
        /\ \E good \in Acceptable(files) : TakePaths(files, good) \/ TakeFiles(files, good)
        /\ offered' = offered + n
        /\ UNCHANGED <<native, steerable, fieldVars, shown, rail, chipVars, turnVars, staged, sends, turnedAway>>

Refused(files) ==
    /\ refusal' = TRUE /\ turnedAway' = turnedAway \cup files

\* stage_one, over the files in turn: up to the cap they are staged, unless the
\* store refuses; a success takes the banner down.
Verdicts(files) == [Range(files) -> BOOLEAN]
StageUncapped(files, storable) ==                               \* mutant: the LiveView trusts the page's cap
    [chips |-> pending \o files, banner |-> FALSE, refused |-> {}]
StageFiles(files, storable) ==
    LET after[n \in 0..Len(files)] ==
            IF n = 0 THEN [chips |-> pending, banner |-> refusal, refused |-> {}]
            ELSE LET s == after[n - 1]  f == files[n] IN
                 IF storable[f] /\ Len(s.chips) < FileCap
                 THEN [s EXCEPT !.chips = Append(@, f), !.banner = FALSE]
                 ELSE [s EXCEPT !.banner = TRUE, !.refused = @ \cup {f}]
    IN  after[Len(files)]

Stage(files) ==
    \E storable \in Verdicts(files) :
        LET r == StageFiles(files, storable) IN
        /\ pending' = r.chips /\ refusal' = r.banner
        /\ staged' = staged \cup Range(r.chips)
        /\ turnedAway' = turnedAway \cup r.refused
        /\ UNCHANGED reopens

\* handle_attach_progress of a finished upload; or LiveView refused the file.
UploadDone(f) ==
    /\ f \in uploading /\ uploading' = uploading \ {f}
    /\ Stage(<<f>>)
    /\ UNCHANGED <<native, steerable, fieldVars, shown, rail, offered, wire, turnVars, sends>>
UploadFails(f) ==
    /\ f \in uploading /\ uploading' = uploading \ {f}
    /\ turnedAway' = turnedAway \cup {f}
    /\ UNCHANGED <<native, steerable, fieldVars, shown, rail, offered, wire, chipVars, turnVars, staged, sends>>

\* The operator's clicks: a chip's cross, the banner's, the conversation's tab.
ClickChip(f)   == f \in Range(pending) /\ PushNotes(<<Note("remove", <<f>>)>>) /\ UNCHANGED reopens
ClickDismiss   == refusal /\ PushNotes(<<Note("dismiss", <<>>)>>) /\ UNCHANGED reopens
ClickChat      == reopens < MaxReopens /\ reopens' = reopens + 1 /\ PushNotes(<<Note("select", <<>>)>>)
Click ==
    /\ ClickDismiss \/ ClickChat \/ \E f \in Files : ClickChip(f)
    /\ UNCHANGED <<native, steerable, fieldVars, shown, rail, fileVars, pending, refusal, turnVars, staged, sends, turnedAway>>

-----------------------------------------------------------------------------
(* The LiveView, and the conversation behind it.                           *)

Next1(ev) == wire # <<>> /\ Head(wire).ev = ev /\ wire' = Tail(wire)
AtServer == <<native, steerable, fieldVars, shown, rail, fileVars, sends>>

AttachError ==
    /\ Next1("attach_error") /\ Refused(Range(Head(wire).files))
    /\ UNCHANGED <<AtServer, pending, reopens, turnVars, staged>>
AttachPaths ==
    /\ Next1("attach_paths") /\ Stage(Head(wire).files) /\ UNCHANGED <<AtServer, turnVars>>

\* remove: out of the composer, and out of the store.
RemoveAttachment ==
    /\ Next1("remove")
    /\ LET f == Head(Head(wire).files) IN
       /\ pending' = AllBut(pending, {f})
       /\ staged' = IF f \in Range(pending) THEN staged \ {f} ELSE staged
       /\ turnedAway' = IF f \in Range(pending) THEN turnedAway \cup {f} ELSE turnedAway
    /\ UNCHANGED <<AtServer, refusal, reopens, turnVars>>

DismissError ==
    /\ Next1("dismiss") /\ refusal' = FALSE
    /\ UNCHANGED <<AtServer, pending, reopens, turnVars, staged, turnedAway>>

\* activate_chat: what is staged and not in the transcript waits in the composer.
Sorted(S) == {s \in [1..Cardinality(S) -> S] : \A i, j \in DOMAIN s : i < j => s[i] < s[j]}
SelectChat ==
    /\ Next1("select")
    /\ pending' \in Sorted(staged \ cited) /\ refusal' = FALSE
    /\ UNCHANGED <<AtServer, reopens, turnVars, staged, turnedAway>>

\* start_run writes the message into the transcript, then the backend starts or not.
Begin(m) == cited' = cited \cup Range(m.files)
ClearComposer == pending' = <<>> /\ refusal' = FALSE
StartsTurn(m) == ~running /\ running' = TRUE /\ Begin(m) /\ UNCHANGED waiting /\ ClearComposer
FailsToStart(m) ==
    /\ ~running /\ Begin(m)
    /\ UNCHANGED <<running, waiting, pending, refusal>>
Queues(m) == running /\ waiting' = Append(waiting, m) /\ UNCHANGED <<running, cited>> /\ ClearComposer
Steers(m, delivery) ==
    /\ running /\ steerable /\ delivery = "steer"
    /\ \/ Begin(m) /\ UNCHANGED waiting
       \/ waiting' = <<m>> \o waiting /\ UNCHANGED cited
    /\ UNCHANGED running /\ ClearComposer

Sent == {i \in DOMAIN wire : wire[i].ev = "send"}

\* chat_send: nothing to send, or the gate's refusal, or dispatch_chat.
ChatSend ==
    /\ Next1("send")
    /\ LET m == [id |-> sends - Cardinality(Sent \ {1}), files |-> pending]
           sendable == (Head(wire).words \/ pending # <<>>) /\ ~refusal IN
       \/ ~sendable /\ UNCHANGED <<turnVars, pending, refusal>>
       \/ sendable /\ (StartsTurn(m) \/ FailsToStart(m) \/ Queues(m) \/ Steers(m, Head(wire).delivery))
    /\ UNCHANGED <<AtServer, reopens, staged, turnedAway>>

\* reorder_queue: a stable sort, those the rail did not show at the back.
OnlyListed(ids) ==                                              \* mutant: the others are dropped
    LET listed == Only(ids, Range(Ids(waiting))) IN
    {[k \in DOMAIN listed |-> waiting[CHOOSE j \in DOMAIN waiting : waiting[j].id = listed[k]]]}
Reordered(ids) ==
    LET rank(i) == IF waiting[i].id \in Range(ids) THEN CHOOSE k \in DOMAIN ids : ids[k] = waiting[i].id
                   ELSE Len(ids) + 1
        precedes(i, j) == rank(i) < rank(j) \/ (rank(i) = rank(j) /\ i < j)
        places == {p \in Bijection(DOMAIN waiting, DOMAIN waiting) :
                      \A i, j \in DOMAIN waiting : i < j => precedes(p[i], p[j])}
    IN  {[i \in DOMAIN waiting |-> waiting[p[i]]] : p \in places}

ReorderQueue ==
    /\ Next1("reorder") /\ waiting' \in Reordered(Head(wire).files)
    /\ UNCHANGED <<AtServer, chipVars, running, cited, staged, turnedAway>>

\* finish_run, dispatch_next: the queue is tried from the front until one starts.
TurnEnds ==
    \E failed \in 0..Len(waiting) :
        LET tried == SubSeq(waiting, 1, IF failed < Len(waiting) THEN failed + 1 ELSE failed) IN
        /\ running' = (failed < Len(waiting))
        /\ waiting' = SubSeq(waiting, Len(tried) + 1, Len(waiting))
        /\ cited' = cited \cup UNION {Range(tried[i].files) : i \in DOMAIN tried}
FinishRun ==
    /\ running /\ TurnEnds
    /\ UNCHANGED <<AtServer, wire, chipVars, staged, turnedAway>>
CutRun ==
    /\ Next1("cut")
    /\ IF running THEN TurnEnds ELSE UNCHANGED <<running, waiting, cited>>
    /\ UNCHANGED <<AtServer, chipVars, staged, turnedAway>>

ComposerNext ==
    \/ Type \/ \E intent \in {"primary", "secondary"} : Keydown(intent)
    \/ ClickPrimary \/ ClickSecondary \/ SubmitFrame \/ Render \/ Escape \/ DragRail
    \/ Offer \/ Click \/ \E f \in Files : UploadDone(f) \/ UploadFails(f)
    \/ AttachError \/ AttachPaths \/ RemoveAttachment \/ DismissError \/ SelectChat
    \/ ChatSend \/ ReorderQueue \/ FinishRun \/ CutRun

ComposerSpec == ComposerInit /\ [][ComposerNext]_composerVars

-----------------------------------------------------------------------------
(* Properties.                                                             *)

\* A file that was offered has a verdict or is still somewhere: under way, in
\* the composer, with a message, or turned away (hooks/chat_dropzone.js:18-21).
NoFileVanishes ==
    1..offered = (UNION {Range(wire[i].files) : i \in {j \in DOMAIN wire : wire[j].ev \in {"attach_error", "attach_paths"}}})
                 \cup uploading \cup Range(pending) \cup Riding \cup cited \cup turnedAway

\* The inverted chord delivers one message: every other one goes the way the
\* screen said when it was submitted (hooks/composer.js:31-33).
ChordLastsOneMessage ==
    \A i \in DOMAIN wire : wire[i].ev = "send" => wire[i].delivery = wire[i].meant

\* What the person hands over goes where it was meant, whatever events cross: files with
\* their message, also when the rail is dragged meanwhile (chat.ex:496-504), and messages
\* the way they were sent.
NothingGoesAstray == NoFileVanishes /\ ChordLastsOneMessage
=============================================================================
