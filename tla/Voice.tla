------------------------------- MODULE Voice --------------------------------
(* Spoken replies: the toggle, the bridge and the voice picker of the page  *)
(* (hooks/voice.js, lib/voice.js), and the speech worker they drive         *)
(* (voice.rs), a thread that plays queued lines one after the other while   *)
(* commands from the page change the queue and a generation counter.        *)
EXTENDS Naturals, Sequences

CONSTANTS
    Voices,         \* the names a voice can have
    Installed,      \* those on this machine
    SystemVoice,    \* no name: what the system is set to
    MaxLines,       \* bound: lines spoken
    MaxStops        \* bound: stops asked for
ASSUME LinesAssumption == MaxLines \in Nat /\ MaxStops \in Nat

VARIABLES
    voiceOn,    \* localStorage["bc:voice-out"]
    chosen,     \* localStorage["bc:voice-name"]
    picker,     \* the settings page: its state and the selected option
    calls,      \* commands on their way to the native side, in order
    queue,      \* the lines that wait
    flushGen,   \* bumped by every stop
    stopping,   \* stop_speaking has bumped it and not yet cleared the queue
    worker,     \* the speech thread
    lines, stops, asked,    \* history: lines made, stops finished and asked for
    heard       \* history: the lines that were begun
voiceVars == <<voiceOn, chosen, picker, calls, queue, flushGen, stopping, worker, lines, stops, asked, heard>>
pageVoiceVars == <<voiceOn, chosen, picker, lines, asked>>
nativeVars == <<queue, flushGen, stopping, worker, stops, heard>>

Names == Voices \cup {SystemVoice}
Line == [id : 1..MaxLines, kind : {"reply", "audition"}, voice : Names, born : Nat]
NoLine == [id |-> 0, kind |-> "none", voice |-> SystemVoice, born |-> 0]
Call == [what : {"speak"}, line : Line] \cup [what : {"stop"}, line : {NoLine}]
IdsRise(s) == \A i, j \in DOMAIN s : i < j => s[i].id < s[j].id
Speaks(c) == c.what = "speak"
CallsRise == \A i, j \in DOMAIN calls : i < j /\ Speaks(calls[i]) /\ Speaks(calls[j]) => calls[i].line.id < calls[j].line.id

\* The type invariant; lines wait in the order in which they were made.
VoiceTypeOK ==
    /\ voiceOn \in BOOLEAN /\ chosen \in Names
    /\ picker \in [at : {"absent", "loading", "loaded"}, shown : Names]
    /\ calls \in Seq(Call) /\ queue \in Seq(Line) /\ flushGen \in Nat /\ stopping \in BOOLEAN
    /\ worker \in [at : {"parked", "popped", "playing"}, line : Line \cup {NoLine}, gen : Nat, seen : Nat]
    /\ lines \in 0..MaxLines /\ stops \in Nat /\ asked \in Nat
    /\ IdsRise(queue) /\ CallsRise

Parked == [at |-> "parked", line |-> NoLine, gen |-> 0, seen |-> 0]

VoiceInit ==
    /\ voiceOn = FALSE /\ chosen \in Names
    /\ picker = [at |-> "absent", shown |-> SystemVoice]
    /\ calls = <<>> /\ queue = <<>> /\ flushGen = 0 /\ stopping = FALSE /\ worker = Parked
    /\ lines = 0 /\ stops = 0 /\ asked = 0 /\ heard = <<>>

-----------------------------------------------------------------------------
(* The page.                                                               *)

StopCall == [what |-> "stop", line |-> NoLine]
SpeakCall(kind, voice) == [what |-> "speak", line |-> [id |-> lines + 1, kind |-> kind, voice |-> voice, born |-> 0]]

\* A gesture speaks at most one line, after its stop.
Invoke(new) ==
    LET speaks == IF new # <<>> /\ Speaks(new[Len(new)]) THEN 1 ELSE 0 IN
    /\ lines + speaks <= MaxLines /\ lines' = lines + speaks
    /\ asked + (Len(new) - speaks) <= MaxStops /\ asked' = asked + (Len(new) - speaks)
    /\ calls' = calls \o new

\* bc:speak: the toggle and the voice are read when the reply arrives.
SpeakReply ==
    /\ Invoke(IF voiceOn THEN <<SpeakCall("reply", chosen)>> ELSE <<>>)
    /\ UNCHANGED <<voiceOn, chosen, picker, nativeVars>>

\* bc:stop_speak, when the operator sends a message or cuts the run.
BargeIn ==
    /\ Invoke(<<StopCall>>)
    /\ UNCHANGED <<voiceOn, chosen, picker, nativeVars>>

ToggleQuietly(on) == <<>>                                       \* mutant: what plays goes on
ToggleCalls(on) == IF on THEN <<>> ELSE <<StopCall>>

ToggleVoice ==
    /\ voiceOn' = ~voiceOn
    /\ Invoke(ToggleCalls(voiceOn'))
    /\ UNCHANGED <<chosen, picker, nativeVars>>

MountPicker ==
    /\ picker.at = "absent"
    /\ picker' = [picker EXCEPT !.at = "loading"]
    /\ UNCHANGED <<voiceOn, chosen, lines, asked, calls, nativeVars>>

\* render: a stored voice that is not installed is shown as the system's.
ShownFor(name) == IF name \in Installed THEN name ELSE SystemVoice

LoadVoices ==
    /\ picker.at = "loading"
    /\ picker' = [at |-> "loaded", shown |-> ShownFor(chosen)]
    /\ UNCHANGED <<voiceOn, chosen, lines, asked, calls, nativeVars>>

LeavePicker ==
    /\ picker.at # "absent"
    /\ picker' = [at |-> "absent", shown |-> SystemVoice]
    /\ UNCHANGED <<voiceOn, chosen, lines, asked, calls, nativeVars>>

\* play: what plays is cut before the audition.  Before the voices have
\* arrived play() throws, and says nothing.
PlayOver(voice) == <<SpeakCall("audition", voice)>>             \* mutant: nothing is cut
PlayCalls(voice) == <<StopCall, SpeakCall("audition", voice)>>

Choose(name) ==
    /\ picker.at = "loaded" /\ name \in Installed \cup {SystemVoice}
    /\ chosen' = name /\ picker' = [picker EXCEPT !.shown = name]
    /\ Invoke(PlayCalls(name))
    /\ UNCHANGED <<voiceOn, nativeVars>>

Audition ==
    /\ picker.at = "loaded"
    /\ Invoke(PlayCalls(picker.shown))
    /\ UNCHANGED <<voiceOn, chosen, picker, nativeVars>>

ResetVoice ==
    /\ picker.at = "loaded"
    /\ chosen' = SystemVoice /\ picker' = [picker EXCEPT !.shown = SystemVoice]
    /\ Invoke(PlayCalls(SystemVoice))
    /\ UNCHANGED <<voiceOn, nativeVars>>

-----------------------------------------------------------------------------
(* voice.rs: the commands run one after the other, the worker beside them. *)

AtFront(s, line) == <<line>> \o s                               \* mutant: the newest is next
Enqueued(s, line) == Append(s, line)

Speak ==
    /\ calls # <<>> /\ Speaks(Head(calls)) /\ ~stopping
    /\ queue' = Enqueued(queue, [Head(calls).line EXCEPT !.born = stops])
    /\ calls' = Tail(calls)
    /\ UNCHANGED <<pageVoiceVars, flushGen, stopping, worker, stops, heard>>

\* stop_speaking: the counter first, then the queue, under its lock.
StopSpeaking ==
    /\ calls # <<>> /\ Head(calls).what = "stop" /\ ~stopping
    /\ flushGen' = flushGen + 1 /\ stopping' = TRUE
    /\ calls' = Tail(calls)
    /\ UNCHANGED <<pageVoiceVars, queue, worker, stops, heard>>

KeepQueue(s) == s                                               \* mutant: only the playing line is cut
Cleared(s) == <<>>

ClearQueue ==
    /\ stopping /\ stopping' = FALSE
    /\ queue' = Cleared(queue) /\ stops' = stops + 1
    /\ UNCHANGED <<pageVoiceVars, calls, flushGen, worker, heard>>

WorkerPops ==
    /\ worker.at = "parked" /\ queue # <<>>
    /\ worker' = [Parked EXCEPT !.at = "popped", !.line = Head(queue)]
    /\ queue' = Tail(queue)
    /\ UNCHANGED <<pageVoiceVars, calls, flushGen, stopping, stops, heard>>

\* The generation is read after the line was taken; then say is started.
WorkerSpawns ==
    /\ worker.at = "popped"
    /\ worker' = [worker EXCEPT !.at = "playing", !.gen = flushGen]
    /\ heard' = Append(heard, worker.line)
    /\ UNCHANGED <<pageVoiceVars, calls, queue, flushGen, stopping, stops>>

\* The 40 ms poll: a line of an older generation is killed, another plays on;
\* "seen" records how many stops were over then.
WorkerPolls ==
    /\ worker.at = "playing"
    /\ worker' = IF worker.gen # flushGen THEN Parked ELSE [worker EXCEPT !.seen = stops]
    /\ UNCHANGED <<pageVoiceVars, calls, queue, flushGen, stopping, stops, heard>>

\* The line is over, or say could not be started.
WorkerEnds ==
    /\ worker.at # "parked" /\ worker' = Parked
    /\ UNCHANGED <<pageVoiceVars, calls, queue, flushGen, stopping, stops, heard>>


VoiceNext ==
    \/ SpeakReply \/ BargeIn \/ ToggleVoice \/ MountPicker \/ LoadVoices \/ LeavePicker
    \/ Audition \/ ResetVoice \/ \E name \in Names : Choose(name)
    \/ Speak \/ StopSpeaking \/ ClearQueue
    \/ WorkerPops \/ WorkerSpawns \/ WorkerPolls \/ WorkerEnds

VoiceSpec == VoiceInit /\ [][VoiceNext]_voiceVars

-----------------------------------------------------------------------------
(* Properties.                                                             *)

\* Lines are begun in the order of the replies, each once, whatever was cut
\* between them (voice.rs:84-93, 176-181).
HeardInOrder == IdsRise(heard)

\* With the voice turned off, no reply waits to be spoken once the commands
\* have run (hooks/voice.js:43-48).
OffMeansSilent ==
    ~voiceOn /\ calls = <<>> /\ ~stopping => \A i \in DOMAIN queue : queue[i].kind # "reply"

\* Clicking through the voices builds no queue (hooks/voice.js:192-204).
AuditionsDoNotPileUp ==
    ~stopping => \A i, j \in DOMAIN queue : queue[i].kind = "audition" /\ queue[j].kind = "audition" => i = j

\* A line that waits was asked for after the last stop (voice.rs:183-186).
NothingStaleWaits == \A i \in DOMAIN queue : queue[i].born = stops

\* What is spoken, and what waits to be, is what the person last asked for: in order, and
\* nothing from before a stop, however commands and the worker interleave.
SpokenAsAsked == HeardInOrder /\ OffMeansSilent /\ AuditionsDoNotPileUp /\ NothingStaleWaits
=============================================================================
