------------------------------- MODULE MCDesk -------------------------------
(* Four parts of the page that share no state, one at a time: `subject` is  *)
(* the part that moves, the others keep one initial state.                  *)
EXTENDS Composer, Voice, NoteDraft, NoteCommands

VARIABLE subject

MCNoteTexts == {
  <<"a", NL, ">", "b">>, <<"*", "a", "*">>, <<"[", "[", "a", "|", "b", "]", "]">>,
  <<"-", " ", "[", "x", "]", " ", "a">>, <<"_", "a", "_", "b">>, <<"1", ".", " ", "b">>,
  <<" ", "#", " ", "a", NL>>, <<"[", "a", "]", "(", "b", ")">>, <<>> }

DeskInit ==
  /\ subject \in {"composer", "voice", "draft", "commands"}
  /\ ComposerInit /\ (subject # "composer" => ~native /\ ~steerable)
  /\ VoiceInit /\ (subject # "voice" => chosen = SystemVoice)
  /\ NoteInit
  /\ NoteCommandsInit /\ (subject # "commands" => noteText = <<>>)

DeskNext ==
  /\ UNCHANGED subject
  /\ \/ subject = "composer" /\ ComposerNext /\ UNCHANGED <<voiceVars, noteVars, commandVars>>
     \/ subject = "voice" /\ VoiceNext /\ UNCHANGED <<composerVars, noteVars, commandVars>>
     \/ subject = "draft" /\ NoteNext /\ UNCHANGED <<composerVars, voiceVars, commandVars>>
     \/ subject = "commands" /\ NoteCommandsNext /\ UNCHANGED <<composerVars, voiceVars, noteVars>>

DeskSpec == DeskInit /\ [][DeskNext]_<<subject, composerVars, voiceVars, noteVars, commandVars>>

\* The type invariants of the four parts, with the cap on files, the order of the
\* lines, and the editor's pauses.
DeskTypeOK == ComposerTypeOK /\ VoiceTypeOK /\ NoteTypeOK /\ NoteCommandsTypeOK
=============================================================================
