---------------------------- MODULE NoteCommands ----------------------------
(***************************************************************************)
(* lib/note_commands.js: the buttons and chords of the note editor, each a *)
(* function from a text and a selection to a text and a selection, and the *)
(* checkbox of a task.  The person selects, presses and ticks in any       *)
(* order; `pressed` only remembers which operation came last.              *)
(***************************************************************************)
EXTENDS NoteMarkdown

CONSTANTS NoteTexts,  \* the texts a note may hold when it is opened
          MaxPresses  \* bound: commands and ticks in a behaviour
ASSUME NoteTextsAssumption == NoteTexts \subseteq Seq(Characters)
ASSUME PressesAssumption == MaxPresses \in Nat

VARIABLES noteText, sel, pressed, presses

commandVars == <<noteText, sel, pressed, presses>>

INLINE_MARKS == [bold   |-> <<"*", "*">>, italic |-> <<"*">>,
                 strike |-> <<"~", "~">>, code   |-> <<BackTick>>]
BLOCK_PREFIX == [h1 |-> <<"#", " ">>, h2 |-> <<"#", "#", " ">>, h3 |-> <<"#", "#", "#", " ">>,
                 bullet |-> <<"-", " ">>, task |-> <<"-", " ", "[", " ", "]", " ">>,
                 quote |-> <<">", " ">>]
\* The counter of an ordered line, as it is written.
Digits == <<"0", "1", "2", "3", "4", "5", "6", "7", "8", "9">>
Counter[n \in Nat] == IF n < 10 THEN <<Digits[n + 1]>>
                      ELSE Append(Counter[n \div 10], Digits[(n % 10) + 1])

Clamp(value, low, high) == Min({Max({value, low}), high})

\* A mutant: a task is taken for the bullet it also is.
StripBulletFirst(line) ==
  LET indent == Run(line, 0, Blank)
      heading == HeadingLen(From(line, indent))
      Is(kind, width) == [indent |-> Slice(line, 0, indent), kind |-> kind,
                          body |-> From(line, width)]
  IN  IF heading > 0 THEN Is(Headings[Run(line, indent, {"#"})], indent + heading)
      ELSE IF BulletLen(line) > 0 THEN Is("bullet", BulletLen(line))
      ELSE IF TaskLen(line) > 0 THEN Is("task", TaskLen(line))
      ELSE IF OrderedLen(line) > 0 THEN Is("ordered", OrderedLen(line))
      ELSE IF QuoteLen(line) > 0 THEN Is("quote", QuoteLen(line))
      ELSE Is("paragraph", indent)

\* stripPrefix: the indent, the kind and what is left when the marker comes off.  A heading is
\* told after its indent, where BlockOf wants none, and a rule is no kind here.
StripPrefix(line) ==
  LET indent == Run(line, 0, Blank)
      heading == HeadingLen(From(line, indent))
      Is(kind, width) == [indent |-> Slice(line, 0, indent), kind |-> kind,
                          body |-> From(line, width)]
  IN  IF heading > 0 THEN Is(Headings[Run(line, indent, {"#"})], indent + heading)
      ELSE IF TaskLen(line) > 0 THEN Is("task", TaskLen(line))
      ELSE IF BulletLen(line) > 0 THEN Is("bullet", BulletLen(line))
      ELSE IF OrderedLen(line) > 0 THEN Is("ordered", OrderedLen(line))
      ELSE IF QuoteLen(line) > 0 THEN Is("quote", QuoteLen(line))
      ELSE Is("paragraph", indent)

Edit(text, start, end) == [text |-> text, selection |-> [start |-> start, end |-> end]]

-----------------------------------------------------------------------------
\* The neighbouring mark is part of a longer run of the same character.
RunsOn(src, s, mark) ==
  LET w == Len(mark)
  IN  At(src, s.start - w - 1) = mark[1] \/ At(src, s.end + w) = mark[1]
Hugged(src, s, mark) ==
  LET w == Len(mark)
  IN  /\ s.start >= w
      /\ Slice(src, s.start - w, s.start) = mark
      /\ Slice(src, s.end, s.end + w) = mark
Swallowed(selected, mark) ==
  /\ Len(selected) >= 2 * Len(mark)
  /\ IsPrefix(mark, selected)
  /\ IsSuffix(mark, selected)

\* Unwrap the marks outside the selection, else those inside it, else wrap it.
ApplyInline(src, s, kind) ==
  LET mark == INLINE_MARKS[kind]
      w == Len(mark)
      selected == Slice(src, s.start, s.end)
      inner == Slice(selected, w, Len(selected) - w)
  IN  IF ~RunsOn(src, s, mark) /\ Hugged(src, s, mark)
      THEN Edit(Slice(src, 0, s.start - w) \o selected \o From(src, s.end + w),
                s.start - w, s.end - w)
      ELSE IF Swallowed(selected, mark)
      THEN Edit(Slice(src, 0, s.start) \o inner \o From(src, s.end),
                s.start, s.start + Len(inner))
      ELSE Edit(Slice(src, 0, s.start) \o mark \o selected \o mark \o From(src, s.end),
                s.start + w, s.end + w)

\* The line `n` of those touched once it is of the target kind.
Prefixed(stripped, target, n) ==
  stripped.indent \o (IF target = "ordered" THEN Counter[n] \o <<".", " ">>
                      ELSE IF target = "paragraph" THEN <<>>
                      ELSE BLOCK_PREFIX[target]) \o stripped.body

\* Two mutants: the caret may leave the line, and the caret stays in its column.
RemapUnclamped(column, before, after) == column + Len(after) - Len(before)
KeepsTheColumn(column, before, after) == Clamp(column, 0, Len(after))

\* Where an offset of one line goes: the caret belongs to a character, not to a column.
Remap(column, before, after) == Clamp(column + Len(after) - Len(before), 0, Len(after))

\* Every touched line takes the kind, or drops it when all of them have it already.
ApplyBlock(src, s, kind) ==
  LET lines == LinesOf(src)
      starts == LineStarts(lines)
      first == LineIndexAt(starts, s.start)
      last == LineIndexAt(starts, s.end)
      already == \A line \in ToSet(SubSeq(lines, first, last)) : StripPrefix(line).kind = kind
      target == IF already THEN "paragraph" ELSE kind
      next == [i \in DOMAIN lines |->
                 IF i \in first..last THEN Prefixed(StripPrefix(lines[i]), target, i - first + 1)
                 ELSE lines[i]]
      nextStarts == LineStarts(next)
      Moved(offset) == nextStarts[first] + Remap(offset - starts[first], lines[first], next[first])
  IN  IF last > first
      THEN Edit(SerializeLines(next), nextStarts[first], nextStarts[last] + Len(next[last]))
      ELSE Edit(SerializeLines(next), Moved(s.start), Moved(s.end))

\* The selection becomes the label, and the caret stands where the address goes.
ApplyLink(src, s) ==
  LET label == Slice(src, s.start, s.end)
      caret == s.start + Len(label) + 3
  IN  Edit(Slice(src, 0, s.start) \o <<"[">> \o label \o <<"]", "(", ")">> \o From(src, s.end),
           caret, caret)

\* A fence goes around the touched lines; a rule replaces a blank line or follows the last one.
InsertBlock(src, s, kind) ==
  LET lines == LinesOf(src)
      starts == LineStarts(lines)
      first == LineIndexAt(starts, s.start)
      last == LineIndexAt(starts, s.end)
      ticks == <<BackTick, BackTick, BackTick>>
      fenced == SubSeq(lines, 1, first - 1) \o <<ticks>> \o SubSeq(lines, first, last)
                  \o <<ticks>> \o From(lines, last)
      blank == Run(lines[last], 0, Blank) = Len(lines[last])
      head == SubSeq(lines, 1, IF blank THEN last - 1 ELSE last)
      ruled == head \o << <<"-", "-", "-">>, <<>> >> \o From(lines, last)
      caret == LineStarts(ruled)[Len(head) + 2]
  IN  IF kind = "fence" THEN Edit(SerializeLines(fenced), starts[first] + 3, starts[first] + 3)
      ELSE Edit(SerializeLines(ruled), caret, caret)

\* A mutant: the click makes the task a bullet.
UntaskOnTick(src, offset) ==
  LET lines == LinesOf(src)
      i == LineIndexAt(LineStarts(lines), offset)
      bullet == Slice(lines[i], 0, BulletLen(lines[i])) \o From(lines[i], TaskLen(lines[i]))
  IN  IF TaskLen(lines[i]) > 0 THEN SerializeLines([lines EXCEPT ![i] = bullet]) ELSE src

\* toggleTask: the box of the line at `offset` changes, whatever the rest of the line is.
ToggleTask(src, offset) ==
  LET lines == LinesOf(src)
      i == LineIndexAt(LineStarts(lines), offset)
      box == BulletLen(lines[i]) + 2
      ticked == [lines EXCEPT ![i][box] = IF @ = " " THEN "x" ELSE " "]
  IN  IF TaskLen(lines[i]) > 0 THEN SerializeLines(ticked) ELSE src

\* activeCommands: the commands in force at a caret.
ActiveCommands(src, offset) ==
  LET lines == LinesOf(src)
      starts == LineStarts(lines)
      i == LineIndexAt(starts, offset)
      line == Decorate(lines)[i]
      EndOf(n) == Len(TextOf(SubSeq(line.segments, 1, n)))
      around == {n \in DOMAIN line.segments : offset - starts[i] \in EndOf(n - 1) + 1..EndOf(n)}
  IN  {c \in DOMAIN BLOCK_PREFIX \cup {"ordered"} : c = line.kind}
        \cup {c \in DOMAIN INLINE_MARKS : \E n \in around : Contains(line.segments[n].styles, c)}

InlineCommands == DOMAIN INLINE_MARKS
BlockCommands == DOMAIN BLOCK_PREFIX \cup {"ordered"}
NOTE_COMMANDS == InlineCommands \cup BlockCommands \cup {"link", "fence", "hr"}

RunCommand(cmd, src, s) ==
  IF cmd \in InlineCommands THEN ApplyInline(src, s, cmd)
  ELSE IF cmd \in BlockCommands THEN ApplyBlock(src, s, cmd)
  ELSE IF cmd = "link" THEN ApplyLink(src, s)
  ELSE InsertBlock(src, s, cmd)

-----------------------------------------------------------------------------
NoteCommandsInit ==
  /\ noteText \in NoteTexts
  /\ sel = [start |-> 0, end |-> 0]
  /\ pressed = "nothing"
  /\ presses = 0

\* Bound: the person selects before the first command; later ones run on the selection left.
Select(start, end) ==
  /\ presses = 0
  /\ sel' = [start |-> start, end |-> end]
  /\ pressed' = "nothing"
  /\ UNCHANGED <<noteText, presses>>

Press(cmd) ==
  LET result == RunCommand(cmd, noteText, sel)
  IN  /\ presses < MaxPresses
      /\ noteText' = result.text
      /\ sel' = result.selection
      /\ pressed' = cmd
      /\ presses' = presses + 1

\* A click on the box of a line shown as a task.  The hook asks for the offset of the line, and
\* that is where the caret goes.
Tick(i) ==
  LET lines == LinesOf(noteText)
      offset == LineStarts(lines)[i]
  IN  /\ presses < MaxPresses
      /\ i \in DOMAIN lines
      /\ Decorate(lines)[i].kind = "task"
      /\ noteText' = ToggleTask(noteText, offset)
      /\ sel' = [start |-> offset, end |-> offset]
      /\ pressed' = "tick"
      /\ presses' = presses + 1

NoteCommandsNext ==
  \/ \E start \in 0..Len(noteText) : \E end \in start..Len(noteText) : Select(start, end)
  \/ \E cmd \in NOTE_COMMANDS : Press(cmd)
  \/ \E i \in 1..Len(noteText) : Tick(i)

NoteCommandsSpec == NoteCommandsInit /\ [][NoteCommandsNext]_commandVars

-----------------------------------------------------------------------------
Words(text) == Only(text, {"a", "b"})
Before(text, s) == Words(Slice(text, 0, s.start))
Chosen(text, s) == Words(Slice(text, s.start, s.end))
After(text, s) == Words(From(text, s.end))
SpansLines(text, s) == Contains(Slice(text, s.start, s.end), NL)

\* The selection a command leaves is one the text has.
NoteCommandsTypeOK ==
  /\ noteText \in Seq(Characters)
  /\ sel.start \in 0..sel.end
  /\ sel.end \in 0..Len(noteText)
  /\ pressed \in NOTE_COMMANDS \cup {"tick", "nothing"}
  /\ presses \in 0..MaxPresses

\* Whatever the commands made of the text, the segments of every line still concatenate to
\* that line: the view is read back into the file, so what a decoration drops is lost at the
\* next save (decorateLine, inlineSegments).
SegmentsRebuildTheLine ==
  LET lines == LinesOf(noteText)
  IN  \A i \in DOMAIN lines : lines[i] # <<>> => NoteMarkdownHolds(lines[i], InFence(lines, i))

\* A command adds and removes markers only: the words of the note stay, in their order.
WordsSurvive == Words(noteText') = Words(noteText)

\* After an inline or a block command the words that were selected still are, and no word of
\* another line joins them: only a selection of several lines widens to those lines.
SelectionFollowsTheWords ==
  pressed' \in InlineCommands \cup BlockCommands /\ presses' > presses =>
       IF pressed' \in BlockCommands /\ SpansLines(noteText, sel)
       THEN /\ IsPrefix(Before(noteText', sel'), Before(noteText, sel))
            /\ IsSuffix(After(noteText', sel'), After(noteText, sel))
       ELSE /\ Before(noteText', sel') = Before(noteText, sel)
            /\ Chosen(noteText', sel') = Chosen(noteText, sel)

\* The buttons show as pressed (activeCommands, from the tokenizer) the block a press would
\* clear (stripPrefix, a second parser), on every line with a text but code, rules and headings
\* with an indent, on which the two do disagree.
ButtonsAgreeWithMarkers ==
  LET lines == LinesOf(noteText)
      starts == LineStarts(lines)
      Apart(i) == \/ lines[i] = <<>> \/ FENCE(lines[i]) \/ InFence(lines, i) \/ HR(lines[i])
                  \/ Run(lines[i], 0, Blank) > 0
                       /\ StripPrefix(lines[i]).kind \in {"h1", "h2", "h3", "h4", "h5", "h6"}
  IN  \A i \in DOMAIN lines :
        Apart(i) \/ ActiveCommands(noteText, starts[i]) \cap BlockCommands
                     = {StripPrefix(lines[i]).kind} \cap BlockCommands

\* A click on a box changes its state: no line stops being what it was, and no character is
\* added or lost (toggleTask is not applyBlock).
TickKeepsTheTask ==
  pressed' = "tick" =>
       LET Kinds(text) == LET d == Decorate(LinesOf(text)) IN [i \in DOMAIN d |-> d[i].kind]
       IN  Kinds(noteText') = Kinds(noteText) /\ Len(noteText') = Len(noteText)

\* What is shown is what is in the file, in every note that commands can make of another:
\* no character is lost in the decorations, and the buttons tell what a press would do.
ViewIsTheText == SegmentsRebuildTheLine /\ ButtonsAgreeWithMarkers

\* Commands and clicks, in any sequence, change markers only.
CommandsKeepTheWords ==
  [][WordsSurvive /\ SelectionFollowsTheWords /\ TickKeepsTheTask]_commandVars
=============================================================================
