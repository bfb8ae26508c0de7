---------------------------- MODULE TerminalPaint ----------------------------
(* What a terminal writes to the screen while the app background may shine  *)
(* through (lib/ansi.js and writeTerminal / setBackground of                *)
(* hooks/terminal.js).  Output comes in chunks that cut escape sequences    *)
(* anywhere; the filter holds an unfinished sequence back.                  *)
(*                                                                          *)
(* Characters are tokens: ESC, "[", a colour parameter that is a dark       *)
(* background ("dark") or anything else ("other"), the final byte "m" and   *)
(* plain text, which is a final byte too.                                   *)
EXTENDS Naturals, Sequences, FiniteSetsExt, SequencesExt, Lists

CONSTANTS
    MaxWhole,   \* bound: tokens of the whole stream
    MaxChunk    \* bound: tokens of a chunk
ASSUME PaintAssumption == MaxWhole \in Nat /\ MaxChunk \in Nat

VARIABLES whole, screen, pending, active, cut
paintVars == <<whole, screen, pending, active, cut>>

Tokens == {"ESC", "[", "dark", "other", "m", "text"}
FinalBytes == {"[", "m", "text"}

PaintInit == whole = <<>> /\ screen = <<>> /\ pending = <<>> /\ active \in BOOLEAN /\ cut = FALSE

\* Where the first control sequence begins, and where the one that begins at
\* i ends; 0 when there is none.
LeastOr0(S) == IF S = {} THEN 0 ELSE Min(S)
CsiStart(s) == LeastOr0({i \in 1..(Len(s) - 1) : s[i] = "ESC" /\ s[i + 1] = "["})
FindCsiEnd(s, i) == LeastOr0({j \in (i + 2)..Len(s) : s[j] \in FinalBytes})

\* The type invariant; what is held back is one unfinished control sequence,
\* and only while the filter is on (lib/ansi.js:28-36).
PaintTypeOK ==
    /\ whole \in Seq(Tokens) /\ screen \in Seq(Tokens) /\ pending \in Seq(Tokens)
    /\ active \in BOOLEAN /\ cut \in BOOLEAN
    /\ pending # <<>> => active /\ CsiStart(pending) = 1 /\ FindCsiEnd(pending, 1) = 0

\* A colour sequence without its dark backgrounds; nothing when only those
\* were in it.
StripDarkBackgroundSgr(sequence) ==
    LET kept == AllBut(sequence, {"dark"})
    IN  IF kept = sequence THEN sequence ELSE IF Len(kept) = 3 THEN <<>> ELSE kept

\* The loop over the control sequences of a text.
StripPaint[s \in Seq(Tokens)] ==
    LET i == CsiStart(s)
        j == FindCsiEnd(s, i)
        sequence == SubSeq(s, i, j)
        rest == StripPaint[SubSeq(s, j + 1, Len(s))]
    IN  IF i = 0 THEN [out |-> s, pending |-> <<>>]
        ELSE IF j = 0 THEN [out |-> SubSeq(s, 1, i - 1), pending |-> SubSeq(s, i, Len(s))]
        ELSE [out |-> SubSeq(s, 1, i - 1)
                        \o (IF s[j] = "m" THEN StripDarkBackgroundSgr(sequence) ELSE sequence) \o rest.out,
              pending |-> rest.pending]

StripForgets(chunk) == StripPaint[chunk]                         \* mutant: a cut sequence is lost
StripTransparentBackgroundPaint(chunk) == StripPaint[pending \o chunk]

WriteTerminal(chunk) ==
    /\ Len(whole) + Len(chunk) <= MaxWhole
    /\ whole' = whole \o chunk
    /\ LET painted == IF active THEN StripTransparentBackgroundPaint(chunk)
                      ELSE [out |-> pending \o chunk, pending |-> <<>>] IN
       screen' = screen \o painted.out /\ pending' = painted.pending
    /\ cut' = (cut \/ ~active \/ Last(chunk) = "ESC")
    /\ UNCHANGED active

FlushNothing == <<>>                                             \* mutant: the held part is dropped
FlushTransparentBackgroundPaint == pending

HeldForGood(on) == pending                                       \* mutant: written and kept
HeldAfter(on) == IF on THEN pending ELSE <<>>

\* Settings -> Appearance: turning the background off writes what is held.
SetBackground(on) ==
    /\ screen' = IF on THEN screen ELSE screen \o FlushTransparentBackgroundPaint
    /\ pending' = HeldAfter(on)
    /\ active' = on
    /\ cut' = (cut \/ on # active)
    /\ UNCHANGED whole

PaintNext ==
    \/ \E chunk \in SeqOf(Tokens, MaxChunk) \ {<<>>} : WriteTerminal(chunk)
    \/ \E on \in BOOLEAN : SetBackground(on)

PaintSpec == PaintInit /\ [][PaintNext]_paintVars

-----------------------------------------------------------------------------
(* Properties.                                                             *)

\* Wherever the chunks are cut and however often the background is switched,
\* everything that is not a background paint reaches the screen once and in
\* order (lib/ansi.js:21-57).
NothingSwallowed ==
    Only(screen \o pending, {"other", "text"}) = Only(whole, {"other", "text"})

\* With the background on throughout, and unless a cut fell between ESC and
\* "[", filtering the chunks is filtering the stream: no dark paint gets by
\* at a chunk's edge (lib/ansi.js:22-40).
ChunksFilterAsOne == ~cut => screen = StripPaint[whole].out /\ pending = StripPaint[whole].pending

\* The screen shows the stream as it would be without cuts and switches.
PaintsTheStream == NothingSwallowed /\ ChunksFilterAsOne
=============================================================================
