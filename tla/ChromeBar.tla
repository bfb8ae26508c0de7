------------------------------ MODULE ChromeBar ------------------------------
(* The one row under the browser's toolbar (lib/chrome_bar.js): bookmarks,   *)
(* suggestions or the find bar, and the address bar that feeds it.  Replies, *)
(* debounce timers and the blur timer all draw the row, in any order.        *)
EXTENDS Naturals, FiniteSets

CONSTANTS
    Words,          \* texts long enough to ask suggestions for
    Browse,         \* a text that starts with "/"
    Short,          \* a text under two characters
    MaxBarOps,         \* bound: keys pressed and fields focused
    MaxReplies      \* bound: replies under way

VARIABLES
    addr, focus,    \* the address bar's text; "addr", "find" or "page"
    mode, shown,    \* the mode, and what the row really shows
    suggestions, index,     \* the query whose matches are held, and the chip chosen
    suggestTimer, seq, asked,   \* the query waiting, suggestSeq, the query it stands for
    replies,        \* answers under way: suggestions, bookmarks, match counts
    blurred,        \* blur timers running
    browseTimer,
    findText, findCount, countTimer,    \* the find field, the query its label counts
    keys            \* history: keys and clicks so far
addrVars == <<addr, focus, browseTimer>>
suggestVars == <<suggestions, index, suggestTimer, seq, asked>>
findVars == <<findText, findCount, countTimer>>
barVars == <<addrVars, mode, shown, suggestVars, replies, blurred, findVars, keys>>

None == "none"
Texts == Words \cup {Browse, Short}
Queries == Words \cup {None}
Reply == [what : {"suggest"}, seq : Nat, query : Queries] \cup [what : {"bookmarks"}]
             \cup [what : {"count"}, query : Words]
Modes == {"bookmarks", "suggestions", "find"}

\* The type invariant: the row shows what the mode says.
BarTypeOK ==
    /\ addr \in Texts /\ focus \in {"addr", "find", "page"} /\ browseTimer \in BOOLEAN
    /\ mode \in Modes /\ shown = mode /\ (mode = "suggestions" => suggestions # None)
    /\ suggestions \in Queries /\ index \in 0..1 /\ suggestTimer \in Queries
    /\ seq \in Nat /\ asked \in Queries /\ replies \subseteq Reply /\ blurred \in 0..2
    /\ findText \in Words \cup {Short} /\ findCount \in Queries /\ countTimer \in BOOLEAN

\* A fresh chrome asks for the bookmarks and focuses the address bar.
BarInit ==
    /\ addr = Short /\ focus = "addr" /\ browseTimer = FALSE /\ mode = "bookmarks" /\ shown = "bookmarks"
    /\ suggestions = None /\ index = 0 /\ suggestTimer = None /\ seq = 0 /\ asked = None
    /\ replies = {[what |-> "bookmarks"]} /\ blurred = 0
    /\ findText = Short /\ findCount = None /\ countTimer = FALSE /\ keys = 0

Key == keys < MaxBarOps /\ keys' = keys + 1
Sends(r) == Cardinality(replies) < MaxReplies /\ replies' = replies \cup {r}

-----------------------------------------------------------------------------
(* The row.                                                                *)

\* draw(), after the new mode and suggestions are known; the find bar is built
\* anew each time, with an empty field that has no focus.
Draw(m, held) ==
    LET row == IF m = "suggestions" /\ held = None THEN "bookmarks" ELSE m IN
    /\ mode' = row /\ shown' = row
    /\ IF row = "find" THEN findText' = Short /\ findCount' = None ELSE UNCHANGED <<findText, findCount>>
    /\ UNCHANGED countTimer
LosesFocus(f) == IF mode = "find" /\ f = "find" THEN "page" ELSE f

\* clearSuggestions: requests under way keep their number.
ClearSuggestions ==
    /\ suggestTimer' = None /\ suggestions' = None /\ index' = 0 /\ UNCHANGED <<seq, asked>>
    /\ Draw(IF mode = "suggestions" THEN "bookmarks" ELSE mode, None)

\* Typing in the address bar; a "/" starts the workspace browse after 300 ms.
TypeAddress(text) ==
    /\ focus = "addr" /\ Key /\ addr' = text
    /\ browseTimer' = (browseTimer \/ text = Browse)
    /\ IF text \in Words
       THEN suggestTimer' = text /\ UNCHANGED <<suggestions, index, seq, asked, mode, shown, findVars>>
       ELSE ClearSuggestions
    /\ UNCHANGED <<focus, replies, blurred>>
BrowseTimer ==
    /\ browseTimer /\ browseTimer' = FALSE
    /\ UNCHANGED <<addr, focus, mode, shown, suggestVars, replies, blurred, findVars, keys>>

RequestSuggestions ==
    /\ suggestTimer # None /\ suggestTimer' = None /\ seq' = seq + 1 /\ asked' = suggestTimer
    /\ Sends([what |-> "suggest", seq |-> seq + 1, query |-> suggestTimer])
    /\ UNCHANGED <<addrVars, mode, shown, suggestions, index, blurred, findVars, keys>>

\* The answer: matches (found) or none, or it fails.
AnyAnswer(r) == mode # "find"                   \* mutant: the sequence is not looked at
NewestAnswer(r) == r.seq = seq /\ mode # "find"
SuggestionsArrive(r, found) ==
    /\ r.what = "suggest" /\ replies' = replies \ {r}
    /\ IF ~NewestAnswer(r) THEN UNCHANGED <<mode, shown, suggestVars, findVars>>
       ELSE LET held == IF found THEN r.query ELSE None IN
            /\ suggestions' = held /\ index' = 0 /\ Draw("suggestions", held)
            /\ UNCHANGED <<suggestTimer, seq, asked>>
    /\ UNCHANGED <<addrVars, blurred, keys>>

DrawsOver == shown' = "bookmarks"               \* mutant: whatever the row shows
DrawsBookmarks == shown' = IF mode = "bookmarks" THEN "bookmarks" ELSE shown
BookmarksArrive ==
    /\ [what |-> "bookmarks"] \in replies /\ replies' = replies \ {[what |-> "bookmarks"]}
    /\ DrawsBookmarks /\ UNCHANGED <<addrVars, mode, suggestVars, blurred, findVars, keys>>
Fails(r) ==
    /\ replies' = replies \ {r}
    /\ findCount' = IF r.what = "count" THEN None ELSE findCount
    /\ UNCHANGED <<addrVars, mode, shown, suggestVars, blurred, findText, countTimer, keys>>

\* Saving a bookmark loads the row again.
SaveBookmark ==
    /\ Key /\ Sends([what |-> "bookmarks"])
    /\ UNCHANGED <<addrVars, mode, shown, suggestVars, blurred, findVars>>

\* Arrows choose a chip, Escape clears; without suggestions the key is not ours.
ChooseChip ==
    /\ focus = "addr" /\ mode = "suggestions" /\ Key /\ index' = 1
    /\ UNCHANGED <<addrVars, mode, shown, suggestions, suggestTimer, seq, asked, replies, blurred, findVars>>
EscapeAddress ==
    /\ focus = "addr" /\ mode = "suggestions" /\ Key /\ ClearSuggestions
    /\ UNCHANGED <<addrVars, replies, blurred>>
\* Enter: the chosen chip's page, or the text's; both clear the row.
EnterAddress ==
    /\ focus = "addr" /\ Key /\ ClearSuggestions
    /\ addr' \in IF index = 1 THEN Words ELSE {addr}
    /\ UNCHANGED <<focus, browseTimer, replies, blurred>>

-----------------------------------------------------------------------------
(* Focus and find.                                                         *)

Leaving == IF focus = "addr" THEN blurred' = blurred + 1 ELSE UNCHANGED blurred
FocusTo(f) ==
    /\ f # focus /\ f # "find" /\ blurred < 2 /\ Key /\ Leaving /\ focus' = f
    /\ UNCHANGED <<addr, browseTimer, mode, shown, suggestVars, replies, findVars>>
BlurTimer ==
    /\ blurred > 0 /\ blurred' = blurred - 1 /\ ClearSuggestions /\ focus' = LosesFocus(focus)
    /\ UNCHANGED <<addr, browseTimer, replies, keys>>

OpenFindBar ==
    /\ blurred < 2 /\ Key /\ Leaving /\ focus' = "find" /\ Draw("find", suggestions)
    /\ UNCHANGED <<addr, browseTimer, suggestVars, replies>>
CloseFindBar ==
    /\ mode = "find" /\ Key /\ mode' = "bookmarks" /\ shown' = "bookmarks"
    /\ findText' = Short /\ findCount' = None /\ countTimer' = FALSE
    /\ focus' = LosesFocus(focus)
    /\ UNCHANGED <<addr, browseTimer, suggestVars, replies, blurred>>
TypeFind(text) ==
    /\ focus = "find" /\ mode = "find" /\ Key /\ findText' = text /\ countTimer' = TRUE
    /\ UNCHANGED <<addrVars, mode, shown, suggestVars, replies, blurred, findCount>>
CountTimer ==
    /\ countTimer /\ countTimer' = FALSE
    /\ IF findText = Short THEN findCount' = None /\ UNCHANGED replies
       ELSE Sends([what |-> "count", query |-> findText]) /\ UNCHANGED findCount
    /\ UNCHANGED <<addrVars, mode, shown, suggestVars, blurred, findText, keys>>

\* A count for a query that is no longer in the field is dropped.
CountsAnything(r) == mode = "find"              \* mutant
CountsThis(r) == mode = "find" /\ findText = r.query
CountArrives(r) ==
    /\ r.what = "count" /\ replies' = replies \ {r}
    /\ findCount' = IF CountsThis(r) THEN r.query ELSE findCount
    /\ UNCHANGED <<addrVars, mode, shown, suggestVars, blurred, findText, countTimer, keys>>

BarNext ==
    \/ \E text \in Texts : TypeAddress(text)
    \/ \E text \in Words \cup {Short} : TypeFind(text)
    \/ \E r \in replies : CountArrives(r) \/ Fails(r) \/ \E found \in BOOLEAN : SuggestionsArrive(r, found)
    \/ BrowseTimer \/ RequestSuggestions \/ BookmarksArrive \/ SaveBookmark
    \/ ChooseChip \/ EscapeAddress \/ EnterAddress \/ BlurTimer \/ OpenFindBar \/ CloseFindBar \/ CountTimer
    \/ \E f \in {"addr", "page"} : FocusTo(f)

BarSpec == BarInit /\ [][BarNext]_barVars

-----------------------------------------------------------------------------
(* Properties.                                                             *)

\* Chips that appear answer the latest question that was asked.
ChipsAnswerTheLatest == suggestions' # suggestions /\ suggestions' # None => suggestions' = asked'

\* With no recount waiting and no count under way, the label counts the matches of
\* what the find field holds (chrome_bar.js:180-183).
CountFitsTheField ==
    mode = "find" /\ findCount # None /\ ~countTimer /\ (\A r \in replies : r.what # "count") =>
        findCount = findText

\* However replies and timers are delayed and reordered, the row shows no answer to an
\* older question (chrome_bar.js:119-123, 180-193).
RowFitsTheFields == [][ChipsAnswerTheLatest /\ CountFitsTheField']_barVars
=============================================================================
