----------------------------- MODULE DeskProofs -----------------------------
(***************************************************************************)
(* The spoken replies, for any voices, lines and stops: what is spoken is  *)
(* what was asked for last.  The stop of the page is two steps on the      *)
(* native side and the worker runs beside them, so the invariant follows a *)
(* line from the page to the worker (LinesInStep) and says for each line   *)
(* that must not be heard which stop is still on its way behind or before  *)
(* it (StopFollowsReplies, AuditionsFollowStops).                          *)
(*                                                                         *)
(* A note being written, for any notes, edits and clicks: an editor that   *)
(* comes to rest has told the truth.  Saves, announcements and patches     *)
(* cross, so the invariant says for each sign of a draft what will put it  *)
(* right (DirtyIsFollowed, DirtyIsCleared), and, when nobody else writes,  *)
(* where the draft is (DraftIsOnItsWay).                                   *)
(*                                                                         *)
(* The composer, for any number of files, messages and events: no file     *)
(* vanishes, no message goes another way than the screen said, and the cap *)
(* holds (ComposerInv).  A file lives in the page, on the wire, in the     *)
(* store, in the composer, in the queue and in the transcript; the         *)
(* invariant says that what is on its way is there once and was never      *)
(* staged (FreshHolds), and that what is staged waits in the composer or   *)
(* went with a message (FilesTyped).                                       *)
(***************************************************************************)
EXTENDS MCDesk, NoteProofs

(* Spoken replies. *)

\* A line with this number comes before everything that waits or is on its way.
Ahead(id) ==
    /\ id <= lines
    /\ \A i \in DOMAIN queue : id < queue[i].id
    /\ \A i \in DOMAIN calls : Speaks(calls[i]) => id < calls[i].line.id

\* What was begun, what the worker has taken, what waits and what is on its way
\* follow each other in the order in which the lines were made.
LinesInStep ==
    /\ heard \in Seq(Line) /\ IdsRise(heard)
    /\ \A h \in DOMAIN heard : Ahead(heard[h].id)
    /\ worker.at = "popped" =>
          /\ worker.line \in Line /\ Ahead(worker.line.id)
          /\ \A h \in DOMAIN heard : heard[h].id < worker.line.id
    /\ \A i \in DOMAIN queue : queue[i].id <= lines
    /\ \A i \in DOMAIN calls : Speaks(calls[i]) =>
          /\ calls[i].line.id <= lines
          /\ \A j \in DOMAIN queue : queue[j].id < calls[i].line.id

IsReply(c) == Speaks(c) /\ c.line.kind = "reply"
IsAudition(c) == Speaks(c) /\ c.line.kind = "audition"

\* With the voice off a stop is on its way behind the last reply, or has come.
StopFollowsReplies ==
    ~voiceOn =>
        \/ \E i \in DOMAIN calls : ~Speaks(calls[i]) /\ \A j \in DOMAIN calls : j > i => ~IsReply(calls[j])
        \/ /\ \A j \in DOMAIN calls : ~IsReply(calls[j])
           /\ stopping \/ \A j \in DOMAIN queue : queue[j].kind # "reply"

\* An audition comes right behind its stop.
NoAuditionWaits == \A j \in DOMAIN queue : queue[j].kind # "audition"
AuditionsFollowStops ==
    \A i \in DOMAIN calls : IsAudition(calls[i]) =>
        IF i = 1 THEN stopping \/ NoAuditionWaits ELSE ~Speaks(calls[i - 1])

VoiceInv == /\ VoiceTypeOK /\ LinesInStep /\ StopFollowsReplies /\ AuditionsFollowStops
            /\ AuditionsDoNotPileUp /\ NothingStaleWaits

-----------------------------------------------------------------------------
(* It holds at the start.                                                   *)
LEMMA VoiceInvInit == VoiceInit => VoiceInv
<1> SUFFICES ASSUME VoiceInit PROVE VoiceInv
  OBVIOUS
<1>1. VoiceTypeOK
  <2>1. worker \in [at : {"parked", "popped", "playing"}, line : Line \cup {NoLine}, gen : Nat, seen : Nat]
    BY DEF VoiceInit, Parked
  <2>2. picker \in [at : {"absent", "loading", "loaded"}, shown : Names]
    BY DEF VoiceInit, Names
  <2>3. lines \in 0..MaxLines
    BY LinesAssumption DEF VoiceInit
  <2>4. calls \in Seq(Call) /\ queue \in Seq(Line) /\ IdsRise(queue) /\ CallsRise
    BY DEF VoiceInit, IdsRise, CallsRise
  <2> QED
    BY <2>1, <2>2, <2>3, <2>4 DEF VoiceInit, VoiceTypeOK
<1> QED
  BY <1>1 DEF VoiceInit, VoiceInv, LinesInStep, IdsRise, Ahead, StopFollowsReplies, AuditionsFollowStops,
              AuditionsDoNotPileUp, NothingStaleWaits, Parked

(* Lines are numbered.                                                      *)
LEMMA LineIds ==
    ASSUME NEW l \in Line
    PROVE  l.id \in Nat
BY LinesAssumption DEF Line

(* A command that is taken, and what is left of the others.                 *)
LEMMA CallTaken ==
    ASSUME VoiceTypeOK, calls # <<>>, calls' = Tail(calls)
    PROVE  /\ calls' \in Seq(Call) /\ 1 \in DOMAIN calls /\ Head(calls) = calls[1] /\ calls[1] \in Call
           /\ \A i \in DOMAIN calls' : /\ i \in Nat /\ i # 0 /\ i + 1 \in DOMAIN calls
                                       /\ calls'[i] = calls[i + 1]
           /\ \A i \in DOMAIN calls : i = 1 \/ (i - 1 \in DOMAIN calls' /\ calls'[i - 1] = calls[i])
<1> DEFINE n == Len(calls)
<1>1. calls \in Seq(Call) /\ n \in Nat /\ n # 0 /\ DOMAIN calls = 1..n
  BY DEF VoiceTypeOK
<1>2. calls' \in Seq(Call) /\ DOMAIN calls' = 1..n - 1 /\ \A i \in 1..n - 1 : calls'[i] = calls[i + 1]
  BY <1>1
<1>3. Head(calls) = calls[1] /\ calls[1] \in Call
  BY <1>1
<1> HIDE DEF n
<1>4. ASSUME NEW i \in DOMAIN calls, i # 1 PROVE i - 1 \in DOMAIN calls' /\ calls'[i - 1] = calls[i]
  BY <1>1, <1>2, <1>4
<1> QED
  BY <1>1, <1>2, <1>3, <1>4

(* A command that speaks carries a line; another one is a stop.             *)
LEMMA CallsOf ==
    ASSUME NEW c \in Call
    PROVE  /\ Speaks(c) => c.line \in Line
           /\ Speaks(c) \/ c.what = "stop"
<1>1. CASE c \in [what : {"speak"}, line : Line]
  BY <1>1 DEF Speaks
<1>2. CASE c \in [what : {"stop"}, line : {NoLine}]
  BY <1>2 DEF Speaks
<1> QED
  BY <1>1, <1>2 DEF Call

(* The page has sent commands: none, a stop, a reply, or a stop and an      *)
(* audition.                                                                *)
LEMMA Invoked ==
    ASSUME VoiceInv, NEW new, Invoke(new), UNCHANGED nativeVars, NEW name \in Names,
           \/ new = <<>> /\ (voiceOn' \/ ~voiceOn)
           \/ new = <<StopCall>>
           \/ new = <<SpeakCall("reply", name)>> /\ voiceOn'
           \/ new = <<StopCall, SpeakCall("audition", name)>>,
           voiceOn' \in BOOLEAN, chosen' \in Names,
           picker' \in [at : {"absent", "loading", "loaded"}, shown : Names]
    PROVE  VoiceInv'
<1> DEFINE n == Len(calls)
           m == Len(new)
<1>1. VoiceTypeOK /\ LinesInStep /\ StopFollowsReplies /\ AuditionsFollowStops
      /\ AuditionsDoNotPileUp /\ NothingStaleWaits
  BY DEF VoiceInv
<1>2. /\ queue' = queue /\ flushGen' = flushGen /\ stopping' = stopping /\ worker' = worker
      /\ stops' = stops /\ heard' = heard
  BY DEF nativeVars
<1>3. /\ StopCall \in Call /\ ~Speaks(StopCall)
      /\ \A kind : Speaks(SpeakCall(kind, name)) /\ SpeakCall(kind, name).line.kind = kind
                   /\ SpeakCall(kind, name).line.id = lines + 1
  BY DEF StopCall, SpeakCall, Call, Speaks
<1>4. calls' = calls \o new
  BY DEF Invoke
<1>5. /\ lines \in Nat /\ lines' \in 0..MaxLines /\ asked' \in Nat
      /\ \/ new = <<>> /\ lines' = lines
         \/ new = <<StopCall>> /\ lines' = lines
         \/ new = <<SpeakCall("reply", name)>> /\ lines' = lines + 1
         \/ new = <<StopCall, SpeakCall("audition", name)>> /\ lines' = lines + 1
  <2>1. lines \in Nat /\ asked \in Nat /\ MaxLines \in Nat
    BY <1>1, LinesAssumption DEF VoiceTypeOK
  <2>2. CASE new = <<>>
    BY <2>1, <2>2 DEF Invoke
  <2>3. CASE new = <<StopCall>>
    BY <1>3, <2>1, <2>3 DEF Invoke
  <2>4. CASE new = <<SpeakCall("reply", name)>>
    BY <1>3, <2>1, <2>4 DEF Invoke
  <2>5. CASE new = <<StopCall, SpeakCall("audition", name)>>
    BY <1>3, <2>1, <2>5 DEF Invoke
  <2> QED
    BY <2>1, <2>2, <2>3, <2>4, <2>5
<1>6. ASSUME NEW kind \in {"reply", "audition"}, lines' = lines + 1 PROVE SpeakCall(kind, name) \in Call
  <2>1. lines + 1 \in 1..MaxLines
    BY <1>5, <1>6, LinesAssumption
  <2> QED
    BY <2>1 DEF SpeakCall, Call, Line
<1>7. new \in Seq(Call)
  <2>1. \A c, d \in Call : <<>> \in Seq(Call) /\ <<c>> \in Seq(Call) /\ <<c, d>> \in Seq(Call)
    OBVIOUS
  <2>2. CASE lines' = lines + 1
    <3>1. SpeakCall("reply", name) \in Call /\ SpeakCall("audition", name) \in Call
      BY <1>6, <2>2
    <3>2. CASE new = <<SpeakCall("reply", name)>>
      BY <2>1, <3>1, <3>2
    <3>3. CASE new = <<StopCall, SpeakCall("audition", name)>>
      BY <1>3, <2>1, <3>1, <3>3
    <3>4. lines + 1 # lines
      BY <1>5
    <3> QED
      BY <1>5, <2>2, <3>2, <3>3, <3>4
  <2>3. CASE new = <<>> \/ new = <<StopCall>>
    BY <1>3, <2>1, <2>3
  <2> QED
    BY <1>5, <2>2, <2>3
<1>8. /\ calls' \in Seq(Call) /\ n \in Nat /\ m \in Nat /\ DOMAIN calls = 1..n /\ DOMAIN calls' = 1..n + m
      /\ \A i \in 1..n : calls'[i] = calls[i]
      /\ \A i \in 1..m : calls'[n + i] = new[i]
  BY <1>1, <1>4, <1>7 DEF VoiceTypeOK
<1> HIDE DEF n, m
<1>9. ASSUME NEW i \in DOMAIN calls', i \notin DOMAIN calls
      PROVE  \/ ~Speaks(calls'[i])
             \/ /\ Speaks(calls'[i]) /\ calls'[i].line.id = lines + 1 /\ lines' = lines + 1 /\ i = n + m
                /\ \/ IsReply(calls'[i]) /\ ~IsAudition(calls'[i]) /\ voiceOn'
                   \/ /\ IsAudition(calls'[i]) /\ ~IsReply(calls'[i])
                      /\ i # 1 /\ i - 1 = n + 1 /\ ~Speaks(calls'[i - 1])
  <2>1. PICK k \in 1..m : i = n + k /\ calls'[i] = new[k]
    <3>1. i - n \in 1..m /\ i = n + (i - n)
      BY <1>8, <1>9
    <3> QED
      BY <1>8, <3>1
  <2>2. CASE new = <<>>
    BY <2>1, <2>2 DEF m
  <2>3. CASE new = <<StopCall>>
    BY <1>3, <2>1, <2>3 DEF m
  <2>4. CASE new = <<SpeakCall("reply", name)>> /\ lines' = lines + 1
    <3>1. m = 1 /\ k = 1 /\ calls'[i] = SpeakCall("reply", name)
      BY <2>1, <2>4 DEF m
    <3> QED
      BY <1>3, <2>1, <2>4, <3>1 DEF IsReply, IsAudition
  <2>5. CASE new = <<StopCall, SpeakCall("audition", name)>> /\ lines' = lines + 1
    <3>1. m = 2 /\ (k = 1 \/ k = 2)
      BY <2>1, <2>5 DEF m
    <3>2. CASE k = 1
      BY <1>3, <2>1, <2>5, <3>2
    <3>3. CASE k = 2
      <4>1. calls'[i] = SpeakCall("audition", name) /\ calls'[n + 1] = StopCall
        BY <1>8, <2>1, <2>5, <3>1, <3>3
      <4>2. i # 1 /\ i - 1 = n + 1 /\ i = n + m
        BY <1>8, <2>1, <3>1, <3>3
      <4> QED
        BY <1>3, <2>5, <4>1, <4>2 DEF IsReply, IsAudition
    <3> QED
      BY <3>1, <3>2, <3>3
  <2> QED
    BY <1>5, <2>2, <2>3, <2>4, <2>5
<1>10. /\ \A i \in DOMAIN calls : i \in DOMAIN calls' /\ calls'[i] = calls[i]
       /\ \A i \in DOMAIN calls', j \in DOMAIN calls : i \notin DOMAIN calls => j < i
       /\ DOMAIN calls' \subseteq Nat /\ lines <= lines'
  BY <1>5, <1>8
<1>11. ASSUME NEW i \in DOMAIN calls', Speaks(calls'[i])
       PROVE  \/ i \in DOMAIN calls /\ calls'[i] = calls[i]
              \/ i \notin DOMAIN calls /\ calls'[i].line.id = lines + 1 /\ lines' = lines + 1 /\ i = n + m
  BY <1>9, <1>10, <1>11
<1>12. VoiceTypeOK'
  <2>1. CallsRise'
    <3> SUFFICES ASSUME NEW i \in DOMAIN calls', NEW j \in DOMAIN calls', i < j,
                        Speaks(calls'[i]), Speaks(calls'[j])
                 PROVE  calls'[i].line.id < calls'[j].line.id
      BY DEF CallsRise
    <3>1. CASE j \in DOMAIN calls
      <4>1. i \in DOMAIN calls
        BY <1>10, <3>1
      <4> QED
        BY <1>1, <1>10, <3>1, <4>1 DEF VoiceTypeOK, CallsRise
    <3>2. CASE j \notin DOMAIN calls
      <4>1. calls'[j].line.id = lines + 1 /\ j = n + m
        BY <1>11, <3>2
      <4>2. i \in DOMAIN calls /\ calls'[i] = calls[i]
        <5>1. i # n + m
          BY <1>8, <4>1
        <5> QED
          BY <1>11, <5>1
      <4>3. calls[i].line.id <= lines /\ calls[i].line.id \in Nat
        BY <1>1, <4>2, CallsOf, LineIds DEF LinesInStep, VoiceTypeOK
      <4> QED
        BY <1>5, <4>1, <4>2, <4>3
    <3> QED
      BY <3>1, <3>2
  <2> QED
    BY <1>1, <1>2, <1>5, <1>8, <2>1 DEF VoiceTypeOK
<1>13. ASSUME NEW id \in Nat, Ahead(id)
       PROVE  /\ id <= lines'
              /\ \A i \in DOMAIN queue' : id < queue'[i].id
              /\ \A i \in DOMAIN calls' : Speaks(calls'[i]) => id < calls'[i].line.id
  BY <1>2, <1>5, <1>10, <1>11, <1>13 DEF Ahead
<1>14. LinesInStep'
  <2>1. \A h \in DOMAIN heard : heard[h] \in Line /\ heard[h].id \in Nat
    BY <1>1, LineIds DEF LinesInStep
  <2>2. worker.at = "popped" => worker.line.id \in Nat
    BY <1>1, LineIds DEF LinesInStep
  <2>3. \A i \in DOMAIN queue : queue[i].id \in Nat /\ queue[i].id <= lines
    BY <1>1, LineIds DEF LinesInStep, VoiceTypeOK
  <2>4. ASSUME NEW i \in DOMAIN calls', Speaks(calls'[i])
        PROVE  calls'[i].line.id <= lines' /\ \A j \in DOMAIN queue : queue[j].id < calls'[i].line.id
    <3>1. CASE i \in DOMAIN calls /\ calls'[i] = calls[i]
      <4>1. calls[i].line.id <= lines /\ calls[i].line.id \in Nat
        BY <1>1, <2>4, <3>1, CallsOf, LineIds DEF LinesInStep, VoiceTypeOK
      <4> QED
        BY <1>1, <1>5, <2>4, <3>1, <4>1 DEF LinesInStep
    <3>2. CASE calls'[i].line.id = lines + 1 /\ lines' = lines + 1
      BY <1>5, <2>3, <3>2
    <3> QED
      BY <1>11, <2>4, <3>1, <3>2
  <2>5. \A i \in DOMAIN queue : queue[i].id <= lines'
    BY <1>5, <2>3
  <2>6. \A h \in DOMAIN heard : Ahead(heard[h].id)'
    BY <1>1, <1>2, <1>13, <2>1 DEF LinesInStep, Ahead
  <2>7. worker.at = "popped" => Ahead(worker.line.id)'
    BY <1>1, <1>2, <1>13, <2>2 DEF LinesInStep, Ahead
  <2> QED
    BY <1>1, <1>2, <2>4, <2>5, <2>6, <2>7 DEF LinesInStep
<1>15. StopFollowsReplies'
  <2> SUFFICES ASSUME ~voiceOn' PROVE StopFollowsReplies'
    BY DEF StopFollowsReplies
  <2>1. CASE new = <<>>
    <3>1. calls' = calls /\ ~voiceOn
      BY <1>1, <1>4, <2>1 DEF VoiceTypeOK, StopCall
    <3> QED
      BY <1>1, <1>2, <3>1 DEF StopFollowsReplies, IsReply
  <2>2. CASE new # <<>>
    <3>1. new[1] = StopCall /\ 1 \in 1..m
      BY <2>2 DEF m
    <3>2. n + 1 \in DOMAIN calls' /\ calls'[n + 1] = StopCall
      BY <1>8, <3>1
    <3>3. ASSUME NEW j \in DOMAIN calls', j > n + 1 PROVE ~IsReply(calls'[j])
      <4>1. j \notin DOMAIN calls
        BY <1>8, <3>3
      <4> QED
        BY <1>9, <4>1 DEF IsReply
    <3> QED
      BY <1>3, <3>2, <3>3 DEF StopFollowsReplies
  <2> QED
    BY <2>1, <2>2
<1>16. AuditionsFollowStops'
  <2> SUFFICES ASSUME NEW i \in DOMAIN calls', IsAudition(calls'[i])
               PROVE  IF i = 1 THEN stopping \/ NoAuditionWaits ELSE ~Speaks(calls'[i - 1])
    BY <1>2 DEF AuditionsFollowStops, NoAuditionWaits
  <2>1. CASE i \in DOMAIN calls
    <3>1. i = 1 \/ i - 1 \in DOMAIN calls
      BY <1>8, <2>1
    <3> QED
      BY <1>1, <1>10, <2>1, <3>1 DEF AuditionsFollowStops
  <2>2. CASE i \notin DOMAIN calls
    BY <1>9, <2>2 DEF IsAudition
  <2> QED
    BY <2>1, <2>2
<1> QED
  BY <1>1, <1>2, <1>12, <1>14, <1>15, <1>16 DEF VoiceInv, AuditionsDoNotPileUp, NothingStaleWaits

-----------------------------------------------------------------------------
(* The native side, command by command and beside them the worker.          *)
LEMMA SpeakKeeps ==
    ASSUME VoiceInv, Speak
    PROVE  VoiceInv'
<1> DEFINE c == Head(calls)
           l == [c.line EXCEPT !.born = stops]
           n == Len(queue)
<1>1. VoiceTypeOK /\ LinesInStep /\ StopFollowsReplies /\ AuditionsFollowStops
      /\ AuditionsDoNotPileUp /\ NothingStaleWaits
  BY DEF VoiceInv
<1>2. /\ calls # <<>> /\ Speaks(c) /\ ~stopping /\ queue' = Append(queue, l) /\ calls' = Tail(calls)
      /\ voiceOn' = voiceOn /\ chosen' = chosen /\ picker' = picker /\ lines' = lines /\ asked' = asked
      /\ flushGen' = flushGen /\ stopping' = stopping /\ worker' = worker /\ stops' = stops /\ heard' = heard
  BY DEF Speak, Enqueued, pageVoiceVars
<1>3. /\ calls' \in Seq(Call) /\ 1 \in DOMAIN calls /\ c = calls[1] /\ c \in Call
      /\ \A i \in DOMAIN calls' : i \in Nat /\ i # 0 /\ i + 1 \in DOMAIN calls /\ calls'[i] = calls[i + 1]
      /\ \A i \in DOMAIN calls : i = 1 \/ (i - 1 \in DOMAIN calls' /\ calls'[i - 1] = calls[i])
  BY <1>1, <1>2, CallTaken
<1>4. c.line \in Line /\ stops \in Nat
  BY <1>1, <1>2, <1>3, CallsOf DEF VoiceTypeOK
<1>5. l \in Line /\ l.id = c.line.id /\ l.kind = c.line.kind /\ l.born = stops
  BY <1>4 DEF Line
<1> HIDE DEF c, l
<1>6. /\ queue' \in Seq(Line) /\ n \in Nat /\ DOMAIN queue = 1..n /\ DOMAIN queue' = 1..n + 1
      /\ queue'[n + 1] = l /\ \A i \in 1..n : queue'[i] = queue[i]
  BY <1>1, <1>2, <1>5 DEF VoiceTypeOK
<1> HIDE DEF n
<1>7. /\ \A i \in DOMAIN queue' : (queue'[i] = l /\ i = n + 1) \/ (i \in DOMAIN queue /\ queue'[i] = queue[i])
      /\ \A i \in DOMAIN queue : i < n + 1
  BY <1>6
<1>8. ASSUME NEW i \in DOMAIN calls', Speaks(calls'[i])
      PROVE  /\ c.line.id < calls'[i].line.id
             /\ calls'[i].line.id <= lines /\ \A j \in DOMAIN queue : queue[j].id < calls'[i].line.id
  <2>1. 1 < i + 1 /\ i + 1 \in DOMAIN calls /\ calls'[i] = calls[i + 1]
    BY <1>3, <1>8
  <2> QED
    BY <1>1, <1>2, <1>3, <1>8, <2>1 DEF VoiceTypeOK, CallsRise, LinesInStep
<1>9. c.line.id <= lines /\ \A j \in DOMAIN queue : queue[j].id < c.line.id
  BY <1>1, <1>2, <1>3 DEF LinesInStep
<1>10. VoiceTypeOK'
  <2>1. CallsRise'
    <3> SUFFICES ASSUME NEW i \in DOMAIN calls', NEW j \in DOMAIN calls', i < j,
                        Speaks(calls'[i]), Speaks(calls'[j])
                 PROVE  calls'[i].line.id < calls'[j].line.id
      BY DEF CallsRise
    <3>1. i + 1 < j + 1
      BY <1>3
    <3> QED
      BY <1>1, <1>3, <3>1, SMTT(30) DEF VoiceTypeOK, CallsRise
  <2>2. IdsRise(queue')
    BY <1>1, <1>5, <1>6, <1>7, <1>9 DEF VoiceTypeOK, IdsRise
  <2> QED
    BY <1>1, <1>2, <1>3, <1>6, <2>1, <2>2 DEF VoiceTypeOK
<1>11. ASSUME NEW id \in Nat, Ahead(id)
       PROVE  /\ id <= lines'
              /\ \A i \in DOMAIN queue' : id < queue'[i].id
              /\ \A i \in DOMAIN calls' : Speaks(calls'[i]) => id < calls'[i].line.id
  <2>1. id < c.line.id
    BY <1>2, <1>3, <1>11 DEF Ahead
  <2> QED
    BY <1>2, <1>3, <1>5, <1>7, <1>11, <2>1 DEF Ahead
<1>12. LinesInStep'
  <2>1. \A h \in DOMAIN heard : heard[h].id \in Nat
    BY <1>1, LineIds DEF LinesInStep
  <2>2. worker.at = "popped" => worker.line.id \in Nat
    BY <1>1, LineIds DEF LinesInStep
  <2>3. \A h \in DOMAIN heard : Ahead(heard[h].id)'
    BY <1>1, <1>2, <1>11, <2>1 DEF LinesInStep, Ahead
  <2>4. worker.at = "popped" => Ahead(worker.line.id)'
    BY <1>1, <1>2, <1>11, <2>2 DEF LinesInStep, Ahead
  <2>5. \A i \in DOMAIN queue' : queue'[i].id <= lines'
    BY <1>1, <1>2, <1>5, <1>7, <1>9 DEF LinesInStep
  <2>6. \A i \in DOMAIN calls' : Speaks(calls'[i]) =>
          calls'[i].line.id <= lines' /\ \A j \in DOMAIN queue' : queue'[j].id < calls'[i].line.id
    BY <1>2, <1>5, <1>7, <1>8
  <2> QED
    BY <1>1, <1>2, <2>3, <2>4, <2>5, <2>6 DEF LinesInStep
<1>13. StopFollowsReplies'
  <2> SUFFICES ASSUME ~voiceOn PROVE StopFollowsReplies'
    BY <1>2 DEF StopFollowsReplies
  <2>1. CASE \E i \in DOMAIN calls : ~Speaks(calls[i]) /\ \A j \in DOMAIN calls : j > i => ~IsReply(calls[j])
    <3>1. PICK i \in DOMAIN calls : ~Speaks(calls[i]) /\ \A j \in DOMAIN calls : j > i => ~IsReply(calls[j])
      BY <2>1
    <3>2. i - 1 \in DOMAIN calls' /\ calls'[i - 1] = calls[i]
      BY <1>2, <1>3, <3>1
    <3>3. ASSUME NEW j \in DOMAIN calls', j > i - 1 PROVE ~IsReply(calls'[j])
      <4>1. i \in Nat /\ j + 1 > i
        BY <1>1, <1>3, <3>3 DEF VoiceTypeOK
      <4> QED
        BY <1>3, <3>1, <4>1 DEF IsReply
    <3> QED
      BY <3>1, <3>2, <3>3 DEF StopFollowsReplies
  <2>2. CASE /\ \A j \in DOMAIN calls : ~IsReply(calls[j])
             /\ \A j \in DOMAIN queue : queue[j].kind # "reply"
    <3>1. l.kind # "reply"
      BY <1>2, <1>3, <1>5, <2>2 DEF IsReply
    <3>2. \A j \in DOMAIN queue' : queue'[j].kind # "reply"
      BY <1>7, <2>2, <3>1
    <3>3. \A j \in DOMAIN calls' : ~IsReply(calls'[j])
      BY <1>3, <2>2 DEF IsReply
    <3> QED
      BY <3>2, <3>3 DEF StopFollowsReplies
  <2> QED
    BY <1>1, <1>2, <2>1, <2>2 DEF StopFollowsReplies
<1>14. AuditionsFollowStops'
  <2> SUFFICES ASSUME NEW i \in DOMAIN calls', IsAudition(calls'[i])
               PROVE  i # 1 /\ ~Speaks(calls'[i - 1])
    BY DEF AuditionsFollowStops
  <2>1. i \in Nat /\ i + 1 \in DOMAIN calls /\ i + 1 # 1 /\ IsAudition(calls[i + 1])
    BY <1>3 DEF IsAudition
  <2>2. ~Speaks(calls[i])
    BY <1>1, <2>1 DEF AuditionsFollowStops
  <2>3. i # 1
    BY <1>2, <1>3, <2>2
  <2>4. i - 1 \in DOMAIN calls' /\ calls'[i - 1] = calls[i]
    <3>1. i \in DOMAIN calls
      BY <1>1, <1>3, <2>1 DEF VoiceTypeOK
    <3> QED
      BY <1>3, <2>3, <3>1
  <2> QED
    BY <2>2, <2>3, <2>4
<1>15. AuditionsDoNotPileUp'
  <2>1. l.kind = "audition" => NoAuditionWaits
    BY <1>1, <1>2, <1>3, <1>5 DEF AuditionsFollowStops, IsAudition
  <2> QED
    BY <1>1, <1>2, <1>7, <2>1 DEF AuditionsDoNotPileUp, NoAuditionWaits
<1>16. NothingStaleWaits'
  BY <1>1, <1>2, <1>5, <1>7 DEF NothingStaleWaits
<1> QED
  BY <1>10, <1>12, <1>13, <1>14, <1>15, <1>16 DEF VoiceInv

(* The first statement of stop_speaking,                                    *)
LEMMA StopKeeps ==
    ASSUME VoiceInv, StopSpeaking
    PROVE  VoiceInv'
<1>1. VoiceTypeOK /\ LinesInStep /\ StopFollowsReplies /\ AuditionsFollowStops
      /\ AuditionsDoNotPileUp /\ NothingStaleWaits
  BY DEF VoiceInv
<1>2. /\ calls # <<>> /\ Head(calls).what = "stop" /\ stopping' /\ stopping' \in BOOLEAN /\ calls' = Tail(calls)
      /\ flushGen' = flushGen + 1
      /\ voiceOn' = voiceOn /\ chosen' = chosen /\ picker' = picker /\ lines' = lines /\ asked' = asked
      /\ queue' = queue /\ worker' = worker /\ stops' = stops /\ heard' = heard
  BY DEF StopSpeaking, pageVoiceVars
<1>3. /\ calls' \in Seq(Call) /\ 1 \in DOMAIN calls /\ Head(calls) = calls[1]
      /\ \A i \in DOMAIN calls' : i \in Nat /\ i # 0 /\ i + 1 \in DOMAIN calls /\ calls'[i] = calls[i + 1]
      /\ \A i \in DOMAIN calls : i = 1 \/ (i - 1 \in DOMAIN calls' /\ calls'[i - 1] = calls[i])
  BY <1>1, <1>2, CallTaken
<1>4. VoiceTypeOK'
  <2>1. CallsRise'
    <3> SUFFICES ASSUME NEW i \in DOMAIN calls', NEW j \in DOMAIN calls', i < j,
                        Speaks(calls'[i]), Speaks(calls'[j])
                 PROVE  calls'[i].line.id < calls'[j].line.id
      BY DEF CallsRise
    <3>1. i + 1 < j + 1
      BY <1>3
    <3> QED
      BY <1>1, <1>3, <3>1, SMTT(30) DEF VoiceTypeOK, CallsRise
  <2> QED
    BY <1>1, <1>2, <1>3, <2>1 DEF VoiceTypeOK
<1>5. LinesInStep'
  <2>1. \A h \in DOMAIN heard : Ahead(heard[h].id)'
    BY <1>1, <1>2, <1>3 DEF LinesInStep, Ahead
  <2>2. worker.at = "popped" => Ahead(worker.line.id)'
    BY <1>1, <1>2, <1>3 DEF LinesInStep, Ahead
  <2> QED
    BY <1>1, <1>2, <1>3, <2>1, <2>2 DEF LinesInStep
<1>6. StopFollowsReplies'
  <2> SUFFICES ASSUME ~voiceOn PROVE StopFollowsReplies'
    BY <1>2 DEF StopFollowsReplies
  <2>1. ASSUME NEW i \in DOMAIN calls, ~Speaks(calls[i]),
               \A j \in DOMAIN calls : j > i => ~IsReply(calls[j])
        PROVE  StopFollowsReplies'
    <3>1. i \in Nat
      BY <1>1 DEF VoiceTypeOK
    <3>2. ASSUME NEW j \in DOMAIN calls', j > i - 1 PROVE ~IsReply(calls'[j])
      <4>1. j + 1 > i
        BY <1>3, <3>1, <3>2
      <4> QED
        BY <1>3, <2>1, <4>1 DEF IsReply
    <3>3. CASE i = 1
      <4>1. \A j \in DOMAIN calls' : j > i - 1
        BY <1>3, <3>3
      <4> QED
        BY <1>2, <3>2, <4>1 DEF StopFollowsReplies
    <3>4. CASE i # 1
      BY <1>3, <2>1, <3>2, <3>4 DEF StopFollowsReplies
    <3> QED
      BY <3>3, <3>4
  <2>2. CASE \A j \in DOMAIN calls : ~IsReply(calls[j])
    BY <1>2, <1>3, <2>2 DEF StopFollowsReplies, IsReply
  <2> QED
    BY <1>1, <2>1, <2>2 DEF StopFollowsReplies
<1>7. AuditionsFollowStops'
  <2> SUFFICES ASSUME NEW i \in DOMAIN calls', IsAudition(calls'[i])
               PROVE  i = 1 \/ ~Speaks(calls'[i - 1])
    BY <1>2 DEF AuditionsFollowStops
  <2>1. i \in Nat /\ i + 1 \in DOMAIN calls /\ i + 1 # 1 /\ IsAudition(calls[i + 1])
    BY <1>3 DEF IsAudition
  <2>2. ~Speaks(calls[i])
    BY <1>1, <2>1 DEF AuditionsFollowStops
  <2>3. i \in DOMAIN calls
    BY <1>1, <1>3, <2>1 DEF VoiceTypeOK
  <2> QED
    BY <1>3, <2>2, <2>3
<1> QED
  BY <1>1, <1>2, <1>4, <1>5, <1>6, <1>7 DEF VoiceInv, AuditionsDoNotPileUp, NothingStaleWaits

(* and the second.                                                          *)
LEMMA ClearKeeps ==
    ASSUME VoiceInv, ClearQueue
    PROVE  VoiceInv'
<1>1. VoiceTypeOK /\ LinesInStep /\ StopFollowsReplies /\ AuditionsFollowStops
  BY DEF VoiceInv
<1>2. /\ stopping' = FALSE /\ queue' = <<>> /\ stops' = stops + 1
      /\ voiceOn' = voiceOn /\ chosen' = chosen /\ picker' = picker /\ lines' = lines /\ asked' = asked
      /\ calls' = calls /\ flushGen' = flushGen /\ worker' = worker /\ heard' = heard
  BY DEF ClearQueue, Cleared, pageVoiceVars
<1>3. VoiceTypeOK'
  <2>1. queue' \in Seq(Line) /\ IdsRise(queue') /\ stops' \in Nat /\ stopping' \in BOOLEAN
    <3>1. <<>> \in Seq(Line)
      OBVIOUS
    <3>2. IdsRise(<<>>)
      BY DEF IdsRise
    <3>3. stops + 1 \in Nat
      BY <1>1 DEF VoiceTypeOK
    <3> QED
      BY <1>2, <3>1, <3>2, <3>3
  <2>2. CallsRise'
    BY <1>1, <1>2 DEF VoiceTypeOK, CallsRise
  <2> QED
    BY <1>1, <1>2, <2>1, <2>2 DEF VoiceTypeOK
<1>4. LinesInStep'
  <2>1. \A h \in DOMAIN heard : Ahead(heard[h].id)'
    BY <1>1, <1>2 DEF LinesInStep, Ahead
  <2>2. worker.at = "popped" => Ahead(worker.line.id)'
    BY <1>1, <1>2 DEF LinesInStep, Ahead
  <2> QED
    BY <1>1, <1>2, <2>1, <2>2 DEF LinesInStep
<1>5. StopFollowsReplies' /\ AuditionsFollowStops'
  BY <1>1, <1>2 DEF StopFollowsReplies, AuditionsFollowStops, NoAuditionWaits
<1>6. AuditionsDoNotPileUp' /\ NothingStaleWaits'
  BY <1>2 DEF AuditionsDoNotPileUp, NothingStaleWaits
<1> QED
  BY <1>3, <1>4, <1>5, <1>6 DEF VoiceInv

(* The worker takes the oldest line.                                        *)
LEMMA PopKeeps ==
    ASSUME VoiceInv, WorkerPops
    PROVE  VoiceInv'
<1> DEFINE l == Head(queue)
           n == Len(queue)
<1>1. VoiceTypeOK /\ LinesInStep /\ StopFollowsReplies /\ AuditionsFollowStops
      /\ AuditionsDoNotPileUp /\ NothingStaleWaits
  BY DEF VoiceInv
<1>2. /\ queue # <<>> /\ queue' = Tail(queue) /\ worker' = [Parked EXCEPT !.at = "popped", !.line = l]
      /\ voiceOn' = voiceOn /\ chosen' = chosen /\ picker' = picker /\ lines' = lines /\ asked' = asked
      /\ calls' = calls /\ flushGen' = flushGen /\ stopping' = stopping /\ stops' = stops /\ heard' = heard
  BY DEF WorkerPops, pageVoiceVars
<1>3. /\ n \in Nat /\ n # 0 /\ DOMAIN queue = 1..n /\ l = queue[1] /\ l \in Line
      /\ queue' \in Seq(Line) /\ DOMAIN queue' = 1..n - 1 /\ \A i \in 1..n - 1 : queue'[i] = queue[i + 1]
  BY <1>1, <1>2 DEF VoiceTypeOK
<1> HIDE DEF l, n
<1>4. /\ 1 \in DOMAIN queue
      /\ \A i \in DOMAIN queue' : i \in Nat /\ 1 < i + 1 /\ i + 1 \in DOMAIN queue /\ queue'[i] = queue[i + 1]
  BY <1>3
<1>5. worker' = [at |-> "popped", line |-> l, gen |-> 0, seen |-> 0]
  BY <1>2 DEF Parked
<1>6. VoiceTypeOK'
  <2>1. IdsRise(queue')
    <3> SUFFICES ASSUME NEW i \in DOMAIN queue', NEW j \in DOMAIN queue', i < j
                 PROVE  queue'[i].id < queue'[j].id
      BY DEF IdsRise
    <3>1. i + 1 < j + 1
      BY <1>4
    <3> QED
      BY <1>1, <1>4, <3>1 DEF VoiceTypeOK, IdsRise
  <2>2. worker' \in [at : {"parked", "popped", "playing"}, line : Line \cup {NoLine}, gen : Nat, seen : Nat]
    BY <1>3, <1>5
  <2> QED
    BY <1>1, <1>2, <1>3, <2>1, <2>2 DEF VoiceTypeOK, CallsRise
<1>7. LinesInStep'
  <2>1. \A h \in DOMAIN heard : Ahead(heard[h].id)'
    BY <1>1, <1>2, <1>4 DEF LinesInStep, Ahead
  <2>2. Ahead(worker.line.id)'
    <3>1. \A i \in DOMAIN queue' : l.id < queue'[i].id
      BY <1>1, <1>3, <1>4 DEF VoiceTypeOK, IdsRise
    <3>2. \A i \in DOMAIN calls : Speaks(calls[i]) => l.id < calls[i].line.id
      BY <1>1, <1>3, <1>4 DEF LinesInStep
    <3>3. l.id <= lines
      BY <1>1, <1>3, <1>4 DEF LinesInStep
    <3> QED
      BY <1>2, <1>3, <1>5, <3>1, <3>2, <3>3 DEF Ahead
  <2>3. \A h \in DOMAIN heard : heard[h].id < l.id
    BY <1>1, <1>3, <1>4 DEF LinesInStep, Ahead
  <2> QED
    BY <1>1, <1>2, <1>3, <1>4, <1>5, <2>1, <2>2, <2>3 DEF LinesInStep
<1>8. StopFollowsReplies' /\ AuditionsFollowStops'
  BY <1>1, <1>2, <1>4 DEF StopFollowsReplies, AuditionsFollowStops, NoAuditionWaits
<1>9. AuditionsDoNotPileUp'
  <2> SUFFICES ASSUME ~stopping, NEW i \in DOMAIN queue', NEW j \in DOMAIN queue',
                      queue'[i].kind = "audition", queue'[j].kind = "audition"
               PROVE  i = j
    BY <1>2 DEF AuditionsDoNotPileUp
  <2>1. i + 1 = j + 1
    BY <1>1, <1>4 DEF AuditionsDoNotPileUp
  <2> QED
    BY <1>4, <2>1
<1>10. NothingStaleWaits'
  BY <1>1, <1>2, <1>4 DEF NothingStaleWaits
<1> QED
  BY <1>6, <1>7, <1>8, <1>9, <1>10 DEF VoiceInv

(* The worker begins what it has taken, or is done with it.                 *)
LEMMA WorkerKeeps ==
    ASSUME VoiceInv, WorkerSpawns \/ WorkerPolls \/ WorkerEnds
    PROVE  VoiceInv'
<1>1. VoiceTypeOK /\ LinesInStep
  BY DEF VoiceInv
<1>2. /\ voiceOn' = voiceOn /\ chosen' = chosen /\ picker' = picker /\ lines' = lines /\ asked' = asked
      /\ calls' = calls /\ flushGen' = flushGen /\ stopping' = stopping /\ stops' = stops /\ queue' = queue
      /\ \/ /\ worker.at = "popped" /\ heard' = Append(heard, worker.line)
            /\ worker' = [worker EXCEPT !.at = "playing", !.gen = flushGen]
         \/ heard' = heard /\ worker' = Parked
         \/ heard' = heard /\ worker.at = "playing" /\ worker' = [worker EXCEPT !.seen = stops]
  BY DEF WorkerSpawns, WorkerPolls, WorkerEnds, pageVoiceVars
<1>3. /\ worker' \in [at : {"parked", "popped", "playing"}, line : Line \cup {NoLine}, gen : Nat, seen : Nat]
      /\ worker'.at # "popped"
  <2>1. /\ worker \in [at : {"parked", "popped", "playing"}, line : Line \cup {NoLine}, gen : Nat, seen : Nat]
        /\ flushGen \in Nat /\ stops \in Nat
    BY <1>1 DEF VoiceTypeOK
  <2>2. CASE worker' = Parked
    BY <2>2 DEF Parked
  <2>3. CASE worker' = [worker EXCEPT !.at = "playing", !.gen = flushGen]
    BY <2>1, <2>3
  <2>4. CASE worker.at = "playing" /\ worker' = [worker EXCEPT !.seen = stops]
    BY <2>1, <2>4
  <2> QED
    BY <1>2, <2>2, <2>3, <2>4
<1>4. VoiceTypeOK'
  BY <1>1, <1>2, <1>3 DEF VoiceTypeOK, CallsRise
<1>5. LinesInStep'
  <2>1. CASE heard' = heard
    BY <1>1, <1>2, <1>3, <2>1 DEF LinesInStep, Ahead
  <2>2. CASE worker.at = "popped" /\ heard' = Append(heard, worker.line)
    <3> DEFINE n == Len(heard)
    <3>1. /\ worker.line \in Line /\ Ahead(worker.line.id)
          /\ \A h \in DOMAIN heard : heard[h].id < worker.line.id
      BY <1>1, <2>2 DEF LinesInStep
    <3>2. /\ n \in Nat /\ DOMAIN heard = 1..n
          /\ heard' \in Seq(Line) /\ DOMAIN heard' = 1..n + 1 /\ heard'[n + 1] = worker.line
          /\ \A h \in 1..n : heard'[h] = heard[h]
      BY <1>1, <2>2, <3>1 DEF LinesInStep
    <3> HIDE DEF n
    <3>3. IdsRise(heard')
      BY <1>1, <3>1, <3>2 DEF LinesInStep, IdsRise
    <3>4. \A h \in DOMAIN heard' : Ahead(heard'[h].id)
      BY <1>1, <3>1, <3>2 DEF LinesInStep
    <3> QED
      BY <1>1, <1>2, <1>3, <3>2, <3>3, <3>4 DEF LinesInStep, Ahead
  <2> QED
    BY <1>2, <2>1, <2>2
<1> QED
  BY <1>2, <1>4, <1>5 DEF VoiceInv, StopFollowsReplies, AuditionsFollowStops, NoAuditionWaits,
     AuditionsDoNotPileUp, NothingStaleWaits

(* The voice picker only chooses.                                           *)
LEMMA PickerKeeps ==
    ASSUME VoiceInv, MountPicker \/ LoadVoices \/ LeavePicker
    PROVE  VoiceInv'
<1>1. /\ UNCHANGED <<voiceOn, chosen, lines, asked, calls, nativeVars>>
      /\ picker' \in [at : {"absent", "loading", "loaded"}, shown : Names]
  BY DEF MountPicker, LoadVoices, LeavePicker, ShownFor, Names, VoiceInv, VoiceTypeOK
<1> QED
  BY <1>1 DEF nativeVars, VoiceInv, VoiceTypeOK, CallsRise, LinesInStep, Ahead, StopFollowsReplies,
     AuditionsFollowStops, NoAuditionWaits, AuditionsDoNotPileUp, NothingStaleWaits

(* Every step keeps the invariant.                                          *)
LEMMA VoiceInvStep == VoiceInv /\ [VoiceNext]_voiceVars => VoiceInv'
<1> SUFFICES ASSUME VoiceInv, [VoiceNext]_voiceVars PROVE VoiceInv'
  OBVIOUS
<1>1. /\ voiceOn \in BOOLEAN /\ chosen \in Names /\ picker.shown \in Names
      /\ picker \in [at : {"absent", "loading", "loaded"}, shown : Names] /\ SystemVoice \in Names
  BY DEF VoiceInv, VoiceTypeOK, Names
<1>2. CASE SpeakReply
  <2>1. /\ Invoke(IF voiceOn THEN <<SpeakCall("reply", chosen)>> ELSE <<>>)
        /\ voiceOn' = voiceOn /\ chosen' = chosen /\ picker' = picker /\ UNCHANGED nativeVars
    BY <1>2 DEF SpeakReply
  <2> QED
    BY <1>1, <2>1, Invoked
<1>3. CASE BargeIn
  BY <1>1, <1>3, Invoked DEF BargeIn
<1>4. CASE ToggleVoice
  <2>1. /\ voiceOn' = ~voiceOn /\ Invoke(IF voiceOn' THEN <<>> ELSE <<StopCall>>)
        /\ chosen' = chosen /\ picker' = picker /\ UNCHANGED nativeVars
    BY <1>4 DEF ToggleVoice, ToggleCalls
  <2> QED
    BY <1>1, <2>1, Invoked
<1>5. CASE Audition
  BY <1>1, <1>5, Invoked DEF Audition, PlayCalls
<1>6. ASSUME NEW name \in Names, chosen' = name, picker' = [picker EXCEPT !.shown = name],
             Invoke(PlayCalls(name)), UNCHANGED <<voiceOn, nativeVars>>
      PROVE  VoiceInv'
  <2>1. picker' \in [at : {"absent", "loading", "loaded"}, shown : Names]
    BY <1>1, <1>6
  <2> QED
    BY <1>1, <1>6, <2>1, Invoked DEF PlayCalls
<1>7. CASE ResetVoice \/ \E name \in Names : Choose(name)
  BY <1>1, <1>6, <1>7 DEF ResetVoice, Choose
<1>8. CASE UNCHANGED voiceVars
  BY <1>8 DEF voiceVars, VoiceInv, VoiceTypeOK, CallsRise, LinesInStep, Ahead, StopFollowsReplies,
     AuditionsFollowStops, NoAuditionWaits, AuditionsDoNotPileUp, NothingStaleWaits
<1> QED
  BY <1>2, <1>3, <1>4, <1>5, <1>7, <1>8, SpeakKeeps, StopKeeps, ClearKeeps, PopKeeps, WorkerKeeps, PickerKeeps
     DEF VoiceNext

(* So it always holds.                                                      *)
LEMMA VoiceAlways == VoiceSpec => []VoiceInv
<1> QED
  BY VoiceInvInit, VoiceInvStep, PTL DEF VoiceSpec

(* Calls, lines and the worker stay well formed, and lines wait in the      *)
(* order in which they were made (voice.rs).                                *)
THEOREM VoiceTypeCorrect == VoiceSpec => []VoiceTypeOK
<1>1. VoiceInv => VoiceTypeOK
  BY DEF VoiceInv
<1> QED
  BY <1>1, VoiceAlways, PTL

(* What is spoken, and what waits, is what was asked for last: in order,    *)
(* nothing from before a stop, one audition at most, and no reply once the  *)
(* voice is off (hooks/voice.js, voice.rs).                                 *)
THEOREM SpokenAlwaysAsAsked == VoiceSpec => []SpokenAsAsked
<1>1. VoiceInv => SpokenAsAsked
  <2>1. VoiceInv => OffMeansSilent
    BY DEF VoiceInv, StopFollowsReplies, OffMeansSilent
  <2> QED
    BY <2>1 DEF VoiceInv, LinesInStep, SpokenAsAsked, HeardInOrder
<1> QED
  BY <1>1, VoiceAlways, PTL

-----------------------------------------------------------------------------
(* The note draft. *)

\* Nothing is in conflict where no note is open.
ClosedIsBare == server.selected = NoNote => server.conflict = {} /\ server.body = {}

\* The last patch under way, or the pane itself, is what the component says.
PaneCatchesUp ==
    /\ patches = <<>> => pane.path = server.selected /\ pane.status = server.status
    /\ patches # <<>> => /\ patches[Len(patches)].path = server.selected
                         /\ patches[Len(patches)].status = server.status

\* A save is under way behind the k-th event, or the pause before it runs.
SavedAfter(k) ==
    pane.debounce \/ \E j \in DOMAIN events : j > k /\ events[j].what = "save_note"

\* An announcement is followed by its save, wherever it has got to.
DirtyIsFollowed ==
    ~dropped =>
        /\ \A i \in DOMAIN events : events[i].what = "note_dirty" => SavedAfter(i)
        /\ server.status = "unsaved" => SavedAfter(0)

\* And the mark of the hook is cleared in the end, even when an earlier
\* announcement reached another note: by a patch under way, or by the one that
\* the save will bring.
DirtyIsCleared ==
    pane.dirty =>
        /\ pane.status # "conflict"
        /\ \/ \E i \in DOMAIN patches : patches[i].status # "unsaved"
           \/ server.status = "unsaved" /\ SavedAfter(0)
           \/ \E i \in DOMAIN events : events[i].what = "note_dirty" /\ SavedAfter(i)

DraftInv == NoteTypeOK /\ ClosedIsBare /\ PaneCatchesUp /\ DirtyIsFollowed /\ DirtyIsCleared

-----------------------------------------------------------------------------
(* It holds at the start.                                                   *)
LEMMA DraftInvInit == NoteInit => DraftInv
<1> SUFFICES ASSUME NoteInit PROVE DraftInv
  OBVIOUS
<1>1. NoteTypeOK
  <2>1. server \in Assigns /\ pane \in Pane
    BY DEF NoteInit, ClosedServer, ClosedPane, Assigns, Pane, Text, Status
  <2>2. clicks \in [click : 0..MaxClicks, submit : 0..MaxSubmits] /\ edits \in 0..MaxEdits
    BY EditsAssumption DEF NoteInit
  <2>3. disk \in [Notes -> Text] /\ written \in [Notes -> Text] /\ theirs \in Text /\ dropped \in BOOLEAN
    BY DEF NoteInit, Text
  <2>4. events \in Seq(Event) /\ patches \in Seq(Patched)
    BY DEF NoteInit
  <2>5. /\ server.selected = NoNote /\ server.status = "idle" /\ server.form = {}
        /\ ~pane.debounce /\ ~pane.dirty
    BY DEF NoteInit, ClosedServer, ClosedPane
  <2> QED
    BY <2>1, <2>2, <2>3, <2>4, <2>5 DEF NoteTypeOK
<1> QED
  BY <1>1 DEF NoteInit, DraftInv, ClosedIsBare, PaneCatchesUp, DirtyIsFollowed, DirtyIsCleared,
              ClosedServer, ClosedPane

(* What the component's handlers have in common: they answer the first      *)
(* event, or none, with new assigns, which are "unsaved" only as they were  *)
(* before or because of an announcement, and never after a save.            *)
Answers(new) ==
    /\ Assign(new) /\ disk' \in [Notes -> Text]
    /\ new \in Assigns /\ (new.selected = NoNote) = (new.status = "idle")
    /\ new.status = "conflict" => new.conflict # {}
    /\ new.selected = NoNote => new.form = {} /\ new.conflict = {} /\ new.body = {}
    /\ \/ events' = events
       \/ events # <<>> /\ events' = Tail(events)
    /\ new.status = "unsaved" =>
          /\ events' # events => Head(events).what # "save_note"
          /\ server.status = "unsaved" \/ (events' # events /\ Head(events).what = "note_dirty")
    /\ events' # events /\ Head(events).what = "note_dirty" =>
          \/ new.status = "unsaved"
          \/ new = server /\ (server.selected = NoNote \/ server.status = "conflict")

Handlers == HandleSaveNote \/ HandleNoteDirty \/ HandleSelectNote \/ HandleReload \/ HandleOverwrite
            \/ HandleClose \/ Reconcile

(* A handler takes the first event.                                         *)
LEMMA EventTaken ==
    ASSUME NoteTypeOK, NEW what, Received(what)
    PROVE  /\ events # <<>> /\ events' = Tail(events) /\ events' # events
           /\ Head(events) \in Event /\ Head(events).what = what
<1>1. events \in Seq(Event) /\ events # <<>> /\ events' = Tail(events) /\ Head(events).what = what
  BY DEF Received, NoteTypeOK
<1>2. Head(events) \in Event
  BY <1>1
<1>3. Tail(events) # events
  <2>1. Len(events) \in Nat /\ Len(Tail(events)) = Len(events) - 1
    BY <1>1
  <2> QED
    BY <2>1
<1> QED
  BY <1>1, <1>2, <1>3

(* What events carry.                                                       *)
LEMMA WhatEventsCarry ==
    ASSUME NEW e \in Event
    PROVE  /\ e.what = "save_note" => e.body \in Text
           /\ e.what = "select_note" => e.path \in Notes
<1>1. CASE e \in [what : {"note_dirty", "reload_conflict", "overwrite_conflict", "close_note"}]
  BY <1>1
<1>2. CASE e \in [what : {"save_note"}, body : Text]
  BY <1>2
<1>3. CASE e \in [what : {"select_note"}, path : Notes]
  BY <1>3
<1> QED
  BY <1>1, <1>2, <1>3 DEF Event

(* Opening a note is an answer,                                             *)
LEMMA Opens ==
    ASSUME NoteTypeOK, NEW n \in Notes, NEW text \in Text, OpenNote(n, text), disk' = disk,
           events' = events \/ (events # <<>> /\ events' = Tail(events) /\ Head(events).what # "note_dirty")
    PROVE  \E new : Answers(new)
<1> DEFINE new == [AssignDraft(text) EXCEPT !.selected = n, !.revision = text, !.status = "saved", !.conflict = {}]
<1>1. Assign(new)
  BY DEF OpenNote
<1>2. new \in Assigns /\ new.selected = n /\ new.status = "saved"
  BY DEF NoteTypeOK, AssignDraft, Assigns, Status
<1> HIDE DEF new
<1>3. n # NoNote /\ disk' \in [Notes -> Text]
  BY NotesAssumption DEF NoteTypeOK
<1> QED
  BY <1>1, <1>2, <1>3 DEF Answers

(* and so is leaving everything as it is,                                   *)
LEMMA Stays ==
    ASSUME NoteTypeOK, ClosedIsBare, Assign(server), disk' = disk, events # <<>>, events' = Tail(events),
           events' # events,
           Head(events).what = "save_note" => server.status # "unsaved",
           Head(events).what = "note_dirty" => server.selected = NoNote \/ server.status = "conflict"
    PROVE  \E new : Answers(new)
<1>1. Answers(server)
  BY DEF Answers, NoteTypeOK, ClosedIsBare
<1> QED
  BY <1>1

(* and every outcome of a save.                                             *)
LEMMA Saves ==
    ASSUME NoteTypeOK, server.selected # NoNote, NEW body \in Text, NEW force \in BOOLEAN, Save(body, force),
           events # <<>>, events' = Tail(events), events' # events, Head(events).what # "note_dirty"
    PROVE  \E new : Answers(new)
<1> DEFINE n == server.selected
           saved == [AssignBody(body) EXCEPT !.revision = body, !.status = "saved", !.conflict = {}]
           refused == [AssignBody(body) EXCEPT !.status = "conflict", !.conflict = {disk[n]}]
           failed == [AssignBody(body) EXCEPT !.status = "error"]
<1>1. n \in Notes /\ disk[n] \in Text
  BY DEF NoteTypeOK, Assigns
<1>2. \/ Assign(saved) /\ disk' = [disk EXCEPT ![n] = body]
      \/ Assign(refused) /\ disk' = disk
      \/ Assign(failed) /\ disk' = disk
  BY DEF Save
<1>3. /\ saved \in Assigns /\ saved.selected = n /\ saved.status = "saved"
      /\ refused \in Assigns /\ refused.selected = n /\ refused.status = "conflict" /\ refused.conflict # {}
      /\ failed \in Assigns /\ failed.selected = n /\ failed.status = "error"
  BY <1>1 DEF NoteTypeOK, AssignBody, Assigns, Status
<1> HIDE DEF saved, refused, failed
<1>4. disk' \in [Notes -> Text]
  BY <1>1, <1>2 DEF NoteTypeOK
<1>5. CASE Assign(saved)
  BY <1>3, <1>4, <1>5 DEF Answers
<1>6. CASE Assign(refused)
  BY <1>3, <1>4, <1>6 DEF Answers
<1>7. CASE Assign(failed)
  BY <1>3, <1>4, <1>7 DEF Answers
<1> QED
  BY <1>2, <1>5, <1>6, <1>7

(* Each handler is one of them.                                             *)
LEMMA EveryHandlerAnswers ==
    ASSUME NoteTypeOK, ClosedIsBare, Handlers
    PROVE  \E new : Answers(new)
<1>1. CASE HandleSaveNote
  <2> DEFINE body == Head(events).body
  <2>1. /\ events # <<>> /\ events' = Tail(events) /\ events' # events
        /\ Head(events) \in Event /\ Head(events).what = "save_note"
    BY <1>1, EventTaken DEF HandleSaveNote
  <2>2. body \in Text
    BY <2>1, WhatEventsCarry
  <2>3. \/ server.selected = NoNote /\ Assign(server) /\ disk' = disk
        \/ server.selected # NoNote /\ server.status = "conflict" /\ Assign(AssignBody(body)) /\ disk' = disk
        \/ server.selected # NoNote /\ Save(body, FALSE)
    BY <1>1 DEF HandleSaveNote
  <2>4. CASE server.selected = NoNote /\ Assign(server) /\ disk' = disk
    <3>1. server.status # "unsaved"
      BY <2>4 DEF NoteTypeOK
    <3> QED
      BY <2>1, <2>4, <3>1, Stays
  <2>5. CASE server.selected # NoNote /\ server.status = "conflict" /\ Assign(AssignBody(body)) /\ disk' = disk
    <3>1. /\ AssignBody(body) \in Assigns /\ AssignBody(body).selected = server.selected
          /\ AssignBody(body).status = "conflict" /\ AssignBody(body).conflict = server.conflict
      BY <2>2, <2>5 DEF AssignBody, Assigns, NoteTypeOK
    <3>2. Answers(AssignBody(body))
      BY <2>1, <2>5, <3>1 DEF Answers, NoteTypeOK
    <3> QED
      BY <3>2
  <2>6. CASE server.selected # NoNote /\ Save(body, FALSE)
    BY <2>1, <2>2, <2>6, Saves
  <2> QED
    BY <2>3, <2>4, <2>5, <2>6
<1>2. CASE HandleNoteDirty
  <2> DEFINE dirty == [server EXCEPT !.status = "unsaved"]
  <2>1. /\ events # <<>> /\ events' = Tail(events) /\ events' # events
        /\ Head(events).what = "note_dirty" /\ disk' = disk
    BY <1>2, EventTaken DEF HandleNoteDirty
  <2>2. CASE TakesDirt
    <3>1. Assign(dirty)
      BY <1>2, <2>2 DEF HandleNoteDirty
    <3>2. dirty \in Assigns /\ dirty.selected # NoNote /\ dirty.status = "unsaved"
      BY <2>2 DEF TakesDirt, NoteTypeOK, Assigns, Status
    <3> HIDE DEF dirty
    <3>3. Answers(dirty)
      BY <2>1, <3>1, <3>2 DEF Answers, NoteTypeOK
    <3> QED
      BY <3>3
  <2>3. CASE ~TakesDirt
    <3>1. Assign(server) /\ (server.selected = NoNote \/ server.status = "conflict")
      BY <1>2, <2>3 DEF HandleNoteDirty, TakesDirt
    <3> QED
      BY <2>1, <3>1, Stays
  <2> QED
    BY <2>2, <2>3
<1>3. CASE HandleSelectNote
  <2> DEFINE n == Head(events).path
  <2>1. /\ events # <<>> /\ events' = Tail(events)
        /\ Head(events) \in Event /\ Head(events).what = "select_note"
    BY <1>3, EventTaken DEF HandleSelectNote
  <2>2. n \in Notes
    BY <2>1, WhatEventsCarry
  <2>3. disk[n] \in Text /\ OpenNote(n, disk[n]) /\ disk' = disk
    BY <1>3, <2>2 DEF HandleSelectNote, NoteTypeOK
  <2> QED
    BY <2>1, <2>2, <2>3, Opens
<1>4. CASE HandleReload
  <2>1. /\ events # <<>> /\ events' = Tail(events) /\ events' # events
        /\ Head(events).what = "reload_conflict" /\ disk' = disk
    BY <1>4, EventTaken DEF HandleReload
  <2>2. CASE Assign(server)
    BY <2>1, <2>2, Stays
  <2>3. ASSUME NEW text \in server.conflict, OpenNote(server.selected, text)
        PROVE  \E new : Answers(new)
    <3>1. text \in Text /\ server.selected \in Notes
      BY <2>3 DEF NoteTypeOK, Assigns, ClosedIsBare
    <3> QED
      BY <2>1, <2>3, <3>1, Opens
  <2> QED
    BY <1>4, <2>2, <2>3 DEF HandleReload
<1>5. CASE HandleOverwrite
  <2>1. /\ events # <<>> /\ events' = Tail(events) /\ events' # events
        /\ Head(events).what = "overwrite_conflict"
    BY <1>5, EventTaken DEF HandleOverwrite
  <2>2. CASE server.selected = NoNote
    BY <1>5, <2>1, <2>2, Stays DEF HandleOverwrite
  <2>3. CASE server.selected # NoNote
    <3>1. Save(server.body, TRUE) /\ server.body \in Text
      BY <1>5, <2>3 DEF HandleOverwrite, NoteTypeOK, Assigns
    <3> QED
      BY <2>1, <2>3, <3>1, Saves
  <2> QED
    BY <2>2, <2>3
<1>6. CASE HandleClose
  <2>1. events # <<>> /\ events' = Tail(events) /\ events' # events /\ Head(events).what = "close_note"
        /\ Assign(ClosedServer) /\ disk' = disk
    BY <1>6, EventTaken DEF HandleClose
  <2>2. ClosedServer \in Assigns
    BY DEF ClosedServer, Assigns, Text, Status
  <2>3. Answers(ClosedServer)
    BY <2>1, <2>2 DEF Answers, ClosedServer, NoteTypeOK
  <2> QED
    BY <2>3
<1>7. CASE Reconcile
  <2> DEFINE held == [server EXCEPT !.status = "conflict", !.conflict = {disk[server.selected]}]
  <2>1. /\ server.selected \in Notes /\ disk[server.selected] \in Text
        /\ events' = events /\ disk' = disk
    BY <1>7 DEF Reconcile, NoteTypeOK, Assigns
  <2>2. CASE server.status = "unsaved"
    <3>1. Assign(held)
      BY <1>7, <2>2 DEF Reconcile
    <3>2. held \in Assigns /\ held.selected # NoNote /\ held.status = "conflict" /\ held.conflict # {}
      BY <1>7, <2>1 DEF Reconcile, NoteTypeOK, Assigns, Status
    <3> HIDE DEF held
    <3>3. Answers(held)
      BY <2>1, <3>1, <3>2 DEF Answers, NoteTypeOK
    <3> QED
      BY <3>3
  <2>3. CASE server.status # "unsaved"
    BY <1>7, <2>1, <2>3, Opens DEF Reconcile
  <2> QED
    BY <2>2, <2>3
<1> QED
  BY <1>1, <1>2, <1>3, <1>4, <1>5, <1>6, <1>7 DEF Handlers

(* What is left of the stream when its first event was taken.               *)
LEMMA TailOfEvents ==
    ASSUME NoteTypeOK, events # <<>>, events' = Tail(events), pane' = pane
    PROVE  /\ events' \in Seq(Event)
           /\ \A i \in DOMAIN events' : i + 1 \in DOMAIN events /\ events'[i] = events[i + 1]
           /\ \A i \in DOMAIN events : i = 1 \/ (i - 1 \in DOMAIN events' /\ events'[i - 1] = events[i])
           /\ 1 \in DOMAIN events /\ Head(events) = events[1]
           /\ \A i \in DOMAIN events : SavedAfter(i) => SavedAfter(i - 1)'
           /\ SavedAfter(0) /\ Head(events).what # "save_note" => SavedAfter(0)'
<1> DEFINE n == Len(events)
<1>1. events \in Seq(Event) /\ n \in Nat /\ n # 0 /\ DOMAIN events = 1..n
  BY DEF NoteTypeOK
<1>2. events' \in Seq(Event) /\ DOMAIN events' = 1..n - 1 /\ \A i \in 1..n - 1 : events'[i] = events[i + 1]
  BY <1>1
<1> HIDE DEF n
<1>3. /\ \A i \in DOMAIN events' : i + 1 \in DOMAIN events /\ events'[i] = events[i + 1]
      /\ 1 \in DOMAIN events
  BY <1>1, <1>2
<1>4. Head(events) = events[1]
  BY <1>1
<1>5. ASSUME NEW i \in DOMAIN events, i # 1 PROVE i - 1 \in DOMAIN events' /\ events'[i - 1] = events[i]
  BY <1>1, <1>2, <1>5
<1>6. ASSUME NEW i \in DOMAIN events, SavedAfter(i) PROVE SavedAfter(i - 1)'
  <2>1. CASE pane.debounce
    BY <2>1 DEF SavedAfter
  <2>2. CASE \E j \in DOMAIN events : j > i /\ events[j].what = "save_note"
    <3>1. PICK j \in DOMAIN events : j > i /\ events[j].what = "save_note"
      BY <2>2
    <3>2. j # 1 /\ j - 1 > i - 1
      BY <1>1, <3>1
    <3> QED
      BY <1>5, <3>1, <3>2 DEF SavedAfter
  <2> QED
    BY <1>6, <2>1, <2>2 DEF SavedAfter
<1>7. ASSUME SavedAfter(0), Head(events).what # "save_note" PROVE SavedAfter(0)'
  <2>1. CASE pane.debounce
    BY <2>1 DEF SavedAfter
  <2>2. CASE \E j \in DOMAIN events : j > 0 /\ events[j].what = "save_note"
    <3>1. PICK j \in DOMAIN events : events[j].what = "save_note"
      BY <2>2
    <3>2. j # 1 /\ j - 1 > 0
      BY <1>1, <1>4, <1>7, <3>1
    <3> QED
      BY <1>5, <3>1, <3>2 DEF SavedAfter
  <2> QED
    BY <1>7, <2>1, <2>2 DEF SavedAfter
<1> QED
  BY <1>2, <1>3, <1>4, <1>5, <1>6, <1>7

(* What is on its way after a patch was appended.                           *)
LEMMA PatchAdded ==
    ASSUME NoteTypeOK, NEW p \in Patched, patches' = Append(patches, p)
    PROVE  /\ patches' \in Seq(Patched) /\ patches' # <<>> /\ patches'[Len(patches')] = p
           /\ Len(patches') \in DOMAIN patches'
           /\ \A i \in DOMAIN patches : i \in DOMAIN patches' /\ patches'[i] = patches[i]
           /\ \A i \in DOMAIN patches' : patches'[i] = p \/ (i \in DOMAIN patches /\ patches'[i] = patches[i])
<1>1. patches \in Seq(Patched) /\ Len(patches) \in Nat /\ DOMAIN patches = 1..Len(patches)
  BY DEF NoteTypeOK
<1>2. /\ patches' \in Seq(Patched) /\ Len(patches') = Len(patches) + 1 /\ DOMAIN patches' = 1..Len(patches) + 1
      /\ patches'[Len(patches) + 1] = p
      /\ \A i \in 1..Len(patches) : patches'[i] = patches[i]
  BY <1>1
<1>3. patches' # <<>>
  BY <1>1, <1>2
<1> QED
  BY <1>1, <1>2, <1>3

(* The component keeps the invariant.                                       *)
LEMMA HandlersKeepDraft ==
    ASSUME DraftInv, Handlers
    PROVE  DraftInv'
<1> USE DEF DraftInv
<1>1. PICK new : Answers(new)
  BY EveryHandlerAnswers
<1> DEFINE p == [path |-> new.selected, status |-> new.status, form |-> new.form,
                 changed |-> new.form # server.form]
<1>2. /\ server' = new /\ pane' = pane /\ edits' = edits /\ theirs' = theirs
      /\ written' = written /\ clicks' = clicks /\ dropped' = dropped
      /\ new \in Assigns /\ (new = server => patches' = patches)
      /\ (new # server => patches' = Append(patches, p))
  BY <1>1 DEF Answers, Assign
<1>3. p \in Patched /\ p.path = new.selected /\ p.status = new.status
  BY <1>2 DEF Patched, Assigns
<1> HIDE DEF p
<1>4. events' = events \/ (events # <<>> /\ events' = Tail(events) /\ events' # events)
  BY <1>1 DEF Answers
<1>5. NoteTypeOK'
  <2>1. events' \in Seq(Event)
    BY <1>2, <1>4, TailOfEvents DEF NoteTypeOK
  <2>2. patches' \in Seq(Patched)
    BY <1>2, <1>3, PatchAdded DEF NoteTypeOK
  <2> QED
    BY <1>1, <1>2, <2>1, <2>2 DEF NoteTypeOK, Answers
<1>6. ClosedIsBare'
  BY <1>1, <1>2 DEF ClosedIsBare, Answers
<1>7. PaneCatchesUp'
  BY <1>2, <1>3, PatchAdded DEF PaneCatchesUp
<1>8. DirtyIsFollowed'
  <2>1. CASE events' = events
    BY <1>1, <1>2, <2>1 DEF DirtyIsFollowed, SavedAfter, Answers
  <2>2. CASE events # <<>> /\ events' = Tail(events) /\ events' # events
    <3>1. ASSUME ~dropped, NEW i \in DOMAIN events', events'[i].what = "note_dirty" PROVE SavedAfter(i)'
      <4>1. SavedAfter(i + 1) /\ i + 1 \in DOMAIN events
        BY <1>2, <2>2, <3>1, TailOfEvents DEF DirtyIsFollowed
      <4>2. i + 1 - 1 = i
        BY <1>5, <3>1 DEF NoteTypeOK
      <4> QED
        BY <1>2, <2>2, <4>1, <4>2, TailOfEvents
    <3>2. ASSUME ~dropped, new.status = "unsaved" PROVE SavedAfter(0)'
      <4>1. CASE server.status = "unsaved"
        BY <1>1, <1>2, <2>2, <3>2, <4>1, TailOfEvents DEF DirtyIsFollowed, Answers
      <4>2. CASE Head(events).what = "note_dirty"
        <5>1. SavedAfter(1) /\ 1 \in DOMAIN events
          BY <1>2, <2>2, <3>2, <4>2, TailOfEvents DEF DirtyIsFollowed
        <5> QED
          BY <1>2, <2>2, <5>1, TailOfEvents
      <4> QED
        BY <1>1, <3>2, <4>1, <4>2 DEF Answers
    <3> QED
      BY <1>2, <3>1, <3>2 DEF DirtyIsFollowed
  <2> QED
    BY <1>4, <2>1, <2>2
<1>9. DirtyIsCleared'
  <2> SUFFICES ASSUME pane.dirty
               PROVE  \/ \E i \in DOMAIN patches' : patches'[i].status # "unsaved"
                      \/ new.status = "unsaved" /\ SavedAfter(0)'
                      \/ \E i \in DOMAIN events' : events'[i].what = "note_dirty" /\ SavedAfter(i)'
    BY <1>2 DEF DirtyIsCleared
  <2>1. CASE \E i \in DOMAIN patches : patches[i].status # "unsaved"
    BY <1>2, <1>3, <2>1, PatchAdded
  <2>2. CASE server.status = "unsaved" /\ SavedAfter(0)
    <3>1. CASE new.status = "unsaved"
      <4>1. SavedAfter(0)'
        BY <1>1, <1>2, <1>4, <2>2, <3>1, TailOfEvents DEF Answers, SavedAfter
      <4> QED
        BY <3>1, <4>1
    <3>2. CASE new.status # "unsaved"
      BY <1>2, <1>3, <2>2, <3>2, PatchAdded
    <3> QED
      BY <3>1, <3>2
  <2>3. ASSUME NEW i \in DOMAIN events, events[i].what = "note_dirty", SavedAfter(i)
        PROVE  \/ \E k \in DOMAIN patches' : patches'[k].status # "unsaved"
               \/ new.status = "unsaved" /\ SavedAfter(0)'
               \/ \E k \in DOMAIN events' : events'[k].what = "note_dirty" /\ SavedAfter(k)'
    <3>1. CASE events' = events
      BY <1>2, <2>3, <3>1 DEF SavedAfter
    <3>2. CASE events # <<>> /\ events' = Tail(events) /\ events' # events
      <4>1. SavedAfter(i - 1)'
        BY <1>2, <2>3, <3>2, TailOfEvents
      <4>2. CASE i # 1
        BY <1>2, <2>3, <3>2, <4>1, <4>2, TailOfEvents
      <4>3. CASE i = 1
        <5>1. Head(events).what = "note_dirty" /\ SavedAfter(0)'
          BY <1>2, <2>3, <3>2, <4>1, <4>3, TailOfEvents
        <5>2. CASE new.status = "unsaved"
          BY <5>1, <5>2
        <5>3. CASE new = server /\ (server.selected = NoNote \/ server.status = "conflict")
          <6>1. server.status # "unsaved" /\ patches' = patches
            BY <1>2, <5>3 DEF NoteTypeOK
          <6>2. patches # <<>>
            BY <5>3 DEF PaneCatchesUp, NoteTypeOK, DirtyIsCleared
          <6>3. Len(patches) \in DOMAIN patches /\ patches[Len(patches)].status # "unsaved"
            BY <6>1, <6>2 DEF PaneCatchesUp, NoteTypeOK
          <6> QED
            BY <6>1, <6>3
        <5> QED
          BY <1>1, <3>2, <5>1, <5>2, <5>3 DEF Answers
      <4> QED
        BY <4>2, <4>3
    <3> QED
      BY <1>4, <3>1, <3>2
  <2> QED
    BY <2>1, <2>2, <2>3 DEF DirtyIsCleared
<1> QED
  BY <1>5, <1>6, <1>7, <1>8, <1>9

-----------------------------------------------------------------------------
(* The stream after the hook has sent an event.                             *)
LEMMA EventAdded ==
    ASSUME NoteTypeOK, NEW e \in Event, events' = Append(events, e)
    PROVE  /\ events' \in Seq(Event)
           /\ \A i \in DOMAIN events : i \in DOMAIN events' /\ events'[i] = events[i]
           /\ \A i \in DOMAIN events' : events'[i] = e \/ (i \in DOMAIN events /\ events'[i] = events[i])
           /\ \E i \in DOMAIN events' : events'[i] = e
           /\ (pane.debounce => pane'.debounce \/ e.what = "save_note")
                 => \A k \in DOMAIN events \cup {0} : SavedAfter(k) => SavedAfter(k)'
<1> DEFINE n == Len(events)
<1>1. events \in Seq(Event) /\ n \in Nat /\ DOMAIN events = 1..n
  BY DEF NoteTypeOK
<1>2. /\ events' \in Seq(Event) /\ DOMAIN events' = 1..n + 1 /\ events'[n + 1] = e
      /\ \A i \in 1..n : events'[i] = events[i]
  BY <1>1
<1> HIDE DEF n
<1>3. /\ \A i \in DOMAIN events : i \in DOMAIN events' /\ events'[i] = events[i]
      /\ \A i \in DOMAIN events' : events'[i] = e \/ (i \in DOMAIN events /\ events'[i] = events[i])
      /\ n + 1 \in DOMAIN events'
  BY <1>1, <1>2
<1>4. ASSUME pane.debounce => pane'.debounce \/ e.what = "save_note",
             NEW k \in DOMAIN events \cup {0}, SavedAfter(k)
      PROVE  SavedAfter(k)'
  <2>1. CASE pane.debounce
    <3>1. n + 1 > k
      BY <1>1
    <3> QED
      BY <1>2, <1>3, <1>4, <2>1, <3>1 DEF SavedAfter
  <2>2. CASE ~pane.debounce
    BY <1>3, <1>4, <2>2 DEF SavedAfter
  <2> QED
    BY <2>1, <2>2
<1> QED
  BY <1>2, <1>3, <1>4

(* What the hook sends.                                                     *)
LEMMA EventsOfTheHook ==
    /\ [what |-> "note_dirty"] \in Event /\ [what |-> "reload_conflict"] \in Event
    /\ [what |-> "overwrite_conflict"] \in Event /\ [what |-> "close_note"] \in Event
    /\ \A n \in Notes : [what |-> "select_note", path |-> n] \in Event
    /\ \A t \in Text : [what |-> "save_note", body |-> t] \in Event
BY DEF Event

(* Each keystroke or command begins the pause anew.                         *)
LEMMA WritingKeepsDraft ==
    ASSUME DraftInv, NEW base \in Text, Write(base)
    PROVE  DraftInv'
<1> USE DEF DraftInv
<1> DEFINE text == base \cup {edits + 1}
<1>1. /\ edits < MaxEdits /\ edits' = edits + 1 /\ pane.path # NoNote
      /\ written' = [written EXCEPT ![pane.path] = @ \cup {edits + 1}]
      /\ disk' = disk /\ server' = server /\ patches' = patches /\ theirs' = theirs
      /\ clicks' = clicks /\ dropped' = dropped
      /\ pane' = [pane EXCEPT !.surface = text, !.textarea = text, !.focused = TRUE, !.debounce = TRUE,
                              !.dirty = @ \/ ShouldAnnounceDirty]
      /\ events' = IF ShouldAnnounceDirty THEN Append(events, [what |-> "note_dirty"]) ELSE events
  BY DEF Write, NewEdit, PushModel
<1>2. edits + 1 \in 1..MaxEdits /\ text \in Text
  BY <1>1, EditsAssumption DEF NoteTypeOK, Text
<1> HIDE DEF text
<1>3. /\ pane' \in Pane /\ pane'.path = pane.path /\ pane'.status = pane.status
      /\ pane'.debounce /\ (pane'.dirty <=> pane.dirty \/ ShouldAnnounceDirty)
  <2>1. pane \in Pane /\ ShouldAnnounceDirty \in BOOLEAN
    BY DEF NoteTypeOK, ShouldAnnounceDirty
  <2> QED
    BY <1>1, <1>2, <2>1 DEF Pane
<1>4. /\ events' \in Seq(Event)
      /\ \A i \in DOMAIN events : i \in DOMAIN events' /\ events'[i] = events[i]
      /\ ShouldAnnounceDirty => \E i \in DOMAIN events' : events'[i].what = "note_dirty"
  <2>1. CASE ShouldAnnounceDirty
    BY <1>1, <2>1, EventAdded, EventsOfTheHook
  <2>2. CASE ~ShouldAnnounceDirty
    BY <1>1, <2>2 DEF NoteTypeOK
  <2> QED
    BY <2>1, <2>2
<1>5. written' \in [Notes -> Text]
  BY <1>1, <1>2 DEF NoteTypeOK, Pane, Text
<1>6. NoteTypeOK'
  BY <1>1, <1>2, <1>3, <1>4, <1>5 DEF NoteTypeOK
<1>7. \A k : SavedAfter(k)'
  BY <1>3 DEF SavedAfter
<1>8. DirtyIsCleared'
  BY <1>1, <1>3, <1>4, <1>7 DEF DirtyIsCleared, ShouldAnnounceDirty
<1> QED
  BY <1>1, <1>3, <1>6, <1>7, <1>8 DEF ClosedIsBare, PaneCatchesUp, DirtyIsFollowed

(* Sending the draft ends the pause and announces nothing; a click outside  *)
(* of the surface leaves the pause as it is.                                *)
LEMMA SendingKeepsDraft ==
    ASSUME DraftInv, NEW e \in Event, e.what # "note_dirty", events' = Append(events, e),
           pane' \in Pane, pane'.path = pane.path, pane'.status = pane.status, pane'.dirty = pane.dirty,
           pane'.debounce => pane.debounce,
           pane.debounce => pane'.debounce \/ e.what = "save_note",
           clicks' \in [click : 0..MaxClicks, submit : 0..MaxSubmits],
           UNCHANGED <<disk, server, patches, edits, theirs, written, dropped>>
    PROVE  DraftInv'
<1> USE DEF DraftInv
<1>1. NoteTypeOK'
  BY EventAdded DEF NoteTypeOK
<1>2. ClosedIsBare' /\ PaneCatchesUp'
  BY DEF ClosedIsBare, PaneCatchesUp
<1>3. /\ \A i \in DOMAIN events : i \in DOMAIN events' /\ events'[i] = events[i]
      /\ \A i \in DOMAIN events' : events'[i] = e \/ (i \in DOMAIN events /\ events'[i] = events[i])
      /\ \A k \in DOMAIN events : SavedAfter(k) => SavedAfter(k)'
      /\ SavedAfter(0) => SavedAfter(0)'
  BY EventAdded
<1>4. DirtyIsFollowed'
  BY <1>3 DEF DirtyIsFollowed
<1>5. DirtyIsCleared'
  BY <1>3 DEF DirtyIsCleared
<1> QED
  BY <1>1, <1>2, <1>4, <1>5

(* The autosave and the save chord.                                         *)
LEMMA SavingKeepsDraft ==
    ASSUME DraftInv, Autosave \/ SubmitNote
    PROVE  DraftInv'
<1> USE DEF DraftInv
<1> DEFINE e == [what |-> "save_note", body |-> pane.textarea]
<1>1. e \in Event /\ e.what = "save_note"
  BY EventsOfTheHook DEF NoteTypeOK, Pane
<1>2. /\ events' = Append(events, e) /\ pane' = [pane EXCEPT !.debounce = FALSE]
      /\ UNCHANGED <<disk, server, patches, edits, theirs, written, dropped>>
  BY DEF Autosave, SubmitNote, SaveEvent
<1>3. clicks' \in [click : 0..MaxClicks, submit : 0..MaxSubmits]
  BY EditsAssumption DEF Autosave, SubmitNote, Clicked, NoteTypeOK
<1> HIDE DEF e
<1>4. /\ pane' \in Pane /\ pane'.path = pane.path /\ pane'.status = pane.status
      /\ pane'.dirty = pane.dirty /\ ~pane'.debounce
  BY <1>2 DEF NoteTypeOK, Pane
<1> QED
  BY <1>1, <1>2, <1>3, <1>4, SendingKeepsDraft

(* Choosing or closing a note, settling a conflict.                         *)
LEMMA ClickingKeepsDraft ==
    ASSUME DraftInv, NEW e \in Event, e.what # "note_dirty", ClickOn(e)
    PROVE  DraftInv'
<1> USE DEF DraftInv
<1>1. /\ events' = Append(events, e) /\ pane' = [pane EXCEPT !.focused = FALSE]
      /\ UNCHANGED <<disk, server, patches, edits, theirs, written, dropped>>
  BY DEF ClickOn
<1>2. clicks' \in [click : 0..MaxClicks, submit : 0..MaxSubmits]
  <2>1. clicks.click < MaxClicks /\ clicks' = [clicks EXCEPT !.click = @ + 1]
    BY DEF ClickOn, Clicked
  <2>2. clicks \in [click : 0..MaxClicks, submit : 0..MaxSubmits]
    BY DEF NoteTypeOK
  <2>3. clicks.click + 1 \in 0..MaxClicks
    BY <2>1, <2>2, EditsAssumption
  <2> QED
    BY <2>1, <2>2, <2>3
<1>3. /\ pane' \in Pane /\ pane'.path = pane.path /\ pane'.status = pane.status
      /\ pane'.dirty = pane.dirty /\ pane'.debounce = pane.debounce
  BY <1>1 DEF NoteTypeOK, Pane
<1> QED
  BY <1>1, <1>2, <1>3, SendingKeepsDraft

(* updated(): the hook follows the component.                               *)
LEMMA PatchingKeepsDraft ==
    ASSUME DraftInv, ApplyPatch
    PROVE  DraftInv'
<1> USE DEF DraftInv
<1> DEFINE p == Head(patches)
           text == IF p.changed THEN p.form ELSE pane.textarea
           n == Len(patches)
<1>1. /\ patches # <<>> /\ patches' = Tail(patches)
      /\ UNCHANGED <<disk, server, events, edits, theirs, written, clicks>>
      /\ dropped' = (dropped \/ (p.path = NoNote /\ pane.debounce))
      /\ pane' = IF p.path = NoNote THEN ClosedPane
                 ELSE IF pane.path = NoNote
                 THEN [ClosedPane EXCEPT !.path = p.path, !.status = p.status,
                                         !.textarea = p.form, !.surface = p.form]
                 ELSE [pane EXCEPT !.path = p.path, !.status = p.status, !.textarea = text,
                                   !.surface = SyncFromModel(text), !.dirty = StillDirty(p.status)]
  BY DEF ApplyPatch
<1>2. /\ patches \in Seq(Patched) /\ n \in Nat /\ n # 0 /\ DOMAIN patches = 1..n
      /\ p \in Patched /\ p = patches[1]
      /\ patches' \in Seq(Patched) /\ Len(patches') = n - 1 /\ DOMAIN patches' = 1..n - 1
      /\ \A i \in 1..n - 1 : patches'[i] = patches[i + 1]
  BY <1>1 DEF NoteTypeOK
<1> HIDE DEF p, n
<1>3. text \in Text /\ SyncFromModel(text) \in Text /\ StillDirty(p.status) \in BOOLEAN
  BY <1>2 DEF NoteTypeOK, Pane, Patched, SyncFromModel, StillDirty
<1> HIDE DEF text
<1>4. /\ pane' \in Pane
      /\ pane'.path = p.path
      /\ p.path # NoNote => pane'.status = p.status
      /\ p.path = NoNote => pane' = ClosedPane
      /\ pane'.dirty => pane.dirty /\ pane.path # NoNote /\ p.path # NoNote /\ p.status = "unsaved"
      /\ p.path # NoNote /\ pane.path # NoNote => pane'.debounce = pane.debounce
      /\ p.path = NoNote \/ pane.path = NoNote => ~pane'.debounce
  <2>1. CASE p.path = NoNote
    BY <1>1, <1>2, <2>1 DEF ClosedPane, Pane, Text, Status
  <2>2. CASE p.path # NoNote /\ pane.path = NoNote
    BY <1>1, <1>2, <2>2 DEF ClosedPane, Pane, Patched, Text
  <2>3. CASE p.path # NoNote /\ pane.path # NoNote
    BY <1>1, <1>2, <1>3, <2>3 DEF Pane, Patched, NoteTypeOK, StillDirty
  <2> QED
    BY <2>1, <2>2, <2>3
<1>5. NoteTypeOK'
  BY <1>1, <1>2, <1>4 DEF NoteTypeOK, ClosedPane
<1>6. ClosedIsBare'
  BY <1>1 DEF ClosedIsBare
<1>7. PaneCatchesUp'
  <2>1. CASE n = 1
    <3>1. patches' = <<>> /\ p.path = server.selected /\ p.status = server.status
      BY <1>1, <1>2, <2>1 DEF PaneCatchesUp, n
    <3>2. pane'.path = server.selected /\ pane'.status = server.status
      BY <1>4, <3>1 DEF ClosedPane, NoteTypeOK
    <3> QED
      BY <1>1, <3>1, <3>2 DEF PaneCatchesUp
  <2>2. CASE n # 1
    <3>1. Len(patches') \in 1..n - 1 /\ Len(patches') + 1 = n /\ patches' # <<>>
      BY <1>2, <2>2
    <3>2. patches'[Len(patches')] = patches[n]
      BY <1>2, <3>1
    <3> QED
      BY <1>1, <3>1, <3>2 DEF PaneCatchesUp, n
  <2> QED
    BY <2>1, <2>2
<1>8. DirtyIsFollowed'
  <2> SUFFICES ASSUME ~dropped' PROVE DirtyIsFollowed'
    BY DEF DirtyIsFollowed
  <2>1. pane.debounce => pane'.debounce
    BY <1>1, <1>4 DEF NoteTypeOK
  <2> QED
    BY <1>1, <2>1 DEF DirtyIsFollowed, SavedAfter
<1>9. DirtyIsCleared'
  <2> SUFFICES ASSUME pane'.dirty PROVE DirtyIsCleared'
    BY DEF DirtyIsCleared
  <2>1. pane.dirty /\ p.status = "unsaved" /\ pane'.status = "unsaved" /\ pane'.debounce = pane.debounce
    BY <1>4
  <2>2. CASE \E i \in DOMAIN patches : patches[i].status # "unsaved"
    <3>1. PICK i \in 1..n : patches[i].status # "unsaved"
      BY <1>2, <2>2
    <3>2. i # 1 /\ i - 1 \in 1..n - 1 /\ i - 1 + 1 = i
      BY <1>2, <2>1, <3>1
    <3> QED
      BY <1>2, <2>1, <3>1, <3>2 DEF DirtyIsCleared
  <2>3. CASE ~\E i \in DOMAIN patches : patches[i].status # "unsaved"
    BY <1>1, <2>1, <2>3 DEF DirtyIsCleared, SavedAfter
  <2> QED
    BY <2>2, <2>3
<1> QED
  BY <1>5, <1>6, <1>7, <1>8, <1>9

(* Every step keeps the invariant.                                          *)
LEMMA DraftInvStep == DraftInv /\ [NoteNext]_noteVars => DraftInv'
<1> SUFFICES ASSUME DraftInv, [NoteNext]_noteVars PROVE DraftInv'
  OBVIOUS
<1>1. CASE Keystroke \/ ToolbarCommand
  BY <1>1, WritingKeepsDraft DEF Keystroke, ToolbarCommand, DraftInv, NoteTypeOK, Pane
<1>2. CASE Autosave \/ SubmitNote
  BY <1>2, SavingKeepsDraft
<1>3. CASE \/ Close \/ \E n \in Notes : SelectNote(n)
           \/ \E how \in {"reload_conflict", "overwrite_conflict"} : Resolve(how)
  <2>1. PICK e \in Event : e.what # "note_dirty" /\ ClickOn(e)
    BY <1>3, EventsOfTheHook DEF Close, Resolve, SelectNote
  <2> QED
    BY <2>1, ClickingKeepsDraft
<1>4. CASE ApplyPatch
  BY <1>4, PatchingKeepsDraft
<1>5. CASE Handlers
  BY <1>5, HandlersKeepDraft
<1>6. ASSUME NEW n \in Notes, OutsideWrite(n) PROVE DraftInv'
  <2>1. edits + 1 \in 1..MaxEdits
    BY <1>6, EditsAssumption DEF OutsideWrite, NewEdit, DraftInv, NoteTypeOK
  <2>2. /\ disk' = [disk EXCEPT ![n] = @ \cup {edits + 1}] /\ theirs' = theirs \cup {edits + 1}
        /\ edits' = edits + 1
        /\ UNCHANGED <<server, pane, events, patches, written, clicks, dropped>>
    BY <1>6 DEF OutsideWrite, NewEdit
  <2>3. disk' \in [Notes -> Text] /\ theirs' \in Text /\ edits' \in 0..MaxEdits
    BY <2>1, <2>2 DEF DraftInv, NoteTypeOK, Text
  <2> QED
    BY <2>2, <2>3
    DEF DraftInv, NoteTypeOK, ClosedIsBare, PaneCatchesUp, DirtyIsFollowed, DirtyIsCleared, SavedAfter
<1>7. CASE UNCHANGED noteVars
  BY <1>7
  DEF noteVars, DraftInv, NoteTypeOK, ClosedIsBare, PaneCatchesUp, DirtyIsFollowed, DirtyIsCleared, SavedAfter
<1> QED
  BY <1>1, <1>2, <1>3, <1>4, <1>5, <1>6, <1>7 DEF NoteNext, Handlers

-----------------------------------------------------------------------------
(* One note is opened, once, and nobody else writes.                        *)
Alone == theirs = {} /\ clicks.click <= 1

\* Until the note is open, nothing was written, and nothing is under way but the click.
NotYetOpen ==
    server.selected = NoNote =>
        /\ pane.path = NoNote /\ patches = <<>>
        /\ disk = [n \in Notes |-> {}] /\ written = [n \in Notes |-> {}]
        /\ events = <<>> \/ (clicks.click = 1 /\ Len(events) = 1 /\ events[1].what = "select_note")

\* From then on the component draws nothing over the draft, and its revision is
\* what is on the disk, so that no save is refused.
OpenAlone ==
    server.selected # NoNote =>
        /\ clicks.click = 1
        /\ \A i \in DOMAIN events : events[i].what \in {"note_dirty", "save_note"}
        /\ \A i \in DOMAIN patches : /\ patches[i].path = server.selected
                                     /\ patches[i].form = {} /\ ~patches[i].changed
        /\ pane.path \in {NoNote, server.selected}
        /\ server.form = {} /\ server.revision = disk[server.selected]
        /\ server.status # "conflict" /\ (server.status = "saved" => server.body = server.revision)
        /\ written[server.selected] = pane.textarea

\* The surface shows the textarea; what is not in the last save under way, or in
\* the component when there is none, waits for the pause to end.
LastSaveHas(text) ==
    \/ \E i \in DOMAIN events : /\ events[i].what = "save_note" /\ events[i].body = text
                                /\ \A j \in DOMAIN events : j > i => events[j].what # "save_note"
    \/ (\A i \in DOMAIN events : events[i].what # "save_note") /\ server.body = text
DraftIsOnItsWay ==
    /\ pane.surface = pane.textarea
    /\ pane.path = NoNote => pane.textarea = {}
    /\ ~pane.debounce => LastSaveHas(pane.textarea)

AloneInv == Alone => NotYetOpen /\ OpenAlone /\ DraftIsOnItsWay

(* It holds at the start.                                                   *)
LEMMA AloneInvInit == NoteInit => AloneInv
BY DEF NoteInit, AloneInv, Alone, NotYetOpen, OpenAlone, DraftIsOnItsWay, LastSaveHas, ClosedServer, ClosedPane

(* What is typed is in the draft.                                           *)
LEMMA WritingKeepsAlone ==
    ASSUME DraftInv, AloneInv, NEW base \in {pane.surface, pane.textarea}, Write(base)
    PROVE  AloneInv'
<1> DEFINE text == base \cup {edits + 1}
<1>1. /\ pane.path # NoNote
      /\ written' = [written EXCEPT ![pane.path] = @ \cup {edits + 1}]
      /\ disk' = disk /\ server' = server /\ patches' = patches /\ theirs' = theirs
      /\ clicks' = clicks
      /\ pane' = [pane EXCEPT !.surface = text, !.textarea = text, !.focused = TRUE, !.debounce = TRUE,
                              !.dirty = @ \/ ShouldAnnounceDirty]
      /\ events' = IF ShouldAnnounceDirty THEN Append(events, [what |-> "note_dirty"]) ELSE events
  BY DEF Write, NewEdit, PushModel
<1> SUFFICES ASSUME Alone PROVE (NotYetOpen /\ OpenAlone /\ DraftIsOnItsWay)'
  BY <1>1 DEF AloneInv, Alone
<1>2. NotYetOpen /\ OpenAlone /\ DraftIsOnItsWay /\ NoteTypeOK
  BY DEF AloneInv, DraftInv
<1>3. /\ pane'.surface = text /\ pane'.textarea = text /\ pane'.path = pane.path /\ pane'.debounce
  BY <1>1, <1>2 DEF NoteTypeOK, Pane
<1>4. server.selected # NoNote /\ pane.path = server.selected
  BY <1>1, <1>2 DEF NotYetOpen, OpenAlone
<1>5. \A i \in DOMAIN events' : events'[i].what \in {"note_dirty", "save_note"}
  <2>1. CASE ShouldAnnounceDirty
    BY <1>1, <1>2, <1>4, <2>1, EventAdded, EventsOfTheHook DEF OpenAlone
  <2>2. CASE ~ShouldAnnounceDirty
    BY <1>1, <1>2, <1>4, <2>2 DEF OpenAlone
  <2> QED
    BY <2>1, <2>2
<1>6. written'[server.selected] = text
  <2>1. written \in [Notes -> Text] /\ pane.path \in Notes
    BY <1>1, <1>2 DEF NoteTypeOK, Pane
  <2>2. written[pane.path] = base
    BY <1>2, <1>4 DEF OpenAlone, DraftIsOnItsWay
  <2> QED
    BY <1>1, <1>4, <2>1, <2>2
<1> HIDE DEF text
<1> QED
  BY <1>1, <1>2, <1>3, <1>4, <1>5, <1>6 DEF NotYetOpen, OpenAlone, DraftIsOnItsWay

(* A save carries the whole draft.                                          *)
LEMMA SavingKeepsAlone ==
    ASSUME DraftInv, AloneInv, Autosave \/ SubmitNote
    PROVE  AloneInv'
<1> DEFINE e == [what |-> "save_note", body |-> pane.textarea]
<1>1. e \in Event /\ e.what = "save_note" /\ e.body = pane.textarea
  BY EventsOfTheHook DEF DraftInv, NoteTypeOK, Pane
<1>2. /\ events' = Append(events, e) /\ pane' = [pane EXCEPT !.debounce = FALSE]
      /\ UNCHANGED <<disk, server, patches, edits, theirs, written, dropped>>
      /\ pane.path # NoNote
  BY DEF Autosave, SubmitNote, SaveEvent, DraftInv, NoteTypeOK
<1>3. clicks'.click = clicks.click
  BY DEF Autosave, SubmitNote, Clicked, DraftInv, NoteTypeOK
<1> HIDE DEF e
<1> SUFFICES ASSUME Alone PROVE (NotYetOpen /\ OpenAlone /\ DraftIsOnItsWay)'
  BY <1>2, <1>3 DEF AloneInv, Alone
<1>4. NotYetOpen /\ OpenAlone /\ DraftIsOnItsWay /\ NoteTypeOK
  BY DEF AloneInv, DraftInv
<1>5. server.selected # NoNote
  BY <1>2, <1>4 DEF NotYetOpen
<1>6. pane'.surface = pane.surface /\ pane'.textarea = pane.textarea /\ pane'.path = pane.path
  BY <1>2, <1>4 DEF NoteTypeOK, Pane
<1>7. OpenAlone'
  BY <1>1, <1>2, <1>3, <1>4, <1>5, <1>6, EventAdded DEF OpenAlone
<1>8. LastSaveHas(pane.textarea)'
  <2>1. /\ Len(events) \in Nat /\ DOMAIN events' = 1..Len(events) + 1 /\ events'[Len(events) + 1] = e
    BY <1>2, <1>4 DEF NoteTypeOK
  <2>2. /\ Len(events) + 1 \in DOMAIN events'
        /\ \A j \in DOMAIN events' : ~(j > Len(events) + 1)
    BY <2>1
  <2> QED
    BY <1>1, <1>6, <2>1, <2>2 DEF LastSaveHas
<1> QED
  BY <1>2, <1>4, <1>5, <1>6, <1>7, <1>8 DEF NotYetOpen, DraftIsOnItsWay

(* Alone, the one click there is chooses the note.                          *)
LEMMA ClickingKeepsAlone ==
    ASSUME DraftInv, AloneInv,
           Close \/ (\E how \in {"reload_conflict", "overwrite_conflict"} : Resolve(how))
                 \/ (\E n \in Notes : SelectNote(n))
    PROVE  AloneInv'
<1>1. PICK e \in Event :
        /\ ClickOn(e)
        /\ \/ e.what = "select_note"
           \/ pane.path # NoNote
           \/ pane.status = "conflict"
  BY EventsOfTheHook DEF Close, Resolve, SelectNote
<1>2. /\ events' = Append(events, e) /\ pane' = [pane EXCEPT !.focused = FALSE]
      /\ clicks' = [clicks EXCEPT !.click = @ + 1]
      /\ UNCHANGED <<disk, server, patches, edits, theirs, written, dropped>>
  BY <1>1 DEF ClickOn, Clicked
<1>3. clicks.click \in Nat /\ clicks'.click = clicks.click + 1
  BY <1>2 DEF DraftInv, NoteTypeOK
<1> SUFFICES ASSUME Alone' PROVE (NotYetOpen /\ OpenAlone /\ DraftIsOnItsWay)'
  BY DEF AloneInv
<1>4. theirs = {} /\ clicks.click = 0 /\ clicks'.click = 1
  BY <1>2, <1>3 DEF Alone
<1>5. NotYetOpen /\ OpenAlone /\ DraftIsOnItsWay /\ DraftInv /\ NoteTypeOK
  BY <1>4 DEF AloneInv, Alone, DraftInv
<1>6. server.selected = NoNote /\ pane.path = NoNote /\ events = <<>> /\ patches = <<>>
  BY <1>4, <1>5 DEF NotYetOpen, OpenAlone
<1>7. pane.status # "conflict"
  BY <1>5, <1>6 DEF DraftInv, PaneCatchesUp, NoteTypeOK
<1>8. e.what = "select_note" /\ Len(events') = 1 /\ events'[1] = e /\ DOMAIN events' = {1}
  BY <1>1, <1>2, <1>6, <1>7
<1>9. /\ pane'.surface = pane.surface /\ pane'.textarea = pane.textarea /\ pane'.path = pane.path
      /\ pane'.debounce = pane.debounce
  BY <1>2, <1>5 DEF NoteTypeOK, Pane
<1> QED
  BY <1>2, <1>4, <1>5, <1>6, <1>8, <1>9 DEF NotYetOpen, OpenAlone, DraftIsOnItsWay, LastSaveHas

(* A patch draws nothing else.                                              *)
LEMMA PatchingKeepsAlone ==
    ASSUME DraftInv, AloneInv, ApplyPatch
    PROVE  AloneInv'
<1> DEFINE p == Head(patches)
           text == IF p.changed THEN p.form ELSE pane.textarea
<1>1. /\ patches # <<>> /\ patches' = Tail(patches)
      /\ UNCHANGED <<disk, server, events, edits, theirs, written, clicks>>
      /\ pane' = IF p.path = NoNote THEN ClosedPane
                 ELSE IF pane.path = NoNote
                 THEN [ClosedPane EXCEPT !.path = p.path, !.status = p.status,
                                         !.textarea = p.form, !.surface = p.form]
                 ELSE [pane EXCEPT !.path = p.path, !.status = p.status, !.textarea = text,
                                   !.surface = SyncFromModel(text), !.dirty = StillDirty(p.status)]
  BY DEF ApplyPatch
<1> SUFFICES ASSUME Alone PROVE (NotYetOpen /\ OpenAlone /\ DraftIsOnItsWay)'
  BY <1>1 DEF AloneInv, Alone
<1>2. NotYetOpen /\ OpenAlone /\ DraftIsOnItsWay /\ NoteTypeOK
  BY DEF AloneInv, DraftInv
<1>3. server.selected # NoNote
  BY <1>1, <1>2 DEF NotYetOpen
<1>4. /\ 1 \in DOMAIN patches /\ p = patches[1]
      /\ \A i \in DOMAIN patches' : i + 1 \in DOMAIN patches /\ patches'[i] = patches[i + 1]
  BY <1>1, <1>2 DEF NoteTypeOK
<1>5. p.path = server.selected /\ p.form = {} /\ ~p.changed
  BY <1>2, <1>3, <1>4 DEF OpenAlone
<1>6. text = pane.textarea
  BY <1>5
<1> HIDE DEF p, text
<1>7. /\ pane'.path = server.selected /\ pane'.textarea = pane.textarea
      /\ pane'.surface = pane.textarea /\ pane'.debounce = pane.debounce
  <2>1. CASE pane.path = NoNote
    <3>1. pane.textarea = {} /\ pane.debounce = FALSE
      BY <1>2, <2>1 DEF DraftIsOnItsWay, NoteTypeOK, Pane
    <3> QED
      BY <1>1, <1>3, <1>5, <2>1, <3>1 DEF ClosedPane
  <2>2. CASE pane.path # NoNote
    BY <1>1, <1>2, <1>3, <1>5, <1>6, <2>2 DEF NoteTypeOK, Pane, DraftIsOnItsWay, SyncFromModel
  <2> QED
    BY <2>1, <2>2
<1>8. OpenAlone'
  BY <1>1, <1>2, <1>3, <1>4, <1>7 DEF OpenAlone
<1> QED
  BY <1>1, <1>2, <1>3, <1>7, <1>8 DEF NotYetOpen, DraftIsOnItsWay, LastSaveHas

(* What the handlers do when nobody else writes: a save is never refused,   *)
(* and nothing but the choice of the note draws a text.                     *)
LEMMA AloneHandlers ==
    ASSUME DraftInv, AloneInv, Alone, Handlers
    PROVE  /\ events # <<>> /\ events' = Tail(events)
           /\ \/ /\ server.selected = NoNote /\ Head(events).what = "select_note"
                 /\ \E n \in Notes : server' = [selected |-> n, body |-> {}, form |-> {}, revision |-> {},
                                                status |-> "saved", conflict |-> {}]
                 /\ disk' = disk /\ Len(events) = 1
              \/ /\ server.selected # NoNote /\ Head(events).what = "note_dirty" /\ disk' = disk
                 /\ server' = [server EXCEPT !.status = "unsaved"]
              \/ /\ server.selected # NoNote /\ Head(events).what = "save_note"
                 /\ server'.selected = server.selected /\ server'.form = server.form
                 /\ server'.body = Head(events).body
                 /\ server'.status \in {"saved", "error"}
                 /\ server'.revision = disk'[server.selected]
                 /\ server'.status = "saved" => server'.body = server'.revision
<1>1. NotYetOpen /\ OpenAlone /\ DraftIsOnItsWay /\ NoteTypeOK
  BY DEF AloneInv, DraftInv
<1>2. events # <<>> => Head(events) = events[1] /\ 1 \in DOMAIN events
  BY <1>1 DEF NoteTypeOK
<1>3. ~Reconcile
  BY <1>1 DEF Reconcile, OpenAlone
<1>4. ASSUME NEW what, Received(what)
      PROVE  /\ events # <<>> /\ events' = Tail(events) /\ Head(events).what = what
             /\ server.selected = NoNote => what = "select_note" /\ Len(events) = 1
             /\ server.selected # NoNote => what \in {"note_dirty", "save_note"}
  <2>1. events # <<>> /\ events' = Tail(events) /\ Head(events).what = what
    BY <1>4, EventTaken DEF DraftInv
  <2> QED
    BY <1>1, <1>2, <2>1 DEF NotYetOpen, OpenAlone
<1>5. CASE HandleSelectNote
  <2> DEFINE n == Head(events).path
  <2>1. /\ events # <<>> /\ events' = Tail(events) /\ Head(events).what = "select_note"
        /\ server.selected = NoNote /\ Len(events) = 1
    BY <1>4, <1>5 DEF HandleSelectNote
  <2>2. n \in Notes
    BY <1>1, <1>5, <2>1, EventTaken, WhatEventsCarry DEF HandleSelectNote
  <2>3. disk[n] = {} /\ disk' = disk /\ OpenNote(n, {})
    BY <1>1, <1>5, <2>1, <2>2 DEF NotYetOpen, HandleSelectNote
  <2>4. server' = [AssignDraft({}) EXCEPT !.selected = n, !.revision = {}, !.status = "saved", !.conflict = {}]
    BY <2>3 DEF OpenNote, Assign
  <2>5. server' = [selected |-> n, body |-> {}, form |-> {}, revision |-> {}, status |-> "saved", conflict |-> {}]
    BY <1>1, <2>4 DEF AssignDraft, NoteTypeOK, Assigns
  <2> QED
    BY <2>1, <2>2, <2>3, <2>5
<1>6. CASE HandleNoteDirty
  <2>1. /\ events # <<>> /\ events' = Tail(events) /\ Head(events).what = "note_dirty"
        /\ server.selected # NoNote /\ disk' = disk
    BY <1>4, <1>6 DEF HandleNoteDirty
  <2>2. TakesDirt
    BY <1>1, <2>1 DEF OpenAlone, TakesDirt
  <2> QED
    BY <1>6, <2>1, <2>2 DEF HandleNoteDirty, Assign
<1>7. CASE HandleSaveNote
  <2> DEFINE body == Head(events).body
             n == server.selected
  <2>1. /\ events # <<>> /\ events' = Tail(events) /\ Head(events).what = "save_note" /\ n # NoNote
    BY <1>4, <1>7 DEF HandleSaveNote
  <2>2. n \in Notes /\ disk[n] = server.revision /\ server.status # "conflict"
    BY <1>1, <2>1 DEF OpenAlone, NoteTypeOK, Assigns
  <2>3. Save(body, FALSE)
    BY <1>7, <2>1, <2>2 DEF HandleSaveNote
  <2> HIDE DEF body
  <2>4. \/ /\ disk' = [disk EXCEPT ![n] = body]
           /\ server' = [AssignBody(body) EXCEPT !.revision = body, !.status = "saved", !.conflict = {}]
        \/ disk' = disk /\ server' = [AssignBody(body) EXCEPT !.status = "error"]
    BY <2>2, <2>3 DEF Save, Assign
  <2>5. /\ server'.selected = n /\ server'.body = body /\ server'.form = server.form
        /\ server'.status \in {"saved", "error"} /\ server'.revision = disk'[n]
        /\ server'.status = "saved" => server'.body = server'.revision
    BY <1>1, <2>2, <2>4 DEF AssignBody, NoteTypeOK, Assigns
  <2> QED
    BY <2>1, <2>5 DEF body
<1>8. ~HandleReload /\ ~HandleOverwrite /\ ~HandleClose
  <2>1. ASSUME NEW what, what \notin {"select_note", "note_dirty", "save_note"} PROVE ~Received(what)
    BY <1>4, <2>1
  <2>2. ~Received("reload_conflict") /\ ~Received("overwrite_conflict") /\ ~Received("close_note")
    BY <2>1
  <2> QED
    BY <2>2 DEF HandleReload, HandleOverwrite, HandleClose
<1> QED
  BY <1>3, <1>5, <1>6, <1>7, <1>8 DEF Handlers

(* The component keeps what it was sent.                                    *)
LEMMA HandlersKeepAlone ==
    ASSUME DraftInv, AloneInv, Handlers
    PROVE  AloneInv'
<1>1. PICK new : Answers(new)
  BY EveryHandlerAnswers DEF DraftInv
<1> DEFINE p == [path |-> new.selected, status |-> new.status, form |-> new.form,
                 changed |-> new.form # server.form]
<1>2. /\ server' = new /\ pane' = pane /\ theirs' = theirs /\ written' = written /\ clicks' = clicks
      /\ new \in Assigns /\ (new = server => patches' = patches)
      /\ (new # server => patches' = Append(patches, p))
  BY <1>1 DEF Answers, Assign
<1> SUFFICES ASSUME Alone PROVE (NotYetOpen /\ OpenAlone /\ DraftIsOnItsWay)'
  BY <1>2 DEF AloneInv, Alone
<1>3. NotYetOpen /\ OpenAlone /\ DraftIsOnItsWay /\ NoteTypeOK
  BY DEF AloneInv, DraftInv
<1>4. events # <<>> /\ events' = Tail(events)
  BY AloneHandlers
<1>5. /\ \A i \in DOMAIN events' : i + 1 \in DOMAIN events /\ events'[i] = events[i + 1]
      /\ \A i \in DOMAIN events : i = 1 \/ (i - 1 \in DOMAIN events' /\ events'[i - 1] = events[i])
      /\ 1 \in DOMAIN events /\ Head(events) = events[1] /\ DOMAIN events = 1..Len(events)
      /\ Len(events) \in Nat /\ DOMAIN events' = 1..Len(events) - 1
  BY <1>2, <1>3, <1>4, TailOfEvents DEF NoteTypeOK
<1>6. /\ server'.selected # NoNote /\ server'.form = {} /\ server.form = {}
      /\ server'.status # "conflict" /\ server'.revision = disk'[server'.selected]
      /\ server'.status = "saved" => server'.body = server'.revision
      /\ server.selected # NoNote => server'.selected = server.selected
  <2>1. CASE server.selected = NoNote
    <3>1. PICK n \in Notes : server' = [selected |-> n, body |-> {}, form |-> {}, revision |-> {},
                                        status |-> "saved", conflict |-> {}]
      BY <2>1, AloneHandlers
    <3>2. disk'[n] = {}
      BY <1>3, <2>1, AloneHandlers DEF NotYetOpen
    <3> QED
      BY <1>3, <2>1, <3>1, <3>2, NotesAssumption DEF NoteTypeOK
  <2>2. CASE server.selected # NoNote /\ Head(events).what = "note_dirty"
    <3>1. server' = [server EXCEPT !.status = "unsaved"] /\ disk' = disk
      BY <2>2, AloneHandlers
    <3> QED
      BY <1>3, <2>2, <3>1 DEF OpenAlone, NoteTypeOK, Assigns
  <2>3. CASE server.selected # NoNote /\ Head(events).what # "note_dirty"
    <3>1. /\ server'.selected = server.selected /\ server'.form = server.form
          /\ server'.status \in {"saved", "error"} /\ server'.revision = disk'[server.selected]
          /\ server'.status = "saved" => server'.body = server'.revision
      BY <2>3, AloneHandlers
    <3> QED
      BY <1>3, <2>3, <3>1 DEF OpenAlone
  <2> QED
    BY <2>1, <2>2, <2>3
<1>7. \A i \in DOMAIN events' : events'[i].what \in {"note_dirty", "save_note"}
  <2>1. CASE server.selected = NoNote
    BY <1>5, <2>1, AloneHandlers
  <2>2. CASE server.selected # NoNote
    BY <1>3, <1>5, <2>2 DEF OpenAlone
  <2> QED
    BY <2>1, <2>2
<1>8. \A i \in DOMAIN patches' : /\ patches'[i].path = server'.selected
                                 /\ patches'[i].form = {} /\ ~patches'[i].changed
  <2>1. p \in Patched /\ p.path = server'.selected /\ p.form = {} /\ ~p.changed
    BY <1>2, <1>6 DEF Patched, Assigns
  <2>2. \A i \in DOMAIN patches : /\ patches[i].path = server'.selected
                                  /\ patches[i].form = {} /\ ~patches[i].changed
    BY <1>3, <1>6 DEF NotYetOpen, OpenAlone
  <2> HIDE DEF p
  <2> QED
    BY <1>2, <1>3, <2>1, <2>2, PatchAdded
<1>9. pane.path \in {NoNote, server'.selected} /\ written[server'.selected] = pane.textarea /\ clicks.click = 1
  <2>1. CASE server.selected = NoNote
    <3>1. pane.path = NoNote /\ pane.textarea = {} /\ written = [n \in Notes |-> {}] /\ events # <<>>
      BY <1>3, <1>4, <2>1 DEF NotYetOpen, DraftIsOnItsWay
    <3>2. server'.selected \in Notes
      BY <1>2, <1>6 DEF Assigns
    <3> QED
      BY <1>3, <2>1, <3>1, <3>2 DEF NotYetOpen
  <2>2. CASE server.selected # NoNote
    BY <1>3, <1>6, <2>2 DEF OpenAlone
  <2> QED
    BY <2>1, <2>2
<1>10. ASSUME ~pane.debounce PROVE LastSaveHas(pane.textarea)'
  <2>1. LastSaveHas(pane.textarea)
    BY <1>3, <1>10 DEF DraftIsOnItsWay
  <2>2. CASE server.selected = NoNote
    <3>1. server'.body = {} /\ DOMAIN events' = {}
      <4>1. Len(events) = 1
        BY <2>2, AloneHandlers
      <4>2. DOMAIN events' = {}
        BY <1>5, <4>1
      <4>3. server'.body = {}
        BY <2>2, AloneHandlers
      <4> QED
        BY <4>2, <4>3
    <3>2. pane.textarea = {}
      BY <1>3, <2>2 DEF NotYetOpen, DraftIsOnItsWay
    <3> QED
      BY <1>2, <3>1, <3>2 DEF LastSaveHas
  <2>3. CASE \E i \in DOMAIN events : /\ events[i].what = "save_note" /\ events[i].body = pane.textarea
                                      /\ \A j \in DOMAIN events : j > i => events[j].what # "save_note"
    <3>1. PICK i \in DOMAIN events : /\ events[i].what = "save_note" /\ events[i].body = pane.textarea
                                     /\ \A j \in DOMAIN events : j > i => events[j].what # "save_note"
      BY <2>3
    <3>2. CASE i = 1
      <4>1. server.selected # NoNote /\ server'.body = pane.textarea
        BY <1>5, <3>1, <3>2, AloneHandlers
      <4>2. \A j \in DOMAIN events' : events'[j].what # "save_note"
        BY <1>5, <3>1, <3>2
      <4> QED
        BY <1>2, <4>1, <4>2 DEF LastSaveHas
    <3>3. CASE i # 1
      <4>1. i - 1 \in DOMAIN events' /\ events'[i - 1] = events[i]
        BY <1>5, <3>3
      <4>2. \A j \in DOMAIN events' : j > i - 1 => events'[j].what # "save_note"
        BY <1>5, <3>1
      <4> QED
        BY <1>2, <3>1, <4>1, <4>2 DEF LastSaveHas
    <3> QED
      BY <3>2, <3>3
  <2>4. CASE /\ server.selected # NoNote /\ server.body = pane.textarea
             /\ \A i \in DOMAIN events : events[i].what # "save_note"
    <3>1. server' = [server EXCEPT !.status = "unsaved"]
      BY <1>5, <2>4, AloneHandlers
    <3>2. server'.body = server.body
      BY <1>3, <3>1 DEF NoteTypeOK, Assigns
    <3>3. \A i \in DOMAIN events' : events'[i].what # "save_note"
      BY <1>5, <2>4
    <3> QED
      BY <1>2, <2>4, <3>2, <3>3 DEF LastSaveHas
  <2> QED
    BY <2>1, <2>2, <2>3, <2>4 DEF LastSaveHas
<1> HIDE DEF p
<1>11. OpenAlone'
  BY <1>2, <1>6, <1>7, <1>8, <1>9 DEF OpenAlone
<1> QED
  BY <1>2, <1>3, <1>6, <1>10, <1>11 DEF NotYetOpen, DraftIsOnItsWay

(* Every step keeps it.                                                     *)
LEMMA AloneInvStep == DraftInv /\ AloneInv /\ [NoteNext]_noteVars => AloneInv'
<1> SUFFICES ASSUME DraftInv, AloneInv, [NoteNext]_noteVars PROVE AloneInv'
  OBVIOUS
<1>1. CASE Keystroke \/ ToolbarCommand
  BY <1>1, WritingKeepsAlone DEF Keystroke, ToolbarCommand
<1>2. CASE Autosave \/ SubmitNote
  BY <1>2, SavingKeepsAlone
<1>3. CASE \/ Close \/ \E n \in Notes : SelectNote(n)
           \/ \E how \in {"reload_conflict", "overwrite_conflict"} : Resolve(how)
  BY <1>3, ClickingKeepsAlone
<1>4. CASE ApplyPatch
  BY <1>4, PatchingKeepsAlone
<1>5. CASE Handlers
  BY <1>5, HandlersKeepAlone
<1>6. ASSUME NEW n \in Notes, OutsideWrite(n) PROVE AloneInv'
  BY <1>6 DEF OutsideWrite, AloneInv, Alone
<1>7. CASE UNCHANGED noteVars
  BY <1>7 DEF noteVars, AloneInv, Alone, NotYetOpen, OpenAlone, DraftIsOnItsWay, LastSaveHas
<1> QED
  BY <1>1, <1>2, <1>3, <1>4, <1>5, <1>6, <1>7 DEF NoteNext, Handlers

(* So both always hold.                                                     *)
LEMMA NotesAlways == NoteSpec => [](DraftInv /\ AloneInv)
<1>1. NoteInit => DraftInv /\ AloneInv
  BY DraftInvInit, AloneInvInit
<1>2. DraftInv /\ AloneInv /\ [NoteNext]_noteVars => DraftInv' /\ AloneInv'
  BY DraftInvStep, AloneInvStep
<1> QED
  BY <1>1, <1>2, PTL DEF NoteSpec

(* Notes, drafts and what travels between page and component stay well      *)
(* formed, and no draft waits where there is no editor (note_editor.js).    *)
THEOREM NoteTypeCorrect == NoteSpec => []NoteTypeOK
<1>1. DraftInv => NoteTypeOK
  BY DEF DraftInv
<1> QED
  BY <1>1, NotesAlways, PTL

(* An editor that comes to rest has told the truth: "saved" is what is on   *)
(* the disk and on the screen with everything that was typed, and           *)
(* "unsaved" does not stay (notes_component.ex, note_editor.js).            *)
THEOREM DraftsAlwaysSettle == NoteSpec => []SaveSettles
<1>1. DraftInv /\ AloneInv => SavedIsWhatIsShown
  <2> SUFFICES ASSUME DraftInv, AloneInv, NoteAtRest, theirs = {}, pane.status = "saved", clicks.click = 1
               PROVE  /\ pane.surface = disk[pane.path] /\ written[pane.path] = pane.surface
                      /\ server.revision = pane.surface
    BY DEF SavedIsWhatIsShown
  <2>1. NotYetOpen /\ OpenAlone /\ DraftIsOnItsWay /\ NoteTypeOK /\ PaneCatchesUp
    BY DEF AloneInv, Alone, DraftInv
  <2>2. events = <<>> /\ patches = <<>> /\ ~pane.debounce
    BY DEF NoteAtRest
  <2>3. pane.path = server.selected /\ server.status = "saved" /\ server.selected # NoNote
    BY <2>1, <2>2 DEF PaneCatchesUp, NoteTypeOK
  <2>4. server.body = pane.textarea /\ pane.surface = pane.textarea
    BY <2>1, <2>2 DEF DraftIsOnItsWay, LastSaveHas
  <2> QED
    BY <2>1, <2>3, <2>4 DEF OpenAlone
<1>2. DraftInv => UnsavedPasses
  <2> SUFFICES ASSUME DraftInv, NoteAtRest PROVE (server.status # "unsaved" \/ dropped) /\ ~pane.dirty
    BY DEF UnsavedPasses
  <2> QED
    BY DEF DraftInv, NoteAtRest, DirtyIsFollowed, DirtyIsCleared, SavedAfter
<1>3. DraftInv /\ AloneInv => SaveSettles
  BY <1>1, <1>2 DEF SaveSettles
<1> QED
  BY <1>3, NotesAlways, PTL

-----------------------------------------------------------------------------
(* The composer: what is carried by the events on the wire, and what of it *)
(* is left when one is taken or pushed.                                    *)
CarriedBy(w) == UNION {Range(w[i].files) : i \in {j \in DOMAIN w : w[j].ev \in {"attach_error", "attach_paths"}}}
SendsIn(w) == {i \in DOMAIN w : w[i].ev = "send"}
FilesOf(e) == IF e.ev \in {"attach_error", "attach_paths"} THEN Range(e.files) ELSE {}
ChordIn(w) == \A i \in DOMAIN w : w[i].ev = "send" => w[i].delivery = w[i].meant
FreshIn(w, gone, n) ==
    /\ \A i \in DOMAIN w : w[i].ev = "attach_paths" =>
            IsInjective(w[i].files) /\ Range(w[i].files) \subseteq (1..n) \ gone
    /\ \A i, j \in DOMAIN w : w[i].ev = "attach_paths" /\ w[j].ev = "attach_paths" /\ i # j =>
            Range(w[i].files) \cap Range(w[j].files) = {}

LEMMA CarriedMember ==
    ASSUME NEW w, NEW x
    PROVE  x \in CarriedBy(w) <=> \E i \in DOMAIN w : x \in FilesOf(w[i])
BY DEF CarriedBy, FilesOf

LEMMA PoppedFiles ==
    ASSUME NEW w \in Seq(PushedEvents), w # <<>>
    PROVE  CarriedBy(w) = CarriedBy(Tail(w)) \cup FilesOf(Head(w))
<1>1. ASSUME NEW x PROVE x \in CarriedBy(w) <=> x \in CarriedBy(Tail(w)) \/ x \in FilesOf(Head(w))
  <2>1. /\ x \in CarriedBy(w) <=> \E i \in DOMAIN w : x \in FilesOf(w[i])
        /\ x \in CarriedBy(Tail(w)) <=> \E i \in DOMAIN Tail(w) : x \in FilesOf(Tail(w)[i])
    BY CarriedMember
  <2> QED
    BY <2>1, TailPlaces
<1> QED
  BY <1>1

LEMMA PushedFiles ==
    ASSUME NEW w \in Seq(PushedEvents), NEW v \in Seq(PushedEvents)
    PROVE  CarriedBy(w \o v) = CarriedBy(w) \cup CarriedBy(v)
<1>1. ASSUME NEW x PROVE x \in CarriedBy(w \o v) <=> x \in CarriedBy(w) \/ x \in CarriedBy(v)
  <2> DEFINE c == w \o v
  <2>1. /\ x \in CarriedBy(w) <=> \E i \in DOMAIN w : x \in FilesOf(w[i])
        /\ x \in CarriedBy(v) <=> \E i \in DOMAIN v : x \in FilesOf(v[i])
        /\ x \in CarriedBy(c) <=> \E i \in DOMAIN c : x \in FilesOf(c[i])
    BY CarriedMember
  <2>2. /\ \A i \in DOMAIN w : i \in DOMAIN c /\ c[i] = w[i]
        /\ \A j \in DOMAIN v : Len(w) + j \in DOMAIN c /\ c[Len(w) + j] = v[j]
        /\ \A i \in DOMAIN c : i \in DOMAIN w \/ \E j \in DOMAIN v : i = Len(w) + j
    BY ConcatPlaces, SMTT(30)
  <2> HIDE DEF c
  <2>3. x \in CarriedBy(c) <=> x \in CarriedBy(w) \/ x \in CarriedBy(v)
    BY <2>1, <2>2
  <2> QED
    BY <2>3 DEF c
<1> QED
  BY <1>1

LEMMA PoppedChord ==
    ASSUME NEW w \in Seq(PushedEvents), w # <<>>, ChordIn(w)
    PROVE  ChordIn(Tail(w))
BY TailPlaces DEF ChordIn

LEMMA PushedChord ==
    ASSUME NEW w \in Seq(PushedEvents), NEW v \in Seq(PushedEvents), ChordIn(w), ChordIn(v)
    PROVE  ChordIn(w \o v)
<1> SUFFICES ASSUME NEW i \in DOMAIN (w \o v), (w \o v)[i].ev = "send"
             PROVE  (w \o v)[i].delivery = (w \o v)[i].meant
  BY DEF ChordIn
<1>1. CASE i \in DOMAIN w
  BY <1>1, ConcatPlaces DEF ChordIn
<1>2. CASE \E j \in DOMAIN v : i = Len(w) + j
  BY <1>2, ConcatPlaces DEF ChordIn
<1> QED
  BY <1>1, <1>2, ConcatPlaces

LEMMA PoppedFresh ==
    ASSUME NEW w \in Seq(PushedEvents), w # <<>>, NEW gone, NEW n, FreshIn(w, gone, n)
    PROVE  /\ FreshIn(Tail(w), gone, n)
           /\ Head(w).ev = "attach_paths" =>
                /\ FreshIn(Tail(w), gone \cup Range(Head(w).files), n)
                /\ IsInjective(Head(w).files) /\ Range(Head(w).files) \subseteq (1..n) \ gone
<1> DEFINE t == Tail(w)
           h == Head(w)
<1>1. /\ 1 \in DOMAIN w /\ h = w[1]
      /\ \A i \in DOMAIN t : i + 1 \in DOMAIN w /\ i + 1 # 1 /\ t[i] = w[i + 1] /\ i \in Nat
  BY TailPlaces
<1> HIDE DEF t, h
<1>2. \A i, j \in DOMAIN t : i # j => i + 1 # j + 1
  BY <1>1
<1>3. /\ \A i \in DOMAIN w : w[i].ev = "attach_paths" =>
            IsInjective(w[i].files) /\ Range(w[i].files) \subseteq (1..n) \ gone
      /\ \A i, j \in DOMAIN w : w[i].ev = "attach_paths" /\ w[j].ev = "attach_paths" /\ i # j =>
            Range(w[i].files) \cap Range(w[j].files) = {}
  BY DEF FreshIn
<1>4. \A i \in DOMAIN t : t[i].ev = "attach_paths" =>
            IsInjective(t[i].files) /\ Range(t[i].files) \subseteq (1..n) \ gone
  BY <1>1, <1>3
<1>5. \A i, j \in DOMAIN t : t[i].ev = "attach_paths" /\ t[j].ev = "attach_paths" /\ i # j =>
            Range(t[i].files) \cap Range(t[j].files) = {}
  BY <1>1, <1>2, <1>3
<1>6. ASSUME h.ev = "attach_paths", NEW i \in DOMAIN t, t[i].ev = "attach_paths"
      PROVE  Range(t[i].files) \cap Range(h.files) = {}
  BY <1>1, <1>3, <1>6
<1>7. ASSUME h.ev = "attach_paths"
      PROVE  IsInjective(h.files) /\ Range(h.files) \subseteq (1..n) \ gone
  BY <1>1, <1>3, <1>7
<1>8. ASSUME h.ev = "attach_paths" PROVE FreshIn(t, gone \cup Range(h.files), n)
  BY <1>4, <1>5, <1>6, <1>8 DEF FreshIn
<1> QED
  BY <1>4, <1>5, <1>7, <1>8 DEF FreshIn, t, h

LEMMA PushedFresh ==
    ASSUME NEW w \in Seq(PushedEvents), NEW v \in Seq(PushedEvents), NEW gone, NEW n, NEW m,
           1..n \subseteq 1..m, FreshIn(w, gone, n), FreshIn(v, gone \cup 1..n, m)
    PROVE  FreshIn(w \o v, gone, m)
<1> DEFINE c == w \o v
           Is(i) == c[i].ev = "attach_paths"
<1>1. ASSUME NEW i \in DOMAIN c, Is(i)
      PROVE  \/ \E k \in DOMAIN w : i = k /\ c[i] = w[k]
             \/ \E k \in DOMAIN v : i = Len(w) + k /\ c[i] = v[k]
  BY ConcatPlaces
<1>2. ASSUME NEW i \in DOMAIN c, Is(i)
      PROVE  IsInjective(c[i].files) /\ Range(c[i].files) \subseteq (1..m) \ gone
  <2>1. CASE \E k \in DOMAIN w : i = k /\ c[i] = w[k]
    BY <1>2, <2>1 DEF FreshIn
  <2>2. CASE \E k \in DOMAIN v : i = Len(w) + k /\ c[i] = v[k]
    BY <1>2, <2>2 DEF FreshIn
  <2> QED
    BY <1>1, <1>2, <2>1, <2>2
<1>3. ASSUME NEW i \in DOMAIN c, NEW j \in DOMAIN c, Is(i), Is(j), i # j
      PROVE  Range(c[i].files) \cap Range(c[j].files) = {}
  <2>1. \A k \in DOMAIN w : w[k].ev = "attach_paths" => Range(w[k].files) \subseteq 1..n
    BY DEF FreshIn
  <2>2. \A k \in DOMAIN v : v[k].ev = "attach_paths" => Range(v[k].files) \cap (1..n) = {}
    BY DEF FreshIn
  <2>3. \A k, l \in DOMAIN w : w[k].ev = "attach_paths" /\ w[l].ev = "attach_paths" /\ k # l =>
            Range(w[k].files) \cap Range(w[l].files) = {}
    BY DEF FreshIn
  <2>4. \A k, l \in DOMAIN v : v[k].ev = "attach_paths" /\ v[l].ev = "attach_paths" /\ k # l =>
            Range(v[k].files) \cap Range(v[l].files) = {}
    BY DEF FreshIn
  <2>5. CASE \E k \in DOMAIN w, l \in DOMAIN w : i = k /\ c[i] = w[k] /\ j = l /\ c[j] = w[l]
    BY <1>3, <2>3, <2>5
  <2>6. CASE \E k \in DOMAIN v, l \in DOMAIN v : i = Len(w) + k /\ c[i] = v[k] /\ j = Len(w) + l /\ c[j] = v[l]
    BY <1>3, <2>4, <2>6
  <2>7. CASE \E k \in DOMAIN w, l \in DOMAIN v : c[i] = w[k] /\ c[j] = v[l]
    BY <1>3, <2>1, <2>2, <2>7
  <2>8. CASE \E k \in DOMAIN v, l \in DOMAIN w : c[i] = v[k] /\ c[j] = w[l]
    BY <1>3, <2>1, <2>2, <2>8
  <2> HIDE DEF c, Is
  <2> QED
    BY <1>1, <1>3, <2>5, <2>6, <2>7, <2>8
<1> HIDE DEF c
<1> QED
  BY <1>2, <1>3 DEF FreshIn, c

LEMMA SendsFinite ==
    ASSUME NEW w \in Seq(PushedEvents)
    PROVE  IsFiniteSet(SendsIn(w)) /\ Cardinality(SendsIn(w)) \in Nat
<1>1. Len(w) \in Nat /\ DOMAIN w = 1..Len(w)
  OBVIOUS
<1>2. IsFiniteSet(1..Len(w)) /\ SendsIn(w) \subseteq 1..Len(w)
  BY <1>1, FS_Interval DEF SendsIn
<1> QED
  BY <1>2, FS_Subset, FS_CardinalityType

LEMMA PoppedSends ==
    ASSUME NEW w \in Seq(PushedEvents), w # <<>>
    PROVE  /\ IsFiniteSet(SendsIn(Tail(w)))
           /\ Cardinality(SendsIn(Tail(w))) = Cardinality(SendsIn(w) \ {1})
           /\ Head(w).ev # "send" => SendsIn(w) \ {1} = SendsIn(w)
           /\ Head(w).ev = "send" => Cardinality(SendsIn(w) \ {1}) = Cardinality(SendsIn(w)) - 1
<1> DEFINE t == Tail(w)
           A == SendsIn(t)
           B == SendsIn(w) \ {1}
           f == [i \in A |-> i + 1]
<1>0. t \in Seq(PushedEvents)
  BY TailPlaces
<1>1. /\ 1 \in DOMAIN w /\ Head(w) = w[1]
      /\ \A i \in DOMAIN t : i + 1 \in DOMAIN w /\ i + 1 # 1 /\ t[i] = w[i + 1] /\ i \in Nat
      /\ \A j \in DOMAIN w : j = 1 \/ \E i \in DOMAIN t : j = i + 1
  BY TailPlaces
<1>2. IsFiniteSet(A) /\ IsFiniteSet(SendsIn(w))
  BY <1>0, SendsFinite
<1> HIDE DEF t
<1>3. A = {i \in DOMAIN t : t[i].ev = "send"} /\ SendsIn(w) = {i \in DOMAIN w : w[i].ev = "send"}
  BY DEF SendsIn
<1>4. \A i \in A : i + 1 \in B /\ i \in Nat
  BY <1>1, <1>3
<1>5. \A j \in B : \E i \in A : j = i + 1
  BY <1>1, <1>3
<1> HIDE DEF A, B
<1>6. \A i, j \in A : i + 1 = j + 1 => i = j
  BY <1>4
<1>7. f \in Bijection(A, B)
  <2>1. f \in [A -> B]
    BY <1>4
  <2> QED
    BY <1>5, <1>6, <2>1 DEF Bijection, Injection, Surjection, IsInjective
<1>8. Cardinality(A) = Cardinality(B)
  BY <1>2, <1>7, FS_Bijection DEF ExistsBijection
<1>9. Head(w).ev # "send" => SendsIn(w) \ {1} = SendsIn(w)
  BY <1>1, <1>3
<1>10. Head(w).ev = "send" => Cardinality(SendsIn(w) \ {1}) = Cardinality(SendsIn(w)) - 1
  BY <1>1, <1>2, <1>3, FS_RemoveElement
<1> QED
  BY <1>2, <1>8, <1>9, <1>10 DEF A, B, t

LEMMA PushedSends ==
    ASSUME NEW w \in Seq(PushedEvents), NEW v \in Seq(PushedEvents)
    PROVE  /\ (\A j \in DOMAIN v : v[j].ev # "send") => SendsIn(w \o v) = SendsIn(w)
           /\ Len(v) = 1 => Cardinality(SendsIn(w \o v)) <= Cardinality(SendsIn(w)) + 1
<1> DEFINE c == w \o v
<1>1. /\ \A i \in DOMAIN w : i \in DOMAIN c /\ c[i] = w[i]
      /\ \A j \in DOMAIN v : Len(w) + j \in DOMAIN c /\ c[Len(w) + j] = v[j]
      /\ \A i \in DOMAIN c : i \in DOMAIN w \/ \E j \in DOMAIN v : i = Len(w) + j
  BY ConcatPlaces, SMTT(30)
<1>2. IsFiniteSet(SendsIn(w)) /\ IsFiniteSet(SendsIn(c)) /\ Cardinality(SendsIn(w)) \in Nat
  BY SendsFinite, ConcatPlaces
<1> HIDE DEF c
<1>3. ASSUME \A j \in DOMAIN v : v[j].ev # "send" PROVE SendsIn(c) = SendsIn(w)
  BY <1>1, <1>3 DEF SendsIn
<1>4. ASSUME Len(v) = 1 PROVE Cardinality(SendsIn(c)) <= Cardinality(SendsIn(w)) + 1
  <2>1. DOMAIN v = {1}
    BY <1>4
  <2>2. SendsIn(c) \subseteq SendsIn(w) \cup {Len(w) + 1}
    BY <1>1, <2>1 DEF SendsIn
  <2>3. /\ IsFiniteSet(SendsIn(w) \cup {Len(w) + 1})
        /\ Cardinality(SendsIn(w) \cup {Len(w) + 1}) <= Cardinality(SendsIn(w)) + 1
        /\ Cardinality(SendsIn(w) \cup {Len(w) + 1}) \in Nat
    <3> DEFINE S == SendsIn(w)
    <3> HIDE DEF S
    <3>1. IsFiniteSet(S) /\ Cardinality(S) \in Nat
      BY <1>2 DEF S
    <3>2. /\ IsFiniteSet(S \cup {Len(w) + 1})
          /\ Cardinality(S \cup {Len(w) + 1}) = IF Len(w) + 1 \in S THEN Cardinality(S) ELSE Cardinality(S) + 1
      BY <3>1, FS_AddElement
    <3> QED
      BY <3>1, <3>2 DEF S
  <2>4. Cardinality(SendsIn(c)) <= Cardinality(SendsIn(w) \cup {Len(w) + 1}) /\ Cardinality(SendsIn(c)) \in Nat
    BY <1>2, <2>2, <2>3, FS_Subset, FS_CardinalityType
  <2> QED
    BY <1>2, <2>3, <2>4
<1> QED
  BY <1>3, <1>4 DEF c

-----------------------------------------------------------------------------
RidingOn(q) == UNION {Range(q[i].files) : i \in DOMAIN q}
Messages == [id : 1..MaxSends, files : Seq(Files)]

\* Putting a message at either end adds its files.
LEMMA RidingGrows ==
    ASSUME NEW q \in Seq(Messages), NEW m \in Messages
    PROVE  /\ Append(q, m) \in Seq(Messages) /\ RidingOn(Append(q, m)) = RidingOn(q) \cup Range(m.files)
           /\ <<m>> \o q \in Seq(Messages) /\ RidingOn(<<m>> \o q) = RidingOn(q) \cup Range(m.files)
<1> DEFINE one == <<m>>
           a == Append(q, m)
           c == one \o q
<1>1. a \in Seq(Messages) /\ Range(a) = Range(q) \cup {m}
  BY AppendRange
<1>2. one \in Seq(Messages) /\ Range(one) = {m}
  BY DEF Range
<1>3. c \in Seq(Messages) /\ Range(c) = Range(one) \cup Range(q)
  <2>1. one \in Seq(Messages)
    BY <1>2
  <2> HIDE DEF one
  <2> QED
    BY <2>1, ConcatPlaces, RangeConcatenation
<1> HIDE DEF one, a, c
<1>4. \A x : RidingOn(x) = UNION {Range(k.files) : k \in Range(x)}
  BY DEF RidingOn, Range
<1>5. RidingOn(a) = RidingOn(q) \cup Range(m.files)
  BY <1>1, <1>4
<1>6. RidingOn(c) = RidingOn(q) \cup Range(m.files)
  BY <1>2, <1>3, <1>4
<1> QED
  BY <1>1, <1>3, <1>5, <1>6 DEF a, c, one

\* Splitting the queue splits its files.
LEMMA RidingSplits ==
    ASSUME NEW q \in Seq(Messages), NEW k \in 0..Len(q)
    PROVE  /\ SubSeq(q, 1, k) \in Seq(Messages) /\ Len(SubSeq(q, 1, k)) = k
           /\ SubSeq(q, k + 1, Len(q)) \in Seq(Messages)
           /\ RidingOn(q) = RidingOn(SubSeq(q, 1, k)) \cup RidingOn(SubSeq(q, k + 1, Len(q)))
<1> DEFINE n == Len(q)
           a == SubSeq(q, 1, k)
           b == SubSeq(q, k + 1, n)
<1>1. n \in Nat /\ DOMAIN q = 1..n /\ (\A i \in 1..n : q[i] \in Messages) /\ k \in Nat /\ k <= n
  OBVIOUS
<1>2. a \in Seq(Messages) /\ Len(a) = k /\ \A i \in 1..k : a[i] = q[i]
  <2>1. \A i \in 1..k : i \in 1..n
    BY <1>1
  <2> QED
    BY <1>1, <2>1, SubSeqProperties
<1>3. b \in Seq(Messages) /\ Len(b) = n - k /\ \A i \in 1..(n - k) : b[i] = q[k + i]
  <2>1. \A i \in (k + 1)..n : i \in 1..n
    BY <1>1
  <2>2. b \in Seq(Messages) /\ Len(b) = (IF k + 1 <= n THEN n - (k + 1) + 1 ELSE 0)
        /\ \A i \in 1..(n - (k + 1) + 1) : b[i] = q[(k + 1) + i - 1]
    BY <1>1, <2>1, SubSeqProperties
  <2>3. \A i \in 1..(n - k) : i \in 1..(n - (k + 1) + 1) /\ (k + 1) + i - 1 = k + i
    BY <1>1
  <2>4. (IF k + 1 <= n THEN n - (k + 1) + 1 ELSE 0) = n - k
    <3>1. CASE k + 1 <= n
      BY <1>1, <3>1
    <3>2. CASE ~(k + 1 <= n)
      <4>1. k = n
        <5> HIDE DEF n
        <5> QED
          BY ONLY <1>1, <3>2
      <4> QED
        BY <1>1, <3>2, <4>1
    <3> QED
      BY <3>1, <3>2
  <2> QED
    BY <1>1, <2>2, <2>3, <2>4
<1> HIDE DEF n, a, b
<1>4. DOMAIN a = 1..k /\ DOMAIN b = 1..(n - k)
  BY <1>2, <1>3
<1>5. \A i \in 1..n : i \in 1..k \/ (i - k \in 1..(n - k) /\ k + (i - k) = i)
  BY <1>1
<1>6. \A i \in 1..k : i \in 1..n
  BY <1>1
<1>7. \A i \in 1..(n - k) : k + i \in 1..n
  BY <1>1
<1>8. RidingOn(q) = UNION {Range(q[i].files) : i \in 1..n} /\ RidingOn(a) = UNION {Range(a[i].files) : i \in 1..k}
      /\ RidingOn(b) = UNION {Range(b[i].files) : i \in 1..(n - k)}
  BY <1>1, <1>4 DEF RidingOn
<1>9. RidingOn(a) \subseteq RidingOn(q)
  BY <1>2, <1>6, <1>8
<1>10. RidingOn(b) \subseteq RidingOn(q)
  BY <1>3, <1>7, <1>8
<1>11. RidingOn(q) \subseteq RidingOn(a) \cup RidingOn(b)
  <2> SUFFICES ASSUME NEW i \in 1..n, NEW x \in Range(q[i].files) PROVE x \in RidingOn(a) \cup RidingOn(b)
    BY <1>8
  <2>1. CASE i \in 1..k
    BY <1>2, <1>8, <2>1
  <2>2. CASE i - k \in 1..(n - k) /\ k + (i - k) = i
    BY <1>3, <1>8, <2>2
  <2> QED
    BY <1>5, <2>1, <2>2
<1> QED
  BY <1>2, <1>3, <1>9, <1>10, <1>11 DEF a, b, n

-----------------------------------------------------------------------------
Staging == [chips : Seq(Files), banner : BOOLEAN, refused : SUBSET Files]
Begun == [chips |-> pending, banner |-> refusal, refused |-> {}]
OneStaged(s, f, storable) ==
    IF storable[f] /\ Len(s.chips) < FileCap
    THEN [s EXCEPT !.chips = Append(@, f), !.banner = FALSE]
    ELSE [s EXCEPT !.banner = TRUE, !.refused = @ \cup {f}]
Stages(files, storable, a) ==
    a = [n \in 0..Len(files) |-> IF n = 0 THEN Begun ELSE OneStaged(a[n - 1], files[n], storable)]

\* Staging one file takes it or refuses it.
LEMMA OneStagedIs ==
    ASSUME NEW s \in Staging, NEW f \in Files, NEW storable
    PROVE  LET r == OneStaged(s, f, storable) IN
           /\ r \in Staging
           /\ \/ r.chips = Append(s.chips, f) /\ Len(s.chips) < FileCap /\ r.refused = s.refused
              \/ r.chips = s.chips /\ r.refused = s.refused \cup {f}
<1> DEFINE r == OneStaged(s, f, storable)
<1>1. CASE storable[f] /\ Len(s.chips) < FileCap
  <2>1. r = [s EXCEPT !.chips = Append(@, f), !.banner = FALSE]
    BY <1>1 DEF OneStaged
  <2> HIDE DEF r
  <2>2. r.chips = Append(s.chips, f) /\ r.refused = s.refused
    BY <2>1 DEF Staging
  <2>3. Append(s.chips, f) \in Seq(Files)
    BY DEF Staging
  <2>4. r \in Staging
    BY <2>1, <2>3 DEF Staging
  <2> QED
    BY <1>1, <2>2, <2>4 DEF r
<1>2. CASE ~(storable[f] /\ Len(s.chips) < FileCap)
  <2>1. r = [s EXCEPT !.banner = TRUE, !.refused = @ \cup {f}]
    BY <1>2 DEF OneStaged
  <2> HIDE DEF r
  <2>2. r.chips = s.chips /\ r.refused = s.refused \cup {f} /\ r \in Staging
    BY <2>1 DEF Staging
  <2> QED
    BY <2>2 DEF r
<1> QED
  BY <1>1, <1>2

\* The files are staged in turn.
LEMMA StageIs ==
    ASSUME pending \in Seq(Files), refusal \in BOOLEAN, NEW files \in Seq(Files), NEW storable
    PROVE  \E a : /\ a \in [0..Len(files) -> Staging] /\ a[0] = Begun
                  /\ \A n \in 1..Len(files) : a[n] = OneStaged(a[n - 1], files[n], storable)
                  /\ StageFiles(files, storable) = a[Len(files)]
<1> DEFINE N == Len(files)
           F == [k \in Nat |-> [s \in Staging |-> IF k \in 1..N THEN OneStaged(s, files[k], storable) ELSE s]]
<1>1. N \in Nat /\ \A k \in 1..N : files[k] \in Files
  OBVIOUS
<1>2. Begun \in Staging
  BY DEF Begun, Staging
<1> HIDE DEF N
<1>3. F \in [Nat -> [Staging -> Staging]]
  <2>1. ASSUME NEW k \in Nat, NEW s \in Staging
        PROVE  (IF k \in 1..N THEN OneStaged(s, files[k], storable) ELSE s) \in Staging
    <3>1. CASE k \in 1..N
      BY <1>1, <3>1, OneStagedIs
    <3>2. CASE k \notin 1..N
      BY <3>2
    <3> QED
      BY <3>1, <3>2
  <2> QED
    BY <2>1
<1>4. \A k \in 1..N : \A s \in Staging : F[k][s] = OneStaged(s, files[k], storable)
  <2>1. \A k \in 1..N : k \in Nat
    BY <1>1
  <2> QED
    BY <2>1
<1> HIDE DEF F
<1>5. PICK a : a \in [0..N -> Staging] /\ a[0] = Begun /\ \A k \in 1..N : a[k] = F[k][a[k - 1]]
  <2>1. \E a : Folds(Staging, Begun, F, N, a)
    BY ONLY <1>1, <1>2, <1>3, FoldExists
  <2> QED
    BY <2>1 DEF Folds
<1>6. \A n \in 1..N : n - 1 \in 0..N /\ n \in 0..N /\ n # 0
  BY <1>1
<1>7. \A n \in 1..N : a[n] = OneStaged(a[n - 1], files[n], storable)
  BY <1>4, <1>5, <1>6
<1>8. Stages(files, storable, a)
  <2>1. \A n \in 0..N : n = 0 \/ n \in 1..N
    BY <1>1
  <2>2. \A n \in 0..N : a[n] = IF n = 0 THEN Begun ELSE OneStaged(a[n - 1], files[n], storable)
    BY <1>5, <1>6, <1>7, <2>1
  <2>3. a = [n \in 0..N |-> a[n]]
    BY <1>5
  <2> QED
    BY <2>2, <2>3 DEF Stages, N
<1> DEFINE b == CHOOSE b : Stages(files, storable, b)
<1>9. Stages(files, storable, b)
  BY <1>8
<1>10. StageFiles(files, storable) = b[N]
  BY DEF StageFiles, Stages, N, Begun, OneStaged
<1> HIDE DEF b
<1>11. DOMAIN b = 0..N /\ b = [n \in 0..N |-> b[n]] /\ 0 \in 0..N
  BY <1>1, <1>9 DEF Stages, N
<1>12. b[0] = Begun
  BY <1>1, <1>9, <1>11 DEF Stages, N
<1>13. \A n \in 1..N : b[n] = OneStaged(b[n - 1], files[n], storable)
  BY <1>6, <1>9 DEF Stages, N
<1> DEFINE T == {n \in Nat : n <= N => b[n] \in Staging}
<1>14. T = Nat
  <2>1. 0 \in T
    BY <1>2, <1>12
  <2>2. ASSUME NEW n \in Nat, n \in T PROVE n + 1 \in T
    <3> SUFFICES ASSUME n + 1 <= N PROVE b[n + 1] \in Staging
      OBVIOUS
    <3>1. n <= N /\ n + 1 \in 1..N /\ (n + 1) - 1 = n
      BY <1>1
    <3>2. b[n] \in Staging
      BY <2>2, <3>1
    <3> QED
      BY <1>1, <1>13, <3>1, <3>2, OneStagedIs
  <2>3. T \in SUBSET Nat
    OBVIOUS
  <2> HIDE DEF T
  <2> QED
    BY <2>1, <2>2, <2>3, ByInduction
<1>15. \A n \in 0..N : b[n] \in Staging
  <2> TAKE n \in 0..N
  <2>1. n \in Nat /\ n <= N
    BY <1>1
  <2>2. n \in T
    BY <1>14, <2>1
  <2> QED
    BY <2>1, <2>2
<1>16. b \in [0..N -> Staging]
  BY <1>11, <1>15
<1> QED
  BY <1>10, <1>12, <1>13, <1>16 DEF N

\* Every file of the message has a verdict; none is in the composer twice, and
\* past the cap none is taken.
LEMMA StageVerdicts ==
    ASSUME pending \in Seq(Files), refusal \in BOOLEAN, IsInjective(pending),
           NEW files \in Seq(Files), IsInjective(files), Range(files) \cap Range(pending) = {},
           NEW storable, FileCap \in Nat
    PROVE  LET r == StageFiles(files, storable) IN
           /\ r \in Staging /\ IsInjective(r.chips)
           /\ Range(pending) \subseteq Range(r.chips)
           /\ Range(r.chips) \cup r.refused = Range(pending) \cup Range(files)
           /\ r.chips = pending \/ Len(r.chips) <= FileCap
<1> DEFINE N == Len(files)
           Seen(n) == {files[j] : j \in 1..n}
<1>1. N \in Nat /\ DOMAIN files = 1..N /\ \A k \in 1..N : files[k] \in Files
  OBVIOUS
<1>2. PICK a : /\ a \in [0..N -> Staging] /\ a[0] = Begun
               /\ \A n \in 1..N : a[n] = OneStaged(a[n - 1], files[n], storable)
               /\ StageFiles(files, storable) = a[N]
  BY StageIs
<1> HIDE DEF N
<1> DEFINE Good(n) == /\ a[n] \in Staging /\ IsInjective(a[n].chips)
                      /\ Range(pending) \subseteq Range(a[n].chips)
                      /\ Range(a[n].chips) \cup a[n].refused = Range(pending) \cup Seen(n)
                      /\ a[n].chips = pending \/ Len(a[n].chips) <= FileCap
           T == {n \in Nat : n <= N => Good(n)}
<1>3. Good(0)
  <2>1. a[0].chips = pending /\ a[0].refused = {} /\ a[0] \in Staging
    BY <1>1, <1>2 DEF Begun, Staging
  <2>2. Seen(0) = {}
    OBVIOUS
  <2> QED
    BY <2>1, <2>2
<1>4. ASSUME NEW n \in Nat, n + 1 <= N, Good(n) PROVE Good(n + 1)
  <2> DEFINE f == files[n + 1]
             c == a[n].chips
             d == a[n + 1].chips
  <2>1. n + 1 \in 1..N /\ (n + 1) - 1 = n /\ n + 1 \in 0..N
    BY <1>1, <1>4
  <2>2. a[n + 1] = OneStaged(a[n], f, storable) /\ f \in Files
    BY <1>1, <1>2, <2>1
  <2>3. /\ a[n + 1] \in Staging
        /\ \/ d = Append(c, f) /\ Len(c) < FileCap /\ a[n + 1].refused = a[n].refused
           \/ d = c /\ a[n + 1].refused = a[n].refused \cup {f}
    BY <1>4, <2>2, OneStagedIs, SMTT(30)
  <2>4. Seen(n + 1) = Seen(n) \cup {f}
    <3>1. 1..(n + 1) = 1..n \cup {n + 1}
      OBVIOUS
    <3> QED
      BY <3>1
  <2>5. f \notin Range(pending) /\ f \notin Seen(n)
    <3>1. f \in Range(files)
      BY <1>1, <2>1 DEF Range
    <3>2. \A j \in 1..n : j \in 1..N /\ j # n + 1
      BY <1>1, <2>1
    <3>3. \A j \in 1..n : files[j] # f
      BY <1>1, <2>1, <3>2 DEF IsInjective
    <3> QED
      BY <3>1, <3>3
  <2>6. c \in Seq(Files) /\ Range(c) \subseteq Range(pending) \cup Seen(n) /\ IsInjective(c)
    BY <1>4 DEF Staging
  <2>h. /\ Range(pending) \subseteq Range(c) /\ Range(c) \cup a[n].refused = Range(pending) \cup Seen(n)
        /\ c = pending \/ Len(c) <= FileCap
    BY <1>4
  <2> HIDE DEF c, d, f, Seen
  <2>7. CASE d = Append(c, f) /\ Len(c) < FileCap /\ a[n + 1].refused = a[n].refused
    <3>1. Range(d) = Range(c) \cup {f}
      BY <2>6, <2>7, AppendRange
    <3>2. IsInjective(d)
      BY <2>2, <2>5, <2>6, <2>7, AppendKeepsApart
    <3>3. Len(d) = Len(c) + 1 /\ Len(c) \in Nat
      BY <2>2, <2>6, <2>7
    <3>4. Len(d) <= FileCap
      BY <2>7, <3>3
    <3>5. Range(d) \cup a[n + 1].refused = Range(pending) \cup Seen(n + 1)
      BY <2>4, <2>7, <2>h, <3>1
    <3> QED
      BY <2>3, <2>h, <3>1, <3>2, <3>4, <3>5 DEF d
  <2>8. CASE d = c /\ a[n + 1].refused = a[n].refused \cup {f}
    <3>1. Range(d) \cup a[n + 1].refused = Range(pending) \cup Seen(n + 1)
      BY <2>4, <2>8, <2>h
    <3> QED
      BY <2>3, <2>6, <2>8, <2>h, <3>1 DEF d
  <2> QED
    BY <2>3, <2>7, <2>8
<1>5. Seen(N) = Range(files)
  BY <1>1 DEF Range
<1> HIDE DEF Good
<1>6. 0 \in T /\ T \in SUBSET Nat
  BY <1>3
<1>7. ASSUME NEW n \in Nat, n \in T PROVE n + 1 \in T
  <2>1. n + 1 <= N => n <= N
    BY <1>1
  <2> QED
    BY <1>4, <1>7, <2>1
<1>8. N \in T
  <2> HIDE DEF T
  <2>1. T = Nat
    BY <1>6, <1>7, ByInduction
  <2> QED
    BY <1>1, <2>1
<1>9. Good(N)
  BY <1>1, <1>8
<1> HIDE DEF Seen
<1> QED
  BY <1>2, <1>5, <1>9 DEF Good

-----------------------------------------------------------------------------
(* The inductive invariant.  Beside the properties themselves: outside the   *)
(* frame of a submit the hidden field says what the screen says; no more     *)
(* sends are under way than were made; a file on its way to the composer is  *)
(* there once and was never staged; and what is staged is in the composer,   *)
(* with a message, or in the transcript.                                     *)
FormOK ==
    /\ native \in BOOLEAN /\ steerable \in BOOLEAN /\ typed \in BOOLEAN /\ frame \in BOOLEAN
    /\ hidden \in Deliveries /\ shown \in BOOLEAN /\ rail \in Seq(1..MaxSends)
    /\ ~frame => hidden = DeliveryFor(shown, "primary")
WireOK ==
    /\ wire \in Seq(PushedEvents) /\ ChordIn(wire)
    /\ sends \in 0..MaxSends /\ Cardinality(SendsIn(wire)) <= sends
QueueOK == running \in BOOLEAN /\ waiting \in Seq(Messages) /\ cited \subseteq Files
Sent2 == RidingOn(waiting) \cup cited
FilesTyped ==
    /\ offered \in 0..MaxFiles /\ uploading \subseteq Files
    /\ pending \in Seq(Files) /\ IsInjective(pending) /\ refusal \in BOOLEAN
    /\ staged \subseteq 1..offered /\ Range(pending) \subseteq staged
    /\ staged \subseteq Range(pending) \cup Sent2
    /\ uploading \cap staged = {}
FreshHolds == FreshIn(wire, staged \cup uploading, offered)
CapHolds == Cardinality(Range(pending) \ Sent2) <= FileCap
Accounted == 1..offered = CarriedBy(wire) \cup uploading \cup Range(pending) \cup Sent2 \cup turnedAway
FilesOK == FilesTyped /\ FreshHolds /\ CapHolds /\ Accounted
ComposerInv == FormOK /\ WireOK /\ QueueOK /\ FilesOK

LEMMA ComposerBounded ==
    /\ FileCap \in Nat /\ MaxFiles \in Nat /\ MaxSends \in Nat /\ MaxWire \in Nat
    /\ Files \subseteq Nat /\ IsFiniteSet(Files)
<1>1. FileCap \in Nat /\ MaxFiles \in Nat /\ MaxSends \in Nat /\ MaxWire \in Nat
  BY ComposerBounds
<1> QED
  BY <1>1, FS_Interval DEF Files

\* What the invariant says in the terms of the model.
LEMMA ComposerInvImplies ==
    ASSUME ComposerInv
    PROVE  ComposerTypeOK /\ NothingGoesAstray
<1>1. RidingOn(waiting) = Riding /\ Sent = SendsIn(wire)
  BY DEF RidingOn, Riding, Sent, SendsIn
<1>2. ComposerTypeOK
  <2>1. staged \subseteq Files
    <3>1. 1..offered \subseteq Files
      BY ComposerBounded DEF ComposerInv, FilesOK, FilesTyped, Files
    <3> QED
      BY <3>1 DEF ComposerInv, FilesOK, FilesTyped
  <2> QED
    BY <1>1, <2>1 DEF ComposerInv, FormOK, WireOK, QueueOK, FilesOK, FilesTyped, CapHolds, Sent2, Messages, ComposerTypeOK
<1>3. NoFileVanishes
  <2>1. CarriedBy(wire) = UNION {Range(wire[i].files) : i \in {j \in DOMAIN wire : wire[j].ev \in {"attach_error", "attach_paths"}}}
    BY DEF CarriedBy
  <2>2. 1..offered = CarriedBy(wire) \cup uploading \cup Range(pending) \cup RidingOn(waiting) \cup cited \cup turnedAway
    BY DEF ComposerInv, FilesOK, Accounted, Sent2
  <2> QED
    <3>1. 1..offered = CarriedBy(wire) \cup uploading \cup Range(pending) \cup Riding \cup cited \cup turnedAway
      BY ONLY <1>1, <2>2
    <3> QED
      BY ONLY <3>1 DEF NoFileVanishes, CarriedBy
<1>4. ChordLastsOneMessage
  BY DEF ComposerInv, WireOK, ChordIn, ChordLastsOneMessage
<1> QED
  BY <1>2, <1>3, <1>4 DEF NothingGoesAstray

LEMMA ComposerStarts ==
    ASSUME ComposerInit
    PROVE  ComposerInv
<1>1. wire = <<>> /\ waiting = <<>> /\ pending = <<>> /\ rail = <<>> /\ offered = 0 /\ uploading = {} /\ staged = {}
      /\ cited = {} /\ turnedAway = {} /\ sends = 0
  BY DEF ComposerInit
<1>e. \A K : <<>> \in Seq(K)
  BY EmptySeq
<1>2. FormOK
  BY <1>e DEF ComposerInit, FormOK, DeliveryFor, Deliveries
<1>3. CarriedBy(<<>>) = {} /\ SendsIn(<<>>) = {} /\ RidingOn(<<>>) = {} /\ ChordIn(<<>>)
      /\ \A g, n : FreshIn(<<>>, g, n)
  BY DEF CarriedBy, SendsIn, RidingOn, ChordIn, FreshIn
<1>4. Cardinality({}) = 0
  BY FS_EmptySet
<1>5. WireOK
  <2>1. wire \in Seq(PushedEvents) /\ ChordIn(wire) /\ SendsIn(wire) = {}
    BY <1>1, <1>3, <1>e
  <2>2. sends \in 0..MaxSends /\ sends = 0
    BY ONLY <1>1, ComposerBounded
  <2> QED
    BY ONLY <1>4, <2>1, <2>2 DEF WireOK
<1>6. QueueOK
  BY <1>1, <1>e DEF ComposerInit, QueueOK
<1>7. Range(<<>>) = {} /\ IsInjective(<<>>)
  BY DEF Range, IsInjective
<1>8. FilesOK
  <2>1. Sent2 = {} /\ Range(pending) = {} /\ CarriedBy(wire) = {} /\ IsInjective(pending)
    BY <1>1, <1>3, <1>7 DEF Sent2
  <2>2. 1..offered = {}
    BY <1>1
  <2>3. FilesTyped
    <3>1. offered \in 0..MaxFiles
      BY ONLY <1>1, ComposerBounded
    <3>2. pending \in Seq(Files)
      BY ONLY <1>1, <1>e
    <3> QED
      BY <1>1, <2>1, <3>1, <3>2 DEF FilesTyped, ComposerInit
  <2>4. FreshHolds
    BY <1>1, <1>3 DEF FreshHolds
  <2>5. CapHolds
    BY <1>4, <2>1, ComposerBounded DEF CapHolds
  <2>6. Accounted
    BY <1>1, <2>1, <2>2 DEF Accounted
  <2> QED
    BY <2>3, <2>4, <2>5, <2>6 DEF FilesOK
<1> QED
  BY <1>2, <1>5, <1>6, <1>8 DEF ComposerInv

-----------------------------------------------------------------------------
(* The form.                                                               *)

LEMMA DeliveryTyped ==
    ASSUME steerable \in BOOLEAN, NEW on \in BOOLEAN, NEW which
    PROVE  DeliveryFor(on, which) \in Deliveries
BY DEF DeliveryFor, Deliveries

LEMMA FormKeeps ==
    ASSUME FormOK, QueueOK, ComposerNext
    PROVE  FormOK'
<1> USE DEF FormOK
<1>1. CASE Type
  BY <1>1 DEF Type, DeliveryFor
<1>2. ASSUME NEW intent \in {"primary", "secondary"}, Keydown(intent) PROVE FormOK'
  <2>1. hidden' = DeliveryFor(shown, intent) /\ frame' = TRUE /\ UNCHANGED <<native, steerable, typed, shown, rail>>
    BY <1>2 DEF Keydown, Submit
  <2> QED
    BY <2>1, DeliveryTyped
<1>3. CASE ClickPrimary \/ ClickSecondary
  BY <1>3 DEF ClickPrimary, ClickSecondary, Submit
<1>4. CASE SubmitFrame
  <2>1. /\ hidden' = DeliveryFor(shown, "primary") /\ frame' = FALSE /\ typed' = FALSE
        /\ UNCHANGED <<native, steerable, shown, rail>>
    BY <1>4 DEF SubmitFrame, FieldAfterSubmit
  <2> QED
    BY <2>1, DeliveryTyped DEF DeliveryFor
<1>5. CASE Render
  <2>1. /\ shown' = running /\ rail' = Ids(waiting) /\ UNCHANGED <<native, steerable, typed, frame>>
        /\ hidden' = IF shown' # shown THEN DeliveryFor(shown', "primary") ELSE hidden
    BY <1>5 DEF Render
  <2>2. rail' \in Seq(1..MaxSends)
    <3>1. Len(waiting) \in Nat /\ DOMAIN waiting = 1..Len(waiting) /\ \A i \in 1..Len(waiting) : waiting[i].id \in 1..MaxSends
      <4>1. waiting \in Seq(Messages)
        BY DEF QueueOK
      <4>2. Len(waiting) \in Nat /\ DOMAIN waiting = 1..Len(waiting) /\ \A i \in 1..Len(waiting) : waiting[i] \in Messages
        BY ONLY <4>1
      <4> QED
        BY ONLY <4>2 DEF Messages
    <3>2. rail' = [i \in 1..Len(waiting) |-> waiting[i].id]
      BY <2>1, <3>1 DEF Ids
    <3> QED
      BY <3>1, <3>2, IsASeq
  <2>3. DeliveryFor(shown', "primary") \in Deliveries
    BY <2>1, DeliveryTyped DEF QueueOK
  <2>4. DeliveryFor(shown, "primary")' = DeliveryFor(shown', "primary")
    BY <2>1 DEF DeliveryFor
  <2> QED
    BY <2>1, <2>2, <2>3, <2>4 DEF QueueOK
<1>6. CASE Escape \/ DragRail \/ Offer \/ Click \/ FinishRun
  BY <1>6 DEF Escape, DragRail, Offer, Click, FinishRun, AtServer, fieldVars, DeliveryFor
<1>7. CASE \E f \in Files : UploadDone(f) \/ UploadFails(f)
  BY <1>7 DEF UploadDone, UploadFails, fieldVars, DeliveryFor
<1>8. CASE AttachError \/ AttachPaths \/ RemoveAttachment \/ DismissError \/ SelectChat \/ ChatSend \/ ReorderQueue \/ CutRun
  BY <1>8 DEF AttachError, AttachPaths, RemoveAttachment, DismissError, SelectChat, ChatSend, ReorderQueue, CutRun,
     AtServer, fieldVars, DeliveryFor
<1> QED
  BY <1>1, <1>2, <1>3, <1>4, <1>5, <1>6, <1>7, <1>8 DEF ComposerNext

-----------------------------------------------------------------------------
(* The wire.                                                               *)

\* What holds of the wire after a note that carries no files to the composer.
LEMMA NotePushed ==
    ASSUME WireOK, NEW e \in PushedEvents, wire' = wire \o <<e>>,
           \/ e.ev = "send" /\ e.delivery = e.meant /\ sends < MaxSends /\ sends' = sends + 1
           \/ e.ev # "send" /\ sends' = sends
    PROVE  WireOK'
<1> DEFINE v == <<e>>
<1>1. v \in Seq(PushedEvents) /\ Len(v) = 1 /\ \A j \in DOMAIN v : v[j] = e
  OBVIOUS
<1> HIDE DEF v
<1>2. wire \in Seq(PushedEvents) /\ wire' \in Seq(PushedEvents) /\ wire' = wire \o v
  BY <1>1, ConcatPlaces DEF WireOK, v
<1>3. ChordIn(v) /\ ChordIn(wire)
  BY <1>1 DEF ChordIn, WireOK
<1>4. ChordIn(wire')
  BY <1>1, <1>2, <1>3, PushedChord
<1>5. /\ (\A j \in DOMAIN v : v[j].ev # "send") => SendsIn(wire') = SendsIn(wire)
      /\ Cardinality(SendsIn(wire')) <= Cardinality(SendsIn(wire)) + 1
  BY <1>1, <1>2, PushedSends
<1>6. /\ Cardinality(SendsIn(wire)) \in Nat /\ Cardinality(SendsIn(wire')) \in Nat
      /\ sends \in 0..MaxSends /\ Cardinality(SendsIn(wire)) <= sends /\ MaxSends \in Nat
  BY <1>2, SendsFinite, ComposerBounded DEF WireOK
<1>7. sends' \in 0..MaxSends /\ Cardinality(SendsIn(wire')) <= sends'
  <2>1. CASE e.ev = "send" /\ sends < MaxSends /\ sends' = sends + 1
    BY <1>5, <1>6, <2>1
  <2>2. CASE e.ev # "send" /\ sends' = sends
    <3>1. SendsIn(wire') = SendsIn(wire)
      BY <1>1, <1>5, <2>2
    <3> QED
      BY <1>6, <2>2, <3>1
  <2> QED
    BY <2>1, <2>2
<1>8. /\ ChordIn(wire)' = ChordIn(wire') /\ SendsIn(wire)' = SendsIn(wire')
  BY DEF ChordIn, SendsIn
<1> QED
  BY ONLY <1>2, <1>4, <1>7, <1>8 DEF WireOK

\* And what of the files.
LEMMA NoteCarriesNothing ==
    ASSUME wire \in Seq(PushedEvents), NEW e \in PushedEvents, e.ev \notin {"attach_error", "attach_paths"},
           wire' = wire \o <<e>>
    PROVE  /\ CarriedBy(wire') = CarriedBy(wire)
           /\ \A gone, n : FreshIn(wire, gone, n) => FreshIn(wire', gone, n)
<1> DEFINE v == <<e>>
<1>1. v \in Seq(PushedEvents) /\ \A j \in DOMAIN v : v[j] = e
  OBVIOUS
<1> HIDE DEF v
<1>2. wire' = wire \o v
  BY DEF v
<1>3. CarriedBy(v) = {} /\ \A gone, n : FreshIn(v, gone, n)
  BY <1>1 DEF CarriedBy, FreshIn
<1>4. CarriedBy(wire') = CarriedBy(wire)
  <2>1. CarriedBy(wire \o v) = CarriedBy(wire) \cup CarriedBy(v)
    BY ONLY <1>1, wire \in Seq(PushedEvents), PushedFiles
  <2> QED
    BY ONLY <1>2, <1>3, <2>1
<1>5. ASSUME NEW gone, NEW n, FreshIn(wire, gone, n) PROVE FreshIn(wire', gone, n)
  BY <1>1, <1>2, <1>3, <1>5, PushedFresh
<1> QED
  BY <1>4, <1>5

LEMMA WirePopped ==
    ASSUME WireOK, wire # <<>>, wire' = Tail(wire), sends' = sends
    PROVE  WireOK' /\ Head(wire) \in PushedEvents
<1>1. wire' \in Seq(PushedEvents) /\ Head(wire) \in PushedEvents /\ wire \in Seq(PushedEvents)
  BY TailPlaces DEF WireOK
<1>2. ChordIn(wire')
  BY <1>1, PoppedChord DEF WireOK
<1>3. Cardinality(SendsIn(wire')) <= Cardinality(SendsIn(wire))
  <2>1. /\ Cardinality(SendsIn(wire')) = Cardinality(SendsIn(wire) \ {1})
        /\ Head(wire).ev # "send" => SendsIn(wire) \ {1} = SendsIn(wire)
        /\ Head(wire).ev = "send" => Cardinality(SendsIn(wire) \ {1}) = Cardinality(SendsIn(wire)) - 1
    BY <1>1, PoppedSends
  <2>2. Cardinality(SendsIn(wire)) \in Nat
    BY <1>1, SendsFinite
  <2> QED
    BY <2>1, <2>2, SMTT(30)
<1>4. Cardinality(SendsIn(wire)) \in Nat /\ Cardinality(SendsIn(wire')) \in Nat /\ sends \in Nat
      /\ Cardinality(SendsIn(wire)) <= sends
  <2>1. Cardinality(SendsIn(wire)) \in Nat
    BY <1>1, SendsFinite
  <2>2. Cardinality(SendsIn(wire')) \in Nat
    BY <1>1, SendsFinite
  <2>3. sends \in 0..MaxSends /\ Cardinality(SendsIn(wire)) <= sends
    BY DEF WireOK
  <2>4. sends \in Nat
    BY ONLY <2>3, ComposerBounded
  <2> QED
    BY ONLY <2>1, <2>2, <2>3, <2>4
<1>5. Cardinality(SendsIn(wire')) <= sends'
  BY ONLY <1>3, <1>4, sends' = sends
<1>8. /\ ChordIn(wire)' = ChordIn(wire') /\ SendsIn(wire)' = SendsIn(wire')
  BY DEF ChordIn, SendsIn
<1>9. sends' \in 0..MaxSends
  BY DEF WireOK
<1> QED
  BY ONLY <1>1, <1>2, <1>5, <1>8, <1>9 DEF WireOK

LEMMA NoteTyped ==
    ASSUME NEW ev \in {"attach_error", "attach_paths", "remove", "dismiss", "select", "send", "reorder", "cut"},
           NEW files \in Seq(Nat)
    PROVE  Note(ev, files) \in PushedEvents /\ Note(ev, files).ev = ev /\ Note(ev, files).files = files
BY DEF Note, PushedEvents, Deliveries

\* The verdicts of one gesture: every file is taken or refused.
LEMMA GestureVerdicts ==
    ASSUME NEW files \in Seq(Files), IsInjective(files), NEW good
    PROVE  LET ok == Accepted(files, good)
               no == Rejected(files, good) IN
           /\ ok \in Seq(Files) /\ IsInjective(ok) /\ no \in Seq(Files)
           /\ Range(ok) \subseteq Range(files) /\ Range(ok) \cup Range(no) = Range(files)
<1> DEFINE fit == Only(files, good)
           ok == Accepted(files, good)
           no == Rejected(files, good)
           k == IF Len(fit) < Room THEN Len(fit) ELSE Room
<1>1. fit \in Seq(Files) /\ Range(fit) \subseteq Range(files) /\ IsInjective(fit)
  <2> DEFINE I == {i \in DOMAIN files : files[i] \in good}
  <2>1. fit = PickAt(files, I)
    BY DEF Only
  <2> HIDE DEF I, fit
  <2>2. /\ fit \in Seq(Files) /\ IsInjective(fit)
        /\ Range(fit) = {files[i] : i \in {j \in DOMAIN files : j \in I}}
    BY <2>1, PickAtRange
  <2> QED
    BY <2>2 DEF Range
<1>2. ok = SubSeq(fit, 1, k)
  BY DEF Accepted
<1>3. Room \in Nat
  BY ComposerBounded DEF Room
<1> HIDE DEF fit
<1>4. k \in 0..Len(fit)
  <2>1. Len(fit) \in Nat
    BY <1>1
  <2> QED
    BY ONLY <1>3, <2>1
<1>5. ok \in Seq(Files) /\ Range(ok) \subseteq Range(files) /\ IsInjective(ok)
  BY <1>1, <1>2, <1>4, PrefixOf
<1> HIDE DEF ok
<1>6. no \in Seq(Files) /\ Range(ok) \cup Range(no) = Range(files)
  <2> DEFINE I == {i \in DOMAIN files : files[i] \notin Range(ok)}
  <2>1. no = PickAt(files, I)
    BY DEF Rejected, AllBut, ok
  <2> HIDE DEF I, no
  <2>2. no \in Seq(Files) /\ Range(no) = {files[i] : i \in {j \in DOMAIN files : j \in I}}
    BY <2>1, PickAtRange
  <2>3. Range(no) = Range(files) \ Range(ok)
    BY <2>2 DEF I, Range
  <2> QED
    BY <1>5, <2>2, <2>3
<1> QED
  BY <1>5, <1>6 DEF ok

\* The refusals, and the files of a drop, as notes.
LEMMA RefusalsCarry ==
    ASSUME NEW no \in Seq(Files)
    PROVE  /\ Refusals(no) \in Seq(PushedEvents) /\ CarriedBy(Refusals(no)) = Range(no)
           /\ \A j \in DOMAIN Refusals(no) : Refusals(no)[j].ev = "attach_error"
<1> DEFINE r == Refusals(no)
<1>1. Len(no) \in Nat /\ DOMAIN no = 1..Len(no) /\ \A i \in 1..Len(no) : no[i] \in Files /\ no[i] \in Nat
  <2>1. Len(no) \in Nat /\ DOMAIN no = 1..Len(no) /\ \A i \in 1..Len(no) : no[i] \in Files
    BY ONLY no \in Seq(Files)
  <2> QED
    BY ONLY <2>1, ComposerBounded
<1>2. r = [i \in 1..Len(no) |-> Note("attach_error", <<no[i]>>)]
  BY <1>1 DEF Refusals
<1> HIDE DEF r
<1>3. \A i \in 1..Len(no) : <<no[i]>> \in Seq(Nat) /\ Range(<<no[i]>>) = {no[i]}
  BY <1>1 DEF Range
<1>4. \A i \in 1..Len(no) : r[i] \in PushedEvents /\ r[i].ev = "attach_error" /\ r[i].files = <<no[i]>>
  <2> TAKE i \in 1..Len(no)
  <2>1. r[i] = Note("attach_error", <<no[i]>>)
    BY <1>2
  <2>2. <<no[i]>> \in Seq(Nat)
    BY <1>3
  <2>3. /\ Note("attach_error", <<no[i]>>) \in PushedEvents
        /\ Note("attach_error", <<no[i]>>).ev = "attach_error" /\ Note("attach_error", <<no[i]>>).files = <<no[i]>>
    BY ONLY <2>2 DEF Note, PushedEvents, Deliveries
  <2> QED
    BY ONLY <2>1, <2>3
<1>5. r \in Seq(PushedEvents) /\ DOMAIN r = 1..Len(no)
  <2>1. r = [i \in 1..Len(no) |-> r[i]] /\ DOMAIN r = 1..Len(no)
    BY ONLY <1>2
  <2>2. r \in [1..Len(no) -> PushedEvents]
    BY ONLY <1>4, <2>1
  <2>3. r \in Seq(PushedEvents)
    BY ONLY <1>1, <1>4, <2>1, IsASeq
  <2> QED
    BY ONLY <2>1, <2>3
<1>6. \A i \in 1..Len(no) : FilesOf(r[i]) = {no[i]}
  BY <1>3, <1>4 DEF FilesOf
<1>7. ASSUME NEW x PROVE x \in CarriedBy(r) <=> x \in Range(no)
  <2>1. x \in CarriedBy(r) <=> \E i \in DOMAIN r : x \in FilesOf(r[i])
    BY CarriedMember
  <2> QED
    BY <1>1, <1>5, <1>6, <2>1 DEF Range
<1>8. CarriedBy(r) = Range(no)
  BY <1>7
<1> QED
  BY <1>4, <1>5, <1>8 DEF r

\* What a gesture pushes: the refusals, and the files that were dropped.
LEMMA GesturePushes ==
    ASSUME NEW ok \in Seq(Files), IsInjective(ok), NEW no \in Seq(Files), NEW drops \in BOOLEAN
    PROVE  LET v == Refusals(no) \o IF drops /\ ok # <<>> THEN <<Note("attach_paths", ok)>> ELSE <<>> IN
           /\ v \in Seq(PushedEvents)
           /\ CarriedBy(v) = Range(no) \cup IF drops THEN Range(ok) ELSE {}
           /\ \A j \in DOMAIN v : v[j].ev \in {"attach_error", "attach_paths"}
           /\ \A gone, m : Range(ok) \subseteq (1..m) \ gone => FreshIn(v, gone, m)
<1> DEFINE r == Refusals(no)
           last == IF drops /\ ok # <<>> THEN <<Note("attach_paths", ok)>> ELSE <<>>
           v == r \o last
<1>1. /\ r \in Seq(PushedEvents) /\ CarriedBy(r) = Range(no)
      /\ \A j \in DOMAIN r : r[j].ev = "attach_error"
  BY RefusalsCarry
<1>2. /\ last \in Seq(PushedEvents) /\ CarriedBy(last) = IF drops THEN Range(ok) ELSE {}
      /\ \A j \in DOMAIN last : last[j].ev = "attach_paths" /\ j = 1 /\ last[j].files = ok
  <2>1. CASE drops /\ ok # <<>>
    <3>1. ok \in Seq(Nat)
      <4>1. Len(ok) \in Nat /\ \A i \in 1..Len(ok) : ok[i] \in Files
        OBVIOUS
      <4>2. ok = [i \in 1..Len(ok) |-> ok[i]] /\ \A i \in 1..Len(ok) : ok[i] \in Nat
        BY <4>1, ComposerBounded
      <4> QED
        BY <4>1, <4>2, IsASeq
    <3> DEFINE e == Note("attach_paths", ok)
    <3>2. e \in PushedEvents /\ e.ev = "attach_paths" /\ e.files = ok
      BY <3>1, NoteTyped
    <3>3. last = <<e>>
      BY <2>1
    <3> HIDE DEF e, last
    <3>4. DOMAIN last = {1} /\ last[1] = e /\ last \in Seq(PushedEvents)
      BY <3>2, <3>3
    <3> QED
      BY <2>1, <3>2, <3>4 DEF CarriedBy
  <2>2. CASE ~(drops /\ ok # <<>>)
    <3>1. last = <<>>
      BY <2>2
    <3> HIDE DEF last
    <3>2. last \in Seq(PushedEvents) /\ CarriedBy(last) = {} /\ DOMAIN last = {}
      BY <3>1, EmptySeq DEF CarriedBy
    <3>3. ok = <<>> => Range(ok) = {}
      BY DEF Range
    <3> QED
      BY <2>2, <3>2, <3>3
  <2> QED
    BY <2>1, <2>2
<1> HIDE DEF r, last
<1>3. v \in Seq(PushedEvents) /\ CarriedBy(v) = Range(no) \cup IF drops THEN Range(ok) ELSE {}
  <2>1. v \in Seq(PushedEvents)
    BY <1>1, <1>2, ConcatPlaces
  <2>2. CarriedBy(v) = CarriedBy(r) \cup CarriedBy(last)
    BY <1>1, <1>2, PushedFiles
  <2> QED
    BY <1>1, <1>2, <2>1, <2>2
<1>4. \A j \in DOMAIN v : \/ v[j].ev = "attach_error"
                          \/ v[j].ev = "attach_paths" /\ j = Len(r) + 1 /\ v[j].files = ok
  <2> TAKE j \in DOMAIN v
  <2>1. CASE j \in DOMAIN r
    BY <1>1, <1>2, <2>1, ConcatPlaces
  <2>2. CASE \E i \in DOMAIN last : j = Len(r) + i
    BY <1>1, <1>2, <2>2, ConcatPlaces
  <2> QED
    BY <1>1, <1>2, <2>1, <2>2, ConcatPlaces
<1> HIDE DEF v
<1>5. ASSUME NEW gone, NEW m, Range(ok) \subseteq (1..m) \ gone PROVE FreshIn(v, gone, m)
  BY <1>4, <1>5 DEF FreshIn
<1>6. \A j \in DOMAIN v : v[j].ev \in {"attach_error", "attach_paths"}
  BY <1>4
<1> QED
  BY <1>3, <1>5, <1>6 DEF v, r, last

\* What holds of the wire after a gesture.
LEMMA GesturePushed ==
    ASSUME WireOK, NEW v \in Seq(PushedEvents), \A j \in DOMAIN v : v[j].ev # "send",
           wire' = wire \o v, sends' = sends
    PROVE  WireOK'
<1>1. wire \in Seq(PushedEvents) /\ wire' \in Seq(PushedEvents)
  BY ConcatPlaces DEF WireOK
<1>2. ChordIn(v) /\ ChordIn(wire)
  BY DEF ChordIn, WireOK
<1>3. ChordIn(wire')
  BY <1>1, <1>2, PushedChord
<1>4. SendsIn(wire') = SendsIn(wire)
  BY <1>1, PushedSends
<1>5. sends' \in 0..MaxSends /\ Cardinality(SendsIn(wire')) <= sends'
  BY <1>4 DEF WireOK
<1>6. /\ ChordIn(wire)' = ChordIn(wire') /\ SendsIn(wire)' = SendsIn(wire')
  BY DEF ChordIn, SendsIn
<1> QED
  BY ONLY <1>1, <1>3, <1>5, <1>6 DEF WireOK

\* The files of one gesture: those after the files offered before.
LEMMA OfferedFiles ==
    ASSUME offered \in 0..MaxFiles, NEW n \in 1..(MaxFiles - offered), NEW files,
           files = [i \in 1..n |-> offered + i]
    PROVE  /\ files \in Seq(Files) /\ IsInjective(files)
           /\ offered + n \in 0..MaxFiles /\ 1..offered \subseteq 1..(offered + n)
           /\ Range(files) = (1..(offered + n)) \ (1..offered)
<1>1. offered \in Nat /\ n \in Nat /\ MaxFiles \in Nat /\ offered + n <= MaxFiles /\ n >= 1
  BY ComposerBounded
<1>2. \A i \in 1..n : offered + i \in 1..(offered + n) /\ offered + i \in 1..MaxFiles /\ offered + i \notin 1..offered
  BY <1>1
<1>3. \A f \in (1..(offered + n)) \ (1..offered) : f - offered \in 1..n /\ offered + (f - offered) = f
  BY <1>1
<1>4. \A i, j \in 1..n : offered + i = offered + j => i = j
  BY <1>1
<1>5. files \in Seq(Files)
  <2>1. \A i \in 1..n : offered + i \in Files
    BY <1>2 DEF Files
  <2> QED
    BY <1>1, <2>1
<1>6. DOMAIN files = 1..n /\ \A i \in 1..n : files[i] = offered + i
  OBVIOUS
<1>7. IsInjective(files)
  BY <1>4, <1>6 DEF IsInjective
<1>8. Range(files) = (1..(offered + n)) \ (1..offered)
  BY <1>2, <1>3, <1>6 DEF Range
<1>9. offered + n \in 0..MaxFiles /\ 1..offered \subseteq 1..(offered + n)
  BY <1>1
<1> QED
  BY <1>5, <1>7, <1>8, <1>9

\* A gesture pushes its verdicts: refusals for what is not taken, and for a drop
\* what is; otherwise what is taken is uploading.
LEMMA OfferPushes ==
    ASSUME Offer, offered \in 0..MaxFiles
    PROVE  \E n \in 1..(MaxFiles - offered), v \in Seq(PushedEvents), ok \in Seq(Files), no \in Seq(Files) :
              /\ wire' = wire \o v /\ offered' = offered + n
              /\ Range(ok) \cup Range(no) = (1..(offered + n)) \ (1..offered)
              /\ \A j \in DOMAIN v : v[j].ev # "send"
              /\ \/ uploading' = uploading /\ CarriedBy(v) = Range(no) \cup Range(ok)
                    /\ \A gone, m : Range(ok) \subseteq (1..m) \ gone => FreshIn(v, gone, m)
                 \/ uploading' = uploading \cup Range(ok) /\ CarriedBy(v) = Range(no)
                    /\ \A gone, m : FreshIn(v, gone, m)
<1>1. PICK n \in 1..(MaxFiles - offered) :
        /\ \E good \in Acceptable([i \in 1..n |-> offered + i]) :
             TakePaths([i \in 1..n |-> offered + i], good) \/ TakeFiles([i \in 1..n |-> offered + i], good)
        /\ offered' = offered + n
  BY DEF Offer
<1> DEFINE files == [i \in 1..n |-> offered + i]
<1>2. PICK good \in Acceptable(files) : TakePaths(files, good) \/ TakeFiles(files, good)
  BY <1>1
<1>3. files \in Seq(Files) /\ IsInjective(files) /\ Range(files) = (1..(offered + n)) \ (1..offered)
  BY OfferedFiles
<1> HIDE DEF files
<1> DEFINE ok == Accepted(files, good)
           no == Rejected(files, good)
<1>4. /\ ok \in Seq(Files) /\ IsInjective(ok) /\ no \in Seq(Files)
      /\ Range(ok) \cup Range(no) = (1..(offered + n)) \ (1..offered)
  BY <1>3, GestureVerdicts
<1>5. CASE TakePaths(files, good)
  <2> DEFINE v == Refusals(no) \o IF ok # <<>> THEN <<Note("attach_paths", ok)>> ELSE <<>>
  <2>1. wire' = wire \o v /\ uploading' = uploading
    BY <1>5 DEF TakePaths, PushNotes
  <2>2. v = Refusals(no) \o IF TRUE /\ ok # <<>> THEN <<Note("attach_paths", ok)>> ELSE <<>>
    OBVIOUS
  <2> HIDE DEF ok, no, v
  <2>3. /\ v \in Seq(PushedEvents) /\ CarriedBy(v) = Range(no) \cup Range(ok)
        /\ \A j \in DOMAIN v : v[j].ev \in {"attach_error", "attach_paths"}
        /\ \A gone, m : Range(ok) \subseteq (1..m) \ gone => FreshIn(v, gone, m)
    BY <1>4, <2>2, GesturePushes
  <2>4. \A j \in DOMAIN v : v[j].ev # "send"
    BY <2>3
  <2> QED
    BY ONLY <1>1, <1>4, <2>1, <2>3, <2>4
<1>6. CASE TakeFiles(files, good)
  <2> DEFINE v == Refusals(no)
  <2>1. wire' = wire \o v /\ uploading' = uploading \cup Range(ok)
    BY <1>6 DEF TakeFiles, PushNotes
  <2> HIDE DEF ok, no
  <2>2. v \in Seq(PushedEvents) /\ CarriedBy(v) = Range(no) /\ \A j \in DOMAIN v : v[j].ev = "attach_error"
    BY <1>4, RefusalsCarry
  <2> HIDE DEF v
  <2>3. (\A gone, m : FreshIn(v, gone, m)) /\ \A j \in DOMAIN v : v[j].ev # "send"
    BY <2>2 DEF FreshIn
  <2> QED
    BY ONLY <1>1, <1>4, <2>1, <2>2, <2>3
<1> QED
  BY <1>2, <1>5, <1>6

\* The actions that leave the wire alone; those that push a note that carries
\* no files; and those of the LiveView, which take the first.
Still == Type \/ SubmitFrame \/ Render \/ FinishRun \/ \E f \in Files : UploadDone(f) \/ UploadFails(f)
Pushes == \/ \E intent \in {"primary", "secondary"} : Keydown(intent)
          \/ ClickPrimary \/ ClickSecondary \/ Escape \/ DragRail \/ Click
Served == AttachError \/ AttachPaths \/ RemoveAttachment \/ DismissError \/ SelectChat
          \/ ChatSend \/ ReorderQueue \/ CutRun

LEMMA StillLeavesTheWire ==
    ASSUME Still
    PROVE  UNCHANGED <<wire, sends>>
BY DEF Still, Type, SubmitFrame, Render, FinishRun, AtServer, UploadDone, UploadFails

LEMMA ServedTakesTheFirst ==
    ASSUME Served
    PROVE  wire # <<>> /\ wire' = Tail(wire) /\ sends' = sends
BY DEF Served, AttachError, AttachPaths, RemoveAttachment, DismissError, SelectChat, ChatSend, ReorderQueue,
   CutRun, AtServer, Next1

\* A submit says what it means: what it delivers is what the screen said.
LEMMA SubmitPushes ==
    ASSUME NEW which, NEW delivery \in Deliveries, Submit(which, delivery), delivery = DeliveryFor(shown, which),
           typed \in BOOLEAN
    PROVE  \E e \in PushedEvents :
              /\ wire' = wire \o <<e>> /\ e.ev = "send" /\ e.delivery = e.meant
              /\ sends < MaxSends /\ sends' = sends + 1
<1> DEFINE e == [Note("send", <<>>) EXCEPT !.delivery = delivery, !.meant = DeliveryFor(shown, which), !.words = typed]
<1>1. wire' = wire \o <<e>> /\ sends < MaxSends /\ sends' = sends + 1
  BY DEF Submit, PushNotes
<1>2. e \in PushedEvents /\ e.ev = "send" /\ e.delivery = e.meant
  <2> DEFINE d == DeliveryFor(shown, which)
             b == Note("send", <<>>)
             b1 == [b EXCEPT !.delivery = delivery]
             b2 == [b1 EXCEPT !.meant = d]
             b3 == [b2 EXCEPT !.words = typed]
  <2>1. d = delivery /\ d \in Deliveries
    OBVIOUS
  <2>2. b \in PushedEvents /\ b.ev = "send"
    <3>1. <<>> \in Seq(Nat)
      BY EmptySeq
    <3> QED
      BY ONLY <3>1 DEF Note, PushedEvents, Deliveries
  <2>3. e = b3
    OBVIOUS
  <2> HIDE DEF b, e, d
  <2>4. b1 \in PushedEvents /\ b1.ev = "send" /\ b1.delivery = delivery
    BY ONLY <2>1, <2>2 DEF PushedEvents
  <2> HIDE DEF b1
  <2>5. b2 \in PushedEvents /\ b2.ev = "send" /\ b2.delivery = delivery /\ b2.meant = d
    BY ONLY <2>1, <2>4 DEF PushedEvents
  <2> HIDE DEF b2
  <2>6. b3 \in PushedEvents /\ b3.ev = "send" /\ b3.delivery = delivery /\ b3.meant = d
    BY ONLY <2>1, <2>5, typed \in BOOLEAN DEF PushedEvents
  <2> HIDE DEF b3
  <2> QED
    BY ONLY <2>1, <2>3, <2>6
<1> QED
  BY <1>1, <1>2

\* The notes of the operator, none of which carries a file to the composer.
LEMMA PushesANote ==
    ASSUME FormOK, Pushes
    PROVE  \E e \in PushedEvents :
              /\ wire' = wire \o <<e>> /\ e.ev \notin {"attach_error", "attach_paths"}
              /\ \/ e.ev = "send" /\ e.delivery = e.meant /\ sends < MaxSends /\ sends' = sends + 1
                 \/ e.ev # "send" /\ sends' = sends
<1>e. <<>> \in Seq(Nat)
  BY EmptySeq
<1>0. /\ hidden \in Deliveries /\ typed \in BOOLEAN /\ shown \in BOOLEAN /\ steerable \in BOOLEAN
      /\ ~frame => hidden = DeliveryFor(shown, "primary")
  BY DEF FormOK
<1>1. ASSUME NEW intent \in {"primary", "secondary"}, Keydown(intent)
      PROVE  \E e \in PushedEvents :
                /\ wire' = wire \o <<e>> /\ e.ev = "send" /\ e.delivery = e.meant
                /\ sends < MaxSends /\ sends' = sends + 1
  <2>1. hidden' = DeliveryFor(shown, intent) /\ Submit(intent, hidden')
    BY <1>1 DEF Keydown
  <2>2. DeliveryFor(shown, intent) \in Deliveries
    BY <1>0, DeliveryTyped
  <2>3. Submit(intent, DeliveryFor(shown, intent))
    BY <2>1
  <2> QED
    BY <1>0, <2>2, <2>3, SubmitPushes
<1>2. CASE ClickPrimary
  <2>1. Submit("primary", hidden) /\ hidden = DeliveryFor(shown, "primary")
    BY <1>0, <1>2 DEF ClickPrimary
  <2>2. \E e \in PushedEvents :
            /\ wire' = wire \o <<e>> /\ e.ev = "send" /\ e.delivery = e.meant
            /\ sends < MaxSends /\ sends' = sends + 1
    BY <1>0, <2>1, SubmitPushes
  <2> QED
    BY <2>2
<1>3. CASE ClickSecondary
  <2>1. Submit("secondary", "next") /\ "next" = DeliveryFor(shown, "secondary") /\ "next" \in Deliveries
    BY <1>0, <1>3 DEF ClickSecondary, DeliveryFor, Deliveries
  <2>2. \E e \in PushedEvents :
            /\ wire' = wire \o <<e>> /\ e.ev = "send" /\ e.delivery = e.meant
            /\ sends < MaxSends /\ sends' = sends + 1
    BY <1>0, <2>1, SubmitPushes
  <2> QED
    BY <2>2
<1>4. CASE Escape
  <2>1. wire' = wire \o <<Note("cut", <<>>)>> /\ sends' = sends
    BY <1>4 DEF Escape, PushNotes
  <2>2. Note("cut", <<>>) \in PushedEvents /\ Note("cut", <<>>).ev = "cut"
    BY ONLY <1>e DEF Note, PushedEvents, Deliveries
  <2> QED
    BY <2>1, <2>2
<1>5. CASE DragRail
  <2>1. PICK i \in DOMAIN rail : wire' = wire \o <<Note("reorder", [rail EXCEPT ![1] = rail[i], ![i] = rail[1]])>>
    BY <1>5 DEF DragRail, PushNotes
  <2> DEFINE r == [rail EXCEPT ![1] = rail[i], ![i] = rail[1]]
  <2>2. r \in Seq(Nat)
    <3>1. rail \in Seq(1..MaxSends) /\ i \in DOMAIN rail
      BY DEF FormOK
    <3>2. Len(rail) \in Nat /\ DOMAIN rail = 1..Len(rail) /\ \A k \in 1..Len(rail) : rail[k] \in Nat
      BY ONLY <3>1, ComposerBounded
    <3>3. 1 \in 1..Len(rail) /\ i \in 1..Len(rail)
      BY ONLY <3>1, <3>2
    <3> DEFINE q == [rail EXCEPT ![1] = rail[i]]
    <3>4. q = [k \in 1..Len(rail) |-> IF k = 1 THEN rail[i] ELSE rail[k]]
      BY ONLY <3>2, <3>3
    <3>5. r = [q EXCEPT ![i] = rail[1]]
      OBVIOUS
    <3> HIDE DEF q, r
    <3>6. r = [k \in 1..Len(rail) |-> IF k = i THEN rail[1] ELSE q[k]]
      BY ONLY <3>3, <3>4, <3>5
    <3>7. \A k \in 1..Len(rail) : (IF k = i THEN rail[1] ELSE q[k]) \in Nat
      BY ONLY <3>2, <3>3, <3>4
    <3> QED
      BY ONLY <3>2, <3>6, <3>7
  <2>3. wire' = wire \o <<Note("reorder", r)>> /\ sends' = sends
    BY <1>5, <2>1 DEF DragRail
  <2> HIDE DEF r
  <2>4. Note("reorder", r) \in PushedEvents /\ Note("reorder", r).ev = "reorder"
    BY ONLY <2>2 DEF Note, PushedEvents, Deliveries
  <2> QED
    BY <2>3, <2>4
<1>6. CASE Click
  <2>1. sends' = sends /\ \/ wire' = wire \o <<Note("dismiss", <<>>)>>
                          \/ wire' = wire \o <<Note("select", <<>>)>>
                          \/ \E f \in Files : wire' = wire \o <<Note("remove", <<f>>)>>
    BY <1>6 DEF Click, ClickChip, ClickDismiss, ClickChat, PushNotes
  <2>2. CASE wire' = wire \o <<Note("dismiss", <<>>)>>
    <3>1. Note("dismiss", <<>>) \in PushedEvents /\ Note("dismiss", <<>>).ev = "dismiss"
      BY ONLY <1>e DEF Note, PushedEvents, Deliveries
    <3> QED
      BY <2>1, <2>2, <3>1
  <2>3. CASE wire' = wire \o <<Note("select", <<>>)>>
    <3>1. Note("select", <<>>) \in PushedEvents /\ Note("select", <<>>).ev = "select"
      BY ONLY <1>e DEF Note, PushedEvents, Deliveries
    <3> QED
      BY <2>1, <2>3, <3>1
  <2>4. ASSUME NEW f \in Files, wire' = wire \o <<Note("remove", <<f>>)>>
        PROVE  \E e \in PushedEvents : wire' = wire \o <<e>> /\ e.ev \notin {"attach_error", "attach_paths", "send"}
    <3>1. <<f>> \in Seq(Nat)
      BY ONLY f \in Files, ComposerBounded
    <3>2. Note("remove", <<f>>) \in PushedEvents /\ Note("remove", <<f>>).ev = "remove"
      BY ONLY <3>1 DEF Note, PushedEvents, Deliveries
    <3> QED
      BY <2>4, <3>2
  <2> QED
    BY <2>1, <2>2, <2>3, <2>4
<1> QED
  BY <1>1, <1>2, <1>3, <1>4, <1>5, <1>6 DEF Pushes

LEMMA WireKeeps ==
    ASSUME FormOK, WireOK, offered \in 0..MaxFiles, Still \/ Pushes \/ Offer \/ Served
    PROVE  WireOK'
<1>1. CASE Still
  <2>1. UNCHANGED <<wire, sends>>
    BY <1>1, StillLeavesTheWire
  <2> QED
    BY <2>1 DEF WireOK, ChordIn, SendsIn
<1>2. CASE Pushes
  <2>1. PICK e \in PushedEvents :
              /\ wire' = wire \o <<e>>
              /\ \/ e.ev = "send" /\ e.delivery = e.meant /\ sends < MaxSends /\ sends' = sends + 1
                 \/ e.ev # "send" /\ sends' = sends
    BY <1>2, PushesANote
  <2> QED
    BY <2>1, NotePushed
<1>3. CASE Offer
  <2>1. PICK v \in Seq(PushedEvents) : wire' = wire \o v /\ \A j \in DOMAIN v : v[j].ev # "send"
    BY <1>3, OfferPushes
  <2>2. sends' = sends
    BY <1>3 DEF Offer
  <2> QED
    BY <2>1, <2>2, GesturePushed
<1>4. CASE Served
  BY <1>4, ServedTakesTheFirst, WirePopped
<1> QED
  BY <1>1, <1>2, <1>3, <1>4

-----------------------------------------------------------------------------
(* The conversation.                                                       *)

\* A message that is sent is in the transcript or in the queue.
LEMMA ChatSendSends ==
    ASSUME WireOK, QueueOK, pending \in Seq(Files), refusal \in BOOLEAN, ChatSend
    PROVE  /\ QueueOK' /\ refusal' \in BOOLEAN
           /\ \/ pending' = pending /\ RidingOn(waiting') \cup cited' = Sent2
              \/ pending' \in {pending, <<>>} /\ RidingOn(waiting') \cup cited' = Sent2 \cup Range(pending)
<1> DEFINE n == sends - Cardinality(Sent \ {1})
           m == [id |-> n, files |-> pending]
           sendable == (Head(wire).words \/ pending # <<>>) /\ ~refusal
<1>1. n \in 1..MaxSends
  <2> DEFINE c == Cardinality(SendsIn(wire))
             d == Cardinality(SendsIn(wire) \ {1})
  <2>1. wire # <<>> /\ Head(wire).ev = "send" /\ wire \in Seq(PushedEvents)
    BY DEF ChatSend, Next1, WireOK
  <2>2. d = c - 1 /\ IsFiniteSet(SendsIn(wire)) /\ c \in Nat
    BY <2>1, PoppedSends, SendsFinite
  <2>3. d \in Nat
    BY <2>2, FS_Subset, FS_CardinalityType
  <2>4. c <= sends /\ sends \in 0..MaxSends /\ Sent = SendsIn(wire)
    BY DEF WireOK, Sent, SendsIn
  <2>5. n = sends - d
    BY <2>4
  <2> HIDE DEF n, c, d
  <2> QED
    BY ONLY <2>2, <2>3, <2>4, <2>5, ComposerBounded
<1>2. \/ ~sendable /\ UNCHANGED <<turnVars, pending, refusal>>
      \/ sendable /\ (StartsTurn(m) \/ FailsToStart(m) \/ Queues(m) \/ Steers(m, Head(wire).delivery))
  BY DEF ChatSend
<1> HIDE DEF n, sendable
<1>3. m \in Messages /\ m.files = pending
  BY <1>1 DEF Messages
<1> HIDE DEF m
<1>4. waiting \in Seq(Messages) /\ running \in BOOLEAN /\ cited \subseteq Files /\ Range(pending) \subseteq Files
  BY DEF QueueOK, Range
<1>5. /\ Append(waiting, m) \in Seq(Messages) /\ RidingOn(Append(waiting, m)) = RidingOn(waiting) \cup Range(pending)
      /\ <<m>> \o waiting \in Seq(Messages) /\ RidingOn(<<m>> \o waiting) = RidingOn(waiting) \cup Range(pending)
  BY <1>3, <1>4, RidingGrows
<1>6. CASE ~sendable /\ UNCHANGED <<turnVars, pending, refusal>>
  <2>1. waiting' = waiting /\ cited' = cited /\ running' = running /\ pending' = pending /\ refusal' = refusal
    BY <1>6 DEF turnVars
  <2> QED
    BY ONLY <1>4, <2>1, refusal \in BOOLEAN DEF QueueOK, Sent2
<1>7. CASE StartsTurn(m)
  <2>1. waiting' = waiting /\ cited' = cited \cup Range(pending) /\ running' = TRUE /\ pending' = <<>> /\ refusal' = FALSE
    BY <1>3, <1>7 DEF StartsTurn, Begin, ClearComposer
  <2> QED
    BY ONLY <1>4, <2>1 DEF QueueOK, Sent2
<1>8. CASE FailsToStart(m)
  <2>1. waiting' = waiting /\ cited' = cited \cup Range(pending) /\ running' = running /\ pending' = pending /\ refusal' = refusal
    BY <1>3, <1>8 DEF FailsToStart, Begin
  <2> QED
    BY ONLY <1>4, <2>1, refusal \in BOOLEAN DEF QueueOK, Sent2
<1>9. CASE Queues(m)
  <2>1. waiting' = Append(waiting, m) /\ cited' = cited /\ running' = running /\ pending' = <<>> /\ refusal' = FALSE
    BY <1>9 DEF Queues, ClearComposer
  <2> QED
    BY ONLY <1>4, <1>5, <2>1 DEF QueueOK, Sent2
<1>10. CASE Steers(m, Head(wire).delivery)
  <2>1. /\ running' = running /\ pending' = <<>> /\ refusal' = FALSE
        /\ \/ waiting' = waiting /\ cited' = cited \cup Range(pending)
           \/ waiting' = <<m>> \o waiting /\ cited' = cited
    BY <1>3, <1>10 DEF Steers, Begin, ClearComposer
  <2> QED
    BY ONLY <1>4, <1>5, <2>1 DEF QueueOK, Sent2
<1> QED
  BY <1>2, <1>6, <1>7, <1>8, <1>9, <1>10

\* The messages tried when a turn ends go from the queue to the transcript.
LEMMA TurnEndsCites ==
    ASSUME QueueOK, TurnEnds
    PROVE  QueueOK' /\ RidingOn(waiting') \cup cited' = Sent2
<1>1. PICK failed \in 0..Len(waiting) :
        LET tried == SubSeq(waiting, 1, IF failed < Len(waiting) THEN failed + 1 ELSE failed) IN
        /\ running' = (failed < Len(waiting))
        /\ waiting' = SubSeq(waiting, Len(tried) + 1, Len(waiting))
        /\ cited' = cited \cup UNION {Range(tried[i].files) : i \in DOMAIN tried}
  BY DEF TurnEnds
<1> DEFINE k == IF failed < Len(waiting) THEN failed + 1 ELSE failed
           tried == SubSeq(waiting, 1, k)
<1>2. waiting \in Seq(Messages) /\ cited \subseteq Files
  BY DEF QueueOK
<1>3. k \in 0..Len(waiting)
  <2>1. Len(waiting) \in Nat /\ failed \in 0..Len(waiting)
    BY <1>2
  <2> QED
    BY ONLY <2>1
<1>4. cited' = cited \cup RidingOn(tried) /\ waiting' = SubSeq(waiting, Len(tried) + 1, Len(waiting))
  BY <1>1 DEF RidingOn
<1>5. running' \in BOOLEAN
  BY <1>1
<1> HIDE DEF k
<1>6. /\ tried \in Seq(Messages) /\ Len(tried) = k /\ SubSeq(waiting, k + 1, Len(waiting)) \in Seq(Messages)
      /\ RidingOn(waiting) = RidingOn(tried) \cup RidingOn(SubSeq(waiting, k + 1, Len(waiting)))
  BY <1>2, <1>3, RidingSplits
<1> HIDE DEF tried
<1>7. RidingOn(tried) \subseteq Files
  <2>1. \A i \in DOMAIN tried : Range(tried[i].files) \subseteq Files
    <3> TAKE i \in DOMAIN tried
    <3>1. tried[i] \in Messages
      BY <1>6
    <3>2. tried[i].files \in Seq(Files)
      BY <3>1 DEF Messages
    <3> QED
      BY <3>2 DEF Range
  <2> QED
    BY <2>1 DEF RidingOn
<1>8. waiting' \in Seq(Messages) /\ waiting' = SubSeq(waiting, k + 1, Len(waiting))
  BY <1>4, <1>6
<1> QED
  BY ONLY <1>2, <1>4, <1>5, <1>6, <1>7, <1>8 DEF QueueOK, Sent2

\* Reordering the queue keeps its messages.
LEMMA ReorderedKeeps ==
    ASSUME waiting \in Seq(Messages), NEW ids, NEW q \in Reordered(ids)
    PROVE  q \in Seq(Messages) /\ RidingOn(q) = RidingOn(waiting)
<1> DEFINE D == DOMAIN waiting
<1>1. D = 1..Len(waiting) /\ Len(waiting) \in Nat /\ \A i \in D : waiting[i] \in Messages
  OBVIOUS
<1>2. PICK p \in Bijection(D, D) : q = [i \in D |-> waiting[p[i]]]
  BY DEF Reordered
<1> HIDE DEF D
<1>3. p \in [D -> D] /\ \A j \in D : \E i \in D : p[i] = j
  BY DEF Bijection, Injection, Surjection
<1>4. DOMAIN q = D /\ \A i \in D : q[i] = waiting[p[i]] /\ p[i] \in D
  BY <1>2, <1>3
<1>5. q \in Seq(Messages)
  <2>1. \A i \in D : waiting[p[i]] \in Messages
    BY <1>1, <1>3
  <2> QED
    BY <1>1, <1>2, <2>1
<1>6. RidingOn(q) = UNION {Range(q[i].files) : i \in D} /\ RidingOn(waiting) = UNION {Range(waiting[i].files) : i \in D}
  BY <1>4 DEF RidingOn, D
<1>7. RidingOn(q) \subseteq RidingOn(waiting)
  BY ONLY <1>4, <1>6
<1>8. RidingOn(waiting) \subseteq RidingOn(q)
  <2> SUFFICES ASSUME NEW j \in D, NEW x \in Range(waiting[j].files) PROVE x \in RidingOn(q)
    BY <1>6
  <2>1. PICK i \in D : p[i] = j
    BY <1>3
  <2> QED
    BY <1>4, <1>6, <2>1
<1> QED
  BY <1>5, <1>7, <1>8

-----------------------------------------------------------------------------
(* The files.                                                              *)

\* What the invariant asks of the files after a step.
LEMMA FilesFrom ==
    ASSUME NEW sent, RidingOn(waiting') \cup cited' = sent,
           offered' \in 0..MaxFiles, uploading' \subseteq Files,
           pending' \in Seq(Files), IsInjective(pending'), refusal' \in BOOLEAN,
           staged' \subseteq 1..offered', Range(pending') \subseteq staged',
           staged' \subseteq Range(pending') \cup sent, uploading' \cap staged' = {},
           FreshIn(wire', staged' \cup uploading', offered'),
           Cardinality(Range(pending') \ sent) <= FileCap,
           1..offered' = CarriedBy(wire') \cup uploading' \cup Range(pending') \cup sent \cup turnedAway'
    PROVE  FilesOK'
<1>1. Sent2' = sent
  BY DEF Sent2, RidingOn
<1>2. FilesTyped'
  BY <1>1 DEF FilesTyped, IsInjective, Range
<1>3. FreshHolds'
  BY DEF FreshHolds, FreshIn, IsInjective, Range
<1>4. CapHolds'
  BY <1>1 DEF CapHolds, Range
<1>5. CarriedBy(wire)' = CarriedBy(wire') /\ Range(pending)' = Range(pending')
  BY DEF CarriedBy, Range
<1>6. Accounted'
  BY ONLY <1>1, <1>5,
     1..offered' = CarriedBy(wire') \cup uploading' \cup Range(pending') \cup sent \cup turnedAway' DEF Accounted
<1> QED
  BY <1>2, <1>3, <1>4, <1>6 DEF FilesOK

\* What it says of them before.
LEMMA FilesAre ==
    ASSUME FilesOK
    PROVE  /\ offered \in 0..MaxFiles /\ uploading \subseteq Files
           /\ pending \in Seq(Files) /\ IsInjective(pending) /\ refusal \in BOOLEAN
           /\ staged \subseteq 1..offered /\ Range(pending) \subseteq staged
           /\ staged \subseteq Range(pending) \cup Sent2 /\ uploading \cap staged = {}
           /\ FreshIn(wire, staged \cup uploading, offered)
           /\ Cardinality(Range(pending) \ Sent2) <= FileCap
           /\ 1..offered = CarriedBy(wire) \cup uploading \cup Range(pending) \cup Sent2 \cup turnedAway
           /\ 1..offered \subseteq Files /\ IsFiniteSet(Range(pending))
<1>1. 1..offered \subseteq Files
  BY ComposerBounded DEF FilesOK, FilesTyped, Files
<1>2. IsFiniteSet(Range(pending))
  BY RangeCardinality DEF FilesOK, FilesTyped
<1> QED
  BY <1>1, <1>2 DEF FilesOK, FilesTyped, FreshHolds, CapHolds, Accounted

\* Steps that leave the files where they are, whatever else they push, take or say.
LEMMA FilesUndisturbed ==
    ASSUME FilesOK, CarriedBy(wire') = CarriedBy(wire),
           \A gone, n : FreshIn(wire, gone, n) => FreshIn(wire', gone, n), refusal' \in BOOLEAN,
           UNCHANGED <<offered, uploading, pending, staged, turnedAway>>,
           RidingOn(waiting') \cup cited' = Sent2
    PROVE  FilesOK'
<1> DEFINE sent == Sent2
<1>1. RidingOn(waiting') \cup cited' = sent
  OBVIOUS
<1>2. /\ offered' = offered /\ uploading' = uploading /\ pending' = pending /\ staged' = staged
      /\ turnedAway' = turnedAway
  OBVIOUS
<1>3. /\ offered \in 0..MaxFiles /\ uploading \subseteq Files
      /\ pending \in Seq(Files) /\ IsInjective(pending)
      /\ staged \subseteq 1..offered /\ Range(pending) \subseteq staged
      /\ staged \subseteq Range(pending) \cup sent /\ uploading \cap staged = {}
      /\ FreshIn(wire, staged \cup uploading, offered)
      /\ Cardinality(Range(pending) \ sent) <= FileCap
      /\ 1..offered = CarriedBy(wire) \cup uploading \cup Range(pending) \cup sent \cup turnedAway
  BY FilesAre
<1>4. FreshIn(wire', staged \cup uploading, offered)
  BY <1>3
<1> HIDE DEF sent
<1> QED
  BY ONLY <1>1, <1>2, <1>3, <1>4, refusal' \in BOOLEAN, CarriedBy(wire') = CarriedBy(wire), FilesFrom

\* A note taken off the wire that carries no file to the composer.
LEMMA NoteTaken ==
    ASSUME wire \in Seq(PushedEvents), wire # <<>>, wire' = Tail(wire),
           Head(wire).ev \notin {"attach_error", "attach_paths"}
    PROVE  /\ CarriedBy(wire') = CarriedBy(wire)
           /\ \A gone, n : FreshIn(wire, gone, n) => FreshIn(wire', gone, n)
<1>1. FilesOf(Head(wire)) = {}
  BY DEF FilesOf
<1>2. CarriedBy(wire) = CarriedBy(Tail(wire)) \cup FilesOf(Head(wire))
  BY PoppedFiles
<1>3. ASSUME NEW gone, NEW n, FreshIn(wire, gone, n) PROVE FreshIn(wire', gone, n)
  BY <1>3, PoppedFresh
<1> QED
  BY ONLY <1>1, <1>2, <1>3, wire' = Tail(wire)

\* Fewer files gone and more offered, the wire is as fresh.
LEMMA FreshShrinks ==
    ASSUME NEW w, NEW gone, NEW less, less \subseteq gone, NEW n, FreshIn(w, gone, n)
    PROVE  FreshIn(w, less, n)
BY DEF FreshIn

LEMMA FreshBeyond ==
    ASSUME NEW w, NEW gone, NEW n, FreshIn(w, gone, n), NEW more, more \cap (1..n) = {}
    PROVE  FreshIn(w, gone \cup more, n)
BY DEF FreshIn

LEMMA SentStays ==
    ASSUME UNCHANGED <<waiting, cited>>
    PROVE  RidingOn(waiting') \cup cited' = Sent2
BY DEF Sent2

LEMMA StillKeepsFiles ==
    ASSUME FilesOK, QueueOK, Type \/ SubmitFrame \/ Render \/ FinishRun
    PROVE  FilesOK'
<1>1. /\ UNCHANGED <<wire, offered, uploading, pending, refusal, staged, turnedAway>>
      /\ UNCHANGED <<waiting, cited>> \/ TurnEnds
  BY DEF Type, SubmitFrame, Render, FinishRun, AtServer, fileVars, chipVars, turnVars
<1>2. RidingOn(waiting') \cup cited' = Sent2
  BY <1>1, SentStays, TurnEndsCites
<1>3. wire' = wire /\ refusal' \in BOOLEAN
  BY <1>1, FilesAre
<1> QED
  BY ONLY <1>1, <1>2, <1>3, FilesOK, FilesUndisturbed

LEMMA PushesKeepFiles ==
    ASSUME FormOK, FilesOK, wire \in Seq(PushedEvents), Pushes
    PROVE  FilesOK'
<1>1. UNCHANGED <<offered, uploading, pending, refusal, staged, turnedAway, waiting, cited>>
  BY DEF Pushes, Keydown, ClickPrimary, ClickSecondary, Submit, Escape, DragRail, Click, fileVars, chipVars, turnVars
<1>2. PICK e \in PushedEvents : wire' = wire \o <<e>> /\ e.ev \notin {"attach_error", "attach_paths"}
  BY PushesANote
<1>3. CarriedBy(wire') = CarriedBy(wire) /\ \A gone, n : FreshIn(wire, gone, n) => FreshIn(wire', gone, n)
  BY <1>2, NoteCarriesNothing
<1>4. RidingOn(waiting') \cup cited' = Sent2 /\ refusal' \in BOOLEAN
  BY <1>1, SentStays, FilesAre
<1> QED
  BY ONLY <1>1, <1>3, <1>4, FilesOK, FilesUndisturbed

LEMMA OfferKeepsFiles ==
    ASSUME FilesOK, wire \in Seq(PushedEvents), Offer
    PROVE  FilesOK'
<1> DEFINE sent == Sent2
           P == Range(pending)
           U == staged \cup uploading
<1>1. UNCHANGED <<pending, refusal, staged, turnedAway, waiting, cited>>
  BY DEF Offer, chipVars, turnVars
<1>2. /\ offered \in 0..MaxFiles /\ uploading \subseteq Files
      /\ pending \in Seq(Files) /\ IsInjective(pending) /\ refusal \in BOOLEAN
      /\ staged \subseteq 1..offered /\ P \subseteq staged
      /\ staged \subseteq P \cup sent /\ uploading \cap staged = {}
      /\ FreshIn(wire, U, offered)
      /\ Cardinality(P \ sent) <= FileCap
      /\ 1..offered = CarriedBy(wire) \cup uploading \cup P \cup sent \cup turnedAway
  BY FilesAre
<1>3. PICK n \in 1..(MaxFiles - offered), v \in Seq(PushedEvents), ok \in Seq(Files), no \in Seq(Files) :
              /\ wire' = wire \o v /\ offered' = offered + n
              /\ Range(ok) \cup Range(no) = (1..(offered + n)) \ (1..offered)
              /\ \A j \in DOMAIN v : v[j].ev # "send"
              /\ \/ uploading' = uploading /\ CarriedBy(v) = Range(no) \cup Range(ok)
                    /\ \A gone, m : Range(ok) \subseteq (1..m) \ gone => FreshIn(v, gone, m)
                 \/ uploading' = uploading \cup Range(ok) /\ CarriedBy(v) = Range(no)
                    /\ \A gone, m : FreshIn(v, gone, m)
  BY <1>2, OfferPushes
<1>4. offered + n \in 0..MaxFiles /\ 1..offered \subseteq 1..(offered + n) /\ 1..(offered + n) \subseteq Files
  <2>1. offered \in Nat /\ n \in Nat /\ MaxFiles \in Nat /\ offered + n <= MaxFiles
    BY ONLY <1>2, <1>3, ComposerBounded
  <2> QED
    BY ONLY <2>1 DEF Files
<1>5. CarriedBy(wire') = CarriedBy(wire) \cup CarriedBy(v)
  BY <1>3, PushedFiles
<1>6. RidingOn(waiting') \cup cited' = sent
  BY <1>1, SentStays
<1> DEFINE m == offered + n
           K == Range(ok)
<1> HIDE DEF sent, P, U, m, K
<1>7. K \cup Range(no) = (1..m) \ (1..offered) /\ 1..offered \subseteq 1..m /\ m \in 0..MaxFiles /\ 1..m \subseteq Files
      /\ offered' = m
  BY <1>3, <1>4 DEF K, m
<1>8. /\ uploading' \subseteq uploading \cup K /\ uploading \subseteq uploading'
      /\ CarriedBy(v) \cup uploading' = uploading \cup K \cup Range(no)
      /\ FreshIn(wire', staged' \cup uploading', offered')
  <2>1. CASE uploading' = uploading /\ CarriedBy(v) = Range(no) \cup Range(ok)
             /\ \A gone, l : Range(ok) \subseteq (1..l) \ gone => FreshIn(v, gone, l)
    <3>1. U \subseteq 1..offered
      BY <1>2 DEF U
    <3>2. K \subseteq (1..m) \ (U \cup 1..offered)
      BY ONLY <1>7, <3>1
    <3>3. FreshIn(v, U \cup 1..offered, m)
      BY <2>1, <3>2 DEF K
    <3>4. FreshIn(wire \o v, U, m)
      BY <1>2, <1>7, <3>3, PushedFresh
    <3>5. wire' = wire \o v
      BY <1>3
    <3> QED
      BY ONLY <1>1, <1>7, <2>1, <3>4, <3>5 DEF U, K
  <2>2. CASE uploading' = uploading \cup Range(ok) /\ CarriedBy(v) = Range(no) /\ \A gone, l : FreshIn(v, gone, l)
    <3>1. K \cap 1..offered = {}
      BY ONLY <1>7
    <3>2. FreshIn(wire, U \cup K, offered)
      BY <1>2, <3>1, FreshBeyond
    <3>3. FreshIn(v, (U \cup K) \cup 1..offered, m)
      BY <2>2
    <3>4. FreshIn(wire \o v, U \cup K, m)
      BY <1>2, <1>7, <3>2, <3>3, PushedFresh
    <3>5. wire' = wire \o v
      BY <1>3
    <3>6. staged' \cup uploading' = U \cup K
      BY ONLY <1>1, <2>2 DEF U, K
    <3> QED
      BY ONLY <1>7, <2>2, <3>4, <3>5, <3>6 DEF K
  <2> QED
    BY <1>3, <2>1, <2>2
<1>9. uploading' \subseteq Files /\ uploading' \cap staged' = {} /\ staged' \subseteq 1..offered'
  <2>1. staged' = staged
    BY <1>1
  <2> QED
    BY ONLY <1>2, <1>7, <1>8, <2>1
<1>10. 1..offered' = CarriedBy(wire') \cup uploading' \cup P \cup sent \cup turnedAway
  BY ONLY <1>2, <1>5, <1>7, <1>8
<1>11. pending' = pending /\ refusal' = refusal /\ turnedAway' = turnedAway /\ staged' = staged /\ offered' \in 0..MaxFiles
  BY <1>1, <1>7
<1>12. Range(pending') = P
  BY <1>11 DEF P
<1> QED
  BY ONLY <1>2, <1>6, <1>8, <1>9, <1>10, <1>11, <1>12, FilesFrom

\* Files that are staged: each of them was under way and has a verdict now.
LEMMA StagedFiles ==
    ASSUME FilesOK, NEW files \in Seq(Files), Stage(files), IsInjective(files),
           Range(files) \subseteq (1..offered) \ staged,
           offered' = offered, UNCHANGED <<waiting, cited>>, uploading' \subseteq uploading \ Range(files),
           CarriedBy(wire) \cup uploading = CarriedBy(wire') \cup uploading' \cup Range(files),
           FreshIn(wire', staged \cup uploading' \cup Range(files), offered)
    PROVE  FilesOK'
<1> DEFINE sent == Sent2
           P == Range(pending)
           F == Range(files)
<1>1. /\ offered \in 0..MaxFiles /\ uploading \subseteq Files
      /\ pending \in Seq(Files) /\ IsInjective(pending) /\ refusal \in BOOLEAN
      /\ staged \subseteq 1..offered /\ P \subseteq staged
      /\ staged \subseteq P \cup sent /\ uploading \cap staged = {}
      /\ Cardinality(P \ sent) <= FileCap
      /\ 1..offered = CarriedBy(wire) \cup uploading \cup P \cup sent \cup turnedAway
  BY FilesAre
<1>2. PICK storable \in Verdicts(files) :
        LET r == StageFiles(files, storable) IN
        /\ pending' = r.chips /\ refusal' = r.banner
        /\ staged' = staged \cup Range(r.chips)
        /\ turnedAway' = turnedAway \cup r.refused
  BY DEF Stage
<1> DEFINE r == StageFiles(files, storable)
           C == Range(r.chips)
<1>3. F \cap P = {}
  BY <1>1
<1>4. /\ r \in Staging /\ IsInjective(r.chips) /\ P \subseteq C /\ C \cup r.refused = P \cup F
      /\ r.chips = pending \/ Len(r.chips) <= FileCap
  BY <1>1, <1>3, StageVerdicts, ComposerBounded
<1>5. pending' = r.chips /\ refusal' = r.banner /\ staged' = staged \cup C /\ turnedAway' = turnedAway \cup r.refused
  BY <1>2
<1> HIDE DEF r
<1>6. r.chips \in Seq(Files) /\ r.banner \in BOOLEAN
  BY <1>4 DEF Staging
<1>7. RidingOn(waiting') \cup cited' = sent
  BY SentStays
<1>8. Range(pending') = C
  BY <1>5
<1>9. Cardinality(C \ sent) <= FileCap
  <2>1. CASE r.chips = pending
    BY <1>1, <2>1
  <2>2. CASE Len(r.chips) <= FileCap
    <3>1. IsFiniteSet(C) /\ Cardinality(C) \in Nat /\ Cardinality(C) <= Len(r.chips)
      BY <1>6, RangeCardinality
    <3> HIDE DEF C, sent
    <3>2. Cardinality(C \ sent) <= Cardinality(C) /\ Cardinality(C \ sent) \in Nat
      BY <3>1, FS_Subset, FS_CardinalityType
    <3>3. Len(r.chips) \in Nat /\ FileCap \in Nat
      BY <1>6, ComposerBounded
    <3> QED
      BY ONLY <2>2, <3>1, <3>2, <3>3
  <2> QED
    BY <1>4, <2>1, <2>2
<1> HIDE DEF sent, P, F, C
<1>10. F \subseteq (1..offered) \ staged /\ uploading' \subseteq uploading \ F
       /\ CarriedBy(wire) \cup uploading = CarriedBy(wire') \cup uploading' \cup F
       /\ FreshIn(wire', staged \cup uploading' \cup F, offered)
  BY DEF F
<1>11. /\ staged' \subseteq 1..offered /\ C \subseteq staged' /\ staged' \subseteq C \cup sent
       /\ uploading' \cap staged' = {} /\ uploading' \subseteq Files
  BY ONLY <1>1, <1>4, <1>5, <1>10
<1>12. FreshIn(wire', staged' \cup uploading', offered)
  <2>1. staged' \cup uploading' \subseteq staged \cup uploading' \cup F
    BY ONLY <1>1, <1>4, <1>5
  <2> QED
    BY <1>10, <2>1, FreshShrinks
<1>13. 1..offered = CarriedBy(wire') \cup uploading' \cup C \cup sent \cup turnedAway'
  BY ONLY <1>1, <1>4, <1>5, <1>10
<1>14. offered' = offered
  OBVIOUS
<1> QED
  BY ONLY <1>1, <1>4, <1>5, <1>6, <1>7, <1>8, <1>9, <1>11, <1>12, <1>13, <1>14, FilesFrom

LEMMA UploadsKeepFiles ==
    ASSUME FilesOK, NEW f \in Files, UploadDone(f) \/ UploadFails(f)
    PROVE  FilesOK'
<1>1. /\ f \in uploading /\ uploading' = uploading \ {f} /\ UNCHANGED <<offered, wire, waiting, cited>>
      /\ \/ Stage(<<f>>)
         \/ turnedAway' = turnedAway \cup {f} /\ UNCHANGED <<pending, refusal, staged>>
  BY DEF UploadDone, UploadFails, turnVars, chipVars
<1>2. /\ offered \in 0..MaxFiles /\ uploading \subseteq Files
      /\ pending \in Seq(Files) /\ IsInjective(pending) /\ refusal \in BOOLEAN
      /\ staged \subseteq 1..offered /\ Range(pending) \subseteq staged
      /\ staged \subseteq Range(pending) \cup Sent2 /\ uploading \cap staged = {}
      /\ FreshIn(wire, staged \cup uploading, offered)
      /\ Cardinality(Range(pending) \ Sent2) <= FileCap
      /\ 1..offered = CarriedBy(wire) \cup uploading \cup Range(pending) \cup Sent2 \cup turnedAway
  BY FilesAre
<1>3. CASE Stage(<<f>>)
  <2> DEFINE files == <<f>>
  <2>1. files \in Seq(Files) /\ IsInjective(files) /\ Range(files) = {f}
    BY DEF IsInjective, Range
  <2> HIDE DEF files
  <2>2. f \in (1..offered) \ staged
    BY ONLY <1>1, <1>2
  <2>3. FreshIn(wire', staged \cup uploading' \cup Range(files), offered)
    <3>1. staged \cup uploading' \cup Range(files) = staged \cup uploading /\ wire' = wire
      BY ONLY <1>1, <2>1
    <3> QED
      BY ONLY <1>2, <3>1
  <2>4. CarriedBy(wire) \cup uploading = CarriedBy(wire') \cup uploading' \cup Range(files)
    BY ONLY <1>1, <2>1
  <2>5. uploading' \subseteq uploading \ Range(files) /\ Range(files) \subseteq (1..offered) \ staged
    BY ONLY <1>1, <2>1, <2>2
  <2>6. Stage(files) /\ offered' = offered /\ UNCHANGED <<waiting, cited>>
    BY <1>1, <1>3 DEF files
  <2> QED
    BY ONLY FilesOK, <2>1, <2>3, <2>4, <2>5, <2>6, StagedFiles
<1>4. CASE turnedAway' = turnedAway \cup {f} /\ UNCHANGED <<pending, refusal, staged>>
  <2> DEFINE sent == Sent2
  <2>1. RidingOn(waiting') \cup cited' = sent
    BY <1>1, SentStays
  <2>2. pending' = pending /\ refusal' = refusal /\ staged' = staged /\ offered' = offered /\ wire' = wire
    BY <1>1, <1>4
  <2>3. FreshIn(wire, staged \cup uploading', offered)
    <3>1. staged \cup uploading' \subseteq staged \cup uploading
      BY <1>1
    <3> QED
      BY <1>2, <3>1, FreshShrinks
  <2>4. 1..offered = CarriedBy(wire) \cup uploading' \cup Range(pending) \cup sent \cup turnedAway'
    BY <1>1, <1>2, <1>4
  <2>5. uploading' \subseteq Files /\ uploading' \cap staged = {}
    BY <1>1, <1>2
  <2>6. /\ offered \in 0..MaxFiles
        /\ pending \in Seq(Files) /\ IsInjective(pending) /\ refusal \in BOOLEAN
        /\ staged \subseteq 1..offered /\ Range(pending) \subseteq staged
        /\ staged \subseteq Range(pending) \cup sent
        /\ Cardinality(Range(pending) \ sent) <= FileCap
    BY <1>2
  <2> HIDE DEF sent
  <2> QED
    BY ONLY <2>1, <2>2, <2>3, <2>4, <2>5, <2>6, FilesFrom
<1> QED
  BY <1>1, <1>3, <1>4

\* The dropped files that arrive are staged; those that were refused are said.
LEMMA ArrivalsKeepFiles ==
    ASSUME FilesOK, wire \in Seq(PushedEvents), AttachPaths \/ AttachError
    PROVE  FilesOK'
<1> DEFINE h == Head(wire)
           F == Range(h.files)
<1>1. /\ wire # <<>> /\ wire' = Tail(wire) /\ h.ev \in {"attach_paths", "attach_error"}
      /\ UNCHANGED <<offered, uploading, waiting, cited>>
      /\ \/ h.ev = "attach_paths" /\ Stage(h.files)
         \/ h.ev = "attach_error" /\ turnedAway' = turnedAway \cup F /\ refusal' = TRUE /\ UNCHANGED <<pending, staged>>
  BY DEF AttachPaths, AttachError, Next1, AtServer, fileVars, turnVars, Refused
<1>2. /\ offered \in 0..MaxFiles /\ uploading \subseteq Files
      /\ pending \in Seq(Files) /\ IsInjective(pending) /\ refusal \in BOOLEAN
      /\ staged \subseteq 1..offered /\ Range(pending) \subseteq staged
      /\ staged \subseteq Range(pending) \cup Sent2 /\ uploading \cap staged = {}
      /\ FreshIn(wire, staged \cup uploading, offered)
      /\ Cardinality(Range(pending) \ Sent2) <= FileCap
      /\ 1..offered = CarriedBy(wire) \cup uploading \cup Range(pending) \cup Sent2 \cup turnedAway
      /\ 1..offered \subseteq Files
  BY FilesAre
<1>3. h \in PushedEvents
  BY <1>1, TailPlaces
<1>4. CarriedBy(wire) = CarriedBy(wire') \cup F
  <2>1. CarriedBy(wire) = CarriedBy(Tail(wire)) \cup FilesOf(h)
    BY <1>1, PoppedFiles
  <2>2. FilesOf(h) = F
    BY <1>1 DEF FilesOf
  <2> QED
    BY ONLY <1>1, <2>1, <2>2
<1>5. /\ FreshIn(wire', staged \cup uploading, offered)
      /\ h.ev = "attach_paths" =>
           /\ FreshIn(wire', (staged \cup uploading) \cup F, offered)
           /\ IsInjective(h.files) /\ F \subseteq (1..offered) \ (staged \cup uploading)
  BY <1>1, <1>2, PoppedFresh
<1>6. CASE h.ev = "attach_paths" /\ Stage(h.files)
  <2> DEFINE files == h.files
  <2>1. files \in Seq(Files)
    <3>1. files \in Seq(Nat)
      BY <1>3 DEF PushedEvents
    <3>2. Len(files) \in Nat /\ DOMAIN files = 1..Len(files) /\ files = [i \in 1..Len(files) |-> files[i]]
      BY <3>1
    <3>3. \A i \in 1..Len(files) : files[i] \in Files
      <4> TAKE i \in 1..Len(files)
      <4>1. files[i] \in F
        BY <3>2 DEF Range
      <4> QED
        BY <1>2, <1>5, <1>6, <4>1
    <3> QED
      BY ONLY <3>2, <3>3
  <2>2. Stage(files) /\ IsInjective(files) /\ Range(files) = F
    BY <1>5, <1>6
  <2> HIDE DEF files, F, h
  <2>3. F \subseteq (1..offered) \ (staged \cup uploading) /\ FreshIn(wire', (staged \cup uploading) \cup F, offered)
    BY <1>5, <1>6
  <2>4. offered' = offered /\ uploading' = uploading /\ UNCHANGED <<waiting, cited>>
    BY <1>1
  <2>5. Range(files) \subseteq (1..offered) \ staged /\ uploading' \subseteq uploading \ Range(files)
    BY ONLY <2>2, <2>3, <2>4
  <2>6. CarriedBy(wire) \cup uploading = CarriedBy(wire') \cup uploading' \cup Range(files)
    BY ONLY <1>4, <2>2, <2>4
  <2>7. FreshIn(wire', staged \cup uploading' \cup Range(files), offered)
    BY ONLY <2>2, <2>3, <2>4
  <2> QED
    BY ONLY FilesOK, <2>1, <2>2, <2>4, <2>5, <2>6, <2>7, StagedFiles
<1>7. CASE h.ev = "attach_error" /\ turnedAway' = turnedAway \cup F /\ refusal' = TRUE /\ UNCHANGED <<pending, staged>>
  <2> DEFINE sent == Sent2
  <2>1. RidingOn(waiting') \cup cited' = sent
    BY <1>1, SentStays
  <2>2. pending' = pending /\ refusal' \in BOOLEAN /\ staged' = staged /\ offered' = offered /\ uploading' = uploading
    BY <1>1, <1>7
  <2>3. 1..offered = CarriedBy(wire') \cup uploading \cup Range(pending) \cup sent \cup turnedAway'
    BY <1>2, <1>4, <1>7
  <2>4. /\ offered \in 0..MaxFiles /\ uploading \subseteq Files
        /\ pending \in Seq(Files) /\ IsInjective(pending)
        /\ staged \subseteq 1..offered /\ Range(pending) \subseteq staged
        /\ staged \subseteq Range(pending) \cup sent /\ uploading \cap staged = {}
        /\ FreshIn(wire', staged \cup uploading, offered)
        /\ Cardinality(Range(pending) \ sent) <= FileCap
    BY <1>2, <1>5
  <2> HIDE DEF sent
  <2> QED
    BY ONLY <2>1, <2>2, <2>3, <2>4, FilesFrom
<1> QED
  BY <1>1, <1>6, <1>7

\* A chip taken out of the composer is out of the store.
LEMMA RemoveKeepsFiles ==
    ASSUME FilesOK, wire \in Seq(PushedEvents), RemoveAttachment
    PROVE  FilesOK'
<1> DEFINE sent == Sent2
           P == Range(pending)
           f == Head(Head(wire).files)
           Q == Range(AllBut(pending, {f}))
<1>1. /\ wire # <<>> /\ wire' = Tail(wire) /\ Head(wire).ev = "remove"
      /\ UNCHANGED <<offered, uploading, refusal, waiting, cited>>
      /\ pending' = AllBut(pending, {f})
      /\ staged' = IF f \in P THEN staged \ {f} ELSE staged
      /\ turnedAway' = IF f \in P THEN turnedAway \cup {f} ELSE turnedAway
  BY DEF RemoveAttachment, Next1, AtServer, fileVars, turnVars
<1>2. /\ offered \in 0..MaxFiles /\ uploading \subseteq Files
      /\ pending \in Seq(Files) /\ IsInjective(pending) /\ refusal \in BOOLEAN
      /\ staged \subseteq 1..offered /\ P \subseteq staged
      /\ staged \subseteq P \cup sent /\ uploading \cap staged = {}
      /\ FreshIn(wire, staged \cup uploading, offered)
      /\ Cardinality(P \ sent) <= FileCap
      /\ 1..offered = CarriedBy(wire) \cup uploading \cup P \cup sent \cup turnedAway
      /\ IsFiniteSet(P)
  BY FilesAre
<1> HIDE DEF f
<1>3. AllBut(pending, {f}) \in Seq(Files) /\ IsInjective(AllBut(pending, {f})) /\ Q = P \ {f}
  <2> DEFINE I == {i \in DOMAIN pending : pending[i] \notin {f}}
  <2>1. AllBut(pending, {f}) = PickAt(pending, I)
    BY DEF AllBut
  <2> HIDE DEF I
  <2>2. /\ PickAt(pending, I) \in Seq(Files) /\ IsInjective(PickAt(pending, I))
        /\ Range(PickAt(pending, I)) = {pending[i] : i \in {j \in DOMAIN pending : j \in I}}
    BY <1>2, PickAtRange
  <2>3. Range(PickAt(pending, I)) = P \ {f}
    BY <2>2 DEF I, Range
  <2> QED
    BY <2>1, <2>2, <2>3
<1>4. CarriedBy(wire') = CarriedBy(wire) /\ FreshIn(wire', staged \cup uploading, offered)
  BY <1>1, <1>2, NoteTaken
<1>5. RidingOn(waiting') \cup cited' = sent
  BY <1>1, SentStays
<1>6. Cardinality(Q \ sent) <= FileCap
  <2>1. Q \ sent \subseteq P \ sent /\ IsFiniteSet(P \ sent)
    BY <1>2, <1>3, FS_Subset
  <2> HIDE DEF Q, P, sent
  <2>2. Cardinality(Q \ sent) <= Cardinality(P \ sent) /\ Cardinality(Q \ sent) \in Nat /\ Cardinality(P \ sent) \in Nat
    BY <2>1, FS_Subset, FS_CardinalityType
  <2> QED
    BY ONLY <1>2, <2>2, ComposerBounded
<1>7. Range(pending') = Q /\ pending' \in Seq(Files) /\ IsInjective(pending')
  BY <1>1, <1>3
<1> HIDE DEF sent, P, Q
<1>8. /\ staged' \subseteq 1..offered /\ Q \subseteq staged' /\ staged' \subseteq Q \cup sent
      /\ uploading \cap staged' = {} /\ staged' \cup uploading \subseteq staged \cup uploading
  BY ONLY <1>1, <1>2, <1>3
<1>9. FreshIn(wire', staged' \cup uploading, offered)
  BY <1>4, <1>8, FreshShrinks
<1>10. 1..offered = CarriedBy(wire') \cup uploading \cup Q \cup sent \cup turnedAway'
  <2>1. CASE f \in P
    BY ONLY <1>1, <1>2, <1>3, <1>4, <2>1
  <2>2. CASE f \notin P
    BY ONLY <1>1, <1>2, <1>3, <1>4, <2>2
  <2> QED
    BY <2>1, <2>2
<1>11. offered' = offered /\ uploading' = uploading /\ refusal' = refusal
  BY <1>1
<1> QED
  BY ONLY <1>2, <1>5, <1>6, <1>7, <1>8, <1>9, <1>10, <1>11, FilesFrom

\* A sorted list of a finite set holds it all, each element once.
LEMMA SortedHolds ==
    ASSUME NEW S, IsFiniteSet(S), S \subseteq Files, NEW s \in Sorted(S)
    PROVE  s \in Seq(Files) /\ IsInjective(s) /\ Range(s) = S
<1> DEFINE n == Cardinality(S)
<1>1. n \in Nat /\ s \in [1..n -> S] /\ \A i, j \in DOMAIN s : i < j => s[i] < s[j]
  BY FS_CardinalityType DEF Sorted
<1>2. IsFiniteSet(1..n) /\ Cardinality(1..n) = n
  BY <1>1, FS_Interval
<1> HIDE DEF n
<1>3. DOMAIN s = 1..n /\ \A i \in 1..n : s[i] \in S /\ s[i] \in Nat
  BY <1>1, ComposerBounded
<1>4. \A i, j \in 1..n : s[i] = s[j] => i = j
  <2> SUFFICES ASSUME NEW i \in 1..n, NEW j \in 1..n, s[i] = s[j], i # j PROVE FALSE
    OBVIOUS
  <2>1. i \in Nat /\ j \in Nat /\ s[i] \in Nat /\ s[j] \in Nat
    BY <1>1, <1>3
  <2>2. i < j \/ j < i
    BY ONLY <2>1, i # j
  <2>3. s[i] < s[j] \/ s[j] < s[i]
    BY <1>1, <1>3, <2>2
  <2> QED
    BY ONLY <2>1, <2>3, s[i] = s[j]
<1>5. s \in Injection(1..n, S)
  BY <1>1, <1>3, <1>4 DEF Injection, IsInjective
<1>6. s \in Surjection(1..n, S)
  BY <1>2, <1>5, FS_Injection DEF n
<1>7. \A x \in S : \E i \in 1..n : s[i] = x
  BY ONLY <1>6 DEF Surjection
<1>8. Range(s) = S
  BY <1>3, <1>7 DEF Range
<1>9. s \in Seq(Files)
  <2>1. s = [i \in 1..n |-> s[i]] /\ \A i \in 1..n : s[i] \in Files
    BY <1>1, <1>3
  <2> QED
    BY ONLY <1>1, <2>1
<1> QED
  BY <1>3, <1>4, <1>8, <1>9 DEF IsInjective

\* Shown again, the conversation's composer holds what is staged and not sent.
LEMMA SelectKeepsFiles ==
    ASSUME FilesOK, wire \in Seq(PushedEvents), SelectChat
    PROVE  FilesOK'
<1> DEFINE sent == Sent2
           P == Range(pending)
           S == staged \ cited
<1>1. /\ wire # <<>> /\ wire' = Tail(wire) /\ Head(wire).ev = "select"
      /\ UNCHANGED <<offered, uploading, staged, turnedAway, waiting, cited>>
      /\ pending' \in Sorted(S) /\ refusal' = FALSE
  BY DEF SelectChat, Next1, AtServer, fileVars, turnVars
<1>2. /\ offered \in 0..MaxFiles /\ uploading \subseteq Files
      /\ staged \subseteq 1..offered /\ P \subseteq staged
      /\ staged \subseteq P \cup sent /\ uploading \cap staged = {}
      /\ FreshIn(wire, staged \cup uploading, offered)
      /\ Cardinality(P \ sent) <= FileCap
      /\ 1..offered = CarriedBy(wire) \cup uploading \cup P \cup sent \cup turnedAway
      /\ 1..offered \subseteq Files /\ IsFiniteSet(P)
  BY FilesAre
<1>3. IsFiniteSet(S) /\ S \subseteq Files
  <2>1. S \subseteq Files
    BY <1>2
  <2> QED
    BY <2>1, FS_Subset, ComposerBounded
<1>4. cited \subseteq sent
  BY DEF Sent2
<1>5. pending' \in Seq(Files) /\ IsInjective(pending') /\ Range(pending') = S
  BY <1>1, <1>3, SortedHolds
<1>6. CarriedBy(wire') = CarriedBy(wire) /\ FreshIn(wire', staged \cup uploading, offered)
  BY <1>1, <1>2, NoteTaken
<1>7. RidingOn(waiting') \cup cited' = sent
  BY <1>1, SentStays
<1>8. Cardinality(S \ sent) <= FileCap
  <2>1. S \ sent \subseteq P \ sent /\ IsFiniteSet(P \ sent)
    BY <1>2, FS_Subset
  <2> HIDE DEF S, P, sent
  <2>2. Cardinality(S \ sent) <= Cardinality(P \ sent) /\ Cardinality(S \ sent) \in Nat /\ Cardinality(P \ sent) \in Nat
    BY <2>1, FS_Subset, FS_CardinalityType
  <2> QED
    BY ONLY <1>2, <2>2, ComposerBounded
<1>9. S \subseteq staged /\ staged \subseteq S \cup sent /\ P \cup sent = S \cup sent
  BY <1>2, <1>4
<1> HIDE DEF sent, P, S
<1>10. 1..offered = CarriedBy(wire') \cup uploading \cup S \cup sent \cup turnedAway
  BY ONLY <1>2, <1>6, <1>9
<1>11. /\ offered' = offered /\ uploading' = uploading /\ staged' = staged /\ turnedAway' = turnedAway
       /\ refusal' \in BOOLEAN
  BY <1>1
<1> QED
  BY ONLY <1>2, <1>5, <1>6, <1>7, <1>8, <1>9, <1>10, <1>11, FilesFrom

\* A message that is sent takes its files along.
LEMMA SendKeepsFiles ==
    ASSUME FilesOK, WireOK, QueueOK, ChatSend
    PROVE  FilesOK'
<1> DEFINE sent == Sent2
           P == Range(pending)
           T == RidingOn(waiting') \cup cited'
<1>1. /\ wire # <<>> /\ wire' = Tail(wire) /\ Head(wire).ev = "send"
      /\ UNCHANGED <<offered, uploading, staged, turnedAway>>
  BY DEF ChatSend, Next1, AtServer, fileVars
<1>2. /\ offered \in 0..MaxFiles /\ uploading \subseteq Files
      /\ pending \in Seq(Files) /\ IsInjective(pending) /\ refusal \in BOOLEAN
      /\ staged \subseteq 1..offered /\ P \subseteq staged
      /\ staged \subseteq P \cup sent /\ uploading \cap staged = {}
      /\ FreshIn(wire, staged \cup uploading, offered)
      /\ Cardinality(P \ sent) <= FileCap
      /\ 1..offered = CarriedBy(wire) \cup uploading \cup P \cup sent \cup turnedAway
  BY FilesAre
<1>3. /\ refusal' \in BOOLEAN
      /\ \/ pending' = pending /\ T = sent
         \/ pending' \in {pending, <<>>} /\ T = sent \cup P
  BY <1>2, ChatSendSends
<1>4. wire \in Seq(PushedEvents)
  BY DEF WireOK
<1>5. CarriedBy(wire') = CarriedBy(wire) /\ FreshIn(wire', staged \cup uploading, offered)
  BY <1>1, <1>2, <1>4, NoteTaken
<1> HIDE DEF sent, T
<1>6. RidingOn(waiting') \cup cited' = T
  BY DEF T
<1>7. offered' = offered /\ uploading' = uploading /\ staged' = staged /\ turnedAway' = turnedAway
  BY <1>1
<1>8. <<>> \in Seq(Files) /\ IsInjective(<<>>) /\ Range(<<>>) = {}
  BY EmptySeq DEF IsInjective, Range
<1>9. Cardinality({}) <= FileCap
  BY FS_EmptySet, ComposerBounded
<1>10. CASE pending' = pending /\ T = sent
  <2>1. Range(pending') = P
    BY <1>10
  <2> HIDE DEF P
  <2> QED
    BY ONLY <1>2, <1>3, <1>5, <1>6, <1>7, <1>10, <2>1, FilesFrom
<1>11. CASE pending' = pending /\ T = sent \cup P
  <2>1. Range(pending') = P
    BY <1>11
  <2> HIDE DEF P
  <2>2. Cardinality(P \ T) <= FileCap
    <3>1. P \ T = {}
      BY ONLY <1>11
    <3> QED
      BY ONLY <1>9, <3>1
  <2>3. staged \subseteq P \cup T /\ 1..offered = CarriedBy(wire) \cup uploading \cup P \cup T \cup turnedAway
    BY ONLY <1>2, <1>11
  <2> QED
    BY ONLY <1>2, <1>3, <1>5, <1>6, <1>7, <1>11, <2>1, <2>2, <2>3, FilesFrom
<1>12. CASE pending' = <<>> /\ T = sent \cup P
  <2>1. Range(pending') = {} /\ pending' \in Seq(Files) /\ IsInjective(pending')
    BY <1>8, <1>12
  <2> HIDE DEF P
  <2>2. Cardinality(Range(pending') \ T) <= FileCap
    <3>1. Range(pending') \ T = {}
      BY ONLY <2>1
    <3> QED
      BY ONLY <1>9, <3>1
  <2>3. /\ staged \subseteq Range(pending') \cup T /\ Range(pending') \subseteq staged
        /\ 1..offered = CarriedBy(wire) \cup uploading \cup Range(pending') \cup T \cup turnedAway
    BY ONLY <1>2, <1>12, <2>1
  <2> QED
    BY ONLY <1>2, <1>3, <1>5, <1>6, <1>7, <2>1, <2>2, <2>3, FilesFrom
<1> QED
  BY <1>3, <1>10, <1>11, <1>12

\* What the LiveView does with the rail's events, and the banner's.
LEMMA RestKeepsFiles ==
    ASSUME FilesOK, WireOK, QueueOK, DismissError \/ ReorderQueue \/ CutRun
    PROVE  FilesOK'
<1>1. /\ wire # <<>> /\ wire' = Tail(wire) /\ Head(wire).ev \in {"dismiss", "reorder", "cut"}
      /\ UNCHANGED <<offered, uploading, pending, staged, turnedAway>> /\ (refusal' = refusal \/ refusal' = FALSE)
      /\ \/ UNCHANGED <<waiting, cited>>
         \/ waiting' \in Reordered(Head(wire).files) /\ cited' = cited
         \/ TurnEnds
  BY DEF DismissError, ReorderQueue, CutRun, Next1, AtServer, fileVars, chipVars, turnVars
<1>2. wire \in Seq(PushedEvents) /\ waiting \in Seq(Messages)
  BY DEF WireOK, QueueOK
<1>3. CarriedBy(wire') = CarriedBy(wire) /\ \A gone, n : FreshIn(wire, gone, n) => FreshIn(wire', gone, n)
  BY <1>1, <1>2, NoteTaken
<1>4. RidingOn(waiting') \cup cited' = Sent2
  <2>1. CASE UNCHANGED <<waiting, cited>>
    BY <2>1, SentStays
  <2>2. CASE waiting' \in Reordered(Head(wire).files) /\ cited' = cited
    <3>1. RidingOn(waiting') = RidingOn(waiting)
      BY <1>2, <2>2, ReorderedKeeps
    <3> QED
      BY <2>2, <3>1 DEF Sent2
  <2>3. CASE TurnEnds
    BY <2>3, TurnEndsCites
  <2> QED
    BY <1>1, <2>1, <2>2, <2>3
<1>5. refusal' \in BOOLEAN
  BY <1>1, FilesAre
<1> QED
  BY ONLY <1>1, <1>3, <1>4, <1>5, FilesOK, FilesUndisturbed

LEMMA QueueKeeps ==
    ASSUME WireOK, QueueOK, FilesOK, ComposerNext
    PROVE  QueueOK'
<1>1. CASE ChatSend
  BY <1>1, ChatSendSends, FilesAre
<1>2. CASE ReorderQueue
  <2>1. waiting' \in Reordered(Head(wire).files) /\ cited' = cited /\ running' = running
    BY <1>2 DEF ReorderQueue
  <2>2. waiting' \in Seq(Messages)
    BY <2>1, ReorderedKeeps DEF QueueOK
  <2> QED
    BY <2>1, <2>2 DEF QueueOK
<1>3. CASE FinishRun \/ CutRun
  <2>1. TurnEnds \/ UNCHANGED <<running, waiting, cited>>
    BY <1>3 DEF FinishRun, CutRun
  <2>2. CASE TurnEnds
    BY <2>2, TurnEndsCites
  <2>3. CASE UNCHANGED <<running, waiting, cited>>
    BY <2>3 DEF QueueOK
  <2> QED
    BY <2>1, <2>2, <2>3
<1>4. CASE Type \/ SubmitFrame \/ Render \/ Pushes \/ Offer \/ \E f \in Files : UploadDone(f) \/ UploadFails(f)
  <2>1. UNCHANGED <<running, waiting, cited>>
    BY <1>4 DEF Type, SubmitFrame, Render, Pushes, Keydown, ClickPrimary, ClickSecondary, Submit, Escape, DragRail,
       Click, Offer, UploadDone, UploadFails, turnVars
  <2> QED
    BY <2>1 DEF QueueOK
<1>5. CASE AttachError \/ AttachPaths \/ RemoveAttachment \/ DismissError \/ SelectChat
  <2>1. UNCHANGED <<running, waiting, cited>>
    BY <1>5 DEF AttachError, AttachPaths, RemoveAttachment, DismissError, SelectChat, turnVars
  <2> QED
    BY <2>1 DEF QueueOK
<1> QED
  BY <1>1, <1>2, <1>3, <1>4, <1>5 DEF ComposerNext, Pushes

\* One step of the composer.
LEMMA ComposerSteps ==
    ASSUME ComposerInv, [ComposerNext]_composerVars
    PROVE  ComposerInv'
<1>1. FormOK /\ WireOK /\ QueueOK /\ FilesOK /\ wire \in Seq(PushedEvents) /\ offered \in 0..MaxFiles
  BY FilesAre DEF ComposerInv, WireOK
<1>2. CASE UNCHANGED composerVars
  <2>1. /\ UNCHANGED <<native, steerable, typed, hidden, frame, shown, rail, wire, sends>>
        /\ UNCHANGED <<running, waiting, cited>>
        /\ UNCHANGED <<offered, uploading, pending, refusal, staged, turnedAway>>
    BY <1>2 DEF composerVars, fieldVars, fileVars, chipVars, turnVars
  <2>2. FormOK'
    BY <1>1, <2>1 DEF FormOK, DeliveryFor
  <2>3. WireOK'
    BY <1>1, <2>1 DEF WireOK, ChordIn, SendsIn
  <2>4. QueueOK'
    BY <1>1, <2>1 DEF QueueOK
  <2>5. FilesOK'
    <3>1. RidingOn(waiting') \cup cited' = Sent2 /\ wire' = wire /\ refusal' \in BOOLEAN
      BY <1>1, <2>1, SentStays, FilesAre
    <3> QED
      BY ONLY <1>1, <2>1, <3>1, FilesUndisturbed
  <2> QED
    BY <2>2, <2>3, <2>4, <2>5 DEF ComposerInv
<1>3. CASE ComposerNext
  <2>1. \/ Type \/ SubmitFrame \/ Render \/ FinishRun \/ \E f \in Files : UploadDone(f) \/ UploadFails(f)
        \/ Pushes \/ Offer \/ Served
    BY <1>3 DEF ComposerNext, Pushes, Served
  <2>2. FormOK' /\ QueueOK'
    BY <1>1, <1>3, FormKeeps, QueueKeeps
  <2>3. WireOK'
    <3>1. Still \/ Pushes \/ Offer \/ Served
      BY <2>1 DEF Still
    <3> QED
      BY <1>1, <3>1, WireKeeps
  <2>4. FilesOK'
    <3>1. CASE Type \/ SubmitFrame \/ Render \/ FinishRun
      BY <1>1, <3>1, StillKeepsFiles
    <3>2. CASE \E f \in Files : UploadDone(f) \/ UploadFails(f)
      BY <1>1, <3>2, UploadsKeepFiles
    <3>3. CASE Pushes
      BY <1>1, <3>3, PushesKeepFiles
    <3>4. CASE Offer
      BY <1>1, <3>4, OfferKeepsFiles
    <3>5. CASE AttachPaths \/ AttachError
      BY <1>1, <3>5, ArrivalsKeepFiles
    <3>6. CASE RemoveAttachment
      BY <1>1, <3>6, RemoveKeepsFiles
    <3>7. CASE SelectChat
      BY <1>1, <3>7, SelectKeepsFiles
    <3>8. CASE ChatSend
      BY <1>1, <3>8, SendKeepsFiles
    <3>9. CASE DismissError \/ ReorderQueue \/ CutRun
      BY <1>1, <3>9, RestKeepsFiles
    <3> QED
      BY <2>1, <3>1, <3>2, <3>3, <3>4, <3>5, <3>6, <3>7, <3>8, <3>9 DEF Served
  <2> QED
    BY <2>2, <2>3, <2>4 DEF ComposerInv
<1> QED
  BY <1>2, <1>3

\* The composer's state has its type, and no more chips than the cap belong to
\* the message being written, however drops and uploads cross
\* (hooks/chat_dropzone.js, chat_attachments.ex).
THEOREM ComposerTypeCorrect == ComposerSpec => []ComposerTypeOK
<1>1. ComposerInit => ComposerInv
  BY ComposerStarts
<1>2. ComposerInv /\ [ComposerNext]_composerVars => ComposerInv'
  BY ComposerSteps
<1>3. ComposerInv => ComposerTypeOK
  BY ComposerInvImplies
<1> QED
  BY <1>1, <1>2, <1>3, PTL DEF ComposerSpec

\* No file that was offered vanishes, and no message goes another way than the
\* screen said when it was submitted, for every number of files, messages and
\* events under way (hooks/chat_dropzone.js:18-21, hooks/composer.js:31-33).
THEOREM NothingEverGoesAstray == ComposerSpec => []NothingGoesAstray
<1>1. ComposerInit => ComposerInv
  BY ComposerStarts
<1>2. ComposerInv /\ [ComposerNext]_composerVars => ComposerInv'
  BY ComposerSteps
<1>3. ComposerInv => NothingGoesAstray
  BY ComposerInvImplies
<1> QED
  BY <1>1, <1>2, <1>3, PTL DEF ComposerSpec

-----------------------------------------------------------------------------
(* The four parts of the page together.                                     *)

\* A step of the page is a step of one part, and the others stay.
LEMMA DeskParts == DeskSpec => ComposerSpec /\ VoiceSpec /\ NoteSpec /\ NoteCommandsSpec
<1> DEFINE all == <<subject, composerVars, voiceVars, noteVars, commandVars>>
<1>1. DeskInit => ComposerInit /\ VoiceInit /\ NoteInit /\ NoteCommandsInit
  BY DEF DeskInit
<1>2. [DeskNext]_all => [ComposerNext]_composerVars
  BY DEF DeskNext
<1>3. [DeskNext]_all => [VoiceNext]_voiceVars
  BY DEF DeskNext
<1>4. [DeskNext]_all => [NoteNext]_noteVars
  BY DEF DeskNext
<1>5. [DeskNext]_all => [NoteCommandsNext]_commandVars
  BY DEF DeskNext
<1> QED
  BY <1>1, <1>2, <1>3, <1>4, <1>5, PTL DEF DeskSpec, ComposerSpec, VoiceSpec, NoteSpec, NoteCommandsSpec

\* What the run checks of the page holds of it for every value of the constants:
\* its type invariant (composer.js, voice.js, note_editor.js, note_commands.js) ...
THEOREM DeskTypeCorrect == DeskSpec => []DeskTypeOK
<1>1. ComposerTypeOK /\ VoiceTypeOK /\ NoteTypeOK /\ NoteCommandsTypeOK => DeskTypeOK
  BY DEF DeskTypeOK
<1> QED
  BY <1>1, DeskParts, ComposerTypeCorrect, VoiceTypeCorrect, NoteTypeCorrect, CommandsTypeCorrect, PTL

\* ... and everything else.
THEOREM DeskCorrect ==
    DeskSpec => [](NothingGoesAstray /\ SpokenAsAsked /\ SaveSettles /\ ViewIsTheText) /\ CommandsKeepTheWords
BY DeskParts, NothingEverGoesAstray, SpokenAlwaysAsAsked, DraftsAlwaysSettle, ViewIsAlwaysTheText,
   WordsAreAlwaysKept, PTL
=============================================================================
