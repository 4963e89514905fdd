----------------------------- MODULE ChatConsole -----------------------------
(***************************************************************************)
(* The agents' chat console (ChatPage) over ChatService.listMessages.  The *)
(* page polls the selected session for what is newer than the last message *)
(* it got; a poll does not wait for the one before it, and its answer may  *)
(* come after the agent has opened another session.                        *)
(*                                                                         *)
(* created_at is the start of the writing transaction; in JSON it is cut   *)
(* to milliseconds, in which it comes back as `since'.                     *)
(***************************************************************************)
EXTENDS Environment, Sequences

CONSTANTS
  Chats,      \* sessions of the left rail
  ChatLog,    \* BOUND: messages that are written
  ChatOf,     \* the session of each
  PollSlots,  \* BOUND: polls that are under way at once
  Millisecond,\* units of created_at in one
  MaxVisits   \* BOUND: selections of a session

ASSUME ConsoleAssumption ==
  /\ ChatOf \in [ChatLog -> Chats] /\ IsFiniteSet(ChatLog)
  /\ Millisecond \in Nat \ {0} /\ MaxVisits \in Nat
  /\ None \notin Chats

VARIABLES
  writeClock,  \* order of the transactions' beginnings
  writtenAt,   \* created_at of a message, 0: not begun
  written,     \* the committed ones
  overtaken,   \* history: those a message begun later was committed before
  selectedId,  \* the selected session, or None
  visit,       \* runs of the effect so far; a poll of an older one is not `active'
  transcript,  \* messages on the page
  lastAt,      \* lastAtRef.current, or None
  poll         \* the polls under way: who asked for what, and the answer

writeVars == <<writeClock, writtenAt, written, overtaken>>
pageVars == <<selectedId, visit, transcript, lastAt>>
consoleVars == <<writeVars, pageVars, poll>>

NoPoll == [at |-> "none"]

ConsoleInit ==
  /\ EnvInit
  /\ writeClock = 0
  /\ writtenAt = [m \in ChatLog |-> 0]
  /\ written = {}
  /\ overtaken = {}
  /\ selectedId = None
  /\ visit = 0
  /\ transcript = << >>
  /\ lastAt = None
  /\ poll = [k \in PollSlots |-> NoPoll]

-----------------------------------------------------------------------------
(* A visitor, an agent or the AI: BEGIN *)
BeginMessage(m) ==
  /\ writtenAt[m] = 0
  /\ writeClock' = writeClock + 1
  /\ writtenAt' = [writtenAt EXCEPT ![m] = writeClock + 1]
  /\ UNCHANGED <<environment, written, overtaken, pageVars, poll>>

(* COMMIT *)
CommitMessage(m) ==
  /\ writtenAt[m] # 0 /\ m \notin written
  /\ written' = written \cup {m}
  /\ overtaken' = IF \E n \in written : ChatOf[n] = ChatOf[m] /\ writtenAt[n] > writtenAt[m]
             THEN overtaken \cup {m} ELSE overtaken
  /\ UNCHANGED <<environment, writeClock, writtenAt, pageVars, poll>>

(* poll(): the request goes out with the cursor of this moment *)
Ask(k, session, run, cursor) ==
  /\ poll[k] = NoPoll
  /\ poll' = [poll EXCEPT ![k] =
       [at |-> "asked", session |-> session, run |-> run, since |-> cursor]]

(* setSelectedId: the effect is cleaned up and run again; it polls at once *)
SelectSession(s) ==
  /\ s # selectedId /\ visit < MaxVisits
  /\ selectedId' = s
  /\ visit' = visit + 1
  /\ transcript' = << >>
  /\ lastAt' = None
  /\ \E k \in PollSlots : Ask(k, s, visit + 1, None)
  /\ UNCHANGED <<environment, writeVars>>

(* The interval's poll *)
PollAgain(k) ==
  /\ selectedId # None
  /\ Ask(k, selectedId, visit, lastAt)
  /\ UNCHANGED <<environment, writeVars, pageVars>>

(* The elements of S from the least `at' to the greatest *)
SortedBy(S, at) ==
  CHOOSE q \in [1..Cardinality(S) -> S] :
    \A i, j \in 1..Cardinality(S) : i < j => at[q[i]] < at[q[j]]

(* ORDER BY created_at *)
InOrder(S) == SortedBy(S, writtenAt)

(* listMessages *)
ListMessages(k) ==
  LET p == poll[k]
      newer == {m \in written : ChatOf[m] = p.session
                                /\ (p.since # None => writtenAt[m] > p.since)}
  IN  /\ p.at = "asked"
      /\ poll' = [poll EXCEPT ![k] =
           [at |-> "answered", run |-> p.run, batch |-> InOrder(newer)]]
      /\ UNCHANGED <<environment, writeVars, pageVars>>

(* created_at as the page gets it *)
Cut(time) == time - (time % Millisecond)

(* filter: what the page does not show yet goes to the end, in the order   *)
(* of the batch                                                            *)
Merged(batch) ==
  LET seen == {transcript[i] : i \in DOMAIN transcript}
      fresh == {i \in DOMAIN batch : batch[i] \notin seen}
      kept == SortedBy(fresh, [i \in fresh |-> i])
  IN  transcript \o [n \in DOMAIN kept |-> batch[kept[n]]]

(* Mutant of TakeAnswer: the cursor is moved before `active' is looked at *)
TakeAnswerCursor(k) ==
  LET batch == poll[k].batch
  IN  /\ poll[k].at = "answered"
      /\ poll' = [poll EXCEPT ![k] = NoPoll]
      /\ lastAt' = IF batch = << >> THEN lastAt ELSE Cut(writtenAt[batch[Len(batch)]])
      /\ transcript' = IF poll[k].run = visit THEN Merged(batch) ELSE transcript
      /\ UNCHANGED <<environment, writeVars, selectedId, visit>>

(* The answer arrives *)
TakeAnswer(k) ==
  LET batch == poll[k].batch
  IN  /\ poll[k].at = "answered"
      /\ poll' = [poll EXCEPT ![k] = NoPoll]
      /\ IF poll[k].run # visit \/ batch = << >>
         THEN UNCHANGED <<transcript, lastAt>>
         ELSE /\ transcript' = Merged(batch)
              /\ lastAt' = Cut(writtenAt[batch[Len(batch)]])
      /\ UNCHANGED <<environment, writeVars, selectedId, visit>>

(* "transient poll error; next tick retries" *)
AskFails(k) ==
  /\ poll[k] # NoPoll
  /\ Fault
  /\ poll' = [poll EXCEPT ![k] = NoPoll]
  /\ UNCHANGED <<writeVars, pageVars>>

-----------------------------------------------------------------------------
ConsoleNext ==
  \/ \E m \in ChatLog : BeginMessage(m) \/ CommitMessage(m)
  \/ \E s \in Chats : SelectSession(s)
  \/ \E k \in PollSlots : PollAgain(k) \/ ListMessages(k) \/ TakeAnswer(k) \/ AskFails(k)

ConsoleSpec == ConsoleInit /\ [][ConsoleNext]_<<environment, consoleVars>>

-----------------------------------------------------------------------------
(* Every variable stays in its type, and no message is on the page twice,  *)
(* although polls overlap and the cut cursor asks for the last one again.  *)
ConsoleTypeOK ==
  /\ EnvTypeOK
  /\ writtenAt \in [ChatLog -> 0..writeClock]
  /\ overtaken \subseteq written /\ written \subseteq ChatLog
  /\ selectedId \in Chats \cup {None}
  /\ visit \in 0..MaxVisits
  /\ transcript \in Seq(ChatLog)
  /\ lastAt \in 0..writeClock \cup {None}
  /\ \A i, j \in DOMAIN transcript : transcript[i] = transcript[j] => i = j

(* The page shows messages of the selected session only, whatever answers  *)
(* arrive after the agent turned to another one.                           *)
ShowsThisChat == \A i \in DOMAIN transcript : ChatOf[transcript[i]] = selectedId

(* "an agent sees visitor replies without refreshing": the cursor passes a *)
(* message that is not on the page only when the message was committed     *)
(* after one that began later.                                             *)
CursorSkipsOnlyLate ==
  \A m \in written \ overtaken :
    ChatOf[m] = selectedId /\ lastAt # None /\ writtenAt[m] <= lastAt =>
      \E i \in DOMAIN transcript : transcript[i] = m

(* The transcript is the selected chat as far as the cursor goes. *)
TranscriptIsTheChat == ShowsThisChat /\ CursorSkipsOnlyLate

=============================================================================
