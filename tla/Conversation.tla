---------------------------- MODULE Conversation ----------------------------
(***************************************************************************)
(* The messages of tickets under TicketsService.merge and addMessage.      *)
(*                                                                         *)
(* merge is one READ COMMITTED transaction: for every source it reads      *)
(* merged_into_id, carries the messages over and closes the source.  An    *)
(* UPDATE works on the rows that were committed when it started; it waits  *)
(* for a row another transaction has updated and then takes it only if it  *)
(* still matches.  What a merge updated stays locked and unseen until it   *)
(* commits.  addMessage writes in one transaction and sends its emails     *)
(* afterwards, each on its own.  Attachments move like their messages.     *)
(***************************************************************************)
EXTENDS Environment

CONSTANTS
  Threads,      \* tickets, each with or without a message at the start
  MergeCalls,   \* requests to merge
  Posts,        \* requests to add a message
  Watchers      \* agents who watch the tickets

ASSUME ConversationAssumption ==
  /\ Threads \cap Posts = {}
  /\ None \notin Threads
  /\ Watchers \cap {"requester", "assignee"} = {}
  /\ IsFiniteSet(Watchers)

Addressees == {"requester", "assignee"} \cup Watchers

(* A ticket's first message has the ticket's name. *)
Messages == Threads \cup Posts

VARIABLES
  mergedInto,   \* tickets.merged_into_id
  place,        \* ticket_messages.ticket_id, None: not committed
  mergeStage,   \* where each merge is
  primary,      \* its primary
  sources,      \* sources still to handle
  source,       \* the one it is at, or None
  matching,     \* messages its UPDATE started with
  moved,        \* messages it has updated
  closed,       \* sources it has updated
  postStage,    \* where each addMessage is
  postTo,       \* its ticket
  unsent,       \* emails it still has to send
  sentMails,    \* history: emails enqueued
  owed,         \* history: emails its message called for
  handled,      \* history: merges that closed each ticket
  late,         \* history: <<message, ticket>> that met in the ticket after
                \* a merge had looked for its messages
  overlap       \* history: two merges were under way at once

convStored == <<mergedInto, place, handled>>
mergeVars == <<mergeStage, primary, sources, source, matching, moved, closed>>
postVars == <<postStage, postTo, unsent, sentMails, owed>>
convVars == <<convStored, mergeVars, postVars, late, overlap>>

ConvInit ==
  /\ EnvInit
  /\ mergedInto = [t \in Threads |-> None]
  /\ \E S \in SUBSET Threads : place = [m \in Messages |-> IF m \in S THEN m ELSE None]
  /\ mergeStage = [g \in MergeCalls |-> "begin"]
  /\ primary = [g \in MergeCalls |-> None]
  /\ sources = [g \in MergeCalls |-> {}]
  /\ source = [g \in MergeCalls |-> None]
  /\ matching = [g \in MergeCalls |-> {}]
  /\ moved = [g \in MergeCalls |-> {}]
  /\ closed = [g \in MergeCalls |-> {}]
  /\ postStage = [r \in Posts |-> "begin"]
  /\ postTo = [r \in Posts |-> None]
  /\ unsent = [r \in Posts |-> {}]
  /\ sentMails = [r \in Posts |-> {}]
  /\ owed = [r \in Posts |-> {}]
  /\ handled = [t \in Threads |-> 0]
  /\ late = {}
  /\ overlap = FALSE

-----------------------------------------------------------------------------
Merging(g) == mergeStage[g] \notin {"begin", "done"}

(* merge: BEGIN, the primary exists; the primary itself is skipped *)
BeginMerge(g) ==
  /\ mergeStage[g] = "begin"
  /\ \E t \in Threads, S \in SUBSET Threads :
       /\ S # {} /\ t \notin S
       /\ primary' = [primary EXCEPT ![g] = t]
       /\ sources' = [sources EXCEPT ![g] = S]
  /\ mergeStage' = [mergeStage EXCEPT ![g] = "next"]
  /\ overlap' = (overlap \/ \E h \in MergeCalls : Merging(h))
  /\ UNCHANGED <<environment, convStored, source, matching, moved, closed, postVars, late>>

(* Mutant of Skipped: merged_into_id is not looked at *)
SkippedNever(s) == FALSE

(* if (source.merged_into_id) continue *)
Skipped(s) == mergedInto[s] # None

(* SELECT of the next source *)
ReadSource(g) ==
  /\ mergeStage[g] = "next"
  /\ \E s \in sources[g] :
       /\ sources' = [sources EXCEPT ![g] = @ \ {s}]
       /\ IF Skipped(s)
          THEN UNCHANGED <<mergeStage, source>>
          ELSE /\ source' = [source EXCEPT ![g] = s]
               /\ mergeStage' = [mergeStage EXCEPT ![g] = "start"]
  /\ UNCHANGED <<environment, convStored, primary, matching, moved, closed, postVars,
                 late, overlap>>

(* UPDATE ticket_messages ... WHERE ticket_id = source starts *)
StartMove(g) ==
  /\ mergeStage[g] = "start"
  /\ matching' = [matching EXCEPT ![g] = {m \in Messages : place[m] = source[g]}]
  /\ mergeStage' = [mergeStage EXCEPT ![g] = "move"]
  /\ UNCHANGED <<environment, convStored, primary, sources, source, moved, closed,
                 postVars, late, overlap>>

(* Mutant of Moving: rows another merge holds are passed over *)
MovingFree(g) ==
  {m \in matching[g] : place[m] = source[g] /\ \A h \in MergeCalls \ {g} : m \notin moved[h]}

(* The rows that still match *)
Moving(g) == {m \in matching[g] : place[m] = source[g]}

MoveWaits(g) ==
  mergeStage[g] = "move" /\ \E h \in MergeCalls \ {g} : Moving(g) \cap moved[h] # {}

(* It has all its rows *)
MoveMessages(g) ==
  /\ mergeStage[g] = "move" /\ ~MoveWaits(g)
  /\ moved' = [moved EXCEPT ![g] = @ \cup Moving(g)]
  /\ matching' = [matching EXCEPT ![g] = {}]
  /\ mergeStage' = [mergeStage EXCEPT ![g] = "close"]
  /\ UNCHANGED <<environment, convStored, primary, sources, source, closed, postVars,
                 late, overlap>>

CloseWaits(g) ==
  mergeStage[g] = "close" /\ \E h \in MergeCalls \ {g} : source[g] \in closed[h]

(* UPDATE tickets SET status, merged_into_id, and the source's note *)
CloseSource(g) ==
  /\ mergeStage[g] = "close" /\ ~CloseWaits(g)
  /\ closed' = [closed EXCEPT ![g] = @ \cup {source[g]}]
  /\ source' = [source EXCEPT ![g] = None]
  /\ mergeStage' = [mergeStage EXCEPT ![g] = "next"]
  /\ UNCHANGED <<environment, convStored, primary, sources, matching, moved, postVars,
                 late, overlap>>

EndMerge(g) ==
  /\ mergeStage' = [mergeStage EXCEPT ![g] = "done"]
  /\ primary' = [primary EXCEPT ![g] = None]
  /\ sources' = [sources EXCEPT ![g] = {}]
  /\ source' = [source EXCEPT ![g] = None]
  /\ matching' = [matching EXCEPT ![g] = {}]
  /\ moved' = [moved EXCEPT ![g] = {}]
  /\ closed' = [closed EXCEPT ![g] = {}]

(* A merge has looked for the messages of the ticket *)
LookedAt(t) ==
  \/ mergedInto[t] # None
  \/ \E g \in MergeCalls :
       t \in closed[g] \/ (source[g] = t /\ mergeStage[g] \in {"move", "close"})

(* The primary's note, COMMIT *)
CommitMerge(g) ==
  /\ mergeStage[g] = "next" /\ sources[g] = {}
  /\ place' = [m \in Messages |-> IF m \in moved[g] THEN primary[g] ELSE place[m]]
  /\ mergedInto' = [t \in Threads |-> IF t \in closed[g] THEN primary[g] ELSE mergedInto[t]]
  /\ handled' = [t \in Threads |-> handled[t] + (IF t \in closed[g] THEN 1 ELSE 0)]
  /\ late' = IF LookedAt(primary[g])
             THEN late \cup {<<m, primary[g]>> : m \in moved[g]} ELSE late
  /\ EndMerge(g)
  /\ UNCHANGED <<environment, postVars, overlap>>

(* Merges wait for each other, and the database chooses a victim. *)
MergeDeadlock(g) ==
  /\ MoveWaits(g) \/ CloseWaits(g)
  /\ \A h \in MergeCalls : Merging(h) => MoveWaits(h) \/ CloseWaits(h)
  /\ EndMerge(g)
  /\ UNCHANGED <<environment, convStored, postVars, late, overlap>>

(* A source does not exist, a statement fails, the process stops: ROLLBACK *)
MergeFails(g) ==
  /\ Merging(g)
  /\ Fault
  /\ EndMerge(g)
  /\ UNCHANGED <<convStored, postVars, late, overlap>>

-----------------------------------------------------------------------------
(* addMessage: BEGIN, the ticket is read (merged or not), INSERT, and the  *)
(* emails: none of a note; of a reply the requester's (an agent wrote) or  *)
(* the assigned agent's (the contact wrote), and the watchers'             *)
BeginPost(r) ==
  /\ postStage[r] = "begin"
  /\ \E t \in Threads : postTo' = [postTo EXCEPT ![r] = t]
  /\ \E E \in SUBSET Addressees :
       /\ ~({"requester", "assignee"} \subseteq E)
       /\ unsent' = [unsent EXCEPT ![r] = E]
       /\ owed' = [owed EXCEPT ![r] = E]
  /\ postStage' = [postStage EXCEPT ![r] = "insert"]
  /\ UNCHANGED <<environment, convStored, mergeVars, sentMails, late, overlap>>

(* COMMIT *)
CommitPost(r) ==
  /\ postStage[r] = "insert"
  /\ place' = [place EXCEPT ![r] = postTo[r]]
  /\ postStage' = [postStage EXCEPT ![r] = "mail"]
  /\ late' = IF LookedAt(postTo[r]) THEN late \cup {<<r, postTo[r]>>} ELSE late
  /\ UNCHANGED <<environment, mergedInto, handled, mergeVars, postTo, unsent, sentMails,
                 owed, overlap>>

(* The requester's email, then the assigned agent's, then the watchers' *)
NextRecipients(r) ==
  IF "requester" \in unsent[r] THEN {"requester"}
  ELSE IF "assignee" \in unsent[r] THEN {"assignee"} ELSE unsent[r]

(* enqueue *)
SendPost(r) ==
  /\ postStage[r] = "mail"
  /\ \E x \in NextRecipients(r) :
       /\ sentMails' = [sentMails EXCEPT ![r] = @ \cup {x}]
       /\ unsent' = [unsent EXCEPT ![r] = @ \ {x}]
  /\ UNCHANGED <<environment, convStored, mergeVars, postStage, postTo, owed, late, overlap>>

(* Mutant of SendFails: the first failure ends the request *)
SendFailsAll(r) ==
  /\ postStage[r] = "mail" /\ unsent[r] # {}
  /\ Fault
  /\ unsent' = [unsent EXCEPT ![r] = {}]
  /\ UNCHANGED <<convStored, mergeVars, postStage, postTo, sentMails, owed, late, overlap>>

(* enqueue throws: logged, on to the next email.  The lookup of the        *)
(* agent's address throws: nobody catches it and the request fails.        *)
SendFails(r) ==
  /\ postStage[r] = "mail"
  /\ Fault
  /\ \E x \in NextRecipients(r) :
       \/ unsent' = [unsent EXCEPT ![r] = @ \ {x}]
       \/ x = "assignee" /\ unsent' = [unsent EXCEPT ![r] = {}]
  /\ UNCHANGED <<convStored, mergeVars, postStage, postTo, sentMails, owed, late, overlap>>

(* The answer *)
PostEnds(r) ==
  /\ postStage[r] = "mail" /\ unsent[r] = {}
  /\ postStage' = [postStage EXCEPT ![r] = "done"]
  /\ UNCHANGED <<environment, convStored, mergeVars, postTo, unsent, sentMails, owed, late,
                 overlap>>

(* ROLLBACK *)
PostFails(r) ==
  /\ postStage[r] = "insert"
  /\ Fault
  /\ postStage' = [postStage EXCEPT ![r] = "done"]
  /\ unsent' = [unsent EXCEPT ![r] = {}]
  /\ owed' = [owed EXCEPT ![r] = {}]
  /\ UNCHANGED <<convStored, mergeVars, postTo, sentMails, late, overlap>>

-----------------------------------------------------------------------------
ConvNext ==
  \/ \E g \in MergeCalls :
       \/ BeginMerge(g) \/ ReadSource(g) \/ StartMove(g) \/ MoveMessages(g)
       \/ CloseSource(g) \/ CommitMerge(g) \/ MergeDeadlock(g) \/ MergeFails(g)
  \/ \E r \in Posts :
       BeginPost(r) \/ CommitPost(r) \/ SendPost(r) \/ SendFails(r) \/ PostEnds(r) \/ PostFails(r)

ConvSpec == ConvInit /\ [][ConvNext]_<<environment, convVars>>

-----------------------------------------------------------------------------
(* Every variable stays in its type, and no row is updated by two merges   *)
(* at once.                                                                *)
ConvTypeOK ==
  /\ EnvTypeOK
  /\ mergedInto \in [Threads -> Threads \cup {None}]
  /\ place \in [Messages -> Threads \cup {None}]
  /\ mergeStage \in [MergeCalls -> {"begin", "next", "start", "move", "close", "done"}]
  /\ primary \in [MergeCalls -> Threads \cup {None}]
  /\ sources \in [MergeCalls -> SUBSET Threads]
  /\ source \in [MergeCalls -> Threads \cup {None}]
  /\ matching \in [MergeCalls -> SUBSET Messages]
  /\ moved \in [MergeCalls -> SUBSET Messages]
  /\ closed \in [MergeCalls -> SUBSET Threads]
  /\ \A g, h \in MergeCalls :
       g # h => moved[g] \cap moved[h] = {} /\ closed[g] \cap closed[h] = {}
  /\ postStage \in [Posts -> {"begin", "insert", "mail", "done"}]
  /\ postTo \in [Posts -> Threads \cup {None}]
  /\ \A r \in Posts : /\ sentMails[r] \subseteq owed[r] /\ owed[r] \subseteq Addressees
                      /\ unsent[r] \subseteq owed[r] \ sentMails[r]
  /\ handled \in [Threads -> Nat]
  /\ late \subseteq Messages \X Threads
  /\ overlap \in BOOLEAN

(* "each source's conversation ... is carried over to the primary": what a *)
(* merged ticket still holds came after the merge had looked, however      *)
(* merges of the same tickets wait for each other, deadlock or roll back.  *)
CarriedOver ==
  \A m \in Messages :
    place[m] # None /\ mergedInto[place[m]] # None => <<m, place[m]>> \in late

(* "a source already merged ... is skipped rather than double-processed":  *)
(* so it is when merges do not overlap, failed ones included.              *)
MergedOnceInTurn == ~overlap => \A t \in Threads : handled[t] <= 1

(* "a mail-provider failure must never fail the reply itself": a failure   *)
(* costs one email, and the others are sent; only the lookup of the        *)
(* assigned agent takes the watchers' emails with it.                      *)
FailedMailCostsItself ==
  \A r \in Posts :
    LET lost == owed[r] \ sentMails[r]
    IN  postStage[r] = "done" /\ "assignee" \notin lost => Cardinality(lost) <= faults

=============================================================================
