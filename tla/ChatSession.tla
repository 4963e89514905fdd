----------------------------- MODULE ChatSession -----------------------------
(***************************************************************************)
(* One chat session: ChatService (addMessage, closeSession) and the AI     *)
(* first responder that every committed visitor turn starts and nobody     *)
(* waits for.                                                              *)
(*                                                                         *)
(* A message carries the time its transaction began (created_at DEFAULT    *)
(* now()) but is seen when the transaction commits: messages may appear in *)
(* another order than their created_at.                                    *)
(***************************************************************************)
EXTENDS Environment, Sequences

CONSTANTS
  MaxTurns,   \* BOUND: visitor turns
  MaxReplies  \* BOUND: agent messages

ASSUME ChatAssumption == MaxTurns \in Nat /\ MaxReplies \in Nat

Turns == 1..MaxTurns

VARIABLES
  messages,    \* chat_messages in the order they were committed: [author, at]
  chatOpen,    \* chat_sessions.status = 'open'
  claimed,     \* assigned_agent_id IS NOT NULL
  chatClock,   \* order of the transactions' beginnings
  turnAt,      \* created_at of a visitor turn under way or done, 0: none yet
  turnDone,    \* visitor turns committed
  replyAt,     \* created_at of the agent's message under way, 0: none
  agentSent,   \* agent messages begun
  responder,   \* what the responder of every turn is doing
  responderAt, \* created_at of its reply
  afterClaim   \* history: AI messages committed after the claim

chatTxVars == <<chatClock, turnAt, turnDone, replyAt, agentSent>>
chatRespVars == <<responder, responderAt>>
chatVars == <<messages, chatOpen, claimed, chatTxVars, chatRespVars, afterClaim>>

ChatInit ==
  /\ EnvInit
  /\ messages = << >>
  /\ chatOpen = TRUE
  /\ claimed = FALSE
  /\ chatClock = 0
  /\ turnAt = [i \in Turns |-> 0]
  /\ turnDone = {}
  /\ replyAt = 0
  /\ agentSent = 0
  /\ responder = [i \in Turns |-> "none"]
  /\ responderAt = [i \in Turns |-> 0]
  /\ afterClaim = 0

-----------------------------------------------------------------------------
(* Positions of messages that are the newest by created_at *)
Newest(k) ==
  k \in DOMAIN messages /\ \A j \in DOMAIN messages : messages[j].at <= messages[k].at

NewestIsVisitor == \E k \in DOMAIN messages : Newest(k) /\ messages[k].author = "visitor"

(* addMessage of a visitor: BEGIN *)
BeginTurn(i) ==
  /\ turnAt[i] = 0 /\ (i > 1 => turnAt[i - 1] # 0)
  /\ chatClock' = chatClock + 1
  /\ turnAt' = [turnAt EXCEPT ![i] = chatClock + 1]
  /\ UNCHANGED <<environment, messages, chatOpen, claimed, turnDone, replyAt,
                 agentSent, chatRespVars, afterClaim>>

(* Mutant of CommitTurn: the responder of a reopened session is not started *)
CommitTurnQuiet(i) ==
  /\ turnAt[i] # 0 /\ i \notin turnDone
  /\ turnDone' = turnDone \cup {i}
  /\ messages' = Append(messages, [author |-> "visitor", at |-> turnAt[i]])
  /\ chatOpen' = TRUE
  /\ responder' = [responder EXCEPT ![i] = IF chatOpen THEN "load" ELSE "done"]
  /\ UNCHANGED <<environment, claimed, chatClock, turnAt, replyAt, agentSent,
                 responderAt, afterClaim>>

(* INSERT, UPDATE chat_sessions (a visitor reopens it), COMMIT, and the    *)
(* responder is started                                                    *)
CommitTurn(i) ==
  /\ turnAt[i] # 0 /\ i \notin turnDone
  /\ turnDone' = turnDone \cup {i}
  /\ messages' = Append(messages, [author |-> "visitor", at |-> turnAt[i]])
  /\ chatOpen' = TRUE
  /\ responder' = [responder EXCEPT ![i] = "load"]
  /\ UNCHANGED <<environment, claimed, chatClock, turnAt, replyAt, agentSent,
                 responderAt, afterClaim>>

(* addMessage of an agent: BEGIN *)
BeginReply ==
  /\ replyAt = 0 /\ agentSent < MaxReplies
  /\ chatClock' = chatClock + 1
  /\ replyAt' = chatClock + 1
  /\ agentSent' = agentSent + 1
  /\ UNCHANGED <<environment, messages, chatOpen, claimed, turnAt, turnDone,
                 chatRespVars, afterClaim>>

(* Its COMMIT: the session is claimed when the message names its author;   *)
(* the status stays as it is                                               *)
CommitReply ==
  /\ replyAt # 0
  /\ messages' = Append(messages, [author |-> "agent", at |-> replyAt])
  /\ \E named \in BOOLEAN : claimed' = (claimed \/ named)
  /\ replyAt' = 0
  /\ UNCHANGED <<environment, chatOpen, chatClock, turnAt, turnDone, agentSent,
                 chatRespVars, afterClaim>>

(* closeSession *)
CloseSession ==
  /\ chatOpen
  /\ chatOpen' = FALSE
  /\ UNCHANGED <<environment, messages, claimed, chatTxVars, chatRespVars, afterClaim>>

-----------------------------------------------------------------------------
(* A visitor's message followed by no AI message, by created_at *)
LastVisitorWaits ==
  \E k \in DOMAIN messages :
    /\ messages[k].author = "visitor"
    /\ \A j \in DOMAIN messages :
         messages[j].at > messages[k].at => messages[j].author = "agent"

(* respond: loadContext and the early returns *)
LoadContext(i) ==
  /\ responder[i] = "load"
  /\ responder' = [responder EXCEPT ![i] =
       IF chatOpen /\ ~claimed /\ LastVisitorWaits THEN "complete" ELSE "done"]
  /\ UNCHANGED <<environment, messages, chatOpen, claimed, chatTxVars,
                 responderAt, afterClaim>>

(* searchPublished and complete answer; BEGIN of the write transaction *)
BeginWrite(i) ==
  /\ responder[i] = "complete"
  /\ chatClock' = chatClock + 1
  /\ responderAt' = [responderAt EXCEPT ![i] = chatClock + 1]
  /\ responder' = [responder EXCEPT ![i] = "write"]
  /\ UNCHANGED <<environment, messages, chatOpen, claimed, turnAt, turnDone,
                 replyAt, agentSent, afterClaim>>

(* Mutant of SessionLocked: responders do not wait for each other *)
SessionUnlocked == FALSE

(* pg_advisory_xact_lock is held by another responder *)
SessionLocked == \E i \in Turns : responder[i] = "commit"

(* Mutant of MayAnswer: the session is not looked at again *)
MayAnswerStale == NewestIsVisitor

(* The conditions of the INSERT ... SELECT *)
MayAnswer == chatOpen /\ ~claimed /\ NewestIsVisitor

(* Under the lock: the INSERT writes the reply or nothing *)
InsertReply(i) ==
  /\ responder[i] = "write" /\ ~SessionLocked
  /\ responder' = [responder EXCEPT ![i] = IF MayAnswer THEN "commit" ELSE "done"]
  /\ UNCHANGED <<environment, messages, chatOpen, claimed, chatTxVars,
                 responderAt, afterClaim>>

(* UPDATE last_message_at and COMMIT, which releases the lock *)
CommitAnswer(i) ==
  /\ responder[i] = "commit"
  /\ messages' = Append(messages, [author |-> "ai", at |-> responderAt[i]])
  /\ responder' = [responder EXCEPT ![i] = "done"]
  /\ afterClaim' = IF claimed THEN afterClaim + 1 ELSE afterClaim
  /\ UNCHANGED <<environment, chatOpen, claimed, chatTxVars, responderAt>>

(* The AI answers nothing, a call or a statement fails, or the process     *)
(* stops: nothing is written and nobody tries again                        *)
ResponderFails(i) ==
  /\ responder[i] \notin {"none", "done"}
  /\ Fault
  /\ responder' = [responder EXCEPT ![i] = "done"]
  /\ UNCHANGED <<messages, chatOpen, claimed, chatTxVars, responderAt, afterClaim>>

-----------------------------------------------------------------------------
ChatNext ==
  \/ BeginReply \/ CommitReply \/ CloseSession
  \/ \E i \in Turns :
       \/ BeginTurn(i) \/ CommitTurn(i) \/ LoadContext(i) \/ BeginWrite(i)
       \/ InsertReply(i) \/ CommitAnswer(i) \/ ResponderFails(i)

ChatSpec == ChatInit /\ [][ChatNext]_<<environment, chatVars>>

-----------------------------------------------------------------------------
(* Every variable stays in its type, and at most one responder is between  *)
(* its INSERT and its COMMIT.                                              *)
ChatTypeOK ==
  /\ EnvTypeOK
  /\ messages \in Seq([author : {"visitor", "agent", "ai"}, at : Nat])
  /\ chatOpen \in BOOLEAN /\ claimed \in BOOLEAN
  /\ chatClock \in Nat
  /\ turnAt \in [Turns -> Nat]
  /\ turnDone \subseteq Turns
  /\ replyAt \in Nat
  /\ agentSent \in 0..MaxReplies
  /\ responder \in [Turns -> {"none", "load", "complete", "write", "commit", "done"}]
  /\ responderAt \in [Turns -> Nat]
  /\ afterClaim \in Nat
  /\ \A i, j \in Turns : responder[i] = "commit" /\ responder[j] = "commit" => i = j

(* "human handoff always wins": after an agent's claim is committed at     *)
(* most one AI reply still appears, the one that had passed its check.     *)
OneReplyAfterHandoff == afterClaim <= 1

(* When every responder is done and none failed, an open session that no   *)
(* agent has claimed does not end with a visitor's message: the gates that *)
(* silence responders never silence all of them.                           *)
NewestTurnIsAnswered ==
  /\ \A i \in Turns : responder[i] \in {"none", "done"}
  /\ faults = 0 /\ chatOpen /\ ~claimed
  => ~NewestIsVisitor

(* "a responder that already answered ... blocks a duplicate AI reply": no *)
(* AI message is committed right after another one.                        *)
NoDuplicateReply ==
  \A k \in DOMAIN messages :
    k > 1 /\ messages[k].author = "ai" => messages[k - 1].author # "ai"

=============================================================================
