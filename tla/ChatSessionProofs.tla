-------------------------- MODULE ChatSessionProofs --------------------------
(***************************************************************************)
(* Proofs about ChatSession for any number of visitor turns, agent         *)
(* messages and faults, and about ChatConsole for any chats, messages and  *)
(* overlapping polls.                                                      *)
(***************************************************************************)
EXTENDS ChatSession, ChatConsole, FiniteSetTheorems, TLAPS

cvars == <<environment, chatVars>>

(* What makes "at most one" inductive: before the claim nothing is counted *)
(* and after it the count is still zero while a reply is uncommitted.      *)
HandoffInv ==
  /\ OneReplyAfterHandoff
  /\ ~claimed => afterClaim = 0
  /\ \A i \in Turns : responder[i] = "commit" => afterClaim = 0

(* The inductive invariant *)
ChatInv == ChatTypeOK /\ HandoffInv

Message == [author : {"visitor", "agent", "ai"}, at : Nat]

-----------------------------------------------------------------------------
LEMMA ChatInitInv == ChatInit => ChatInv
<1> SUFFICES ASSUME ChatInit
             PROVE  ChatInv
  OBVIOUS
<1> USE EnvironmentAssumption, ChatAssumption
<1>1. EnvTypeOK
  BY DEF ChatInit, EnvInit, EnvTypeOK, Times
<1>2. chatOpen \in BOOLEAN /\ claimed \in BOOLEAN
  BY Zenon DEF ChatInit
<1> QED
  BY <1>1, <1>2
     DEF ChatInit, ChatInv, ChatTypeOK, HandoffInv, OneReplyAfterHandoff

LEMMA ChatEnvironmentKept == ASSUME EnvTypeOK, UNCHANGED environment PROVE EnvTypeOK'
BY DEF EnvTypeOK, environment, Times

LEMMA ChatFaultTyped == ASSUME EnvTypeOK, Fault PROVE EnvTypeOK'
BY EnvironmentAssumption DEF EnvTypeOK, Fault, Times

(* A committed message is appended to the others *)
LEMMA AppendTyped ==
  ASSUME messages \in Seq(Message), NEW a \in {"visitor", "agent", "ai"}, NEW t \in Nat,
         messages' = Append(messages, [author |-> a, at |-> t])
  PROVE  messages' \in Seq(Message)
BY DEF Message

LEMMA ChatNextInv == ChatInv /\ [ChatNext]_cvars => ChatInv'
<1> SUFFICES ASSUME ChatInv, [ChatNext]_cvars
             PROVE  ChatInv'
  OBVIOUS
<1> USE ChatAssumption DEF ChatInv, HandoffInv, OneReplyAfterHandoff
<1>0. EnvTypeOK /\ messages \in Seq(Message)
  BY DEF ChatTypeOK, Message
<1>1. ASSUME NEW i \in Turns, BeginTurn(i)
      PROVE  ChatInv'
  BY <1>0, <1>1, ChatEnvironmentKept DEF BeginTurn, chatRespVars, ChatTypeOK
<1>2. ASSUME NEW i \in Turns, CommitTurn(i)
      PROVE  ChatInv'
  <2>1. messages' \in Seq(Message)
    BY <1>0, <1>2, AppendTyped DEF CommitTurn, ChatTypeOK
  <2>2. chatOpen' \in BOOLEAN /\ claimed' \in BOOLEAN
    BY <1>2, Zenon DEF CommitTurn, ChatTypeOK
  <2> QED
    BY <1>0, <1>2, <2>1, <2>2, ChatEnvironmentKept DEF CommitTurn, ChatTypeOK, Message
<1>3. CASE BeginReply
  BY <1>0, <1>3, ChatEnvironmentKept DEF BeginReply, chatRespVars, ChatTypeOK
<1>4. CASE CommitReply
  <2>1. messages' \in Seq(Message)
    BY <1>0, <1>4, AppendTyped DEF CommitReply, ChatTypeOK
  <2>2. claimed' \in BOOLEAN /\ (~claimed' => ~claimed)
    BY <1>4, Zenon DEF CommitReply, ChatTypeOK
  <2> QED
    BY <1>0, <1>4, <2>1, <2>2, ChatEnvironmentKept
       DEF CommitReply, chatRespVars, ChatTypeOK, Message
<1>5. CASE CloseSession
  BY <1>0, <1>5, ChatEnvironmentKept
     DEF CloseSession, chatRespVars, chatTxVars, ChatTypeOK
<1>6. ASSUME NEW i \in Turns, LoadContext(i)
      PROVE  ChatInv'
  BY <1>0, <1>6, ChatEnvironmentKept DEF LoadContext, chatTxVars, ChatTypeOK
<1>7. ASSUME NEW i \in Turns, BeginWrite(i)
      PROVE  ChatInv'
  BY <1>0, <1>7, ChatEnvironmentKept DEF BeginWrite, ChatTypeOK
<1>8. ASSUME NEW i \in Turns, InsertReply(i)
      PROVE  ChatInv'
  BY <1>0, <1>8, ChatEnvironmentKept
     DEF InsertReply, SessionLocked, MayAnswer, chatTxVars, ChatTypeOK
<1>9. ASSUME NEW i \in Turns, CommitAnswer(i)
      PROVE  ChatInv'
  <2>1. messages' \in Seq(Message)
    BY <1>0, <1>9, AppendTyped DEF CommitAnswer, ChatTypeOK
  <2>2. responder[i] = "commit" /\ \A j \in Turns : responder'[j] # "commit"
    BY <1>9 DEF CommitAnswer, ChatTypeOK
  <2> QED
    BY <1>0, <1>9, <2>1, <2>2, ChatEnvironmentKept
       DEF CommitAnswer, chatTxVars, ChatTypeOK, Message
<1>10. ASSUME NEW i \in Turns, ResponderFails(i)
       PROVE  ChatInv'
  BY <1>0, <1>10, ChatFaultTyped DEF ResponderFails, chatTxVars, ChatTypeOK
<1>11. CASE UNCHANGED cvars
  BY <1>0, <1>11, ChatEnvironmentKept
     DEF cvars, chatVars, chatTxVars, chatRespVars, ChatTypeOK
<1> QED
  BY <1>1, <1>2, <1>3, <1>4, <1>5, <1>6, <1>7, <1>8, <1>9, <1>10, <1>11 DEF ChatNext

(* Every responder keeps to its stages, and the advisory lock leaves at    *)
(* most one of them between its INSERT and its COMMIT.                     *)
THEOREM ChatTypeCorrect == ChatSpec => []ChatTypeOK
<1>1. ChatInit => ChatInv
  BY ChatInitInv
<1>2. ChatInv /\ [ChatNext]_cvars => ChatInv'
  BY ChatNextInv
<1>3. ChatInv => ChatTypeOK
  BY DEF ChatInv
<1> QED
  BY <1>1, <1>2, <1>3, PTL DEF ChatSpec, cvars

(* The claim of an agent leaves room for one AI reply, whatever the number *)
(* of responders under way when it commits.                                *)
THEOREM HandoffWins == ChatSpec => []OneReplyAfterHandoff
<1>1. ChatInit => ChatInv
  BY ChatInitInv
<1>2. ChatInv /\ [ChatNext]_cvars => ChatInv'
  BY ChatNextInv
<1>3. ChatInv => OneReplyAfterHandoff
  BY DEF ChatInv, HandoffInv
<1> QED
  BY <1>1, <1>2, <1>3, PTL DEF ChatSpec, cvars

-----------------------------------------------------------------------------
(* Whatever is under way began before the next transaction does *)
BegunBefore ==
  /\ \A k \in DOMAIN messages : messages[k].at <= chatClock
  /\ \A i \in Turns : turnAt[i] <= chatClock /\ responderAt[i] <= chatClock
  /\ replyAt <= chatClock

(* The responder of turn i will answer whatever the visitor wrote so far:  *)
(* it has still to read the session, or its reply is newer.                *)
WillAnswer(i) ==
  \/ responder[i] \in {"load", "complete"}
  \/ /\ responder[i] \in {"write", "commit"}
     /\ \A k \in DOMAIN messages : messages[k].author = "visitor" => messages[k].at < responderAt[i]

(* A waiting visitor has a responder that will answer *)
SomeoneAnswers ==
  faults = 0 /\ chatOpen /\ ~claimed /\ NewestIsVisitor => \E i \in Turns : WillAnswer(i)

AnswerInv == BegunBefore /\ SomeoneAnswers

LEMMA AnswerInitInv == ChatInit => AnswerInv
BY DEF ChatInit, AnswerInv, BegunBefore, SomeoneAnswers, NewestIsVisitor

(* A message is appended: the others stay where they are *)
LEMMA AppendedMessages ==
  ASSUME messages \in Seq(Message), NEW a \in {"visitor", "agent", "ai"}, NEW t \in Nat,
         messages' = Append(messages, [author |-> a, at |-> t])
  PROVE  /\ Len(messages) + 1 \in DOMAIN messages'
         /\ messages'[Len(messages) + 1] = [author |-> a, at |-> t]
         /\ \A k \in DOMAIN messages : k \in DOMAIN messages' /\ messages'[k] = messages[k]
         /\ \A k \in DOMAIN messages' : k \in DOMAIN messages \/ k = Len(messages) + 1
<1>1. PICK m \in Message : m = [author |-> a, at |-> t]
  BY DEF Message
<1>2. messages' = Append(messages, m)
  BY <1>1
<1>3. messages' \in Seq(Message) /\ Len(messages') = Len(messages) + 1
  BY <1>2
<1>4. /\ messages'[Len(messages) + 1] = m
      /\ \A k \in 1..Len(messages) : messages'[k] = messages[k]
  BY <1>2
<1> QED
  BY <1>1, <1>3, <1>4

(* The message of an agent or of the AI does not make a visitor the last   *)
(* to have written; a reply newer than every visitor message ends that.    *)
LEMMA AppendedReply ==
  ASSUME messages \in Seq(Message), NEW a \in {"agent", "ai"}, NEW t \in Nat,
         messages' = Append(messages, [author |-> a, at |-> t])
  PROVE  /\ NewestIsVisitor' => NewestIsVisitor
         /\ NewestIsVisitor' =>
              \E k \in DOMAIN messages : messages[k].author = "visitor" /\ t <= messages[k].at
         /\ \A n \in Nat : (\A k \in DOMAIN messages : messages[k].author = "visitor" => messages[k].at < n)
              => (\A k \in DOMAIN messages' : messages'[k].author = "visitor" => messages'[k].at < n)
<1>0. /\ Len(messages) + 1 \in DOMAIN messages'
      /\ messages'[Len(messages) + 1] = [author |-> a, at |-> t]
      /\ \A k \in DOMAIN messages : k \in DOMAIN messages' /\ messages'[k] = messages[k]
      /\ \A k \in DOMAIN messages' : k \in DOMAIN messages \/ k = Len(messages) + 1
  BY AppendedMessages
<1>1. ASSUME NewestIsVisitor'
      PROVE  \E k \in DOMAIN messages : /\ Newest(k) /\ messages[k].author = "visitor"
                                        /\ t <= messages[k].at
  <2>1. PICK k \in DOMAIN messages' :
          /\ \A j \in DOMAIN messages' : messages'[j].at <= messages'[k].at
          /\ messages'[k].author = "visitor"
    BY <1>1 DEF NewestIsVisitor, Newest
  <2>2. k \in DOMAIN messages
    BY <1>0, <2>1
  <2> QED
    BY <1>0, <2>1, <2>2 DEF Newest
<1> QED
  BY <1>0, <1>1 DEF NewestIsVisitor

LEMMA AnswerNextInv == ChatInv /\ AnswerInv /\ [ChatNext]_cvars => AnswerInv'
<1> SUFFICES ASSUME ChatInv, AnswerInv, [ChatNext]_cvars
             PROVE  AnswerInv'
  OBVIOUS
<1>0. /\ messages \in Seq(Message) /\ chatClock \in Nat /\ faults \in Nat
      /\ turnAt \in [Turns -> Nat] /\ replyAt \in Nat
      /\ responder \in [Turns -> {"none", "load", "complete", "write", "commit", "done"}]
      /\ responderAt \in [Turns -> Nat]
      /\ \A k \in DOMAIN messages : messages[k].at \in Nat
  <2>1. messages \in Seq(Message)
    BY DEF ChatInv, ChatTypeOK, Message
  <2>2. \A k \in DOMAIN messages : messages[k] \in Message
    BY <2>1
  <2> QED
    BY <2>1, <2>2, EnvironmentAssumption DEF ChatInv, ChatTypeOK, EnvTypeOK, Message
<1>a. BegunBefore /\ SomeoneAnswers
  BY DEF AnswerInv
<1>1. ASSUME NEW i \in Turns, BeginTurn(i)
      PROVE  AnswerInv'
  <2>1. /\ UNCHANGED <<faults, messages, chatOpen, claimed, replyAt, responder, responderAt>>
        /\ chatClock' = chatClock + 1 /\ turnAt' = [turnAt EXCEPT ![i] = chatClock + 1]
    BY <1>1 DEF BeginTurn, environment, chatRespVars
  <2>2. BegunBefore'
    BY <1>0, <1>a, <2>1 DEF BegunBefore
  <2>3. SomeoneAnswers'
    BY <1>a, <2>1 DEF SomeoneAnswers, NewestIsVisitor, Newest, WillAnswer
  <2> QED
    BY <2>2, <2>3 DEF AnswerInv
<1>2. ASSUME NEW i \in Turns, CommitTurn(i)
      PROVE  AnswerInv'
  <2>1. /\ UNCHANGED <<faults, claimed, chatClock, turnAt, replyAt, responderAt>>
        /\ messages' = Append(messages, [author |-> "visitor", at |-> turnAt[i]])
        /\ responder' = [responder EXCEPT ![i] = "load"]
    BY <1>2 DEF CommitTurn, environment
  <2>2. BegunBefore'
    <3>1. \A k \in DOMAIN messages' : messages'[k].at <= chatClock
      BY <1>0, <1>a, <2>1, AppendedMessages DEF BegunBefore
    <3> QED
      BY <1>a, <2>1, <3>1 DEF BegunBefore
  <2>3. SomeoneAnswers'
    BY <1>0, <2>1 DEF SomeoneAnswers, WillAnswer
  <2> QED
    BY <2>2, <2>3 DEF AnswerInv
<1>3. CASE BeginReply
  <2>1. /\ UNCHANGED <<faults, messages, chatOpen, claimed, turnAt, responder, responderAt>>
        /\ chatClock' = chatClock + 1 /\ replyAt' = chatClock + 1
    BY <1>3 DEF BeginReply, environment, chatRespVars
  <2>2. BegunBefore'
    BY <1>0, <1>a, <2>1 DEF BegunBefore
  <2>3. SomeoneAnswers'
    BY <1>a, <2>1 DEF SomeoneAnswers, NewestIsVisitor, Newest, WillAnswer
  <2> QED
    BY <2>2, <2>3 DEF AnswerInv
<1>4. CASE CommitReply
  <2>1. /\ UNCHANGED <<faults, chatOpen, chatClock, turnAt, responder, responderAt>>
        /\ messages' = Append(messages, [author |-> "agent", at |-> replyAt])
        /\ replyAt' = 0
    BY <1>4 DEF CommitReply, environment, chatRespVars
  <2>2. ~claimed' => ~claimed
    BY <1>4, Zenon DEF CommitReply
  <2>3. BegunBefore'
    <3>1. \A k \in DOMAIN messages' : messages'[k].at <= chatClock
      BY <1>0, <1>a, <2>1, AppendedMessages DEF BegunBefore
    <3> QED
      BY <1>0, <1>a, <2>1, <3>1 DEF BegunBefore
  <2>4. SomeoneAnswers'
    <3>1. /\ NewestIsVisitor' => NewestIsVisitor
          /\ \A n \in Nat : (\A k \in DOMAIN messages : messages[k].author = "visitor" => messages[k].at < n)
               => (\A k \in DOMAIN messages' : messages'[k].author = "visitor" => messages'[k].at < n)
      BY <1>0, <2>1, AppendedReply
    <3>2. \A i \in Turns : WillAnswer(i) => WillAnswer(i)'
      BY <1>0, <2>1, <3>1 DEF WillAnswer
    <3> QED
      BY <1>a, <2>1, <2>2, <3>1, <3>2 DEF SomeoneAnswers
  <2> QED
    BY <2>3, <2>4 DEF AnswerInv
<1>5. CASE CloseSession
  <2>1. /\ UNCHANGED <<messages, chatClock, turnAt, replyAt, responderAt>> /\ chatOpen' = FALSE
    BY <1>5 DEF CloseSession, chatTxVars, chatRespVars
  <2> QED
    BY <1>a, <2>1 DEF AnswerInv, BegunBefore, SomeoneAnswers
<1>6. ASSUME NEW i \in Turns, LoadContext(i)
      PROVE  AnswerInv'
  <2>1. /\ UNCHANGED <<faults, messages, chatOpen, claimed, chatClock, turnAt, replyAt, responderAt>>
        /\ responder' = [responder EXCEPT ![i] =
             IF chatOpen /\ ~claimed /\ LastVisitorWaits THEN "complete" ELSE "done"]
    BY <1>6 DEF LoadContext, environment, chatTxVars
  <2>2. BegunBefore'
    BY <1>a, <2>1 DEF BegunBefore
  <2>3. NewestIsVisitor => LastVisitorWaits
    <3>1. SUFFICES ASSUME NEW k \in DOMAIN messages, messages[k].author = "visitor",
                          \A j \in DOMAIN messages : messages[j].at <= messages[k].at
                   PROVE  \A j \in DOMAIN messages :
                            messages[j].at > messages[k].at => messages[j].author = "agent"
      BY DEF NewestIsVisitor, Newest, LastVisitorWaits
    <3>2. \A j \in DOMAIN messages : ~(messages[j].at > messages[k].at)
      BY <1>0, <3>1
    <3> QED
      BY <3>2
  <2>4. SomeoneAnswers'
    <3>1. SUFFICES ASSUME faults = 0, chatOpen, ~claimed, NewestIsVisitor
                   PROVE  \E j \in Turns : WillAnswer(j)'
      BY <2>1 DEF SomeoneAnswers, NewestIsVisitor, Newest
    <3>2. PICK j \in Turns : WillAnswer(j)
      BY <1>a, <3>1 DEF SomeoneAnswers
    <3>3. responder'[i] = "complete"
      BY <1>0, <2>1, <2>3, <3>1
    <3>4. WillAnswer(i)'
      BY <3>3 DEF WillAnswer
    <3> QED
      BY <3>4
  <2> QED
    BY <2>2, <2>4 DEF AnswerInv
<1>7. ASSUME NEW i \in Turns, BeginWrite(i)
      PROVE  AnswerInv'
  <2>1. /\ UNCHANGED <<faults, messages, chatOpen, claimed, turnAt, replyAt>>
        /\ chatClock' = chatClock + 1
        /\ responderAt' = [responderAt EXCEPT ![i] = chatClock + 1]
        /\ responder' = [responder EXCEPT ![i] = "write"]
    BY <1>7 DEF BeginWrite, environment
  <2>2. BegunBefore'
    BY <1>0, <1>a, <2>1 DEF BegunBefore
  <2>3. WillAnswer(i)'
    <3>1. responder'[i] = "write" /\ responderAt'[i] = chatClock + 1
      BY <1>0, <2>1
    <3>2. \A k \in DOMAIN messages' : messages'[k].at < responderAt'[i]
      BY <1>0, <1>a, <2>1, <3>1 DEF BegunBefore
    <3> QED
      BY <3>1, <3>2 DEF WillAnswer
  <2> QED
    BY <2>2, <2>3 DEF AnswerInv, SomeoneAnswers
<1>8. ASSUME NEW i \in Turns, InsertReply(i)
      PROVE  AnswerInv'
  <2>1. /\ UNCHANGED <<faults, messages, chatOpen, claimed, chatClock, turnAt, replyAt, responderAt>>
        /\ responder[i] = "write"
        /\ responder' = [responder EXCEPT ![i] = IF MayAnswer THEN "commit" ELSE "done"]
    BY <1>8 DEF InsertReply, environment, chatTxVars
  <2>2. BegunBefore'
    BY <1>a, <2>1 DEF BegunBefore
  <2>3. SomeoneAnswers'
    <3>1. SUFFICES ASSUME faults = 0, chatOpen, ~claimed, NewestIsVisitor
                   PROVE  \E j \in Turns : WillAnswer(j)'
      BY <2>1 DEF SomeoneAnswers, NewestIsVisitor, Newest
    <3>2. PICK j \in Turns : WillAnswer(j)
      BY <1>a, <3>1 DEF SomeoneAnswers
    <3>3. responder'[i] = "commit" /\ \A x \in Turns : x # i => responder'[x] = responder[x]
      BY <1>0, <2>1, <3>1 DEF MayAnswer
    <3>4. WillAnswer(j)'
      BY <2>1, <3>2, <3>3 DEF WillAnswer
    <3> QED
      BY <3>4
  <2> QED
    BY <2>2, <2>3 DEF AnswerInv
<1>9. ASSUME NEW i \in Turns, CommitAnswer(i)
      PROVE  AnswerInv'
  <2>1. /\ UNCHANGED <<faults, chatOpen, claimed, chatClock, turnAt, replyAt, responderAt>>
        /\ messages' = Append(messages, [author |-> "ai", at |-> responderAt[i]])
        /\ responder[i] = "commit" /\ responder' = [responder EXCEPT ![i] = "done"]
    BY <1>9 DEF CommitAnswer, environment, chatTxVars
  <2>2. BegunBefore'
    <3>1. \A k \in DOMAIN messages' : messages'[k].at <= chatClock
      BY <1>0, <1>a, <2>1, AppendedMessages DEF BegunBefore
    <3> QED
      BY <1>a, <2>1, <3>1 DEF BegunBefore
  <2>3. SomeoneAnswers'
    <3>1. /\ NewestIsVisitor' => NewestIsVisitor
          /\ NewestIsVisitor' =>
               \E k \in DOMAIN messages : messages[k].author = "visitor" /\ responderAt[i] <= messages[k].at
          /\ \A n \in Nat : (\A k \in DOMAIN messages : messages[k].author = "visitor" => messages[k].at < n)
               => (\A k \in DOMAIN messages' : messages'[k].author = "visitor" => messages'[k].at < n)
      BY <1>0, <2>1, AppendedReply
    <3>2. SUFFICES ASSUME faults = 0, chatOpen, ~claimed, NewestIsVisitor'
                   PROVE  \E j \in Turns : WillAnswer(j)'
      BY <2>1 DEF SomeoneAnswers
    <3>3. PICK j \in Turns : WillAnswer(j)
      BY <1>a, <3>1, <3>2 DEF SomeoneAnswers
    <3>4. j # i
      BY <1>0, <2>1, <3>1, <3>2, <3>3 DEF WillAnswer
    <3>5. responder'[j] = responder[j]
      BY <1>0, <2>1, <3>4
    <3>6. WillAnswer(j)'
      BY <1>0, <2>1, <3>1, <3>3, <3>5 DEF WillAnswer
    <3> QED
      BY <3>6
  <2> QED
    BY <2>2, <2>3 DEF AnswerInv
<1>10. ASSUME NEW i \in Turns, ResponderFails(i)
       PROVE  AnswerInv'
  <2>1. /\ UNCHANGED <<messages, chatClock, turnAt, replyAt, responderAt>> /\ faults' = faults + 1
    BY <1>10 DEF ResponderFails, Fault, chatTxVars
  <2> QED
    BY <1>0, <1>a, <2>1 DEF AnswerInv, BegunBefore, SomeoneAnswers
<1>11. CASE UNCHANGED cvars
  BY <1>a, <1>11 DEF cvars, chatVars, chatTxVars, chatRespVars, environment, AnswerInv, BegunBefore,
                     SomeoneAnswers, NewestIsVisitor, Newest, WillAnswer
<1> QED
  BY <1>1, <1>2, <1>3, <1>4, <1>5, <1>6, <1>7, <1>8, <1>9, <1>10, <1>11 DEF ChatNext

(* A visitor who wrote last in an open, unclaimed session is answered once *)
(* the responders are through without a fault, in whatever order turns,    *)
(* replies and the re-opening of the session commit: the last responder to *)
(* load the session cannot be silenced by loadContext or by the INSERT's   *)
(* conditions.                                                             *)
THEOREM VisitorsAnswered == ChatSpec => []NewestTurnIsAnswered
<1>1. ChatInit => ChatInv /\ AnswerInv
  BY ChatInitInv, AnswerInitInv
<1>2. (ChatInv /\ AnswerInv) /\ [ChatNext]_cvars => (ChatInv /\ AnswerInv)'
  BY ChatNextInv, AnswerNextInv
<1>3. ChatInv /\ AnswerInv => NewestTurnIsAnswered
  BY DEF AnswerInv, SomeoneAnswers, WillAnswer, NewestTurnIsAnswered
<1> QED
  BY <1>1, <1>2, <1>3, PTL DEF ChatSpec, cvars


-----------------------------------------------------------------------------
(* ChatConsole: what sorting does.  An element's place is the number of    *)
(* elements up to it.                                                      *)
IsSorted(q, S, at) ==
  /\ q \in [1..Cardinality(S) -> S]
  /\ \A i, j \in 1..Cardinality(S) : i < j => at[q[i]] < at[q[j]]

LEMMA PlaceOf ==
  ASSUME NEW S, IsFiniteSet(S), NEW at, \A x \in S : at[x] \in Int,
         \A x, y \in S : at[x] = at[y] => x = y
  PROVE  \E place \in [S -> 1..Cardinality(S)] :
           /\ \A x, y \in S : at[x] < at[y] => place[x] < place[y]
           /\ \A i \in 1..Cardinality(S) : \E x \in S : place[x] = i
<1> DEFINE Upto(x) == {y \in S : at[y] <= at[x]}
           place == [x \in S |-> Cardinality(Upto(x))]
<1>0. Cardinality(S) \in Nat
  BY FS_CardinalityType
<1>1. ASSUME NEW x \in S
      PROVE  /\ IsFiniteSet(Upto(x)) /\ Cardinality(Upto(x)) \in 1..Cardinality(S)
  <2>1. Upto(x) \in SUBSET S /\ x \in Upto(x)
    OBVIOUS
  <2> HIDE DEF Upto
  <2>2. IsFiniteSet(Upto(x)) /\ Cardinality(Upto(x)) <= Cardinality(S)
    BY <2>1, FS_Subset
  <2>3. Cardinality(Upto(x)) \in Nat
    BY <2>2, FS_CardinalityType
  <2>4. Cardinality(Upto(x)) # 0
    BY <2>1, <2>2, FS_EmptySet
  <2> QED
    BY <1>0, <2>2, <2>3, <2>4
<1>2. place \in [S -> 1..Cardinality(S)]
  BY <1>1
<1>3. ASSUME NEW x \in S, NEW y \in S, at[x] < at[y]
      PROVE  place[x] < place[y]
  <2>1. Upto(x) \in SUBSET Upto(y) /\ y \in Upto(y) /\ y \notin Upto(x)
    BY <1>3
  <2>2. IsFiniteSet(Upto(y)) /\ Cardinality(Upto(x)) \in Nat /\ Cardinality(Upto(y)) \in Nat
    <3> HIDE DEF Upto
    <3>1. Cardinality(Upto(x)) \in 1..Cardinality(S) /\ Cardinality(Upto(y)) \in 1..Cardinality(S)
      BY <1>1
    <3> QED
      BY <1>0, <1>1, <3>1
  <2>3. place[x] = Cardinality(Upto(x)) /\ place[y] = Cardinality(Upto(y))
    OBVIOUS
  <2> HIDE DEF Upto, place
  <2>4. Cardinality(Upto(x)) <= Cardinality(Upto(y)) /\ Cardinality(Upto(x)) # Cardinality(Upto(y))
    BY <2>1, <2>2, FS_Subset
  <2> QED
    BY <2>2, <2>3, <2>4
<1> HIDE DEF place
<1>4. place \in Injection(S, 1..Cardinality(S))
  <2>1. ASSUME NEW x \in S, NEW y \in S, place[x] = place[y]
        PROVE  x = y
    <3>1. place[x] \in Int /\ at[x] \in Int /\ at[y] \in Int
      BY <1>2
    <3>2. ~(at[x] < at[y]) /\ ~(at[y] < at[x])
      BY <1>3, <2>1, <3>1
    <3> QED
      BY <3>1, <3>2
  <2>2. \A x, y \in S : place[x] = place[y] => x = y
    BY <2>1
  <2> QED
    BY <1>2, <2>2 DEF Injection, IsInjective
<1>5. IsFiniteSet(1..Cardinality(S)) /\ Cardinality(1..Cardinality(S)) = Cardinality(S)
  BY <1>0, FS_Interval
<1>6. place \in Surjection(S, 1..Cardinality(S))
  BY <1>4, <1>5, FS_Injection
<1>7. \A i \in 1..Cardinality(S) : \E x \in S : place[x] = i
  BY <1>6 DEF Surjection
<1> QED
  BY <1>2, <1>3, <1>7

(* Rows with different times can be sorted, and the sorted rows are all. *)
LEMMA SortedByIsSorted ==
  ASSUME NEW S, IsFiniteSet(S), NEW at, \A x \in S : at[x] \in Int,
         \A x, y \in S : at[x] = at[y] => x = y
  PROVE  /\ IsSorted(SortedBy(S, at), S, at)
         /\ \A x \in S : \E i \in 1..Cardinality(S) : SortedBy(S, at)[i] = x
<1>0. Cardinality(S) \in Nat
  BY FS_CardinalityType
<1>1. PICK place \in [S -> 1..Cardinality(S)] :
           /\ \A x, y \in S : at[x] < at[y] => place[x] < place[y]
           /\ \A i \in 1..Cardinality(S) : \E x \in S : place[x] = i
  BY PlaceOf
<1> DEFINE q == [i \in 1..Cardinality(S) |-> CHOOSE x \in S : place[x] = i]
<1>2. \A i \in 1..Cardinality(S) : q[i] \in S /\ place[q[i]] = i
  BY <1>1
<1>3. q \in [1..Cardinality(S) -> S]
  BY <1>2
<1> HIDE DEF q
<1>4. ASSUME NEW i \in 1..Cardinality(S), NEW j \in 1..Cardinality(S), i < j
      PROVE  at[q[i]] < at[q[j]]
  <2>1. q[i] \in S /\ q[j] \in S /\ place[q[i]] = i /\ place[q[j]] = j
    BY <1>2
  <2>2. at[q[i]] \in Int /\ at[q[j]] \in Int
    BY <2>1
  <2>3. at[q[i]] # at[q[j]]
    BY <1>4, <2>1
  <2>4. ~(at[q[j]] < at[q[i]])
    <3>1. at[q[j]] < at[q[i]] => place[q[j]] < place[q[i]]
      BY <1>1, <2>1
    <3> QED
      BY <1>4, <2>1, <3>1
  <2> QED
    BY <2>2, <2>3, <2>4
<1>5. IsSorted(q, S, at)
  BY <1>3, <1>4 DEF IsSorted
<1>6. \E p \in [1..Cardinality(S) -> S] :
        \A i, j \in 1..Cardinality(S) : i < j => at[p[i]] < at[p[j]]
  BY <1>3, <1>4
<1>7. PICK p : p = SortedBy(S, at)
  OBVIOUS
<1>8. IsSorted(p, S, at)
  BY <1>6, <1>7 DEF IsSorted, SortedBy
<1>9. p \in Injection(1..Cardinality(S), S)
  <2>1. ASSUME NEW i \in 1..Cardinality(S), NEW j \in 1..Cardinality(S), p[i] = p[j]
        PROVE  i = j
    <3>1. p[i] \in S /\ at[p[i]] \in Int
      BY <1>8 DEF IsSorted
    <3>2. ~(i < j) /\ ~(j < i)
      BY <1>8, <2>1, <3>1 DEF IsSorted
    <3> QED
      BY <3>2
  <2>2. \A i, j \in 1..Cardinality(S) : p[i] = p[j] => i = j
    BY <2>1
  <2> QED
    BY <1>8, <2>2 DEF IsSorted, Injection, IsInjective
<1>10. Cardinality(1..Cardinality(S)) = Cardinality(S)
  BY <1>0, FS_Interval
<1>11. p \in Surjection(1..Cardinality(S), S)
  BY <1>9, <1>10, FS_Injection
<1> QED
  BY <1>7, <1>8, <1>11 DEF Surjection

OnPage(m) == \E i \in DOMAIN transcript : transcript[i] = m

(* Merging puts the batch on the page, each message once, and drops none. *)
LEMMA MergedAdds ==
  ASSUME NEW T, transcript \in Seq(T), NEW batch \in Seq(T),
         IsInjective(transcript), IsInjective(batch)
  PROVE  /\ Merged(batch) \in Seq(T) /\ IsInjective(Merged(batch))
         /\ \A m : OnPage(m) => \E i \in DOMAIN Merged(batch) : Merged(batch)[i] = m
         /\ \A k \in DOMAIN batch : \E i \in DOMAIN Merged(batch) : Merged(batch)[i] = batch[k]
         /\ \A i \in DOMAIN Merged(batch) :
              OnPage(Merged(batch)[i]) \/ \E k \in DOMAIN batch : Merged(batch)[i] = batch[k]
<1> DEFINE seen == {transcript[i] : i \in DOMAIN transcript}
           fresh == {i \in DOMAIN batch : batch[i] \notin seen}
           at == [i \in fresh |-> i]
           kept == SortedBy(fresh, at)
           tail == [n \in DOMAIN kept |-> batch[kept[n]]]
<1>1. Merged(batch) = transcript \o tail
  BY DEF Merged
<1>2. IsFiniteSet(fresh)
  <2>1. Len(batch) \in Nat /\ fresh \in SUBSET (1..Len(batch))
    OBVIOUS
  <2>2. IsFiniteSet(1..Len(batch))
    BY <2>1, FS_Interval
  <2> HIDE DEF fresh
  <2> QED
    BY <2>1, <2>2, FS_Subset
<1>3. \A i \in fresh : i \in Nat /\ at[i] = i /\ at[i] \in Int
  OBVIOUS
<1>4. \A i, j \in fresh : at[i] = at[j] => i = j
  OBVIOUS
<1>5. PICK n \in Nat : n = Cardinality(fresh)
  BY <1>2, FS_CardinalityType
<1>6. /\ kept \in [1..n -> fresh]
      /\ \A i, j \in 1..n : i < j => at[kept[i]] < at[kept[j]]
      /\ \A x \in fresh : \E i \in 1..n : kept[i] = x
  <2> HIDE DEF fresh, at
  <2> QED
    BY <1>2, <1>3, <1>4, <1>5, SortedByIsSorted DEF IsSorted
<1> HIDE DEF kept
<1>7. ASSUME NEW i \in 1..n, NEW j \in 1..n, kept[i] = kept[j]
      PROVE  i = j
  <2>1. kept[i] \in fresh /\ at[kept[i]] \in Int
    BY <1>3, <1>6
  <2> HIDE DEF at, fresh
  <2>2. ~(i < j) /\ ~(j < i)
    BY <1>6, <1>7, <2>1
  <2> QED
    BY <2>2
<1>8. /\ tail \in Seq(T) /\ Len(tail) = n /\ DOMAIN tail = 1..n
      /\ \A i \in 1..n : tail[i] = batch[kept[i]] /\ tail[i] \notin seen
  <2>1. \A i \in 1..n : kept[i] \in DOMAIN batch /\ batch[kept[i]] \in T /\ batch[kept[i]] \notin seen
    BY <1>6
  <2>2. tail = [i \in 1..n |-> batch[kept[i]]]
    BY <1>6
  <2>3. tail \in [1..n -> T]
    BY <2>1, <2>2
  <2>4. DOMAIN tail = 1..n /\ \A i \in 1..n : tail[i] = batch[kept[i]]
    BY <2>2
  <2> HIDE DEF tail, seen, fresh, at
  <2>5. tail \in Seq(T) /\ Len(tail) = n
    BY <2>3, <1>5
  <2> QED
    BY <2>1, <2>4, <2>5
<1>9. ASSUME NEW i \in 1..n, NEW j \in 1..n, tail[i] = tail[j]
      PROVE  i = j
  <2>1. kept[i] \in DOMAIN batch /\ kept[j] \in DOMAIN batch
    BY <1>6
  <2>2. batch[kept[i]] = batch[kept[j]]
    BY <1>8, <1>9
  <2>3. kept[i] = kept[j]
    BY <2>1, <2>2 DEF IsInjective
  <2> QED
    BY <1>7, <2>3
<1>s. \A x \in DOMAIN batch : batch[x] \in seen \/ \E i \in 1..n : tail[i] = batch[x]
  BY <1>6, <1>8
<1>o. \A i \in 1..n : \E k \in DOMAIN batch : tail[i] = batch[k]
  BY <1>6, <1>8
<1>w. \A m : m \in seen <=> OnPage(m)
  BY DEF OnPage
<1> HIDE DEF tail, seen, fresh, at
<1>10. PICK r : r = Merged(batch)
  OBVIOUS
<1>11. /\ r \in Seq(T) /\ DOMAIN r = 1..(Len(transcript) + n) /\ Len(transcript) \in Nat
       /\ DOMAIN transcript = 1..Len(transcript)
       /\ \A i \in 1..Len(transcript) : r[i] = transcript[i]
       /\ \A i \in 1..n : r[Len(transcript) + i] = tail[i]
  <2>1. r = transcript \o tail
    BY <1>1, <1>10
  <2>2. tail \in Seq(T) /\ Len(tail) = n
    BY <1>8
  <2> QED
    BY <2>1, <2>2
<1>12. \A i \in 1..(Len(transcript) + n) : i \in 1..Len(transcript) \/ \E j \in 1..n : i = Len(transcript) + j
  <2>1. \A i \in 1..(Len(transcript) + n) : i \in 1..Len(transcript) \/ (i - Len(transcript) \in 1..n /\ i = Len(transcript) + (i - Len(transcript)))
    BY <1>11
  <2> QED
    BY <2>1
<1>13. \A i \in 1..n : Len(transcript) + i \in DOMAIN r
  BY <1>11
<1>14. \A i \in 1..Len(transcript) : i \in DOMAIN r /\ OnPage(r[i])
  BY <1>11 DEF OnPage
<1>15. IsInjective(r)
  <2> SUFFICES ASSUME NEW i \in DOMAIN r, NEW j \in DOMAIN r, r[i] = r[j]
               PROVE  i = j
    BY DEF IsInjective
  <2>1. CASE i \in 1..Len(transcript) /\ j \in 1..Len(transcript)
    BY <2>1, <1>11 DEF IsInjective
  <2>2. ASSUME NEW a \in 1..Len(transcript), NEW b \in 1..n, r[a] = r[Len(transcript) + b]
        PROVE  FALSE
    <3>1. OnPage(tail[b])
      BY <2>2, <1>11, <1>14
    <3> QED
      BY <3>1, <1>8, <1>w
  <2>3. ASSUME NEW a \in 1..n, NEW b \in 1..n, r[Len(transcript) + a] = r[Len(transcript) + b]
        PROVE  a = b
    <3>1. tail[a] = tail[b]
      BY <2>3, <1>11
    <3> QED
      BY <3>1, <1>9
  <2>4. CASE i \notin 1..Len(transcript) \/ j \notin 1..Len(transcript)
    <3>1. ASSUME NEW a \in 1..n, i = Len(transcript) + a
          PROVE  i = j
      <4>1. j \notin 1..Len(transcript)
        BY <2>2, <3>1
      <4>2. PICK b \in 1..n : j = Len(transcript) + b
        BY <1>11, <1>12, <4>1
      <4> QED
        BY <2>3, <3>1, <4>2
    <3>2. ASSUME i \in 1..Len(transcript)
          PROVE  FALSE
      <4>1. PICK b \in 1..n : j = Len(transcript) + b
        BY <1>11, <1>12, <2>4, <3>2
      <4> QED
        BY <2>2, <3>2, <4>1
    <3> QED
      BY <1>11, <1>12, <3>1, <3>2
  <2> QED
    BY <2>1, <2>4
<1>16. \A m : OnPage(m) => \E i \in DOMAIN r : r[i] = m
  BY <1>11, <1>14 DEF OnPage
<1>17. \A k \in DOMAIN batch : \E i \in DOMAIN r : r[i] = batch[k]
  <2> SUFFICES ASSUME NEW k \in DOMAIN batch
               PROVE  \E i \in DOMAIN r : r[i] = batch[k]
    OBVIOUS
  <2>1. CASE batch[k] \in seen
    BY <2>1, <1>w, <1>16
  <2>2. ASSUME NEW i \in 1..n, tail[i] = batch[k]
        PROVE  \E j \in DOMAIN r : r[j] = batch[k]
    <3>1. Len(transcript) + i \in DOMAIN r /\ r[Len(transcript) + i] = batch[k]
      BY <2>2, <1>11, <1>13
    <3> QED
      BY <3>1
  <2> QED
    BY <2>1, <2>2, <1>s
<1>18. \A i \in DOMAIN r : OnPage(r[i]) \/ \E k \in DOMAIN batch : r[i] = batch[k]
  <2> SUFFICES ASSUME NEW i \in DOMAIN r
               PROVE  OnPage(r[i]) \/ \E k \in DOMAIN batch : r[i] = batch[k]
    OBVIOUS
  <2>1. CASE i \in 1..Len(transcript)
    BY <2>1, <1>14
  <2>2. ASSUME NEW j \in 1..n, i = Len(transcript) + j
        PROVE  \E k \in DOMAIN batch : r[i] = batch[k]
    <3>1. r[i] = tail[j]
      BY <2>2, <1>11
    <3> QED
      BY <3>1, <1>o
  <2> QED
    BY <2>1, <2>2, <1>11, <1>12
<1> QED
  BY <1>10, <1>11, <1>15, <1>16, <1>17, <1>18

-----------------------------------------------------------------------------
(* Transactions begin one after the other. *)
StartsDiffer ==
  /\ writeClock \in Nat
  /\ \A m, n \in ChatLog : writtenAt[m] # 0 /\ writtenAt[m] = writtenAt[n] => m = n
  /\ \A m \in written : writtenAt[m] # 0

(* A cursor of the selected chat: a committed message is at or past it, so *)
(* that what is committed below it later is overtaken, and what was below  *)
(* it in time is on the page.                                              *)
Covers(c) ==
  /\ \E x \in written : ChatOf[x] = selectedId /\ c <= writtenAt[x]
  /\ \A m \in written \ overtaken : ChatOf[m] = selectedId /\ writtenAt[m] <= c => OnPage(m)

(* A poll of the present visit asks past such a cursor; its answer closes  *)
(* the gap from there to its own last message.                             *)
Asked(p) ==
  /\ p.run \in Nat /\ p.run <= visit
  /\ p.since \in Nat \cup {None}
  /\ p.run = visit => p.session = selectedId /\ (p.since # None => Covers(p.since))

InBatch(m, batch) == \E i \in DOMAIN batch : batch[i] = m

Closes(batch) ==
  /\ \A i \in DOMAIN batch : ChatOf[batch[i]] = selectedId
  /\ \A m \in written \ overtaken :
       ChatOf[m] = selectedId /\ writtenAt[m] <= writtenAt[batch[Len(batch)]] => OnPage(m) \/ InBatch(m, batch)

Answered(p) ==
  /\ p.run \in Nat /\ p.run <= visit
  /\ p.batch \in Seq(ChatLog) /\ IsInjective(p.batch)
  /\ \A i \in DOMAIN p.batch : p.batch[i] \in written
  /\ p.run = visit /\ p.batch # << >> => Closes(p.batch)

PollOK(p) ==
  /\ p.at = "asked" => Asked(p)
  /\ p.at = "answered" => Answered(p)

PageOK ==
  /\ \A i \in DOMAIN transcript : transcript[i] \in written /\ ChatOf[transcript[i]] = selectedId
  /\ lastAt # None => Covers(lastAt)

PollsOK ==
  /\ poll = [k \in PollSlots |-> poll[k]]
  /\ \A k \in PollSlots : PollOK(poll[k])

ConsoleInv == ConsoleTypeOK /\ StartsDiffer /\ PageOK /\ PollsOK

(* What neither a cursor nor a poll minds *)
Undisturbed ==
  /\ UNCHANGED <<written, overtaken, selectedId, visit>>
  /\ \A m \in written : writtenAt'[m] = writtenAt[m]
  /\ \A m : OnPage(m) => OnPage(m)'

LEMMA CoversKept ==
  ASSUME Undisturbed, NEW c, Covers(c)
  PROVE  Covers(c)'
<1>1. PICK x \in written : ChatOf[x] = selectedId /\ c <= writtenAt[x]
  BY DEF Covers
<1>2. x \in written' /\ ChatOf[x] = selectedId' /\ c <= writtenAt'[x]
  BY <1>1 DEF Undisturbed
<1>3. ASSUME NEW m \in written' \ overtaken', ChatOf[m] = selectedId', writtenAt'[m] <= c
      PROVE  OnPage(m)'
  BY <1>3 DEF Undisturbed, Covers
<1> QED
  BY <1>2, <1>3 DEF Covers

LEMMA PollKept ==
  ASSUME Undisturbed, NEW p, PollOK(p)
  PROVE  PollOK(p)'
<1>1. ASSUME p.at = "asked"
      PROVE  Asked(p)'
  <2>1. Asked(p)
    BY <1>1 DEF PollOK
  <2>2. p.run = visit' /\ p.since # None => Covers(p.since)'
    BY <2>1, CoversKept DEF Asked, Undisturbed
  <2> QED
    BY <2>1, <2>2 DEF Asked, Undisturbed
<1>2. ASSUME p.at = "answered"
      PROVE  Answered(p)'
  <2>1. Answered(p)
    BY <1>2 DEF PollOK
  <2>2. ASSUME p.run = visit', p.batch # << >>
        PROVE  Closes(p.batch)'
    <3>1. Closes(p.batch)
      BY <2>1, <2>2 DEF Answered, Undisturbed
    <3>2. writtenAt'[p.batch[Len(p.batch)]] = writtenAt[p.batch[Len(p.batch)]]
      <4>1. Len(p.batch) \in DOMAIN p.batch
        BY <2>1, <2>2 DEF Answered
      <4> QED
        BY <2>1, <4>1 DEF Answered, Undisturbed
    <3>3. ASSUME NEW m \in written' \ overtaken', ChatOf[m] = selectedId',
                 writtenAt'[m] <= writtenAt'[p.batch[Len(p.batch)]]
          PROVE  OnPage(m)' \/ InBatch(m, p.batch)
      BY <3>1, <3>2, <3>3 DEF Closes, Undisturbed
    <3>4. \A i \in DOMAIN p.batch : ChatOf[p.batch[i]] = selectedId'
      BY <3>1 DEF Closes, Undisturbed
    <3> QED
      BY <3>3, <3>4 DEF Closes, InBatch
  <2> QED
    BY <2>1, <2>2 DEF Answered, Undisturbed
<1> QED
  BY <1>1, <1>2 DEF PollOK

LEMMA ConsoleInitInv == ConsoleInit => ConsoleInv
<1> SUFFICES ASSUME ConsoleInit
             PROVE  ConsoleInv
  OBVIOUS
<1> USE EnvironmentAssumption, ConsoleAssumption
<1>1. EnvTypeOK
  BY DEF ConsoleInit, EnvInit, EnvTypeOK, Times
<1>2. ConsoleTypeOK
  BY <1>1 DEF ConsoleInit, ConsoleTypeOK
<1>3. StartsDiffer /\ PageOK
  BY DEF ConsoleInit, StartsDiffer, PageOK
<1>4. PollsOK
  BY DEF ConsoleInit, PollsOK, PollOK, NoPoll
<1> QED
  BY <1>2, <1>3, <1>4 DEF ConsoleInv

LEMMA BeginMessageInv ==
  ASSUME ConsoleInv, NEW m \in ChatLog, BeginMessage(m)
  PROVE  ConsoleInv'
<1>0. ConsoleTypeOK /\ StartsDiffer /\ PageOK /\ PollsOK
  BY DEF ConsoleInv
<1>1. /\ UNCHANGED <<now, faults, deployed, written, overtaken, selectedId, visit, transcript, lastAt, poll>>
      /\ writtenAt[m] = 0 /\ writeClock' = writeClock + 1
      /\ writtenAt' = [writtenAt EXCEPT ![m] = writeClock + 1]
  BY DEF BeginMessage, environment, pageVars
<1>2. /\ m \notin written /\ writtenAt \in [ChatLog -> 0..writeClock] /\ writeClock \in Nat
      /\ written \subseteq ChatLog
  BY <1>0, <1>1 DEF StartsDiffer, ConsoleTypeOK
<1>3. Undisturbed
  BY <1>1, <1>2 DEF Undisturbed, OnPage
<1>4. ConsoleTypeOK'
  <2>1. writtenAt' \in [ChatLog -> 0..writeClock'] /\ lastAt' \in 0..writeClock' \cup {None}
    BY <1>0, <1>1, <1>2 DEF ConsoleTypeOK
  <2> QED
    BY <1>0, <1>1, <2>1 DEF ConsoleTypeOK, EnvTypeOK
<1>5. StartsDiffer'
  <2>1. ASSUME NEW a \in ChatLog, NEW b \in ChatLog, writtenAt'[a] # 0, writtenAt'[a] = writtenAt'[b]
        PROVE  a = b
    BY <1>0, <1>1, <1>2, <2>1 DEF StartsDiffer
  <2>2. \A a \in written' : writtenAt'[a] # 0
    BY <1>0, <1>1, <1>2 DEF StartsDiffer
  <2> QED
    BY <1>1, <1>2, <2>1, <2>2 DEF StartsDiffer
<1>6. PageOK'
  <2>1. lastAt' # None => Covers(lastAt)'
    <3>1. PICK c : c = lastAt
      OBVIOUS
    <3>2. lastAt' = c
      BY <1>1, <3>1
    <3>3. c # None => Covers(c)'
      BY <1>0, <1>3, <3>1, CoversKept DEF PageOK
    <3> QED
      BY <3>2, <3>3 DEF Covers
  <2> QED
    BY <1>0, <1>1, <2>1 DEF PageOK
<1>7. PollsOK'
  BY <1>0, <1>1, <1>3, PollKept DEF PollsOK
<1> QED
  BY <1>4, <1>5, <1>6, <1>7 DEF ConsoleInv

(* A message committed below a cursor is overtaken by the one at it. *)
LEMMA CommitOvertakes ==
  ASSUME ConsoleInv, NEW m \in ChatLog, CommitMessage(m), NEW x \in written,
         ChatOf[x] = ChatOf[m], writtenAt[m] <= writtenAt[x]
  PROVE  m \in overtaken'
<1>1. /\ writtenAt \in [ChatLog -> 0..writeClock] /\ writeClock \in Nat
      /\ written \subseteq ChatLog /\ writtenAt[m] # 0 /\ m \notin written
  BY DEF ConsoleInv, ConsoleTypeOK, StartsDiffer, CommitMessage
<1>2. writtenAt[m] # writtenAt[x]
  BY <1>1 DEF ConsoleInv, StartsDiffer
<1>3. writtenAt[x] > writtenAt[m]
  BY <1>1, <1>2
<1> QED
  BY <1>3 DEF CommitMessage

LEMMA CommitMessageInv ==
  ASSUME ConsoleInv, NEW m \in ChatLog, CommitMessage(m)
  PROVE  ConsoleInv'
<1>0. ConsoleTypeOK /\ StartsDiffer /\ PageOK /\ PollsOK
  BY DEF ConsoleInv
<1>1. /\ UNCHANGED <<now, faults, deployed, writeClock, writtenAt, selectedId, visit, transcript, lastAt, poll>>
      /\ writtenAt[m] # 0 /\ m \notin written /\ written' = written \cup {m}
      /\ overtaken \subseteq overtaken' /\ overtaken' \subseteq overtaken \cup {m}
  BY DEF CommitMessage, environment, pageVars
<1>2. /\ writtenAt \in [ChatLog -> 0..writeClock] /\ writeClock \in Nat
      /\ written \subseteq ChatLog /\ overtaken \subseteq written
  BY <1>0 DEF StartsDiffer, ConsoleTypeOK
<1>3. ConsoleTypeOK'
  BY <1>0, <1>1, <1>2 DEF ConsoleTypeOK, EnvTypeOK
<1>4. StartsDiffer'
  BY <1>0, <1>1 DEF StartsDiffer
<1>5. \A n : OnPage(n)' <=> OnPage(n)
  BY <1>1 DEF OnPage
<1>6. ASSUME NEW c \in Nat, Covers(c)
      PROVE  Covers(c)'
  <2>1. PICK x \in written : ChatOf[x] = selectedId /\ c <= writtenAt[x]
    BY <1>6 DEF Covers
  <2>2. ASSUME NEW n \in written' \ overtaken', ChatOf[n] = selectedId', writtenAt'[n] <= c
        PROVE  OnPage(n)
    <3>1. n # m
      <4>1. n = m => writtenAt[m] <= writtenAt[x] /\ ChatOf[x] = ChatOf[m]
        BY <1>1, <1>2, <2>1, <2>2
      <4> QED
        BY <2>2, <4>1, CommitOvertakes
    <3> QED
      BY <1>1, <1>6, <2>2, <3>1 DEF Covers
  <2>3. x \in written' /\ ChatOf[x] = selectedId' /\ c <= writtenAt'[x]
    BY <1>1, <2>1
  <2> QED
    BY <1>5, <2>2, <2>3 DEF Covers
<1>7. ASSUME NEW b \in Seq(ChatLog), b # << >>, \A i \in DOMAIN b : b[i] \in written, Closes(b)
      PROVE  Closes(b)'
  <2>1. Len(b) \in DOMAIN b
    BY <1>7
  <2>2. PICK x \in written : x = b[Len(b)] /\ ChatOf[x] = selectedId
    BY <1>7, <2>1 DEF Closes
  <2>3. ASSUME NEW n \in written' \ overtaken', ChatOf[n] = selectedId', writtenAt'[n] <= writtenAt'[b[Len(b)]]
        PROVE  OnPage(n) \/ InBatch(n, b)
    <3>1. n # m
      <4>1. n = m => writtenAt[m] <= writtenAt[x] /\ ChatOf[x] = ChatOf[m]
        BY <1>1, <2>2, <2>3
      <4> QED
        BY <2>3, <4>1, CommitOvertakes
    <3> QED
      BY <1>1, <1>7, <2>3, <3>1 DEF Closes
  <2>4. \A i \in DOMAIN b : ChatOf[b[i]] = selectedId'
    BY <1>1, <1>7 DEF Closes
  <2> QED
    BY <1>5, <2>3, <2>4 DEF Closes, InBatch
<1>8. PageOK'
  <2>1. lastAt' # None => Covers(lastAt)'
    <3>1. PICK c : c = lastAt
      OBVIOUS
    <3>2. lastAt' = c
      BY <1>1, <3>1
    <3>3. c # None => c \in Nat
      BY <1>0, <1>2, <3>1 DEF ConsoleTypeOK
    <3>4. c # None => Covers(c)'
      BY <1>0, <1>6, <3>1, <3>3 DEF PageOK
    <3> QED
      BY <3>2, <3>4 DEF Covers
  <2> QED
    BY <1>0, <1>1, <2>1 DEF PageOK
<1>9. ASSUME NEW p, PollOK(p)
      PROVE  PollOK(p)'
  <2>1. ASSUME p.at = "asked"
        PROVE  Asked(p)'
    <3>1. Asked(p)
      BY <1>9, <2>1 DEF PollOK
    <3>2. p.run = visit' /\ p.since # None => Covers(p.since)'
      BY <1>1, <1>6, <3>1 DEF Asked
    <3> QED
      BY <1>1, <3>1, <3>2 DEF Asked
  <2>2. ASSUME p.at = "answered"
        PROVE  Answered(p)'
    <3>1. Answered(p)
      BY <1>9, <2>2 DEF PollOK
    <3>2. p.run = visit' /\ p.batch # << >> => Closes(p.batch)'
      BY <1>1, <1>7, <3>1 DEF Answered
    <3> QED
      BY <1>1, <3>1, <3>2 DEF Answered
  <2> QED
    BY <2>1, <2>2 DEF PollOK
<1>10. PollsOK'
  BY <1>0, <1>1, <1>9 DEF PollsOK
<1> QED
  BY <1>3, <1>4, <1>8, <1>10 DEF ConsoleInv

(* A poll that goes out, the others staying as they are *)
LEMMA AskedPoll ==
  ASSUME PollsOK, NEW k \in PollSlots, NEW s, NEW r, NEW c, Ask(k, s, r, c),
         NEW j \in PollSlots
  PROVE  /\ poll' = [i \in PollSlots |-> poll'[i]]
         /\ \/ poll'[j] = poll[j]
            \/ poll'[j] = [at |-> "asked", session |-> s, run |-> r, since |-> c]
BY DEF PollsOK, Ask

LEMMA SelectSessionInv ==
  ASSUME ConsoleInv, NEW s \in Chats, SelectSession(s)
  PROVE  ConsoleInv'
<1>0. ConsoleTypeOK /\ StartsDiffer /\ PageOK /\ PollsOK
  BY DEF ConsoleInv
<1>1. /\ UNCHANGED <<now, faults, deployed, writeClock, writtenAt, written, overtaken>>
      /\ visit < MaxVisits /\ selectedId' = s /\ visit' = visit + 1 /\ transcript' = << >> /\ lastAt' = None
  BY DEF SelectSession, environment, writeVars
<1>2. PICK v \in Nat : v = visit + 1 /\ visit \in Nat
  BY <1>0, ConsoleAssumption DEF ConsoleTypeOK
<1>3. PICK k \in PollSlots : Ask(k, s, v, None)
  BY <1>2 DEF SelectSession
<1>4. ConsoleTypeOK'
  BY <1>0, <1>1, ConsoleAssumption DEF ConsoleTypeOK, EnvTypeOK
<1>5. StartsDiffer' /\ PageOK'
  BY <1>0, <1>1 DEF StartsDiffer, PageOK
<1>6. ASSUME NEW j \in PollSlots
      PROVE  PollOK(poll[j])'
  <2>1. PICK p : p = poll'[j]
    OBVIOUS
  <2>2. CASE p = poll[j]
    <3>1. PollOK(p)
      BY <1>0, <2>2 DEF PollsOK
    <3>2. (p.at \in {"asked", "answered"}) => p.run \in Nat /\ p.run <= visit /\ p.run # visit'
      BY <1>1, <1>2, <3>1 DEF PollOK, Asked, Answered
    <3>3. PollOK(p)'
      BY <1>1, <1>2, <3>1, <3>2 DEF PollOK, Asked, Answered
    <3> QED
      BY <2>1, <3>3
  <2>3. CASE p = [at |-> "asked", session |-> s, run |-> v, since |-> None]
    <3>1. PollOK(p)'
      BY <1>1, <1>2, <2>3 DEF PollOK, Asked
    <3> QED
      BY <2>1, <3>1
  <2> QED
    BY <1>0, <1>3, <2>1, <2>2, <2>3, AskedPoll
<1>7. PollsOK'
  BY <1>0, <1>3, <1>6, AskedPoll DEF PollsOK
<1> QED
  BY <1>4, <1>5, <1>7 DEF ConsoleInv

(* Steps that leave the page and the messages alone *)
LEMMA PageKept ==
  ASSUME ConsoleInv, UNCHANGED <<writeVars, pageVars>>, EnvTypeOK'
  PROVE  ConsoleTypeOK' /\ StartsDiffer' /\ PageOK' /\ Undisturbed
<1>0. ConsoleTypeOK /\ StartsDiffer /\ PageOK
  BY DEF ConsoleInv
<1>1. UNCHANGED <<writeClock, writtenAt, written, overtaken, selectedId, visit, transcript, lastAt>>
  BY DEF writeVars, pageVars
<1>2. ConsoleTypeOK' /\ StartsDiffer'
  BY <1>0, <1>1 DEF ConsoleTypeOK, StartsDiffer
<1>3. PageOK' /\ Undisturbed
  BY <1>0, <1>1 DEF PageOK, Covers, OnPage, Undisturbed
<1> QED
  BY <1>2, <1>3

LEMMA PollAgainInv ==
  ASSUME ConsoleInv, NEW k \in PollSlots, PollAgain(k)
  PROVE  ConsoleInv'
<1>0. ConsoleTypeOK /\ PageOK /\ PollsOK
  BY DEF ConsoleInv
<1>1. UNCHANGED <<writeVars, pageVars>> /\ EnvTypeOK'
  BY <1>0 DEF PollAgain, environment, ConsoleTypeOK, EnvTypeOK
<1>2. ConsoleTypeOK' /\ StartsDiffer' /\ PageOK' /\ Undisturbed
  BY <1>1, PageKept
<1>3. PICK s, v, c : s = selectedId /\ v = visit /\ c = lastAt
  OBVIOUS
<1>4. Ask(k, s, v, c)
  BY <1>3 DEF PollAgain
<1>5. ASSUME NEW j \in PollSlots
      PROVE  PollOK(poll[j])'
  <2>1. PICK p : p = poll'[j]
    OBVIOUS
  <2>2. CASE p = poll[j]
    BY <1>0, <1>2, <2>1, <2>2, PollKept DEF PollsOK
  <2>3. CASE p = [at |-> "asked", session |-> s, run |-> v, since |-> c]
    <3>1. PollOK(p)
      <4>1. visit \in Nat /\ c \in Nat \cup {None}
        BY <1>0, <1>3, ConsoleAssumption DEF ConsoleTypeOK
      <4>2. c # None => Covers(c)
        BY <1>0, <1>3 DEF PageOK
      <4> QED
        BY <1>3, <2>3, <4>1, <4>2 DEF PollOK, Asked
    <3> QED
      BY <1>2, <2>1, <3>1, PollKept
  <2> QED
    BY <1>0, <1>4, <2>1, <2>2, <2>3, AskedPoll
<1>6. PollsOK'
  BY <1>0, <1>4, <1>5, AskedPoll DEF PollsOK
<1> QED
  BY <1>2, <1>6 DEF ConsoleInv

LEMMA AskFailsInv ==
  ASSUME ConsoleInv, NEW k \in PollSlots, AskFails(k)
  PROVE  ConsoleInv'
<1>0. ConsoleTypeOK /\ PollsOK
  BY DEF ConsoleInv
<1>1. UNCHANGED <<writeVars, pageVars>> /\ EnvTypeOK' /\ poll' = [poll EXCEPT ![k] = NoPoll]
  BY <1>0, EnvironmentAssumption DEF AskFails, Fault, ConsoleTypeOK, EnvTypeOK
<1>2. ConsoleTypeOK' /\ StartsDiffer' /\ PageOK' /\ Undisturbed
  BY <1>1, PageKept
<1>3. PollOK(NoPoll)
  BY DEF PollOK, NoPoll
<1>4. ASSUME NEW j \in PollSlots
      PROVE  PollOK(poll[j])'
  <2>1. PICK p : p = poll'[j]
    OBVIOUS
  <2>2. p = poll[j] \/ p = NoPoll
    BY <1>0, <1>1, <2>1 DEF PollsOK
  <2>3. PollOK(p)
    BY <1>0, <1>3, <2>2 DEF PollsOK
  <2> QED
    BY <1>2, <2>1, <2>3, PollKept
<1>5. PollsOK'
  BY <1>0, <1>1, <1>4 DEF PollsOK
<1> QED
  BY <1>2, <1>5 DEF ConsoleInv

(* listMessages answers with every message it was asked for, in order. *)
LEMMA ListedInOrder ==
  ASSUME ConsoleTypeOK, StartsDiffer, NEW S \in SUBSET written
  PROVE  /\ InOrder(S) \in Seq(ChatLog) /\ IsInjective(InOrder(S))
         /\ \A i \in DOMAIN InOrder(S) : InOrder(S)[i] \in S
         /\ \A m \in S : InBatch(m, InOrder(S))
         /\ \A i \in DOMAIN InOrder(S) :
              writtenAt[InOrder(S)[i]] <= writtenAt[InOrder(S)[Len(InOrder(S))]]
<1>1. S \in SUBSET ChatLog /\ \A m \in ChatLog : writtenAt[m] \in Int
  BY DEF ConsoleTypeOK, StartsDiffer
<1>2. IsFiniteSet(S)
  BY <1>1, ConsoleAssumption, FS_Subset
<1>3. PICK n \in Nat : n = Cardinality(S)
  BY <1>2, FS_CardinalityType
<1>4. \A x, y \in S : writtenAt[x] = writtenAt[y] => x = y
  BY <1>1 DEF StartsDiffer
<1>5. PICK q : q = InOrder(S)
  OBVIOUS
<1>6. /\ q \in [1..n -> S]
      /\ \A i, j \in 1..n : i < j => writtenAt[q[i]] < writtenAt[q[j]]
      /\ \A x \in S : \E i \in 1..n : q[i] = x
  BY <1>1, <1>2, <1>3, <1>4, <1>5, SortedByIsSorted DEF IsSorted, InOrder
<1>7. q \in Seq(ChatLog) /\ Len(q) = n /\ DOMAIN q = 1..n
  BY <1>1, <1>3, <1>6
<1>8. ASSUME NEW i \in 1..n
      PROVE  writtenAt[q[i]] \in Int /\ writtenAt[q[i]] <= writtenAt[q[n]]
  <2>1. n \in 1..n /\ q[i] \in ChatLog /\ q[n] \in ChatLog
    BY <1>1, <1>6
  <2>2. writtenAt[q[i]] \in Int /\ writtenAt[q[n]] \in Int
    BY <1>1, <2>1
  <2>3. i < n => writtenAt[q[i]] < writtenAt[q[n]]
    BY <1>6, <2>1
  <2>4. i = n \/ i < n
    OBVIOUS
  <2> QED
    BY <2>2, <2>3, <2>4
<1>9. ASSUME NEW i \in 1..n, NEW j \in 1..n, q[i] = q[j]
      PROVE  i = j
  <2>1. ~(i < j) /\ ~(j < i)
    BY <1>6, <1>8, <1>9
  <2> QED
    BY <2>1
<1>10. IsInjective(q)
  BY <1>7, <1>9 DEF IsInjective
<1> QED
  BY <1>5, <1>6, <1>7, <1>8, <1>10 DEF InBatch

LEMMA ListMessagesInv ==
  ASSUME ConsoleInv, NEW k \in PollSlots, ListMessages(k)
  PROVE  ConsoleInv'
<1>0. ConsoleTypeOK /\ StartsDiffer /\ PageOK /\ PollsOK
  BY DEF ConsoleInv
<1>1. UNCHANGED <<writeVars, pageVars>> /\ EnvTypeOK'
  BY <1>0 DEF ListMessages, environment, ConsoleTypeOK, EnvTypeOK
<1>2. ConsoleTypeOK' /\ StartsDiffer' /\ PageOK' /\ Undisturbed
  BY <1>1, PageKept
<1>3. PICK p : p = poll[k]
  OBVIOUS
<1>4. p.at = "asked" /\ Asked(p)
  BY <1>0, <1>3 DEF ListMessages, PollsOK, PollOK
<1>5. PICK S \in SUBSET written :
        S = {m \in written : ChatOf[m] = p.session /\ (p.since # None => writtenAt[m] > p.since)}
  OBVIOUS
<1>6. PICK b : b = InOrder(S)
  OBVIOUS
<1>7. PICK a : a = [at |-> "answered", run |-> p.run, batch |-> b]
  OBVIOUS
<1>8. poll' = [poll EXCEPT ![k] = a]
  BY <1>3, <1>5, <1>6, <1>7 DEF ListMessages
<1>9. /\ b \in Seq(ChatLog) /\ IsInjective(b)
      /\ \A i \in DOMAIN b : b[i] \in S
      /\ \A m \in S : InBatch(m, b)
  BY <1>0, <1>6, ListedInOrder
<1>10. ASSUME p.run = visit, b # << >>
       PROVE  Closes(b)
  <2>1. \A i \in DOMAIN b : ChatOf[b[i]] = selectedId
    BY <1>4, <1>5, <1>9, <1>10 DEF Asked
  <2>2. ASSUME NEW m \in written \ overtaken, ChatOf[m] = selectedId,
               writtenAt[m] <= writtenAt[b[Len(b)]]
        PROVE  OnPage(m) \/ InBatch(m, b)
    <3>1. CASE m \in S
      BY <1>9, <3>1
    <3>2. CASE m \notin S
      <4>1. p.session = selectedId /\ p.since \in Nat /\ Covers(p.since)
        BY <1>4, <1>5, <1>10, <2>2, <3>2 DEF Asked
      <4>2. ~(writtenAt[m] > p.since)
        BY <1>5, <2>2, <3>2, <4>1
      <4>3. writtenAt[m] \in Int
        BY <1>0, <2>2 DEF ConsoleTypeOK, StartsDiffer
      <4>4. writtenAt[m] <= p.since
        BY <4>1, <4>2, <4>3
      <4> QED
        BY <2>2, <4>1, <4>4 DEF Covers
    <3> QED
      BY <3>1, <3>2
  <2> QED
    BY <2>1, <2>2 DEF Closes
<1>11. PollOK(a)
  BY <1>4, <1>7, <1>9, <1>10 DEF PollOK, Asked, Answered
<1>12. ASSUME NEW j \in PollSlots
       PROVE  PollOK(poll[j])'
  <2>1. PICK r : r = poll'[j]
    OBVIOUS
  <2>2. r = poll[j] \/ r = a
    BY <1>0, <1>8, <2>1 DEF PollsOK
  <2>3. PollOK(r)
    BY <1>0, <1>11, <2>2 DEF PollsOK
  <2> QED
    BY <1>2, <2>1, <2>3, PollKept
<1>13. PollsOK'
  BY <1>0, <1>8, <1>12 DEF PollsOK
<1> QED
  BY <1>2, <1>13 DEF ConsoleInv

(* The cursor is never past the time it is cut from. *)
LEMMA CutIsBefore ==
  ASSUME NEW time \in Nat
  PROVE  Cut(time) \in Nat /\ Cut(time) <= time
<1>1. time % Millisecond \in Nat /\ time = Millisecond * (time \div Millisecond) + (time % Millisecond)
      /\ time \div Millisecond \in Nat
  BY ConsoleAssumption
<1>2. Millisecond * (time \div Millisecond) \in Nat
  BY <1>1, ConsoleAssumption
<1> QED
  BY <1>1, <1>2 DEF Cut

LEMMA TakeAnswerInv ==
  ASSUME ConsoleInv, NEW k \in PollSlots, TakeAnswer(k)
  PROVE  ConsoleInv'
<1>0. ConsoleTypeOK /\ StartsDiffer /\ PageOK /\ PollsOK
  BY DEF ConsoleInv
<1>1. PICK b : b = poll[k].batch
  OBVIOUS
<1>2. /\ UNCHANGED <<now, faults, deployed, writeClock, writtenAt, written, overtaken, selectedId, visit>>
      /\ poll' = [poll EXCEPT ![k] = NoPoll] /\ poll[k].at = "answered"
  BY DEF TakeAnswer, environment, writeVars
<1>3. Answered(poll[k])
  BY <1>0, <1>2 DEF PollsOK, PollOK
<1>4. b \in Seq(ChatLog) /\ IsInjective(b) /\ \A i \in DOMAIN b : b[i] \in written
  BY <1>1, <1>3 DEF Answered
<1>5. PollOK(NoPoll)
  BY DEF PollOK, NoPoll
<1>6. ASSUME Undisturbed
      PROVE  PollsOK'
  <2>1. ASSUME NEW j \in PollSlots
        PROVE  PollOK(poll[j])'
    <3>1. PICK p : p = poll'[j]
      OBVIOUS
    <3>2. p = poll[j] \/ p = NoPoll
      BY <1>0, <1>2, <3>1 DEF PollsOK
    <3>3. PollOK(p)
      BY <1>0, <1>5, <3>2 DEF PollsOK
    <3> QED
      BY <1>6, <3>1, <3>3, PollKept
  <2> QED
    BY <1>0, <1>2, <2>1 DEF PollsOK
<1>7. CASE poll[k].run # visit \/ b = << >>
  <2>1. UNCHANGED <<writeVars, pageVars>>
    BY <1>1, <1>2, <1>7 DEF TakeAnswer, writeVars, pageVars
  <2>2. EnvTypeOK'
    BY <1>0, <1>2 DEF ConsoleTypeOK, EnvTypeOK
  <2>3. ConsoleTypeOK' /\ StartsDiffer' /\ PageOK' /\ Undisturbed
    BY <2>1, <2>2, PageKept
  <2> QED
    BY <1>6, <2>3 DEF ConsoleInv
<1>8. CASE poll[k].run = visit /\ b # << >>
  <2>1. transcript' = Merged(b) /\ lastAt' = Cut(writtenAt[b[Len(b)]])
    BY <1>1, <1>8 DEF TakeAnswer
  <2>2. Closes(b)
    BY <1>1, <1>3, <1>8 DEF Answered
  <2>3. transcript \in Seq(ChatLog) /\ IsInjective(transcript)
    BY <1>0 DEF ConsoleTypeOK, IsInjective
  <2>4. /\ transcript' \in Seq(ChatLog) /\ IsInjective(transcript')
        /\ \A m : OnPage(m) => OnPage(m)'
        /\ \A m : InBatch(m, b) => OnPage(m)'
        /\ \A i \in DOMAIN transcript' : OnPage(transcript'[i]) \/ InBatch(transcript'[i], b)
    <3>1. PICK r : r = Merged(b)
      OBVIOUS
    <3>2. transcript' = r
      BY <2>1, <3>1
    <3>3. /\ r \in Seq(ChatLog) /\ IsInjective(r)
          /\ \A m : OnPage(m) => \E i \in DOMAIN r : r[i] = m
          /\ \A j \in DOMAIN b : \E i \in DOMAIN r : r[i] = b[j]
          /\ \A i \in DOMAIN r : OnPage(r[i]) \/ \E j \in DOMAIN b : r[i] = b[j]
      BY <1>4, <2>3, <3>1, MergedAdds
    <3>4. \A m : OnPage(m)' <=> \E i \in DOMAIN r : r[i] = m
      BY <3>2 DEF OnPage
    <3> QED
      BY <3>2, <3>3, <3>4 DEF InBatch
  <2>5. PICK x \in written : x = b[Len(b)] /\ ChatOf[x] = selectedId
    <3>1. Len(b) \in DOMAIN b
      BY <1>4, <1>8
    <3> QED
      BY <1>4, <2>2, <3>1 DEF Closes
  <2>6. PICK t \in Nat : t = writtenAt[x] /\ t <= writeClock /\ writeClock \in Nat
    BY <1>0, <2>5 DEF ConsoleTypeOK, StartsDiffer
  <2>7. PICK c \in Nat : c = Cut(t) /\ c <= t
    BY CutIsBefore
  <2>8. lastAt' = c
    BY <2>1, <2>5, <2>6, <2>7
  <2>9. Undisturbed
    BY <1>2, <2>4 DEF Undisturbed
  <2>10. ConsoleTypeOK'
    <3>1. lastAt' \in 0..writeClock'
      BY <1>2, <2>6, <2>7, <2>8
    <3>2. \A i, j \in DOMAIN transcript' : transcript'[i] = transcript'[j] => i = j
      BY <2>4 DEF IsInjective
    <3> QED
      BY <1>0, <1>2, <2>4, <3>1, <3>2 DEF ConsoleTypeOK, EnvTypeOK
  <2>11. StartsDiffer'
    BY <1>0, <1>2 DEF StartsDiffer
  <2>12. Covers(c)'
    <3>1. x \in written' /\ ChatOf[x] = selectedId' /\ c <= writtenAt'[x]
      BY <1>2, <2>5, <2>6, <2>7
    <3>2. ASSUME NEW m \in written' \ overtaken', ChatOf[m] = selectedId', writtenAt'[m] <= c
          PROVE  OnPage(m)'
      <4>1. writtenAt[m] \in Int
        BY <1>0, <1>2, <3>2 DEF ConsoleTypeOK, StartsDiffer
      <4>2. writtenAt[m] <= writtenAt[b[Len(b)]]
        BY <1>2, <2>5, <2>6, <2>7, <3>2, <4>1
      <4> QED
        BY <1>2, <2>2, <2>4, <3>2, <4>2 DEF Closes
    <3> QED
      BY <3>1, <3>2 DEF Covers
  <2>13. PageOK'
    <3>1. \A i \in DOMAIN transcript' : transcript'[i] \in written /\ ChatOf[transcript'[i]] = selectedId
      BY <1>0, <1>4, <2>2, <2>4 DEF PageOK, OnPage, InBatch, Closes
    <3>2. lastAt' # None => Covers(lastAt)'
      BY <2>8, <2>12 DEF Covers
    <3> QED
      BY <1>2, <3>1, <3>2 DEF PageOK
  <2> QED
    BY <1>6, <2>9, <2>10, <2>11, <2>13 DEF ConsoleInv
<1> QED
  BY <1>7, <1>8

pvars == <<environment, consoleVars>>

LEMMA ConsoleNextInv == ConsoleInv /\ [ConsoleNext]_pvars => ConsoleInv'
<1> SUFFICES ASSUME ConsoleInv, [ConsoleNext]_pvars
             PROVE  ConsoleInv'
  OBVIOUS
<1>1. CASE UNCHANGED pvars
  <2>0. ConsoleTypeOK /\ PollsOK
    BY DEF ConsoleInv
  <2>1. UNCHANGED <<writeVars, pageVars>> /\ UNCHANGED poll
    BY <1>1 DEF pvars, consoleVars
  <2>2. EnvTypeOK'
    BY <1>1, <2>0 DEF pvars, environment, ConsoleTypeOK, EnvTypeOK
  <2>3. ConsoleTypeOK' /\ StartsDiffer' /\ PageOK' /\ Undisturbed
    BY <2>1, <2>2, PageKept
  <2>4. PollsOK'
    BY <2>0, <2>1, <2>3, PollKept DEF PollsOK
  <2> QED
    BY <2>3, <2>4 DEF ConsoleInv
<1> QED
  BY <1>1, BeginMessageInv, CommitMessageInv, SelectSessionInv, PollAgainInv, ListMessagesInv,
     TakeAnswerInv, AskFailsInv DEF ConsoleNext

LEMMA ConsoleCorrect == ConsoleSpec => []ConsoleInv
BY ConsoleInitInv, ConsoleNextInv, PTL DEF ConsoleSpec, pvars

(* Every variable of the console stays in its type, and no message is on   *)
(* the page twice, however polls overlap and whatever the cut cursor asks  *)
(* for again.                                                              *)
THEOREM ConsoleTypeCorrect == ConsoleSpec => []ConsoleTypeOK
<1>1. ConsoleInv => ConsoleTypeOK
  BY DEF ConsoleInv
<1> QED
  BY <1>1, ConsoleCorrect, PTL

(* The page shows the selected chat only, and all of it up to the cursor   *)
(* except what listMessages could not see: messages committed after one    *)
(* that began later.                                                       *)
THEOREM TranscriptRight == ConsoleSpec => []TranscriptIsTheChat
<1>1. ConsoleInv => TranscriptIsTheChat
  BY DEF ConsoleInv, PageOK, Covers, OnPage, TranscriptIsTheChat, ShowsThisChat, CursorSkipsOnlyLate
<1> QED
  BY <1>1, ConsoleCorrect, PTL

=============================================================================
