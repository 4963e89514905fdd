----------------------------- MODULE EmailIntake -----------------------------
(***************************************************************************)
(* EmailIntakeService and processInboundEmail: a poll fetches the unseen   *)
(* messages of the mailbox; each becomes a reply on the ticket its subject *)
(* names, or a new ticket and, in a second transaction, its first message; *)
(* then it is flagged \Seen.  What fails in between stays unseen, and the  *)
(* next poll starts it over.                                               *)
(***************************************************************************)
EXTENDS Environment

CONSTANTS
  Mails,     \* messages that can arrive, with text a row can store
  Unusable,  \* those every poll passes over or fails on: without a source,
             \* without a From address, with a reference no integer column
             \* can be compared with
  Tagged     \* those whose subject names an existing ticket

ASSUME MailAssumption ==
  Unusable \subseteq Mails /\ Tagged \subseteq Mails /\ None \notin Mails

VARIABLES
  mail,         \* the mailbox (external): "none", "unseen" or "seen"
  mailStage,    \* where each process's poll is
  fetched,      \* messages of its FETCH still to process
  mailAt,       \* the one it is processing, or None
  mailTickets,  \* tickets made of each message
  mailFiled     \* messages stored of it in tickets

mailJobVars == <<mailStage, fetched, mailAt>>
mailVars == <<mail, mailJobVars, mailTickets, mailFiled>>

MailInit ==
  /\ EnvInit
  /\ mail = [m \in Mails |-> "none"]
  /\ mailStage = [p \in Processes |-> "idle"]
  /\ fetched = [p \in Processes |-> {}]
  /\ mailAt = [p \in Processes |-> None]
  /\ mailTickets = [m \in Mails |-> 0]
  /\ mailFiled = [m \in Mails |-> 0]

-----------------------------------------------------------------------------
(* A message is delivered to the mailbox *)
Arrive(m) ==
  /\ mail[m] = "none"
  /\ mail' = [mail EXCEPT ![m] = "unseen"]
  /\ UNCHANGED <<environment, mailJobVars, mailTickets, mailFiled>>

(* pollOnce: connect, and fetch({ seen: false }).  The mailbox lock is the *)
(* connection's own: other processes fetch the same messages.              *)
Fetch(p) ==
  /\ mailStage[p] = "idle"
  /\ fetched' = [fetched EXCEPT ![p] = {m \in Mails : mail[m] = "unseen"}]
  /\ mailStage' = [mailStage EXCEPT ![p] = "next"]
  /\ UNCHANGED <<environment, mail, mailAt, mailTickets, mailFiled>>

(* pollOnce skips a message without source; processInboundEmail: no From   *)
(* address is an error, and so is a reference that findByTicketNumber      *)
(* cannot look up; one that it resolves makes a reply, else a ticket comes *)
(* first                                                                   *)
TakeMail(p) ==
  /\ mailStage[p] = "next"
  /\ \E m \in fetched[p] :
       /\ fetched' = [fetched EXCEPT ![p] = @ \ {m}]
       /\ IF m \in Unusable
          THEN UNCHANGED <<mailStage, mailAt>>
          ELSE /\ mailAt' = [mailAt EXCEPT ![p] = m]
               /\ mailStage' = [mailStage EXCEPT ![p] =
                    IF m \in Tagged THEN "message" ELSE "create"]
  /\ UNCHANGED <<environment, mail, mailTickets, mailFiled>>

(* TicketsService.create *)
CreateFromMail(p) ==
  /\ mailStage[p] = "create"
  /\ mailTickets' = [mailTickets EXCEPT ![mailAt[p]] = @ + 1]
  /\ mailStage' = [mailStage EXCEPT ![p] = "message"]
  /\ UNCHANGED <<environment, mail, fetched, mailAt, mailFiled>>

(* TicketsService.addMessage *)
FileMail(p) ==
  /\ mailStage[p] = "message"
  /\ mailFiled' = [mailFiled EXCEPT ![mailAt[p]] = @ + 1]
  /\ mailStage' = [mailStage EXCEPT ![p] = "flag"]
  /\ UNCHANGED <<environment, mail, fetched, mailAt, mailTickets>>

(* messageFlagsAdd(\Seen) *)
FlagSeen(p) ==
  /\ mailStage[p] = "flag"
  /\ mail' = [mail EXCEPT ![mailAt[p]] = "seen"]
  /\ mailStage' = [mailStage EXCEPT ![p] = "next"]
  /\ mailAt' = [mailAt EXCEPT ![p] = None]
  /\ UNCHANGED <<environment, fetched, mailTickets, mailFiled>>

(* Mutant of MailFails: the message is flagged all the same *)
MailFailsSeen(p) ==
  /\ mailAt[p] # None
  /\ Fault
  /\ mail' = [mail EXCEPT ![mailAt[p]] = "seen"]
  /\ mailStage' = [mailStage EXCEPT ![p] = "next"]
  /\ mailAt' = [mailAt EXCEPT ![p] = None]
  /\ UNCHANGED <<fetched, mailTickets, mailFiled>>

(* Mutant of MailFails: the message is tried again in the same poll, and   *)
(* one that was filed is not left at that                                  *)
MailFailsAgain(p) ==
  /\ mailStage[p] = "flag"
  /\ mailStage' = [mailStage EXCEPT ![p] = "create"]
  /\ mailTickets[mailAt[p]] <= FaultBudget + Cardinality(Processes)
  /\ UNCHANGED <<environment, mail, fetched, mailAt, mailTickets, mailFiled>>

(* One of them throws (possibly after its commit: the answer is lost, or   *)
(* addMessage fails to look up the agent): logged, on to the next message  *)
MailFails(p) ==
  /\ mailAt[p] # None
  /\ Fault
  /\ \/ UNCHANGED <<mailTickets, mailFiled>>
     \/ /\ mailStage[p] = "create"
        /\ mailTickets' = [mailTickets EXCEPT ![mailAt[p]] = @ + 1]
        /\ UNCHANGED mailFiled
     \/ /\ mailStage[p] = "message"
        /\ mailFiled' = [mailFiled EXCEPT ![mailAt[p]] = @ + 1]
        /\ UNCHANGED mailTickets
  /\ mailStage' = [mailStage EXCEPT ![p] = "next"]
  /\ mailAt' = [mailAt EXCEPT ![p] = None]
  /\ UNCHANGED <<mail, fetched>>

(* The loop is over, or the connection or the process is lost: in either   *)
(* case `polling' is false for the next poll.                              *)
PollEnds(p) ==
  /\ mailStage[p] # "idle"
  /\ \/ mailStage[p] = "next" /\ fetched[p] = {} /\ UNCHANGED environment
     \/ Fault
  /\ mailStage' = [mailStage EXCEPT ![p] = "idle"]
  /\ fetched' = [fetched EXCEPT ![p] = {}]
  /\ mailAt' = [mailAt EXCEPT ![p] = None]
  /\ UNCHANGED <<mail, mailTickets, mailFiled>>

-----------------------------------------------------------------------------
MailPoll(p) ==
  \/ Fetch(p) \/ TakeMail(p) \/ CreateFromMail(p) \/ FileMail(p) \/ FlagSeen(p)
  \/ PollEnds(p)

MailNext ==
  \/ \E m \in Mails : Arrive(m)
  \/ \E p \in deployed : MailPoll(p) \/ MailFails(p)

MailSpec == MailInit /\ [][MailNext]_<<environment, mailVars>>

-----------------------------------------------------------------------------
(* Every variable stays in its type. *)
MailTypeOK ==
  /\ EnvTypeOK
  /\ mail \in [Mails -> {"none", "unseen", "seen"}]
  /\ mailStage \in [Processes -> {"idle", "next", "create", "message", "flag"}]
  /\ fetched \in [Processes -> SUBSET Mails]
  /\ mailAt \in [Processes -> Mails \cup {None}]
  /\ \A p \in Processes : mailAt[p] # None <=> mailStage[p] \in {"create", "message", "flag"}
  /\ mailTickets \in [Mails -> Nat]
  /\ mailFiled \in [Mails -> Nat]

MailPromise == INSTANCE ActThenMark
  WITH Items <- Mails, acted <- mailFiled,
       marked <- [m \in Mails |-> IF mail[m] = "seen" THEN 1 ELSE 0]

(* A message is flagged \Seen only when its text is stored in a ticket,    *)
(* whatever failed on the way: the intake implements ActThenMark.          *)
MailImplementsPromise == MailPromise!ActSpec

(* One message becomes more than one ticket only as often as something     *)
(* failed or another process polled.                                       *)
TicketsPerMailAreBounded ==
  \A m \in Mails : mailTickets[m] <= faults + Cardinality(deployed)

(* A ticket made of a message has the message, is about to get it, or a    *)
(* fault came between the two transactions: empty tickets are accounted    *)
(* for.                                                                    *)
EmptyTicketsAreFaults ==
  \A m \in Mails \ Tagged :
    mailTickets[m] <= mailFiled[m] + faults
      + Cardinality({p \in deployed : mailAt[p] = m /\ mailStage[p] = "message"})

(* Every message that arrives and can be processed is flagged in the end,  *)
(* whatever else stays unseen for ever in the mailbox.                     *)
MailIsTaken ==
  \A m \in Mails \ Unusable : mail[m] = "unseen" ~> mail[m] = "seen"

=============================================================================
