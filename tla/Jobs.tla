-------------------------------- MODULE Jobs --------------------------------
(***************************************************************************)
(* What the background jobs that mark their work promise together.  They   *)
(* share the environment: processes, the clock and the faults.             *)
(***************************************************************************)
EXTENDS LogAlertSweep, NetworkPoller, ScheduledReports, EmailIntake, BudgetPace,
        CostRecommendations

(* The jobs whose marks stand for tickets and deliveries implement their   *)
(* promises: log rules and the network poller MarkThenAct, scheduled       *)
(* reports ActThenMark.                                                    *)
JobsImplementPromises ==
  LogImplementsPromise /\ NetImplementsPromise /\ RepImplementsPromise

(* What two processes and the faults make the jobs do again, or leave half *)
(* done, is bounded by their number: copies of reports, tickets and empty  *)
(* tickets of a mail, notices of a budget, tickets of a recommendation.    *)
RepetitionIsBounded ==
  /\ CopiesAreBounded /\ TicketsPerMailAreBounded /\ EmptyTicketsAreFaults
  /\ NoticesAreBounded /\ TicketsPerRecAreBounded

=============================================================================
