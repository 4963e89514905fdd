----------------------------- MODULE FixedWindow -----------------------------
(***************************************************************************)
(* The Redis counter of registerLoginAttempt (auth-security.ts) and        *)
(* enforceIngestRate (ingest-rate-limit.ts): INCR, and EXPIRE by the       *)
(* caller whose INCR made the key.  The two commands are two steps.        *)
(***************************************************************************)
EXTENDS Environment

CONSTANTS
  Requesters,   \* requests that are handled at once on one key
  Limit,        \* MAX_LOGIN_ATTEMPTS, maxPerWindow()
  Window        \* LOGIN_WINDOW_SECONDS, windowSeconds(), in clock units

ASSUME WindowAssumption == Limit \in Nat \ {0} /\ Window \in Nat \ {0}

VARIABLES
  tally,       \* the counter, 0: no such key
  ttl,         \* units until the key expires, None: it does not
  attempt,     \* what each request is doing
  passed,      \* history: requests let through since the key was made
  refused      \* history: a request was refused since the key was made

windowVars == <<tally, ttl, attempt, passed, refused>>

WindowInit ==
  /\ EnvInit
  /\ tally = 0
  /\ ttl = None
  /\ attempt = [r \in Requesters |-> "idle"]
  /\ passed = 0
  /\ refused = FALSE

-----------------------------------------------------------------------------
(* !(count > limit) *)
Within(n) == n <= Limit

(* INCR, and the answer of a request whose INCR did not make the key *)
Incr(r) ==
  /\ attempt[r] = "idle"
  /\ tally' = IF Within(tally) THEN tally + 1 ELSE tally  \* BOUND: one past the limit
  /\ attempt' = [attempt EXCEPT ![r] = IF tally = 0 THEN "expire"
                                       ELSE IF Within(tally + 1) THEN "allowed" ELSE "idle"]
  /\ passed' = IF Within(tally + 1) THEN passed + 1 ELSE passed
  /\ refused' = (refused \/ ~Within(tally + 1))
  /\ UNCHANGED <<environment, ttl>>

(* Mutant of Expire: only once the limit is near *)
ExpireLate(r) ==
  /\ attempt[r] = "expire"
  /\ ttl' = IF tally > 1 THEN Window ELSE ttl
  /\ attempt' = [attempt EXCEPT ![r] = "allowed"]
  /\ UNCHANGED <<environment, tally, passed, refused>>

(* EXPIRE, which does nothing to a key that is gone; the request goes on *)
Expire(r) ==
  /\ attempt[r] = "expire"
  /\ ttl' = IF tally > 0 THEN Window ELSE ttl
  /\ attempt' = [attempt EXCEPT ![r] = "allowed"]
  /\ UNCHANGED <<environment, tally, passed, refused>>

KeyGone ==
  /\ tally' = 0
  /\ ttl' = None
  /\ passed' = 0
  /\ refused' = FALSE

(* A login succeeds: clearLoginAttempts *)
ClearLoginAttempts(r) ==
  /\ attempt[r] = "allowed"
  /\ KeyGone
  /\ attempt' = [attempt EXCEPT ![r] = "idle"]
  /\ UNCHANGED environment

(* A login that fails, and every ingestion request: the counter stays *)
RequestEnds(r) ==
  /\ attempt[r] = "allowed"
  /\ attempt' = [attempt EXCEPT ![r] = "idle"]
  /\ UNCHANGED <<environment, tally, ttl, passed, refused>>

(* Redis fails or the process stops between INCR and EXPIRE: the login     *)
(* throws, ingestion fails open; the key stays without an expiry           *)
ExpireFails(r) ==
  /\ attempt[r] = "expire"
  /\ Fault
  /\ attempt' = [attempt EXCEPT ![r] = "idle"]
  /\ UNCHANGED <<tally, ttl, passed, refused>>

(* Time passes for the key *)
WindowPasses ==
  /\ ttl # None
  /\ IF ttl = 1
     THEN KeyGone
     ELSE ttl' = ttl - 1 /\ UNCHANGED <<tally, passed, refused>>
  /\ UNCHANGED <<environment, attempt>>

-----------------------------------------------------------------------------
WindowNext ==
  \/ WindowPasses
  \/ \E r \in Requesters :
       Incr(r) \/ Expire(r) \/ ClearLoginAttempts(r) \/ RequestEnds(r) \/ ExpireFails(r)

WindowSpec == WindowInit /\ [][WindowNext]_<<environment, windowVars>>

-----------------------------------------------------------------------------
(* Every variable stays in its type, and no more requests are let through  *)
(* in the life of a key than the limit says, however they overlap.         *)
WindowTypeOK ==
  /\ EnvTypeOK
  /\ tally \in Nat
  /\ ttl \in 1..Window \cup {None}
  /\ attempt \in [Requesters -> {"idle", "expire", "allowed"}]
  /\ passed \in 0..Limit
  /\ refused \in BOOLEAN

(* A key without an expiry is one whose maker is about to set it, unless a *)
(* fault came between the two commands: nobody else sets it later.         *)
KeyExpires ==
  tally > 0 /\ ttl = None =>
    faults > 0 \/ \E r \in Requesters : attempt[r] = "expire"

(* "a run of failures trips the limit", and not for ever: without such a   *)
(* fault a refused caller is let in again.                                 *)
LockoutEnds == [](refused => <>(~refused \/ faults > 0))

=============================================================================
