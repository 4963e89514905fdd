--------------------------- MODULE TicketSlaProofs ---------------------------
(***************************************************************************)
(* What TicketSla and TimeAutomation keep for any number of tickets,       *)
(* types, policies, rules, overlapping requests and processes.             *)
(***************************************************************************)
EXTENDS TicketWriters, FiniteSetTheorems, WellFoundedInduction, TLAPS

-----------------------------------------------------------------------------
(* Induction over an interval, with a set in the place of a predicate: the *)
(* rules of a trigger run in a loop.                                       *)
Less == {z \in Nat \X Nat : z[1] < z[2]}

LEMMA LessIsWellFounded == IsWellFoundedOn(Less, Nat)
<1>1. IsWellFoundedOn(OpToRel(<, Nat), Nat)
  BY NatLessThanWellFounded
<1> QED
  BY <1>1 DEF OpToRel, Less

LEMMA LeastElement ==
  ASSUME NEW S \in SUBSET Nat, S # {}
  PROVE  \E m \in S : \A k \in S : m <= k
<1>1. PICK m \in S : \A k \in S : ~(<<k, m>> \in Less)
  BY LessIsWellFounded, WFMin
<1>2. ASSUME NEW k \in S
      PROVE  m <= k
  <2>1. ~(<<k, m>> \in Less)
    BY <1>1
  <2>2. k \in Nat /\ m \in Nat
    OBVIOUS
  <2>3. ~(k < m)
    BY <2>1, <2>2 DEF Less
  <2> QED
    BY <2>2, <2>3
<1> QED
  BY <1>2

LEMMA IntervalInduction ==
  ASSUME NEW n \in Nat, NEW S, 0 \in S,
         \A i \in 1..n : i - 1 \in S => i \in S
  PROVE  \A i \in 0..n : i \in S
<1> DEFINE Bad == {i \in 0..n : i \notin S}
<1> SUFFICES ASSUME Bad # {}
             PROVE  FALSE
  OBVIOUS
<1>1. Bad \in SUBSET Nat
  OBVIOUS
<1>2. PICK m \in Bad : \A k \in Bad : m <= k
  <2> HIDE DEF Bad
  <2> QED
    BY <1>1, LeastElement
<1>3. m \in 1..n /\ m - 1 \in 0..n
  OBVIOUS
<1>4. m - 1 \notin Bad
  BY <1>2, <1>3
<1> QED
  BY <1>3, <1>4

(* f runs through the functions F[1], F[2], ..., F[n], starting from x. *)
IsRun(f, n, T, x, F) ==
  f \in [0..n -> T] /\ f[0] = x /\ \A i \in 1..n : f[i] = F[i][f[i-1]]

LEMMA Iteration ==
  ASSUME NEW n \in Nat, NEW T, NEW x \in T, NEW F \in [1..n -> [T -> T]]
  PROVE  \E f : IsRun(f, n, T, x, F)
<1> DEFINE Upto(j) == \E f \in [0..j -> T] :
                        f[0] = x /\ \A i \in 1..j : f[i] = F[i][f[i-1]]
           S == {j \in 0..n : Upto(j)}
<1>1. 0 \in S
  <2>1. /\ [i \in 0..0 |-> x] \in [0..0 -> T]
        /\ [i \in 0..0 |-> x][0] = x
        /\ 1..0 = {}
    OBVIOUS
  <2>2. Upto(0)
    BY <2>1
  <2> HIDE DEF Upto
  <2> QED
    BY <2>2
<1>2. ASSUME NEW j \in 1..n, j - 1 \in S
      PROVE  j \in S
  <2>1. Upto(j - 1)
    <3> HIDE DEF Upto
    <3> QED
      BY <1>2
  <2>2. PICK f \in [0..(j-1) -> T] :
          f[0] = x /\ \A i \in 1..(j-1) : f[i] = F[i][f[i-1]]
    BY <2>1
  <2> DEFINE g == [i \in 0..j |-> IF i = j THEN F[j][f[j-1]] ELSE f[i]]
  <2>3. g \in [0..j -> T]
    OBVIOUS
  <2>4. g[0] = x /\ \A i \in 1..j : g[i] = F[i][g[i-1]]
    BY <2>2
  <2>5. Upto(j)
    <3> HIDE DEF g
    <3> QED
      BY <2>3, <2>4
  <2> HIDE DEF Upto
  <2> QED
    BY <2>5
<1>3. n \in S
  <2> HIDE DEF S
  <2>1. \A i \in 0..n : i \in S
    BY <1>1, <1>2, IntervalInduction
  <2> QED
    BY <2>1
<1>4. Upto(n)
  <2> HIDE DEF Upto
  <2> QED
    BY <1>3
<1> QED
  BY <1>4 DEF IsRun

-----------------------------------------------------------------------------
(* What rules and scenarios may write: the status and resolved_at. *)
RowResolved(row) == row.resolvedAt # None <=> row.status \in Closed

SameButStatus(x, row) ==
  /\ x.type = row.type /\ x.policy = row.policy /\ x.created = row.created
  /\ x.firstDue = row.firstDue /\ x.resolutionDue = row.resolutionDue
  /\ x.firstAt = row.firstAt /\ x.merged = row.merged
  /\ x.firstFlagged = row.firstFlagged
  /\ x.resolutionFlagged = row.resolutionFlagged

StatusWritten(x, row) ==
  x \in Rows /\ SameButStatus(x, row) /\ (RowResolved(row) => RowResolved(x))

LEMMA TimesAreNotNull == \A time \in Times : time \in Nat /\ time # None
BY EnvironmentAssumption DEF Times

LEMMA ResolvedAtType ==
  ASSUME NEW s \in Statuses, NEW time \in Times
  PROVE  /\ ResolvedAt(s, time) \in Times \cup {None}
         /\ ResolvedAt(s, time) # None <=> s \in Closed
BY TimesAreNotNull DEF ResolvedAt

(* set_status writes the status and, with it, resolved_at. *)
LEMMA SetStatusWrites ==
  ASSUME NEW row \in Rows, NEW given, NEW s \in Statuses, NEW time \in Times
  PROVE  StatusWritten(SetStatus(row, given, s, time), row)
BY ResolvedAtType DEF SetStatus, StatusWritten, SameButStatus, RowResolved, Rows

(* The loop over the rules of a trigger writes nothing else. *)
LEMMA RunRulesWrites ==
  ASSUME NEW on, NEW row \in Rows, NEW time \in Times
  PROVE  StatusWritten(RunRules(on, row, time), row)
<1> DEFINE n == Len(Rules)
           T == {x \in Rows : StatusWritten(x, row)}
           Apply(i, r) == IF Rules[i].on = on /\ r.status = Rules[i].when
                          THEN SetStatus(r, r, Rules[i].set, time) ELSE r
           F == [i \in 1..n |-> [r \in T |-> Apply(i, r)]]
           D(g) == [i \in 0..n |-> IF i = 0 THEN row ELSE Apply(i, g[i-1])]
           h == CHOOSE g : g = D(g)
<1>1. n \in Nat /\ \A i \in 1..n : Rules[i].set \in Statuses
  <2> DEFINE R == [on : {"created", "updated"}, when : Statuses, set : Statuses]
  <2>1. Rules \in Seq(R)
    BY SlaAssumption
  <2>2. n \in Nat /\ \A i \in 1..n : Rules[i] \in R
    <3> HIDE DEF R
    <3> QED
      BY <2>1
  <2> QED
    BY <2>2
<1>2. row \in T
  BY DEF StatusWritten, SameButStatus
<1>3. ASSUME NEW i \in 1..n, NEW r \in T
      PROVE  Apply(i, r) \in T
  <2>1. StatusWritten(SetStatus(r, r, Rules[i].set, time), r)
    BY <1>1, SetStatusWrites
  <2>2. SetStatus(r, r, Rules[i].set, time) \in T
    BY <2>1 DEF StatusWritten, SameButStatus
  <2> QED
    BY <2>2
<1>4. F \in [1..n -> [T -> T]]
  BY <1>3
<1>5. PICK f : IsRun(f, n, T, row, F)
  <2> HIDE DEF T, F, n
  <2> QED
    BY <1>1, <1>2, <1>4, Iteration, Zenon
<1>6. f = D(f)
  <2>1. ASSUME NEW i \in 1..n
        PROVE  f[i] = Apply(i, f[i-1])
    <3> HIDE DEF T, Apply, n
    <3>1. f[i-1] \in T
      BY <1>1, <1>5 DEF IsRun
    <3> QED
      BY <1>5, <3>1 DEF IsRun
  <2> HIDE DEF Apply, n
  <2> QED
    BY <1>1, <1>5, <2>1 DEF IsRun
<1>7. h = D(h)
  <2> HIDE DEF D
  <2> QED
    BY <1>6, Zenon
<1>8. \A i \in 0..n : h[i] \in T
  <2> DEFINE S == {i \in 0..n : h[i] \in T}
  <2> HIDE DEF h
  <2>1. h[0] = row /\ \A i \in 1..n : h[i] = Apply(i, h[i-1])
    <3> HIDE DEF Apply, n
    <3> QED
      BY <1>1, <1>7
  <2>2. 0 \in S
    BY <1>1, <1>2, <2>1
  <2>3. \A i \in 1..n : i - 1 \in S => i \in S
    <3> HIDE DEF Apply, T, n
    <3> QED
      BY <1>1, <1>3, <2>1
  <2>4. \A i \in 0..n : i \in S
    <3> HIDE DEF S, n
    <3> QED
      BY <1>1, <2>2, <2>3, IntervalInduction
  <2> QED
    BY <2>4
<1>9. RunRules(on, row, time) = h[n]
  BY DEF RunRules
<1>10. h[n] \in T
  <2> HIDE DEF h, T, n
  <2> QED
    BY <1>1, <1>8
<1> QED
  <2> HIDE DEF h
  <2> QED
    BY <1>9, <1>10

-----------------------------------------------------------------------------
(* The shape of the state: TypeOK, and what it leaves open of requests and *)
(* sweeps.  What a request or a triage call works on exists.               *)
Reqs == [do : {"update", "reply", "scenario", "merge"}, ticket : Tickets,
         status : Statuses \cup {None}, type : Types \cup {None},
         seen : ReadRows, began : Times]

TablesOK ==
  /\ targets \in [Policies -> Targets]
  /\ edits \in 0..MaxEdits
  /\ policyOf \in [Types -> Policies \cup {None}]
  /\ typeEdits \in 0..MaxTypeEdits
  /\ hadPolicy \in [Types -> SUBSET (Policies \cup {None})]
  /\ \A type \in Types : policyOf[type] \in hadPolicy[type]
  /\ ticket \in [Tickets -> Rows \cup {None}]
  /\ triage \subseteq Tickets
  /\ \A t \in triage : Exists(t)
  /\ replied \in [Tickets -> Times \cup {None}]
  /\ typeOnly \subseteq Tickets

RequestsOK ==
  /\ request \in [Requests -> Reqs \cup {Idle}]
  /\ \A r \in Requests : request[r] # Idle =>
       /\ Exists(request[r].ticket)
       /\ request[r].do = "scenario" => request[r].status # None

SweepRecords == [at : {"idle", "mark", "dispatch"}, seen : SUBSET Breaches,
                 todo : SUBSET Breaches, mail : Breaches \cup {None}]

SweepsOK == sweep \in [Processes -> SweepRecords]

AuditOK ==
  noticed \in [Breaches -> Nat] /\ mailed \in [Breaches -> Nat] /\ lost \subseteq Breaches

SlaShape == EnvTypeOK /\ TablesOK /\ RequestsOK /\ SweepsOK /\ AuditOK

(* What every write of a ticket keeps: its creation, its flags and that    *)
(* resolved_at goes with the status.                                       *)
Keeps(x, row) ==
  /\ x.created = row.created
  /\ x.firstFlagged = row.firstFlagged /\ x.resolutionFlagged = row.resolutionFlagged
  /\ RowResolved(row) => RowResolved(x)

DuesRight(row) ==
  /\ row.firstDue = Due(row.created, row.policy, "first")
  /\ row.resolutionDue = Due(row.created, row.policy, "resolution")

PolicyRight(row) == row.type # None => row.policy \in hadPolicy[row.type]

LEMMA DueType ==
  ASSUME targets \in [Policies -> Targets], NEW created \in Times,
         NEW policy \in Policies \cup {None}, NEW target \in {"first", "resolution"}
  PROVE  Due(created, policy, target) \in Nat \cup {None}
<1>1. CASE policy = None
  BY <1>1 DEF Due
<1>2. CASE policy # None
  <2>1. targets[policy] \in [first : Nat, resolution : Nat]
    BY <1>2, SlaAssumption
  <2>2. targets[policy][target] \in Nat
    BY <2>1
  <2> QED
    BY <1>2, <2>2, TimesAreNotNull DEF Due
<1> QED
  BY <1>1, <1>2

(* The columns update() writes *)
LEMMA UpdatedRow ==
  ASSUME TablesOK, now \in Times,
         NEW q \in Reqs, NEW row \in Rows
  PROVE  LET x == Updated(q, row)
         IN  /\ x \in Rows
             /\ Keeps(x, row)
             /\ x.firstAt = row.firstAt /\ x.merged = row.merged
             /\ DuesRight(row) /\ q.seen.created = row.created => DuesRight(x)
             /\ /\ PolicyRight(row) \/ q.type # None
                /\ q.seen.policy = row.policy
                => PolicyRight(x)
<1>0. /\ targets \in [Policies -> Targets] /\ policyOf \in [Types -> Policies \cup {None}]
      /\ \A type \in Types : policyOf[type] \in hadPolicy[type]
  BY DEF TablesOK
<1> DEFINE moved == IF q.status = None THEN row
                    ELSE [row EXCEPT !.status = q.status,
                                     !.resolvedAt = ResolvedAt(q.status, now)]
           typed == IF q.type = None THEN moved ELSE [moved EXCEPT !.type = q.type]
           x == Updated(q, row)
<1>1. /\ q.status \in Statuses \cup {None} /\ q.type \in Types \cup {None}
      /\ q.seen.created \in Times
  BY DEF Reqs, ReadRows
<1>2. /\ moved \in Rows /\ (RowResolved(row) => RowResolved(moved))
      /\ moved.type = row.type /\ moved.policy = row.policy
      /\ moved.created = row.created /\ moved.firstAt = row.firstAt
      /\ moved.firstDue = row.firstDue /\ moved.resolutionDue = row.resolutionDue
      /\ moved.firstFlagged = row.firstFlagged /\ moved.merged = row.merged
      /\ moved.resolutionFlagged = row.resolutionFlagged
  BY <1>1, ResolvedAtType, ZenonT(60) DEF Rows, RowResolved
<1> HIDE DEF moved
<1>3. /\ typed \in Rows
      /\ typed.type = (IF q.type = None THEN row.type ELSE q.type)
      /\ typed.status = moved.status /\ typed.resolvedAt = moved.resolvedAt
      /\ typed.policy = row.policy
      /\ typed.created = row.created /\ typed.firstAt = row.firstAt
      /\ typed.firstDue = row.firstDue /\ typed.resolutionDue = row.resolutionDue
      /\ typed.firstFlagged = row.firstFlagged /\ typed.merged = row.merged
      /\ typed.resolutionFlagged = row.resolutionFlagged
  BY <1>1, <1>2 DEF Rows
<1>4. x = IF q.type # None /\ policyOf[q.type] # q.seen.policy
          THEN WithPolicy(typed, q.seen.created, policyOf[q.type])
          ELSE typed
  BY DEF Updated, moved
<1> HIDE DEF typed, x
<1>5. CASE q.type # None /\ policyOf[q.type] # q.seen.policy
  <2> DEFINE y == policyOf[q.type]
  <2>1. y \in Policies \cup {None}
    BY <1>0, <1>1, <1>5
  <2>2. /\ Due(q.seen.created, y, "first") \in Nat \cup {None}
        /\ Due(q.seen.created, y, "resolution") \in Nat \cup {None}
    BY <1>0, <1>1, <2>1, DueType
  <2>3. x = [typed EXCEPT !.policy = y, !.firstDue = Due(q.seen.created, y, "first"),
                          !.resolutionDue = Due(q.seen.created, y, "resolution")]
    BY <1>4, <1>5 DEF WithPolicy
  <2> HIDE DEF y
  <2>4. /\ x \in Rows
        /\ x.policy = y /\ x.type = typed.type /\ x.created = typed.created
        /\ x.firstDue = Due(q.seen.created, y, "first")
        /\ x.resolutionDue = Due(q.seen.created, y, "resolution")
        /\ x.status = typed.status /\ x.resolvedAt = typed.resolvedAt
        /\ x.firstAt = typed.firstAt /\ x.merged = typed.merged
        /\ x.firstFlagged = typed.firstFlagged
        /\ x.resolutionFlagged = typed.resolutionFlagged
    BY <1>3, <2>1, <2>2, <2>3 DEF Rows
  <2>5. x.type = q.type
    BY <1>3, <1>5, <2>4
  <2> QED
    BY <1>0, <1>1, <1>2, <1>3, <1>5, <2>4, <2>5
       DEF Keeps, RowResolved, DuesRight, PolicyRight, x, y
<1>6. CASE ~(q.type # None /\ policyOf[q.type] # q.seen.policy)
  <2>1. x = typed
    BY <1>4, <1>6
  <2> QED
    BY <1>0, <1>1, <1>2, <1>3, <1>6, <2>1
       DEF Keeps, RowResolved, DuesRight, PolicyRight, x
<1> QED
  BY <1>5, <1>6

Retypes(q) == q.do = "update" /\ q.type # None

(* What a request that ends leaves in its ticket: x *)
Leaves(q, row, x) ==
  /\ x \in Rows
  /\ Keeps(x, row)
  /\ DuesRight(row) /\ q.seen.created = row.created => DuesRight(x)
  /\ PolicyRight(row) \/ Retypes(q) => (q.seen.policy = row.policy => PolicyRight(x))
  /\ x.firstAt = IF q.do = "reply" /\ q.seen.firstAt = None THEN q.began ELSE row.firstAt

LEMMA ActiveRequest ==
  ASSUME SlaShape, NEW r \in Requests, request[r] # Idle
  PROVE  /\ request[r] \in Reqs
         /\ request[r].ticket \in Tickets
         /\ ticket[request[r].ticket] \in Rows
BY DEF SlaShape, RequestsOK, TablesOK, Reqs, Exists

LEMMA BusyRequest ==
  ASSUME SlaShape, NEW r \in Requests, request[r].do # "none"
  PROVE  request[r] # Idle
BY DEF Idle

LEMMA SameStatusLeaves ==
  ASSUME NEW q, NEW row \in Rows, NEW x, q.do \notin {"reply", "update"},
         StatusWritten(x, row)
  PROVE  Leaves(q, row, x)
BY DEF StatusWritten, SameButStatus, Leaves, Retypes, Keeps, DuesRight, PolicyRight

LEMMA FinishesLeaves ==
  ASSUME SlaShape, NEW r \in Requests, Finishes(r)
  PROVE  LET q == request[r]
             t == q.ticket
         IN  /\ q \in Reqs /\ t \in Tickets /\ ticket[t] \in Rows
             /\ \E x : Leaves(q, ticket[t], x) /\ ticket' = [ticket EXCEPT ![t] = x]
             /\ request' = [request EXCEPT ![r] = Idle]
             /\ replied' = IF q.do = "reply"
                           THEN [replied EXCEPT ![t] =
                                  IF @ = None \/ q.began < @ THEN q.began ELSE @]
                           ELSE replied
             /\ typeOnly' = IF Retypes(q) THEN typeOnly \ {t} ELSE typeOnly
             /\ UNCHANGED <<environment, policyVars, triage, sweep, auditVars>>
<1> DEFINE q == request[r]
           t == q.ticket
           row == ticket[t]
<1>1. q \in Reqs /\ t \in Tickets /\ row \in Rows
  <2>1. q.do # "none"
    BY DEF Finishes, WriteUpdate, WriteScenario, WriteReply, WriteMerge
  <2> QED
    BY <2>1, ActiveRequest, BusyRequest
<1>2. TablesOK /\ now \in Times
  BY DEF SlaShape, EnvTypeOK
<1>3. /\ q.began \in Times /\ q.status \in Statuses \cup {None}
      /\ q.do = "scenario" => q.status # None
  BY <1>1, BusyRequest DEF SlaShape, RequestsOK, Reqs
<1> HIDE DEF row
<1>4. CASE WriteUpdate(r)
  <2> DEFINE x == Updated(q, row)
             y == RunRules("updated", x, q.began)
  <2>1. /\ x \in Rows /\ Keeps(x, row)
        /\ x.firstAt = row.firstAt
        /\ DuesRight(row) /\ q.seen.created = row.created => DuesRight(x)
        /\ (PolicyRight(row) \/ q.type # None) /\ q.seen.policy = row.policy
             => PolicyRight(x)
    BY <1>1, <1>2, UpdatedRow
  <2> HIDE DEF x
  <2>2. StatusWritten(y, x)
    BY <1>3, <2>1, RunRulesWrites
  <2>3. /\ q.do = "update" /\ Write(r, y) /\ UNCHANGED replied
        /\ typeOnly' = IF q.type = None THEN typeOnly ELSE typeOnly \ {t}
    BY <1>4 DEF WriteUpdate, x, row
  <2> HIDE DEF y
  <2>4. Leaves(q, row, y)
    BY <2>1, <2>2, <2>3
       DEF StatusWritten, SameButStatus, Leaves, Retypes, Keeps, DuesRight, PolicyRight
  <2> QED
    BY <1>1, <2>3, <2>4 DEF Write, Retypes, row
<1>5. CASE WriteScenario(r)
  <2> DEFINE y == SetStatus(row, q.seen, q.status, q.began)
  <2>1. q.do = "scenario" /\ Write(r, y) /\ UNCHANGED <<replied, typeOnly>>
    BY <1>5 DEF WriteScenario, row
  <2>2. StatusWritten(y, row)
    BY <1>1, <1>3, <2>1, SetStatusWrites
  <2> HIDE DEF y
  <2>3. Leaves(q, row, y)
    BY <1>1, <2>1, <2>2, SameStatusLeaves
  <2> QED
    BY <1>1, <2>1, <2>3 DEF Write, Retypes, row
<1>6. CASE WriteReply(r)
  <2> DEFINE y == FirstResponse(q, row)
  <2>1. /\ q.do = "reply" /\ Write(r, y)
        /\ replied' = [replied EXCEPT ![t] =
             IF @ = None \/ q.began < @ THEN q.began ELSE @]
        /\ UNCHANGED typeOnly
    BY <1>6 DEF WriteReply, row
  <2>2. Leaves(q, row, y)
    BY <1>1, <1>3, <2>1
       DEF FirstResponse, Leaves, Retypes, Rows, Keeps, RowResolved, DuesRight, PolicyRight
  <2> HIDE DEF y
  <2> QED
    BY <1>1, <2>1, <2>2 DEF Write, Retypes, row
<1>7. CASE WriteMerge(r)
  <2> DEFINE y == IF q.seen.merged THEN row
                  ELSE [row EXCEPT !.status = "closed", !.merged = TRUE,
                         !.resolvedAt = IF @ = None THEN q.began ELSE @]
  <2>1. q.do = "merge" /\ Write(r, y) /\ UNCHANGED <<replied, typeOnly>>
    BY <1>7 DEF WriteMerge, row
  <2>2. Leaves(q, row, y)
    <3>1. CASE q.seen.merged
      <4>1. y = row
        BY <3>1
      <4> QED
        BY <1>1, <2>1, <4>1 DEF Leaves, Retypes, Keeps
    <3>2. CASE ~q.seen.merged
      <4> DEFINE z == IF row.resolvedAt = None THEN q.began ELSE row.resolvedAt
      <4>1. z \in Times /\ z # None
        BY <1>1, <1>3, TimesAreNotNull DEF Rows
      <4>2. y = [row EXCEPT !.status = "closed", !.merged = TRUE, !.resolvedAt = z]
        BY <3>2
      <4>3. "closed" \in Statuses /\ "closed" \in Closed
        BY DEF Statuses, Closed
      <4> HIDE DEF y, z
      <4>4. y \in Rows /\ RowResolved(y)
        BY <1>1, <4>1, <4>2, <4>3 DEF Rows, RowResolved
      <4>5. /\ y.created = row.created /\ y.firstFlagged = row.firstFlagged
            /\ y.resolutionFlagged = row.resolutionFlagged
            /\ y.type = row.type /\ y.policy = row.policy /\ y.firstAt = row.firstAt
            /\ y.firstDue = row.firstDue /\ y.resolutionDue = row.resolutionDue
        BY <1>1, <4>2 DEF Rows
      <4> QED
        BY <2>1, <4>4, <4>5 DEF Leaves, Retypes, Keeps, DuesRight, PolicyRight
    <3> QED
      BY <3>1, <3>2
  <2> HIDE DEF y
  <2> QED
    BY <1>1, <2>1, <2>2 DEF Write, Retypes, row
<1> QED
  BY <1>4, <1>5, <1>6, <1>7 DEF Finishes

-----------------------------------------------------------------------------
LEMMA EnvironmentKept == ASSUME EnvTypeOK, UNCHANGED environment PROVE EnvTypeOK'
BY DEF EnvTypeOK, environment, Times

LEMMA FaultTyped == ASSUME EnvTypeOK, Fault PROVE EnvTypeOK'
BY EnvironmentAssumption DEF EnvTypeOK, Fault, Times

LEMMA SlaInitShape == Init => SlaShape
<1> SUFFICES ASSUME Init
             PROVE  SlaShape
  OBVIOUS
<1>1. EnvTypeOK
  BY EnvironmentAssumption DEF Init, EnvInit, EnvTypeOK, Times
<1>2. TablesOK
  BY SlaAssumption DEF Init, TablesOK
<1>3. RequestsOK
  BY DEF Init, RequestsOK
<1>4. SweepsOK /\ AuditOK
  BY DEF Init, SweepsOK, SweepRecords, AuditOK, Resting
<1> QED
  BY <1>1, <1>2, <1>3, <1>4 DEF SlaShape

(* The new row of create, before and after the rules *)
LEMMA CreatedRow ==
  ASSUME SlaShape, NEW t \in Tickets, NEW type \in Types \cup {None}, Create(t, type)
  PROVE  /\ ~Exists(t)
         /\ \E x \in Rows : /\ ticket' = [ticket EXCEPT ![t] = x]
                            /\ RowResolved(x) /\ DuesRight(x) /\ PolicyRight(x)
                            /\ x.firstAt = None
                            /\ x.firstFlagged = FALSE /\ x.resolutionFlagged = FALSE
<1> DEFINE policy == IF type = None THEN None ELSE policyOf[type]
           new == [status |-> "new", type |-> type, policy |-> policy,
                   created |-> now,
                   firstDue |-> Due(now, policy, "first"),
                   resolutionDue |-> Due(now, policy, "resolution"),
                   firstAt |-> None, resolvedAt |-> None,
                   firstFlagged |-> FALSE, resolutionFlagged |-> FALSE,
                   merged |-> FALSE]
           x == RunRules("created", new, now)
<1>1. policy \in Policies \cup {None}
  BY DEF SlaShape, TablesOK
<1>2. now \in Times /\ targets \in [Policies -> Targets]
  BY DEF SlaShape, EnvTypeOK, TablesOK
<1>3. /\ Due(now, policy, "first") \in Nat \cup {None}
      /\ Due(now, policy, "resolution") \in Nat \cup {None}
  BY <1>1, <1>2, DueType
<1>4. "new" \in Statuses /\ "new" \notin Closed
  BY DEF Statuses, Closed
<1>5. PolicyRight(new)
  BY DEF PolicyRight, SlaShape, TablesOK
<1>6. ~Exists(t) /\ ticket' = [ticket EXCEPT ![t] = x]
  BY DEF Create
<1> HIDE DEF policy
<1>7. new \in Rows /\ RowResolved(new) /\ DuesRight(new)
  BY <1>1, <1>2, <1>3, <1>4 DEF Rows, RowResolved, DuesRight
<1>8. new.firstAt = None /\ new.firstFlagged = FALSE /\ new.resolutionFlagged = FALSE
  OBVIOUS
<1> HIDE DEF new
<1>9. StatusWritten(x, new)
  BY <1>2, <1>7, RunRulesWrites
<1> HIDE DEF x
<1> QED
  BY <1>5, <1>6, <1>7, <1>8, <1>9
     DEF StatusWritten, SameButStatus, DuesRight, PolicyRight

(* The row of the import *)
LEMMA ImportedRow ==
  ASSUME SlaShape, NEW t \in Tickets, NEW type \in Types \cup {None},
         NEW status \in Statuses, Import(t, type, status)
  PROVE  /\ ~Exists(t)
         /\ \E x \in Rows : /\ ticket' = [ticket EXCEPT ![t] = x]
                            /\ RowResolved(x) /\ DuesRight(x)
                            /\ x.firstAt = None
                            /\ x.firstFlagged = FALSE /\ x.resolutionFlagged = FALSE
<1> DEFINE new(created, updated) ==
             [status |-> status, type |-> type, policy |-> None, created |-> created,
              firstDue |-> None, resolutionDue |-> None, firstAt |-> None,
              resolvedAt |-> ResolvedAt(status, updated),
              firstFlagged |-> FALSE, resolutionFlagged |-> FALSE, merged |-> FALSE]
<1>1. PICK created \in 0..now, updated \in 0..now :
        ticket' = [ticket EXCEPT ![t] = new(created, updated)]
  BY DEF Import
<1>2. created \in Times /\ updated \in Times
  BY <1>1, EnvironmentAssumption DEF SlaShape, EnvTypeOK, Times
<1>3. /\ ResolvedAt(status, updated) \in Times \cup {None}
      /\ ResolvedAt(status, updated) # None <=> status \in Closed
  BY <1>2, ResolvedAtType
<1> DEFINE x == new(created, updated)
<1>4. /\ x \in Rows /\ x.firstAt = None
      /\ x.firstFlagged = FALSE /\ x.resolutionFlagged = FALSE
  BY <1>2, <1>3 DEF Rows
<1>5. RowResolved(x)
  BY <1>3 DEF RowResolved
<1>6. DuesRight(x)
  BY DEF DuesRight, Due
<1> HIDE DEF new
<1> QED
  BY <1>1, <1>4, <1>5, <1>6 DEF Import

LEMMA RowReplaced ==
  ASSUME ticket \in [Tickets -> Rows \cup {None}], NEW t \in Tickets, NEW x \in Rows,
         ticket' = [ticket EXCEPT ![t] = x]
  PROVE  /\ ticket' \in [Tickets -> Rows \cup {None}]
         /\ \A u \in Tickets : Exists(u) => Exists(u)'
         /\ Exists(t)'
BY NullAssumption DEF Exists

(* The rows after the UPDATEs of a sweep *)
SameButFlags(x, row) ==
  /\ x.status = row.status /\ x.resolvedAt = row.resolvedAt
  /\ x.type = row.type /\ x.policy = row.policy /\ x.created = row.created
  /\ x.firstDue = row.firstDue /\ x.resolutionDue = row.resolutionDue
  /\ x.firstAt = row.firstAt /\ x.merged = row.merged

FlagsAfter(p, t, x) ==
  /\ x \in Rows /\ SameButFlags(x, ticket[t])
  /\ x.firstFlagged = (ticket[t].firstFlagged \/ <<t, "first_response">> \in sweep[p].seen)
  /\ x.resolutionFlagged = (ticket[t].resolutionFlagged \/ <<t, "resolution">> \in sweep[p].seen)

LEMMA MarkedRows ==
  ASSUME SlaShape, NEW p \in Processes, SweepMark(p)
  PROVE  /\ ticket' \in [Tickets -> Rows \cup {None}]
         /\ \A t \in Tickets : Exists(t)' <=> Exists(t)
         /\ \A t \in Tickets : Exists(t) => FlagsAfter(p, t, ticket'[t])
<1> DEFINE new(t) == [ticket[t] EXCEPT
               !.firstFlagged = @ \/ <<t, "first_response">> \in sweep[p].seen,
               !.resolutionFlagged = @ \/ <<t, "resolution">> \in sweep[p].seen]
<1>1. ticket' = [t \in Tickets |-> IF ~Exists(t) THEN None ELSE new(t)]
  BY DEF SweepMark
<1>2. ASSUME NEW t \in Tickets, Exists(t)
      PROVE  FlagsAfter(p, t, new(t))
  <2>1. ticket[t] \in Rows
    BY <1>2 DEF SlaShape, TablesOK, Exists
  <2> DEFINE f == ticket[t].firstFlagged \/ <<t, "first_response">> \in sweep[p].seen
             g == ticket[t].resolutionFlagged \/ <<t, "resolution">> \in sweep[p].seen
  <2>2. f \in BOOLEAN /\ g \in BOOLEAN
    BY Zenon
  <2>3. new(t) = [ticket[t] EXCEPT !.firstFlagged = f, !.resolutionFlagged = g]
    OBVIOUS
  <2> HIDE DEF f, g, new
  <2>4. new(t) \in Rows /\ new(t).firstFlagged = f /\ new(t).resolutionFlagged = g
    BY <2>1, <2>2, <2>3 DEF Rows
  <2>5. SameButFlags(new(t), ticket[t])
    BY <2>1, <2>3 DEF Rows, SameButFlags
  <2> QED
    BY <2>4, <2>5, Zenon DEF FlagsAfter, f, g
<1> HIDE DEF new
<1>3. \A t \in Tickets : Exists(t) => new(t) \in Rows
  BY <1>2, Zenon DEF FlagsAfter
<1>4. ticket' \in [Tickets -> Rows \cup {None}]
  BY <1>1, <1>3
<1>5. \A t \in Tickets : ticket'[t] = IF ~Exists(t) THEN None ELSE new(t)
  BY <1>1
<1>6. \A t \in Tickets : Exists(t)' <=> Exists(t)
  BY <1>3, <1>5, NullAssumption DEF Exists
<1>7. ASSUME NEW t \in Tickets, Exists(t)
      PROVE  FlagsAfter(p, t, ticket'[t])
  <2>1. ticket'[t] = new(t)
    BY <1>5, <1>7
  <2> QED
    BY <1>2, <1>7, <2>1, Zenon
<1> QED
  BY <1>4, <1>6, <1>7, Zenon

LEMMA RequestsKept ==
  ASSUME RequestsOK, UNCHANGED request, ticket \in [Tickets -> Rows \cup {None}],
         \A u \in Tickets : Exists(u) => Exists(u)'
  PROVE  RequestsOK'
<1>1. ASSUME NEW r \in Requests, request[r] # Idle
      PROVE  request[r].ticket \in Tickets
  BY <1>1 DEF RequestsOK, Reqs
<1> QED
  BY <1>1 DEF RequestsOK

LEMMA SlaNextShape == SlaShape /\ [Next]_vars => SlaShape'
<1> SUFFICES ASSUME SlaShape, [Next]_vars
             PROVE  SlaShape'
  OBVIOUS
<1>0. /\ EnvTypeOK /\ TablesOK /\ RequestsOK /\ SweepsOK /\ AuditOK
      /\ deployed \subseteq Processes
      /\ ticket \in [Tickets -> Rows \cup {None}] /\ now \in Times
  BY DEF SlaShape, EnvTypeOK, TablesOK
<1>1. CASE Tick
  <2>1. EnvTypeOK'
    BY <1>0, <1>1, EnvironmentAssumption DEF Tick, ClockTick, EnvTypeOK, Times
  <2>2. UNCHANGED slaVars
    BY <1>1 DEF Tick
  <2> QED
    BY <1>0, <2>1, <2>2
       DEF slaVars, policyVars, auditVars, SlaShape, TablesOK, RequestsOK, SweepsOK,
           SweepRecords, AuditOK, Exists
<1>2. ASSUME NEW t \in Tickets, NEW type \in Types \cup {None}, Create(t, type)
      PROVE  SlaShape'
  <2>1. PICK x \in Rows : ticket' = [ticket EXCEPT ![t] = x]
    BY <1>2, CreatedRow
  <2>2. /\ ticket' \in [Tickets -> Rows \cup {None}] /\ Exists(t)'
        /\ \A u \in Tickets : Exists(u) => Exists(u)'
    BY <1>0, <2>1, RowReplaced
  <2>3. /\ UNCHANGED <<environment, policyVars, request, replied, typeOnly, sweep, auditVars>>
        /\ triage' = triage \/ triage' = triage \cup {t}
    BY <1>2 DEF Create
  <2>4. RequestsOK'
    BY <1>0, <2>2, <2>3, RequestsKept
  <2>5. TablesOK'
    BY <1>0, <2>2, <2>3 DEF TablesOK, policyVars
  <2> QED
    BY <1>0, <2>3, <2>4, <2>5, EnvironmentKept
       DEF SlaShape, SweepsOK, SweepRecords, AuditOK, auditVars
<1>i. ASSUME NEW t \in Tickets, NEW type \in Types \cup {None}, NEW status \in Statuses,
             Import(t, type, status)
      PROVE  SlaShape'
  <2>1. PICK x \in Rows : ticket' = [ticket EXCEPT ![t] = x]
    BY <1>i, ImportedRow
  <2>2. /\ ticket' \in [Tickets -> Rows \cup {None}] /\ Exists(t)'
        /\ \A u \in Tickets : Exists(u) => Exists(u)'
    BY <1>0, <2>1, RowReplaced
  <2>3. /\ UNCHANGED <<environment, policyVars, triage, request, replied, sweep, auditVars>>
        /\ typeOnly' = typeOnly \cup {t}
    BY <1>i DEF Import
  <2>4. RequestsOK'
    BY <1>0, <2>2, <2>3, RequestsKept
  <2>5. TablesOK'
    BY <1>0, <2>2, <2>3 DEF TablesOK, policyVars
  <2> QED
    BY <1>0, <2>3, <2>4, <2>5, EnvironmentKept
       DEF SlaShape, SweepsOK, SweepRecords, AuditOK, auditVars
<1>3. ASSUME NEW t \in Tickets, NEW type \in Types, ApplyTriage(t, type)
      PROVE  SlaShape'
  <2> DEFINE x == [ticket[t] EXCEPT !.type = type]
  <2>1. t \in triage /\ ticket[t] \in Rows
    BY <1>0, <1>3 DEF ApplyTriage, TablesOK, Exists
  <2>2. x \in Rows
    BY <2>1 DEF Rows
  <2>3. ticket' = [ticket EXCEPT ![t] = x]
    BY <1>0, <1>3 DEF ApplyTriage
  <2> HIDE DEF x
  <2>4. /\ ticket' \in [Tickets -> Rows \cup {None}]
        /\ \A u \in Tickets : Exists(u) => Exists(u)'
    BY <1>0, <2>2, <2>3, RowReplaced
  <2>5. /\ UNCHANGED <<environment, policyVars, request, replied, sweep, auditVars>>
        /\ triage' = triage \ {t} /\ typeOnly' = typeOnly \cup {t}
    BY <1>3 DEF ApplyTriage
  <2>6. RequestsOK'
    BY <1>0, <2>4, <2>5, RequestsKept
  <2>7. TablesOK'
    BY <1>0, <2>4, <2>5 DEF TablesOK, policyVars
  <2> QED
    BY <1>0, <2>5, <2>6, <2>7, EnvironmentKept
       DEF SlaShape, SweepsOK, SweepRecords, AuditOK, auditVars
<1>4. ASSUME NEW t \in Tickets, SkipTriage(t)
      PROVE  SlaShape'
  BY <1>0, <1>4, EnvironmentKept
     DEF SkipTriage, policyVars, SlaShape, TablesOK, RequestsOK, SweepsOK, SweepRecords,
         AuditOK, auditVars, Exists
<1>5. ASSUME NEW p \in Policies, NEW new \in Targets, EditPolicy(p, new)
      PROVE  SlaShape'
  BY <1>0, <1>5, SlaAssumption, EnvironmentKept
     DEF EditPolicy, SlaShape, TablesOK, RequestsOK, SweepsOK, SweepRecords,
         AuditOK, auditVars, Exists
<1>y. ASSUME NEW type \in Types, NEW policy \in Policies \cup {None}, EditType(type, policy)
      PROVE  SlaShape'
  <2>1. /\ policyOf' = [policyOf EXCEPT ![type] = policy]
        /\ hadPolicy' = [hadPolicy EXCEPT ![type] = @ \cup {policy}]
        /\ typeEdits' \in 0..MaxTypeEdits
        /\ UNCHANGED <<environment, targets, edits, ticket, triage, request, replied,
                       typeOnly, sweep, auditVars>>
    BY <1>0, <1>y, SlaAssumption DEF EditType, TablesOK
  <2>2. /\ policyOf' \in [Types -> Policies \cup {None}]
        /\ hadPolicy' \in [Types -> SUBSET (Policies \cup {None})]
        /\ \A other \in Types : policyOf'[other] \in hadPolicy'[other]
    BY <1>0, <2>1 DEF TablesOK
  <2>3. TablesOK'
    BY <1>0, <2>1, <2>2 DEF TablesOK, Exists
  <2> QED
    BY <1>0, <2>1, <2>3, EnvironmentKept
       DEF SlaShape, RequestsOK, SweepsOK, SweepRecords,
         AuditOK, auditVars, Exists
<1>6. ASSUME NEW r \in Requests, ReadAny(r)
      PROVE  SlaShape'
  <2>1. PICK t \in Tickets, kind \in {"update", "reply", "scenario", "merge"},
             s \in Statuses \cup {None}, type \in Types \cup {None} :
          Read(r, t, kind, s, type) /\ (kind = "scenario" => s # None)
    BY <1>6, SlaAssumption DEF ReadAny
  <2> DEFINE q == [do |-> kind, ticket |-> t, status |-> s, type |-> type,
                   seen |-> UsedLater(ticket[t]), began |-> now]
  <2>2. ticket[t] \in Rows
    BY <1>0, <2>1 DEF Read, Exists
  <2>3. q \in Reqs
    BY <1>0, <2>2 DEF Reqs, UsedLater, ReadRows, Rows
  <2>4. request' = [request EXCEPT ![r] = q] /\ Exists(t)
    BY <2>1 DEF Read
  <2>5. UNCHANGED <<environment, policyVars, ticket, triage, replied, typeOnly, sweep, auditVars>>
    BY <2>1 DEF Read
  <2>6. q.ticket = t /\ (q.do = "scenario" => q.status # None)
    BY <2>1
  <2> HIDE DEF q
  <2>7. RequestsOK'
    BY <1>0, <2>3, <2>4, <2>5, <2>6 DEF RequestsOK, Exists
  <2> QED
    BY <1>0, <2>5, <2>7, EnvironmentKept
       DEF policyVars, SlaShape, TablesOK, SweepsOK, SweepRecords, AuditOK, auditVars, Exists
<1>7. ASSUME NEW r \in Requests, Finishes(r)
      PROVE  SlaShape'
  <2> DEFINE q == request[r]
             t == q.ticket
  <2>1. q \in Reqs /\ t \in Tickets /\ ticket[t] \in Rows
    BY <1>7, FinishesLeaves
  <2>2. PICK x : Leaves(q, ticket[t], x) /\ ticket' = [ticket EXCEPT ![t] = x]
    BY <1>7, FinishesLeaves
  <2>3. /\ request' = [request EXCEPT ![r] = Idle]
        /\ UNCHANGED <<environment, policyVars, triage, sweep, auditVars>>
        /\ replied' = IF q.do = "reply"
                      THEN [replied EXCEPT ![t] =
                             IF @ = None \/ q.began < @ THEN q.began ELSE @]
                      ELSE replied
        /\ typeOnly' = typeOnly \ {t} \/ typeOnly' = typeOnly
    BY <1>7, FinishesLeaves
  <2>4. /\ ticket' \in [Tickets -> Rows \cup {None}]
        /\ \A u \in Tickets : Exists(u) => Exists(u)'
    BY <1>0, <2>1, <2>2, RowReplaced DEF Leaves
  <2>5. q.began \in Times
    BY <2>1 DEF Reqs
  <2> HIDE DEF q, t
  <2>6. RequestsOK'
    <3>1. \A u \in Requests : request'[u] = Idle \/ request'[u] = request[u]
      BY <1>0, <2>3 DEF RequestsOK
    <3>2. \A u \in Requests : request[u] # Idle => request[u].ticket \in Tickets
      BY <1>0 DEF RequestsOK, Reqs
    <3>3. request' \in [Requests -> Reqs \cup {Idle}]
      BY <1>0, <2>3 DEF RequestsOK
    <3> QED
      BY <1>0, <2>4, <3>1, <3>2, <3>3 DEF RequestsOK
  <2>7. replied' \in [Tickets -> Times \cup {None}]
    BY <1>0, <2>1, <2>3, <2>5 DEF TablesOK
  <2>8. TablesOK'
    BY <1>0, <2>3, <2>4, <2>7 DEF TablesOK, policyVars
  <2> QED
    BY <1>0, <2>3, <2>6, <2>8, EnvironmentKept
       DEF SlaShape, SweepsOK, SweepRecords, AuditOK, auditVars
<1>8. ASSUME NEW r \in Requests, Abandon(r)
      PROVE  SlaShape'
  BY <1>0, <1>8, EnvironmentKept
     DEF Abandon, policyVars, SlaShape, TablesOK, RequestsOK, SweepsOK, SweepRecords,
         AuditOK, auditVars, Exists

<1>9. ASSUME NEW p \in Processes, SweepSelect(p)
      PROVE  SlaShape'
  <2> DEFINE S == UNION {Overdue(t, ticket[t], now) :
                    t \in {u \in Tickets : Exists(u) /\ ticket[u].status \notin Closed}}
  <2>1. S \subseteq Breaches
    BY DEF Overdue, Breaches
  <2>2. sweep' = [sweep EXCEPT ![p] = [Resting EXCEPT !.at = "mark", !.seen = S]]
    BY <1>9 DEF SweepSelect
  <2> HIDE DEF S
  <2>3. SweepsOK'
    BY <1>0, <2>1, <2>2 DEF SweepsOK, SweepRecords, Resting
  <2>4. UNCHANGED <<environment, policyVars, ticket, triage, request, replied, typeOnly, auditVars>>
    BY <1>9 DEF SweepSelect
  <2> QED
    BY <1>0, <2>3, <2>4, EnvironmentKept
       DEF policyVars, SlaShape, TablesOK, RequestsOK, AuditOK, auditVars, Exists
<1>10. ASSUME NEW p \in Processes, SweepMark(p)
       PROVE  SlaShape'
  <2>1. /\ ticket' \in [Tickets -> Rows \cup {None}]
        /\ \A u \in Tickets : Exists(u)' <=> Exists(u)
    BY <1>10, MarkedRows
  <2>2. /\ UNCHANGED <<environment, policyVars, triage, request, replied, typeOnly, auditVars>>
        /\ sweep' = [sweep EXCEPT ![p] =
             [Resting EXCEPT !.at = "dispatch", !.todo = sweep[p].seen]]
    BY <1>10 DEF SweepMark
  <2>3. RequestsOK'
    BY <1>0, <2>1, <2>2, RequestsKept
  <2>4. TablesOK'
    BY <1>0, <2>1, <2>2 DEF TablesOK, policyVars
  <2>5. SweepsOK'
    BY <1>0, <2>2 DEF SweepsOK, SweepRecords, Resting
  <2> QED
    BY <1>0, <2>2, <2>3, <2>4, <2>5, EnvironmentKept DEF SlaShape, AuditOK, auditVars
<1>11. ASSUME NEW p \in Processes, SweepPublish(p)
       PROVE  SlaShape'
  <2>1. PICK b \in sweep[p].todo :
          /\ noticed' = [noticed EXCEPT ![b] = @ + 1]
          /\ sweep' = [sweep EXCEPT ![p].todo = @ \ {b},
                                    ![p].mail = IF b[1] \in Assigned THEN b ELSE None]
    BY <1>11 DEF SweepPublish
  <2>2. b \in Breaches
    BY <1>0 DEF SweepsOK, SweepRecords
  <2>3. SweepsOK' /\ AuditOK'
    <3>1. UNCHANGED <<mailed, lost>>
      BY <1>11 DEF SweepPublish
    <3>2. AuditOK'
      BY <1>0, <2>1, <2>2, <3>1 DEF AuditOK
    <3>3. sweep[p] \in SweepRecords /\ sweep \in [Processes -> SweepRecords]
      BY <1>0 DEF SweepsOK, SweepRecords
    <3> DEFINE s == [[sweep[p] EXCEPT !.todo = @ \ {b}]
                       EXCEPT !.mail = IF b[1] \in Assigned THEN b ELSE None]
    <3>4. s \in SweepRecords
      BY <2>2, <3>3 DEF SweepRecords
    <3>5. sweep' = [sweep EXCEPT ![p] = s]
      BY <2>1, <3>3
    <3> HIDE DEF s
    <3> QED
      BY <3>2, <3>3, <3>4, <3>5 DEF SweepsOK, SweepRecords
  <2>4. UNCHANGED <<environment, policyVars, ticket, triage, request, replied, typeOnly>>
    BY <1>11 DEF SweepPublish
  <2> QED
    BY <1>0, <2>3, <2>4, EnvironmentKept DEF policyVars, SlaShape, TablesOK, RequestsOK, Exists
<1>12. ASSUME NEW p \in Processes, SweepMail(p)
       PROVE  SlaShape'
  <2>1. sweep[p] \in SweepRecords /\ sweep \in [Processes -> SweepRecords]
    BY <1>0 DEF SweepsOK, SweepRecords
  <2> DEFINE s == [sweep[p] EXCEPT !.mail = None]
  <2>2. s \in SweepRecords
    BY <2>1 DEF SweepRecords
  <2>3. sweep' = [sweep EXCEPT ![p] = s]
    BY <1>12, <2>1 DEF SweepMail
  <2> HIDE DEF s
  <2>4. SweepsOK'
    BY <2>1, <2>2, <2>3 DEF SweepsOK, SweepRecords
  <2>5. sweep[p].mail \in Breaches
    BY <1>12, <2>1 DEF SweepMail, SweepRecords
  <2>6. AuditOK'
    BY <1>0, <1>12, <2>5 DEF SweepMail, AuditOK
  <2> QED
    BY <1>0, <1>12, <2>4, <2>6, EnvironmentKept
       DEF SweepMail, policyVars, SlaShape, TablesOK, RequestsOK, Exists
<1>13. ASSUME NEW p \in Processes, SweepFinish(p)
       PROVE  SlaShape'
  BY <1>0, <1>13, EnvironmentKept
     DEF SweepFinish, Resting, policyVars, SlaShape, TablesOK, RequestsOK, SweepsOK,
         SweepRecords, AuditOK, auditVars, Exists
<1>14. ASSUME NEW p \in Processes, SweepFails(p)
       PROVE  SlaShape'
  <2>1. EnvTypeOK'
    BY <1>0, <1>14, FaultTyped DEF SweepFails
  <2>2. Holding(p) \subseteq Breaches
    BY <1>0 DEF Holding, SweepsOK, SweepRecords
  <2> QED
    BY <1>0, <1>14, <2>1, <2>2
       DEF SweepFails, Resting, policyVars, SlaShape, TablesOK, RequestsOK, SweepsOK,
           SweepRecords, AuditOK, Exists
<1>15. CASE UNCHANGED vars
  BY <1>0, <1>15, EnvironmentKept
     DEF vars, slaVars, policyVars, auditVars, SlaShape, TablesOK, RequestsOK, SweepsOK,
         SweepRecords, AuditOK, Exists
<1> QED
  BY <1>0, <1>1, <1>2, <1>i, <1>3, <1>4, <1>5, <1>y, <1>6, <1>7, <1>8, <1>9, <1>10,
     <1>11, <1>12, <1>13, <1>14, <1>15
     DEF Next, Sweep

LEMMA ShapeInvariant == Spec => []SlaShape
BY SlaInitShape, SlaNextShape, PTL DEF Spec

LEMMA ShapeIsTyped == SlaShape => TypeOK
<1> SUFFICES ASSUME SlaShape
             PROVE  TypeOK
  OBVIOUS
<1>1. \A t \in Tickets : Exists(t) => ticket[t] \in Rows
  BY DEF SlaShape, TablesOK, Exists
<1>2. \A r \in Requests : request[r] # Idle =>
        /\ request[r].ticket \in Tickets
        /\ request[r].seen \in ReadRows
        /\ request[r].began \in Times
  BY DEF SlaShape, RequestsOK, Reqs
<1>3. \A p \in Processes : sweep[p].seen \cup Holding(p) \subseteq Breaches
  BY DEF SlaShape, SweepsOK, SweepRecords, Holding
<1> QED
  BY <1>1, <1>2, <1>3 DEF SlaShape, TablesOK, AuditOK, TypeOK

(* Whatever requests, triage, edits and sweeps interleave, every row,      *)
(* request and sweep of TicketSla keeps its type.                          *)
THEOREM SlaTypeCorrect == Spec => []TypeOK
BY ShapeInvariant, ShapeIsTyped, PTL

-----------------------------------------------------------------------------
(* How a step may change a row: it is created or imported, a request ends, *)
(* the triage writes the type, a sweep writes the flags.                   *)
IsNew(x) ==
  /\ x \in Rows /\ RowResolved(x) /\ DuesRight(x)
  /\ x.firstAt = None /\ x.firstFlagged = FALSE /\ x.resolutionFlagged = FALSE

SameButType(x, row) ==
  /\ x.status = row.status /\ x.resolvedAt = row.resolvedAt
  /\ x.policy = row.policy /\ x.created = row.created
  /\ x.firstDue = row.firstDue /\ x.resolutionDue = row.resolutionDue
  /\ x.firstAt = row.firstAt /\ x.merged = row.merged
  /\ x.firstFlagged = row.firstFlagged
  /\ x.resolutionFlagged = row.resolutionFlagged

Written(t) == \E r \in Requests : /\ Finishes(r) /\ request[r] # Idle
                                  /\ request[r].ticket = t
                                  /\ Leaves(request[r], ticket[t], ticket'[t])

Retyped(t) == /\ \E type \in Types : ApplyTriage(t, type)
              /\ SameButType(ticket'[t], ticket[t])

Imported(t) == \E type \in Types \cup {None}, status \in Statuses : Import(t, type, status)

Flagged(t) == \E p \in deployed : SweepMark(p) /\ FlagsAfter(p, t, ticket'[t])

LEMMA RowSteps ==
  ASSUME SlaShape, [Next]_vars, NEW t \in Tickets, Exists(t)'
  PROVE  \/ ~Exists(t) /\ IsNew(ticket'[t]) /\ (PolicyRight(ticket'[t]) \/ Imported(t))
         \/ Exists(t) /\ (ticket'[t] = ticket[t] \/ Written(t) \/ Retyped(t) \/ Flagged(t))
<1>0. /\ ticket \in [Tickets -> Rows \cup {None}] /\ deployed \subseteq Processes
      /\ triage \subseteq Tickets /\ \A u \in triage : Exists(u)
  BY DEF SlaShape, TablesOK, EnvTypeOK
<1>1. ASSUME NEW u \in Tickets, NEW type \in Types \cup {None}, Create(u, type)
      PROVE  \/ ticket'[t] = ticket[t]
             \/ t = u /\ ~Exists(t) /\ IsNew(ticket'[t]) /\ PolicyRight(ticket'[t])
  <2>1. PICK x \in Rows : /\ ticket' = [ticket EXCEPT ![u] = x]
                          /\ RowResolved(x) /\ DuesRight(x) /\ PolicyRight(x)
                          /\ x.firstAt = None
                          /\ x.firstFlagged = FALSE /\ x.resolutionFlagged = FALSE
    BY <1>1, CreatedRow
  <2>2. ~Exists(u)
    BY <1>1, CreatedRow
  <2>3. CASE t = u
    <3>1. ticket'[t] = x
      BY <1>0, <2>1, <2>3
    <3> QED
      BY <2>1, <2>2, <2>3, <3>1 DEF IsNew
  <2>4. CASE t # u
    BY <1>0, <2>1, <2>4
  <2> QED
    BY <2>3, <2>4
<1>i. ASSUME NEW u \in Tickets, NEW type \in Types \cup {None}, NEW status \in Statuses,
             Import(u, type, status)
      PROVE  \/ ticket'[t] = ticket[t]
             \/ t = u /\ ~Exists(t) /\ IsNew(ticket'[t]) /\ Imported(t)
  <2>1. PICK x \in Rows : /\ ticket' = [ticket EXCEPT ![u] = x]
                          /\ RowResolved(x) /\ DuesRight(x)
                          /\ x.firstAt = None
                          /\ x.firstFlagged = FALSE /\ x.resolutionFlagged = FALSE
    BY <1>i, ImportedRow
  <2>2. ~Exists(u) /\ (t = u => Imported(t))
    BY <1>i, ImportedRow DEF Imported
  <2>3. CASE t = u
    <3>1. ticket'[t] = x
      BY <1>0, <2>1, <2>3
    <3> QED
      BY <2>1, <2>2, <2>3, <3>1 DEF IsNew
  <2>4. CASE t # u
    BY <1>0, <2>1, <2>4
  <2> QED
    BY <2>3, <2>4
<1>2. ASSUME NEW u \in Tickets, NEW type \in Types, ApplyTriage(u, type)
      PROVE  Exists(t) /\ (ticket'[t] = ticket[t] \/ Retyped(t))
  <2>1. ticket' = [ticket EXCEPT ![u].type = type] /\ Exists(u)
    BY <1>0, <1>2 DEF ApplyTriage
  <2>2. CASE t = u
    <3>1. ticket[t] \in Rows
      BY <1>0, <2>1, <2>2 DEF Exists
    <3>2. ticket'[t] = [ticket[t] EXCEPT !.type = type]
      BY <1>0, <2>1, <2>2
    <3>3. SameButType(ticket'[t], ticket[t])
      BY <3>1, <3>2 DEF Rows, SameButType
    <3> QED
      BY <1>2, <2>1, <2>2, <3>3 DEF Retyped
  <2>3. CASE t # u
    BY <1>0, <2>1, <2>3 DEF Exists
  <2> QED
    BY <2>2, <2>3
<1>3. ASSUME NEW r \in Requests, Finishes(r)
      PROVE  Exists(t) /\ (ticket'[t] = ticket[t] \/ Written(t))
  <2> DEFINE q == request[r]
             u == q.ticket
  <2>1. q \in Reqs /\ u \in Tickets /\ ticket[u] \in Rows
    BY <1>3, FinishesLeaves
  <2>2. PICK x : Leaves(q, ticket[u], x) /\ ticket' = [ticket EXCEPT ![u] = x]
    BY <1>3, FinishesLeaves
  <2>3. q # Idle
    BY <1>3, BusyRequest DEF Finishes, WriteUpdate, WriteScenario, WriteReply, WriteMerge
  <2> HIDE DEF q, u
  <2>4. CASE t = u
    <3>1. ticket'[t] = x
      BY <1>0, <2>2, <2>4
    <3> QED
      BY <1>3, <2>1, <2>2, <2>3, <2>4, <3>1, NullAssumption DEF Written, Exists, q, u
  <2>5. CASE t # u
    BY <1>0, <2>1, <2>2, <2>5 DEF Exists
  <2> QED
    BY <2>4, <2>5
<1>4. ASSUME NEW p \in deployed, SweepMark(p)
      PROVE  Exists(t) /\ Flagged(t)
  <2>1. p \in Processes
    BY <1>0
  <2>2. Exists(t) /\ FlagsAfter(p, t, ticket'[t])
    BY <1>4, <2>1, MarkedRows
  <2> QED
    BY <1>4, <2>2 DEF Flagged
<1>5. CASE UNCHANGED ticket
  BY <1>5 DEF Exists
<1>6. CASE Next
  <2>1. CASE Tick
    BY <1>5, <2>1 DEF Tick, slaVars
  <2>2. ASSUME NEW u \in Tickets, SkipTriage(u)
        PROVE  UNCHANGED ticket
    BY <2>2 DEF SkipTriage
  <2>3. ASSUME NEW p \in Policies, NEW new \in Targets, EditPolicy(p, new)
        PROVE  UNCHANGED ticket
    BY <2>3 DEF EditPolicy
  <2>y. ASSUME NEW type \in Types, NEW policy \in Policies \cup {None}, EditType(type, policy)
        PROVE  UNCHANGED ticket
    BY <2>y DEF EditType
  <2>4. ASSUME NEW r \in Requests, ReadAny(r) \/ Abandon(r)
        PROVE  UNCHANGED ticket
    BY <2>4 DEF ReadAny, Read, Abandon
  <2>5. ASSUME NEW p \in deployed, Sweep(p) \/ SweepFails(p), ~SweepMark(p)
        PROVE  UNCHANGED ticket
    BY <2>5 DEF Sweep, SweepSelect, SweepPublish, SweepMail, SweepFinish, SweepFails
  <2>6. ticket'[t] = ticket[t] => Exists(t)
    BY DEF Exists
  <2> QED
    BY <1>1, <1>i, <1>2, <1>3, <1>4, <1>5, <1>6, <2>1, <2>2, <2>3, <2>y, <2>4, <2>5, <2>6
       DEF Next, Sweep
<1> QED
  BY <1>5, <1>6 DEF vars, slaVars

(* One step keeps resolved_at in line with the status, in every row. *)
LEMMA ResolvedAtStep == ResolvedAtMatchesStatus /\ SlaShape /\ [Next]_vars
                        => ResolvedAtMatchesStatus'
<1> SUFFICES ASSUME ResolvedAtMatchesStatus, SlaShape, [Next]_vars,
                    NEW t \in Tickets, Exists(t)'
             PROVE  RowResolved(ticket'[t])
  BY DEF ResolvedAtMatchesStatus, RowResolved, Exists
<1>1. Exists(t) => RowResolved(ticket[t])
  BY DEF ResolvedAtMatchesStatus, RowResolved
<1> QED
  BY <1>1, RowSteps
     DEF IsNew, Written, Leaves, Keeps, Retyped, SameButType, Flagged, FlagsAfter,
         SameButFlags, RowResolved

(* resolved_at is set exactly while the ticket is resolved or closed,      *)
(* however updates, rules, scenarios, merges and sweeps interleave: the    *)
(* rules of runRules and every one of the four writers set both columns.   *)
THEOREM ResolvedAtRight == Spec => []ResolvedAtMatchesStatus
<1>1. Init => ResolvedAtMatchesStatus
  BY DEF Init, ResolvedAtMatchesStatus, Exists
<1> QED
  BY <1>1, ResolvedAtStep, ShapeInvariant, PTL DEF Spec

-----------------------------------------------------------------------------
(* The created_at a request has read is still the row's when it writes. *)
Anchored ==
  \A r \in Requests : request[r] # Idle =>
    request[r].seen.created = ticket[request[r].ticket].created

LEMMA CreatedKept ==
  ASSUME SlaShape, [Next]_vars, NEW t \in Tickets, Exists(t)
  PROVE  Exists(t)' /\ ticket'[t].created = ticket[t].created
<1>1. ASSUME Exists(t)'
      PROVE  ticket'[t].created = ticket[t].created
  BY <1>1, RowSteps
     DEF Written, Leaves, Keeps, Retyped, SameButType, Flagged, FlagsAfter, SameButFlags
<1>2. ASSUME NEW u \in Tickets, NEW x \in Rows, ticket' = [ticket EXCEPT ![u] = x]
      PROVE  Exists(t)'
  BY <1>2, RowReplaced DEF SlaShape, TablesOK
<1>3. Exists(t)'
  <2>0. ticket \in [Tickets -> Rows \cup {None}] /\ deployed \subseteq Processes
    BY DEF SlaShape, TablesOK, EnvTypeOK
  <2>1. ASSUME NEW u \in Tickets, NEW type \in Types \cup {None}, Create(u, type)
        PROVE  Exists(t)'
    BY <1>2, <2>1, CreatedRow
  <2>i. ASSUME NEW u \in Tickets, NEW type \in Types \cup {None}, NEW status \in Statuses,
               Import(u, type, status)
        PROVE  Exists(t)'
    BY <1>2, <2>i, ImportedRow
  <2>2. ASSUME NEW u \in Tickets, NEW type \in Types, ApplyTriage(u, type)
        PROVE  Exists(t)'
    <3>1. u \in triage /\ ticket[u] \in Rows
      BY <2>2 DEF ApplyTriage, SlaShape, TablesOK, Exists
    <3> DEFINE x == [ticket[u] EXCEPT !.type = type]
    <3>2. x \in Rows
      BY <3>1 DEF Rows
    <3>3. ticket' = [ticket EXCEPT ![u] = x]
      BY <2>0, <2>2 DEF ApplyTriage
    <3> HIDE DEF x
    <3> QED
      BY <1>2, <3>2, <3>3
  <2>3. ASSUME NEW r \in Requests, Finishes(r)
        PROVE  Exists(t)'
    <3>1. PICK x : /\ Leaves(request[r], ticket[request[r].ticket], x)
                   /\ ticket' = [ticket EXCEPT ![request[r].ticket] = x]
      BY <2>3, FinishesLeaves
    <3>2. request[r].ticket \in Tickets
      BY <2>3, FinishesLeaves
    <3> QED
      BY <1>2, <3>1, <3>2 DEF Leaves
  <2>4. ASSUME NEW p \in deployed, SweepMark(p)
        PROVE  Exists(t)'
    BY <2>0, <2>4, MarkedRows
  <2>5. UNCHANGED ticket => Exists(t)'
    BY DEF Exists
  <2> QED
    BY <2>1, <2>i, <2>2, <2>3, <2>4, <2>5
       DEF Next, vars, slaVars, Tick, SkipTriage, EditPolicy, EditType, ReadAny, Read, Abandon,
           Sweep, SweepSelect, SweepPublish, SweepMail, SweepFinish, SweepFails
<1> QED
  BY <1>1, <1>3

(* A request is the one before the step, or it has just read its ticket. *)
LEMMA RequestSteps ==
  ASSUME SlaShape, [Next]_vars, NEW r \in Requests, request'[r] # Idle
  PROVE  \/ request'[r] = request[r]
         \/ /\ request[r] = Idle
            /\ UNCHANGED <<environment, policyVars, ticket, triage, replied, typeOnly, sweep, auditVars>>
            /\ request'[r].ticket \in Tickets /\ Exists(request'[r].ticket)
            /\ request'[r].seen = UsedLater(ticket[request'[r].ticket])
            /\ request'[r].began = now
            /\ \A s \in Requests : s # r => request'[s] = request[s]
<1>0. request \in [Requests -> Reqs \cup {Idle}]
  BY DEF SlaShape, RequestsOK
<1>1. ASSUME NEW s \in Requests, ReadAny(s)
      PROVE  \/ request'[r] = request[r]
             \/ /\ request[r] = Idle
                /\ UNCHANGED <<environment, policyVars, ticket, triage, replied, typeOnly, sweep, auditVars>>
                /\ request'[r].ticket \in Tickets /\ Exists(request'[r].ticket)
                /\ request'[r].seen = UsedLater(ticket[request'[r].ticket])
                /\ request'[r].began = now
                /\ \A u \in Requests : u # r => request'[u] = request[u]
  <2>1. PICK t \in Tickets, kind \in {"update", "reply", "scenario", "merge"},
             st \in Statuses \cup {None}, type \in Types \cup {None} :
          Read(s, t, kind, st, type)
    BY <1>1, SlaAssumption DEF ReadAny
  <2> DEFINE q == [do |-> kind, ticket |-> t, status |-> st, type |-> type,
                   seen |-> UsedLater(ticket[t]), began |-> now]
  <2>2. /\ q.ticket = t /\ q.seen = UsedLater(ticket[t]) /\ q.began = now
    OBVIOUS
  <2>3. request' = [request EXCEPT ![s] = q] /\ request[s] = Idle /\ Exists(t)
    BY <2>1 DEF Read
  <2>4. UNCHANGED <<environment, policyVars, ticket, triage, replied, typeOnly, sweep, auditVars>>
    BY <2>1 DEF Read
  <2> HIDE DEF q
  <2>5. CASE s = r
    <3>1. request'[r] = q /\ \A u \in Requests : u # r => request'[u] = request[u]
      BY <1>0, <2>3, <2>5
    <3> QED
      BY <2>2, <2>3, <2>4, <2>5, <3>1
  <2>6. CASE s # r
    BY <1>0, <2>3, <2>6
  <2> QED
    BY <2>5, <2>6
<1>2. ASSUME NEW s \in Requests, Finishes(s) \/ Abandon(s)
      PROVE  request'[r] = request[r]
  <2>1. request' = [request EXCEPT ![s] = Idle]
    BY <1>2, FinishesLeaves DEF Abandon
  <2> QED
    BY <1>0, <2>1
<1>3. UNCHANGED request => request'[r] = request[r]
  OBVIOUS
<1> QED
  BY <1>1, <1>2, <1>3
     DEF Next, vars, slaVars, Tick, Create, Import, ApplyTriage, SkipTriage, EditPolicy, EditType, Sweep,
         SweepSelect, SweepMark, SweepPublish, SweepMail, SweepFinish, SweepFails

LEMMA AnchoredInvariant == Spec => []Anchored
<1>1. Init => Anchored
  BY DEF Init, Anchored
<1>2. Anchored /\ SlaShape /\ SlaShape' /\ [Next]_vars => Anchored'
  <2> SUFFICES ASSUME Anchored, SlaShape, SlaShape', [Next]_vars,
                      NEW r \in Requests, request'[r] # Idle
               PROVE  request'[r].seen.created = ticket'[request'[r].ticket].created
    BY DEF Anchored
  <2>1. CASE request'[r] = request[r]
    <3>1. request[r].ticket \in Tickets /\ Exists(request[r].ticket)
      BY <2>1, ActiveRequest DEF SlaShape, RequestsOK
    <3> QED
      BY <2>1, <3>1, CreatedKept DEF Anchored
  <2>2. CASE request'[r] # request[r]
    <3>1. /\ request'[r].seen = UsedLater(ticket[request'[r].ticket])
          /\ ticket' = ticket
      BY <2>2, RequestSteps
    <3> QED
      BY <3>1 DEF UsedLater
  <2> QED
    BY <2>1, <2>2
<1> QED
  BY <1>1, <1>2, ShapeInvariant, PTL DEF Spec

(* No policy edited yet: the target minutes are what they were. *)
LEMMA TargetsKept ==
  ASSUME SlaShape, [Next]_vars, edits' = 0
  PROVE  edits = 0 /\ targets' = targets
<1>1. edits \in Nat
  BY SlaAssumption DEF SlaShape, TablesOK
<1>2. ASSUME NEW p \in Policies, NEW new \in Targets
      PROVE  ~EditPolicy(p, new)
  BY <1>1 DEF EditPolicy
<1>3. ASSUME NEW r \in Requests, Finishes(r)
      PROVE  UNCHANGED policyVars
  BY <1>3, FinishesLeaves
<1> QED
  BY <1>2, <1>3
     DEF Next, vars, slaVars, Tick, Create, Import, ApplyTriage, SkipTriage, EditType, ReadAny, Read,
         Abandon, policyVars,
         Sweep, SweepSelect, SweepMark, SweepPublish, SweepMail, SweepFinish, SweepFails

(* Until a policy is edited, first_response_due_at and resolution_due_at   *)
(* are the policy's minutes after created_at in every row, however type    *)
(* changes interleave: update() recomputes both from the created_at it     *)
(* read, which nothing changes afterwards.                                 *)
THEOREM DuesRightUntilEdited == Spec => [](edits = 0 => DuesFollowPolicy)
<1>1. Init => (edits = 0 => DuesFollowPolicy)
  BY DEF Init, DuesFollowPolicy, Exists
<1>2. /\ edits = 0 => DuesFollowPolicy
      /\ Anchored /\ SlaShape /\ [Next]_vars
      => (edits = 0 => DuesFollowPolicy)'
  <2> SUFFICES ASSUME edits = 0 => DuesFollowPolicy, Anchored, SlaShape, [Next]_vars,
                      edits' = 0, NEW t \in Tickets, Exists(t)'
               PROVE  /\ ticket'[t].firstDue
                           = Due(ticket[t].created, ticket[t].policy, "first")'
                      /\ ticket'[t].resolutionDue
                           = Due(ticket[t].created, ticket[t].policy, "resolution")'
    BY DEF DuesFollowPolicy
  <2>1. edits = 0 /\ targets' = targets
    BY TargetsKept
  <2>2. Exists(t) => DuesRight(ticket[t])
    BY <2>1 DEF DuesFollowPolicy, DuesRight
  <2>3. \A r \in Requests : request[r] # Idle /\ request[r].ticket = t
                            => request[r].seen.created = ticket[t].created
    BY DEF Anchored
  <2>4. DuesRight(ticket'[t])
    BY <2>2, <2>3, RowSteps
       DEF IsNew, Written, Leaves, Retyped, SameButType, Flagged, FlagsAfter, SameButFlags,
           DuesRight
  <2> QED
    BY <2>1, <2>4 DEF DuesRight, Due
<1> QED
  BY <1>1, <1>2, ShapeInvariant, AnchoredInvariant, PTL DEF Spec

-----------------------------------------------------------------------------
(* Only a dispatching sweep holds breaches, and the one whose email is due *)
(* has had its event.                                                      *)
Dispatching ==
  \A p \in Processes :
    /\ sweep[p].at # "dispatch" => sweep[p].todo = {} /\ sweep[p].mail = None
    /\ sweep[p].mail # None => sweep[p].mail[1] \in Assigned /\ noticed[sweep[p].mail] > 0

Told(b) == noticed[b] > 0 /\ (b[1] \in Assigned => mailed[b] > 0)

AccountedFor(b) == Told(b) \/ b \in lost \/ \E p \in Processes : b \in Holding(p)

(* What the steps of a sweep do to it and to the history *)
LEMMA SweepSteps ==
  ASSUME SlaShape, [Next]_vars
  PROVE  \/ UNCHANGED <<sweep, noticed, mailed, lost>>
         \/ \E p \in Processes : /\ p \in deployed
                                 /\ \A q \in Processes : q # p => sweep'[q] = sweep[q]
                                 /\ sweep'[p] \in SweepRecords
                                 /\ \/ SweepSelect(p)
                                    \/ SweepMark(p)
                                    \/ SweepPublish(p)
                                    \/ SweepMail(p)
                                    \/ SweepFinish(p)
                                    \/ SweepFails(p)
<1>0. deployed \subseteq Processes /\ sweep \in [Processes -> SweepRecords]
  BY DEF SlaShape, EnvTypeOK, SweepsOK
<1>1. sweep' \in [Processes -> SweepRecords]
  BY SlaNextShape DEF SlaShape, SweepsOK
<1>2. ASSUME NEW p \in deployed, Sweep(p) \/ SweepFails(p)
      PROVE  \A q \in Processes : q # p => sweep'[q] = sweep[q]
  BY <1>0, <1>2
     DEF Sweep, SweepSelect, SweepMark, SweepPublish, SweepMail, SweepFinish, SweepFails
<1>3. ASSUME NEW r \in Requests, Finishes(r)
      PROVE  UNCHANGED <<sweep, noticed, mailed, lost>>
  BY <1>3, FinishesLeaves DEF auditVars
<1> QED
  BY <1>0, <1>1, <1>2, <1>3, ZenonT(60)
     DEF Next, vars, slaVars, auditVars, Tick, Create, Import, ApplyTriage, SkipTriage, EditPolicy, EditType,
         ReadAny, Read, Abandon, Sweep

LEMMA PublishStep ==
  ASSUME SlaShape, NEW p \in Processes, SweepPublish(p)
  PROVE  /\ sweep[p].at = "dispatch" /\ sweep[p].mail = None
         /\ \E b \in sweep[p].todo :
              /\ noticed' = [noticed EXCEPT ![b] = @ + 1]
              /\ sweep'[p].at = "dispatch"
              /\ sweep'[p].seen = sweep[p].seen
              /\ sweep'[p].todo = sweep[p].todo \ {b}
              /\ sweep'[p].mail = IF b[1] \in Assigned THEN b ELSE None
<1>1. sweep \in [Processes -> SweepRecords] /\ sweep[p] \in SweepRecords
  BY DEF SlaShape, SweepsOK
<1>2. PICK b \in sweep[p].todo :
          /\ noticed' = [noticed EXCEPT ![b] = @ + 1]
          /\ sweep' = [sweep EXCEPT ![p].todo = @ \ {b},
                                    ![p].mail = IF b[1] \in Assigned THEN b ELSE None]
  BY DEF SweepPublish
<1>3. sweep'[p] = [[sweep[p] EXCEPT !.todo = @ \ {b}]
                     EXCEPT !.mail = IF b[1] \in Assigned THEN b ELSE None]
  BY <1>1, <1>2
<1>4. /\ sweep'[p].at = sweep[p].at /\ sweep'[p].seen = sweep[p].seen
      /\ sweep'[p].todo = sweep[p].todo \ {b}
      /\ sweep'[p].mail = IF b[1] \in Assigned THEN b ELSE None
  BY <1>1, <1>3 DEF SweepRecords
<1> QED
  BY <1>2, <1>4 DEF SweepPublish

LEMMA MailStep ==
  ASSUME SlaShape, NEW p \in Processes, SweepMail(p)
  PROVE  /\ sweep[p].mail \in Breaches
         /\ sweep'[p].at = sweep[p].at /\ sweep'[p].seen = sweep[p].seen
         /\ sweep'[p].todo = sweep[p].todo /\ sweep'[p].mail = None
         /\ mailed' = [mailed EXCEPT ![sweep[p].mail] = @ + 1]
<1>1. sweep \in [Processes -> SweepRecords] /\ sweep[p] \in SweepRecords
  BY DEF SlaShape, SweepsOK
<1>2. sweep'[p] = [sweep[p] EXCEPT !.mail = None]
  BY <1>1 DEF SweepMail
<1> QED
  BY <1>1, <1>2 DEF SweepMail, SweepRecords

(* The other steps leave a sweep with all it found, or with nothing. *)
LEMMA OtherSteps ==
  ASSUME SlaShape, NEW p \in Processes
  PROVE  /\ SweepSelect(p) => /\ sweep[p].at = "idle"
                              /\ sweep'[p].at = "mark"
                              /\ sweep'[p].todo = {} /\ sweep'[p].mail = None
         /\ SweepMark(p) => /\ sweep[p].at = "mark"
                            /\ sweep'[p].at = "dispatch"
                            /\ sweep'[p].todo = sweep[p].seen /\ sweep'[p].mail = None
         /\ SweepFinish(p) \/ SweepFails(p) =>
              sweep'[p].at = "idle" /\ sweep'[p].todo = {} /\ sweep'[p].mail = None
<1>0. sweep \in [Processes -> SweepRecords]
  BY DEF SlaShape, SweepsOK
<1>1. ASSUME SweepSelect(p)
      PROVE  /\ sweep[p].at = "idle" /\ sweep'[p].at = "mark"
             /\ sweep'[p].todo = {} /\ sweep'[p].mail = None
  <2> DEFINE S == UNION {Overdue(t, ticket[t], now) :
                    t \in {u \in Tickets : Exists(u) /\ ticket[u].status \notin Closed}}
  <2>1. /\ sweep' = [sweep EXCEPT ![p] = [Resting EXCEPT !.at = "mark", !.seen = S]]
        /\ sweep[p].at = "idle"
    BY <1>1 DEF SweepSelect
  <2> HIDE DEF S
  <2> QED
    BY <1>0, <2>1 DEF Resting
<1>2. ASSUME SweepMark(p)
      PROVE  /\ sweep[p].at = "mark" /\ sweep'[p].at = "dispatch"
             /\ sweep'[p].todo = sweep[p].seen /\ sweep'[p].mail = None
  BY <1>0, <1>2 DEF Resting, SweepMark
<1>3. ASSUME SweepFinish(p) \/ SweepFails(p)
      PROVE  sweep'[p].at = "idle" /\ sweep'[p].todo = {} /\ sweep'[p].mail = None
  <2>1. sweep'[p] = Resting
    BY <1>0, <1>3 DEF SweepFinish, SweepFails
  <2> QED
    BY <2>1 DEF Resting
<1> QED
  BY <1>1, <1>2, <1>3

LEMMA DispatchingInvariant == Spec => []Dispatching
<1>1. Init => Dispatching
  BY DEF Init, Dispatching, Resting
<1>2. Dispatching /\ SlaShape /\ [Next]_vars => Dispatching'
  <2> SUFFICES ASSUME Dispatching, SlaShape, [Next]_vars, NEW p \in Processes
               PROVE  /\ sweep'[p].at # "dispatch" => sweep'[p].todo = {} /\ sweep'[p].mail = None
                      /\ sweep'[p].mail # None =>
                           sweep'[p].mail[1] \in Assigned /\ noticed'[sweep'[p].mail] > 0
    BY DEF Dispatching
  <2>0. noticed \in [Breaches -> Nat] /\ sweep[p] \in SweepRecords
    BY DEF SlaShape, SweepsOK, AuditOK
  <2>1. \A b \in Breaches : noticed[b] > 0 => noticed'[b] > 0
    <3>1. ASSUME NEW q \in Processes, SweepPublish(q)
          PROVE  \A b \in Breaches : noticed'[b] = noticed[b] \/ noticed'[b] = noticed[b] + 1
      <4>1. PICK c : noticed' = [noticed EXCEPT ![c] = @ + 1]
        BY <3>1 DEF SweepPublish
      <4> QED
        BY <2>0, <4>1
    <3>2. (\E q \in Processes : SweepPublish(q)) \/ UNCHANGED noticed
      BY SweepSteps
         DEF SweepSelect, SweepMark, SweepMail, SweepFinish, SweepFails, auditVars
    <3> QED
      BY <2>0, <3>1, <3>2
  <2>2. CASE sweep'[p] = sweep[p]
    BY <2>0, <2>1, <2>2 DEF Dispatching, SweepRecords
  <2>3. CASE SweepPublish(p)
    <3>1. PICK b \in sweep[p].todo :
              /\ noticed' = [noticed EXCEPT ![b] = @ + 1]
              /\ sweep'[p].at = "dispatch"
              /\ sweep'[p].mail = IF b[1] \in Assigned THEN b ELSE None
      BY <2>3, PublishStep
    <3>2. noticed'[b] > 0
      BY <2>0, <3>1 DEF SweepRecords
    <3> QED
      BY <3>1, <3>2
  <2>4. CASE SweepMail(p)
    <3>1. /\ sweep'[p].at = sweep[p].at
          /\ sweep'[p].todo = sweep[p].todo /\ sweep'[p].mail = None
      BY <2>4, MailStep
    <3> QED
      BY <3>1 DEF Dispatching
  <2>5. CASE SweepSelect(p) \/ SweepMark(p) \/ SweepFinish(p) \/ SweepFails(p)
    BY <2>5, OtherSteps
  <2> QED
    BY <2>2, <2>3, <2>4, <2>5, SweepSteps
<1> QED
  BY <1>1, <1>2, ShapeInvariant, PTL DEF Spec

(* No step but a fault on record drops a breach. *)
LEMMA AccountedStep ==
  ASSUME SlaShape, Dispatching, [Next]_vars, NEW b \in Breaches, AccountedFor(b)
  PROVE  AccountedFor(b)'
<1>0. /\ noticed \in [Breaches -> Nat] /\ mailed \in [Breaches -> Nat]
      /\ sweep \in [Processes -> SweepRecords]
      /\ b # None
  BY NullAssumption DEF SlaShape, SweepsOK, AuditOK
<1>1. ASSUME UNCHANGED <<sweep, noticed, mailed, lost>>
      PROVE  AccountedFor(b)'
  BY <1>1 DEF AccountedFor, Told, Holding
<1>2. ASSUME NEW p \in Processes, \A q \in Processes : q # p => sweep'[q] = sweep[q],
             \/ SweepSelect(p) \/ SweepMark(p) \/ SweepPublish(p) \/ SweepMail(p)
             \/ SweepFinish(p) \/ SweepFails(p)
      PROVE  AccountedFor(b)'
  <2>1. /\ lost \subseteq lost'
        /\ noticed'[b] >= noticed[b] /\ mailed'[b] >= mailed[b]
        /\ noticed'[b] \in Nat /\ mailed'[b] \in Nat
    <3>1. lost \subseteq lost'
      BY <1>2 DEF SweepSelect, SweepMark, SweepPublish, SweepMail, SweepFinish, SweepFails,
                  auditVars
    <3>2. CASE SweepPublish(p)
      <4>1. PICK c : noticed' = [noticed EXCEPT ![c] = @ + 1] /\ UNCHANGED mailed
        BY <3>2 DEF SweepPublish
      <4>2. noticed'[b] = noticed[b] \/ noticed'[b] = noticed[b] + 1
        BY <1>0, <4>1
      <4> QED
        BY <1>0, <3>1, <4>1, <4>2
    <3>3. CASE SweepMail(p)
      <4>1. UNCHANGED noticed /\ mailed' = [mailed EXCEPT ![sweep[p].mail] = @ + 1]
        BY <3>3 DEF SweepMail
      <4>2. mailed'[b] = mailed[b] \/ mailed'[b] = mailed[b] + 1
        BY <1>0, <4>1
      <4> QED
        BY <1>0, <3>1, <4>1, <4>2
    <3>4. CASE SweepSelect(p) \/ SweepMark(p) \/ SweepFinish(p) \/ SweepFails(p)
      <4>1. UNCHANGED <<noticed, mailed>>
        BY <3>4 DEF SweepSelect, SweepMark, SweepFinish, SweepFails, auditVars
      <4> QED
        BY <1>0, <3>1, <4>1
    <3> QED
      BY <1>2, <3>2, <3>3, <3>4
  <2>2. Told(b) => Told(b)'
    BY <1>0, <2>1 DEF Told
  <2>3. ASSUME NEW q \in Processes, q # p, b \in Holding(q)
        PROVE  b \in Holding(q)'
    BY <1>2, <2>3 DEF Holding
  <2>4. ASSUME b \in Holding(p)
        PROVE  AccountedFor(b)'
    <3>1. b \in sweep[p].todo \/ b = sweep[p].mail
      BY <2>4 DEF Holding
    <3>2. CASE SweepPublish(p)
      <4>1. PICK c \in sweep[p].todo :
              /\ noticed' = [noticed EXCEPT ![c] = @ + 1]
              /\ sweep'[p].todo = sweep[p].todo \ {c}
              /\ sweep'[p].mail = IF c[1] \in Assigned THEN c ELSE None
        BY <3>2, PublishStep
      <4>2. b \in sweep[p].todo
        BY <1>0, <3>1, <3>2 DEF SweepPublish
      <4>3. CASE b = c
        <5>1. noticed'[b] > 0
          BY <1>0, <4>1, <4>3
        <5>2. b[1] \in Assigned => b \in Holding(p)'
          BY <1>0, <4>1, <4>3 DEF Holding
        <5> QED
          BY <5>1, <5>2 DEF AccountedFor, Told
      <4>4. CASE b # c
        BY <4>1, <4>2, <4>4 DEF AccountedFor, Holding
      <4> QED
        BY <4>3, <4>4
    <3>3. CASE SweepMail(p)
      <4>1. /\ sweep'[p].todo = sweep[p].todo
            /\ mailed' = [mailed EXCEPT ![sweep[p].mail] = @ + 1]
        BY <3>3, MailStep
      <4>2. CASE b \in sweep[p].todo
        BY <4>1, <4>2 DEF AccountedFor, Holding
      <4>3. CASE b = sweep[p].mail
        <5>1. mailed'[b] > 0
          BY <1>0, <4>1, <4>3
        <5>2. noticed[b] > 0
          BY <1>0, <4>3 DEF Dispatching
        <5>3. noticed' = noticed
          BY <3>3 DEF SweepMail
        <5> QED
          BY <5>1, <5>2, <5>3 DEF AccountedFor, Told
      <4> QED
        BY <3>1, <4>2, <4>3
    <3>4. CASE SweepFails(p)
      BY <2>4, <3>4 DEF SweepFails, AccountedFor
    <3>5. sweep[p].at = "dispatch"
      BY <1>0, <3>1 DEF Dispatching
    <3>6. ~SweepSelect(p) /\ ~SweepMark(p)
      BY <3>5 DEF SweepSelect, SweepMark
    <3>7. ~SweepFinish(p)
      BY <1>0, <3>1 DEF SweepFinish
    <3> QED
      BY <1>2, <3>2, <3>3, <3>4, <3>6, <3>7
  <2> QED
    BY <2>1, <2>2, <2>3, <2>4 DEF AccountedFor
<1> QED
  BY <1>1, <1>2, SweepSteps

FlagOf(row, which) ==
  IF which = "first_response" THEN row.firstFlagged ELSE row.resolutionFlagged

(* A breach whose *_overdue_notified_at is set was announced in full, is   *)
(* in the hands of a running sweep, or was dropped by a fault: for any     *)
(* number of processes whose sweeps overlap.                               *)
THEOREM FlaggedBreachesNotified == Spec => []FlaggedIsNotified
<1>1. Init => FlaggedIsNotified
  <2> SUFFICES ASSUME Init, NEW b \in Breaches
               PROVE  ~Exists(b[1])
    BY DEF FlaggedIsNotified
  <2> QED
    BY DEF Init, Exists, Breaches
<1>2. FlaggedIsNotified /\ SlaShape /\ Dispatching /\ [Next]_vars => FlaggedIsNotified'
  <2> SUFFICES ASSUME FlaggedIsNotified, SlaShape, Dispatching, [Next]_vars,
                      NEW b \in Breaches, Exists(b[1])', FlagOf(ticket'[b[1]], b[2])
               PROVE  AccountedFor(b)'
    BY DEF FlaggedIsNotified, AccountedFor, Told, FlagOf
  <2> DEFINE t == b[1]
             w == b[2]
  <2>1. t \in Tickets /\ w \in {"first_response", "resolution"} /\ b = <<t, w>>
    BY DEF Breaches
  <2>2. CASE Exists(t) /\ FlagOf(ticket[t], w)
    <3>1. AccountedFor(b)
      BY <2>2 DEF FlaggedIsNotified, AccountedFor, Told, FlagOf
    <3> QED
      BY <3>1, AccountedStep
  <2>3. CASE ~(Exists(t) /\ FlagOf(ticket[t], w))
    <3>1. Exists(t) /\ Flagged(t)
      <4> HIDE DEF t, w
      <4>1. Exists(t)' /\ FlagOf(ticket'[t], w)
        BY DEF t, w
      <4> QED
        BY <2>1, <2>3, <4>1, RowSteps
           DEF IsNew, Written, Leaves, Keeps, Retyped, SameButType, FlagOf
    <3>2. PICK p \in deployed : SweepMark(p) /\ FlagsAfter(p, t, ticket'[t])
      BY <3>1 DEF Flagged
    <3>3. p \in Processes
      BY DEF SlaShape, EnvTypeOK
    <3>4. b \in sweep[p].seen
      <4> HIDE DEF t, w
      <4>1. FlagOf(ticket'[t], w)
        BY DEF t, w
      <4> QED
        BY <2>1, <2>3, <3>1, <3>2, <4>1 DEF FlagsAfter, FlagOf
    <3>5. b \in sweep'[p].todo
      BY <3>2, <3>3, <3>4, OtherSteps
    <3> QED
      BY <3>3, <3>5 DEF AccountedFor, Holding
  <2> QED
    BY <2>2, <2>3
<1> QED
  BY <1>1, <1>2, ShapeInvariant, DispatchingInvariant, PTL DEF Spec

-----------------------------------------------------------------------------
(* Requests come one after the other. *)
InTurn == \A r, s \in Requests : request[r] # Idle /\ request[s] # Idle => r = s

(* Then what a request has read is still so when it writes, and no reply   *)
(* on record is later than the one under way.                              *)
ReadIsCurrent ==
  \A r \in Requests : request[r] # Idle =>
    LET q == request[r]
    IN  /\ q.seen.policy = ticket[q.ticket].policy
        /\ q.seen.firstAt = ticket[q.ticket].firstAt
        /\ q.seen.firstAt # None => q.seen.firstAt <= q.began
        /\ q.began <= now

RepliesPast ==
  \A t \in Tickets : /\ ~Exists(t) => replied[t] = None
                     /\ replied[t] # None => replied[t] <= now

RowsInTurn ==
  /\ ReadIsCurrent /\ RepliesPast
  /\ PolicyFollowsType /\ FirstResponseIsFirst

LEMMA ClockSteps ==
  ASSUME SlaShape, [Next]_vars
  PROVE  now \in Nat /\ now' \in Nat /\ now <= now'
<1>1. now \in Times
  BY DEF SlaShape, EnvTypeOK
<1>2. now' = now \/ now' = now + 1
  <2>1. ASSUME NEW r \in Requests, Finishes(r)
        PROVE  now' = now
    BY <2>1, FinishesLeaves DEF environment
  <2> QED
    BY <2>1
       DEF Next, vars, environment, Tick, ClockTick, Create, Import, ApplyTriage, SkipTriage,
           EditPolicy, EditType, ReadAny, Read, Abandon, Sweep, SweepSelect, SweepMark, SweepPublish,
           SweepMail, SweepFinish, SweepFails, Fault
<1> QED
  BY <1>1, <1>2, TimesAreNotNull

(* hadPolicy only grows, and a ticket leaves typeOnly with a request that  *)
(* writes its type.                                                        *)
LEMMA TypeSteps ==
  ASSUME SlaShape, [Next]_vars
  PROVE  /\ \A type \in Types : hadPolicy[type] \subseteq hadPolicy'[type]
         /\ \A t \in Tickets : Imported(t) \/ Retyped(t) => t \in typeOnly'
         /\ \A t \in typeOnly : t \notin typeOnly' =>
              \E r \in Requests : /\ Finishes(r) /\ request[r] # Idle
                                 /\ request[r].ticket = t /\ Retypes(request[r])
<1>0. hadPolicy \in [Types -> SUBSET (Policies \cup {None})]
  BY DEF SlaShape, TablesOK
<1>1. ASSUME NEW r \in Requests, Finishes(r)
      PROVE  /\ UNCHANGED policyVars
             /\ \/ typeOnly' = typeOnly
                \/ /\ Retypes(request[r]) /\ request[r] # Idle
                   /\ typeOnly' = typeOnly \ {request[r].ticket}
  <2>1. Retypes(request[r]) => request[r] # Idle
    BY BusyRequest DEF Retypes
  <2> QED
    BY <1>1, <2>1, FinishesLeaves
<1>2. ASSUME NEW type \in Types, NEW policy \in Policies \cup {None}, EditType(type, policy)
      PROVE  \A other \in Types : hadPolicy[other] \subseteq hadPolicy'[other]
  BY <1>0, <1>2 DEF EditType
<1>3. \/ UNCHANGED hadPolicy
      \/ \E type \in Types, policy \in Policies \cup {None} : EditType(type, policy)
  BY <1>1
     DEF Next, vars, slaVars, policyVars, Tick, Create, Import, ApplyTriage, SkipTriage,
         EditPolicy, ReadAny, Read, Abandon, Sweep, SweepSelect, SweepMark, SweepPublish,
         SweepMail, SweepFinish, SweepFails
<1>4. \A type \in Types : hadPolicy[type] \subseteq hadPolicy'[type]
  BY <1>2, <1>3
<1>5. \A t \in Tickets : Imported(t) \/ Retyped(t) => t \in typeOnly'
  BY DEF Imported, Retyped, Import, ApplyTriage
<1>6. \/ typeOnly \subseteq typeOnly'
      \/ \E r \in Requests : /\ Finishes(r) /\ request[r] # Idle /\ Retypes(request[r])
                             /\ typeOnly' = typeOnly \ {request[r].ticket}
  BY <1>1
     DEF Next, vars, slaVars, Tick, Create, Import, ApplyTriage, SkipTriage, EditPolicy,
         EditType, ReadAny, Read, Abandon, Sweep, SweepSelect, SweepMark, SweepPublish,
         SweepMail, SweepFinish, SweepFails
<1> QED
  BY <1>4, <1>5, <1>6

(* Only the request that replies writes the reply's history. *)
LEMMA RepliedSteps ==
  ASSUME SlaShape, [Next]_vars, NEW t \in Tickets
  PROVE  \/ replied'[t] = replied[t]
         \/ \E r \in Requests : /\ Finishes(r) /\ request[r].do = "reply"
                                /\ request[r].ticket = t /\ request[r] # Idle
<1>0. replied \in [Tickets -> Times \cup {None}]
  BY DEF SlaShape, TablesOK
<1>1. ASSUME NEW r \in Requests, Finishes(r)
      PROVE  replied'[t] = replied[t] \/ (request[r].do = "reply" /\ request[r].ticket = t)
  <2> DEFINE q == request[r]
             u == q.ticket
             v == IF replied[u] = None \/ q.began < replied[u] THEN q.began ELSE replied[u]
  <2>1. u \in Tickets /\ replied' = IF q.do = "reply" THEN [replied EXCEPT ![u] = v] ELSE replied
    BY <1>1, FinishesLeaves
  <2> HIDE DEF v
  <2> QED
    BY <1>0, <2>1
<1>2. ASSUME NEW r \in Requests, request[r].do = "reply"
      PROVE  request[r] # Idle
  BY <1>2, BusyRequest
<1>3. UNCHANGED replied => replied'[t] = replied[t]
  OBVIOUS
<1> QED
  BY <1>1, <1>2, <1>3
     DEF Next, vars, slaVars, Tick, Create, Import, ApplyTriage, SkipTriage, EditPolicy, EditType, ReadAny, Read,
         Abandon, Sweep, SweepSelect, SweepMark, SweepPublish, SweepMail, SweepFinish, SweepFails

LEMMA RowsInTurnStep == RowsInTurn /\ InTurn /\ SlaShape /\ [Next]_vars => RowsInTurn'
<1> SUFFICES ASSUME RowsInTurn, InTurn, SlaShape, [Next]_vars
             PROVE  RowsInTurn'
  OBVIOUS
<1>0. /\ SlaShape' /\ now \in Nat /\ now' \in Nat /\ now <= now'
      /\ ReadIsCurrent /\ RepliesPast
      /\ PolicyFollowsType /\ FirstResponseIsFirst
  BY SlaNextShape, ClockSteps DEF RowsInTurn
<1>2. ASSUME NEW r \in Requests, Finishes(r), request[r] # Idle, request[r].do = "reply"
      PROVE  LET q == request[r]
                 t == q.ticket
             IN  /\ t \in Tickets /\ Exists(t)
                 /\ replied'[t] = IF q.seen.firstAt = None THEN q.began ELSE replied[t]
                 /\ q.began \in Times /\ q.began <= now
                 /\ \A u \in Tickets : u # t => replied'[u] = replied[u]
  <2> DEFINE q == request[r]
             t == q.ticket
             v == IF replied[t] = None \/ q.began < replied[t] THEN q.began ELSE replied[t]
  <2>1. replied \in [Tickets -> Times \cup {None}]
    BY DEF SlaShape, TablesOK
  <2>2. t \in Tickets /\ Exists(t) /\ replied' = [replied EXCEPT ![t] = v] /\ q \in Reqs
    BY <1>2, FinishesLeaves DEF SlaShape, RequestsOK
  <2>3. /\ q.seen.firstAt = replied[t] /\ q.began <= now /\ q.began \in Times
        /\ q.seen.firstAt # None => q.seen.firstAt <= q.began
    BY <1>0, <1>2, <2>2 DEF ReadIsCurrent, FirstResponseIsFirst, Reqs
  <2>4. v = IF q.seen.firstAt = None THEN q.began ELSE replied[t]
    BY <2>1, <2>2, <2>3, TimesAreNotNull
  <2> HIDE DEF v, q
  <2> QED
    BY <2>1, <2>2, <2>3, <2>4 DEF q
<1>3. RepliesPast'
  <2> SUFFICES ASSUME NEW t \in Tickets
               PROVE  /\ ~Exists(t)' => replied'[t] = None
                      /\ replied'[t] # None => replied'[t] <= now'
    BY DEF RepliesPast
  <2>1. Exists(t) => Exists(t)'
    BY CreatedKept
  <2>2. replied[t] \in Times \cup {None}
    BY DEF SlaShape, TablesOK
  <2>3. CASE replied'[t] = replied[t]
    BY <1>0, <2>1, <2>2, <2>3, TimesAreNotNull DEF RepliesPast
  <2>4. CASE \E r \in Requests : /\ Finishes(r) /\ request[r].do = "reply"
                                 /\ request[r].ticket = t /\ request[r] # Idle
    <3>1. PICK r \in Requests : /\ Finishes(r) /\ request[r].do = "reply"
                                /\ request[r].ticket = t /\ request[r] # Idle
      BY <2>4
    <3>2. /\ Exists(t) /\ request[r].began \in Times /\ request[r].began <= now
          /\ replied'[t] = IF request[r].seen.firstAt = None
                           THEN request[r].began ELSE replied[t]
      BY <1>2, <3>1
    <3> QED
      BY <1>0, <2>1, <2>2, <3>2, TimesAreNotNull DEF RepliesPast
  <2> QED
    BY <2>3, <2>4, RepliedSteps
<1>4. PolicyFollowsType'
  <2> SUFFICES ASSUME NEW t \in Tickets, Exists(t)', t \notin typeOnly',
                      ticket'[t].type # None
               PROVE  ticket'[t].policy \in hadPolicy'[ticket'[t].type]
    BY DEF PolicyFollowsType
  <2>1. ~Imported(t) /\ ~Retyped(t)
    BY TypeSteps
  <2>2. PolicyRight(ticket'[t])
    <3>1. CASE ~Exists(t)
      BY <2>1, <3>1, RowSteps
    <3>2. CASE Exists(t) /\ t \notin typeOnly
      <4>1. PolicyRight(ticket[t])
        BY <1>0, <3>2 DEF PolicyFollowsType, PolicyRight
      <4>2. Written(t) => PolicyRight(ticket'[t])
        BY <1>0, <4>1 DEF Written, Leaves, ReadIsCurrent
      <4>3. Flagged(t) => PolicyRight(ticket'[t])
        BY <4>1 DEF Flagged, FlagsAfter, SameButFlags, PolicyRight
      <4> QED
        BY <2>1, <3>2, <4>1, <4>2, <4>3, RowSteps
    <3>3. CASE Exists(t) /\ t \in typeOnly
      <4>1. PICK r \in Requests : /\ Finishes(r) /\ request[r] # Idle
                                  /\ request[r].ticket = t /\ Retypes(request[r])
        BY <3>3, TypeSteps
      <4>2. PICK x : /\ Leaves(request[r], ticket[t], x)
                     /\ ticket' = [ticket EXCEPT ![t] = x]
        BY <4>1, FinishesLeaves
      <4>3. ticket'[t] = x
        BY <4>2 DEF SlaShape, TablesOK
      <4> QED
        BY <1>0, <4>1, <4>2, <4>3 DEF Leaves, ReadIsCurrent
    <3> QED
      BY <3>1, <3>2, <3>3
  <2>3. ticket'[t].type \in Types
    BY <1>0 DEF SlaShape, TablesOK, Exists, Rows
  <2> QED
    BY <2>2, <2>3, TypeSteps DEF PolicyRight
<1>5. FirstResponseIsFirst'
  <2> SUFFICES ASSUME NEW t \in Tickets, Exists(t)'
               PROVE  ticket'[t].firstAt = replied'[t]
    BY DEF FirstResponseIsFirst
  <2>1. CASE ~Exists(t)
    <3>1. ticket'[t].firstAt = None /\ replied[t] = None
      BY <1>0, <2>1, RowSteps DEF IsNew, RepliesPast
    <3>2. replied'[t] = replied[t]
      BY <1>2, <2>1, RepliedSteps
    <3> QED
      BY <3>1, <3>2
  <2>2. CASE Exists(t)
    <3>1. ticket[t].firstAt = replied[t]
      BY <1>0, <2>2 DEF FirstResponseIsFirst
    <3>2. ASSUME NEW r \in Requests, Finishes(r), request[r] # Idle, request[r].ticket = t,
                 Leaves(request[r], ticket[t], ticket'[t])
          PROVE  ticket'[t].firstAt = replied'[t]
      <4>1. CASE request[r].do = "reply"
        BY <1>2, <3>1, <3>2, <4>1 DEF Leaves
      <4>2. CASE request[r].do # "reply"
        <5>1. replied' = replied
          BY <3>2, <4>2, FinishesLeaves
        <5> QED
          BY <3>1, <3>2, <4>2, <5>1 DEF Leaves
      <4> QED
        BY <4>1, <4>2
    <3>3. ASSUME NEW r \in Requests, Finishes(r), request[r] # Idle, request[r].ticket = t,
                 request[r].do = "reply"
          PROVE  ticket'[t].firstAt = replied'[t]
      <4> DEFINE q == request[r]
      <4>1. PICK x : Leaves(q, ticket[t], x) /\ ticket' = [ticket EXCEPT ![t] = x]
        BY <3>3, FinishesLeaves
      <4>2. ticket'[t] = x
        BY <4>1 DEF SlaShape, TablesOK
      <4> QED
        BY <3>2, <3>3, <4>1, <4>2
    <3>4. CASE replied'[t] = replied[t] /\ ~Written(t)
      BY <2>2, <3>1, <3>4, RowSteps
         DEF Retyped, SameButType, Flagged, FlagsAfter, SameButFlags
    <3> QED
      BY <3>2, <3>3, <3>4, RepliedSteps DEF Written
  <2> QED
    BY <2>1, <2>2
<1>6. ReadIsCurrent'
  <2> SUFFICES ASSUME NEW r \in Requests, request'[r] # Idle
               PROVE  LET q == request'[r]
                      IN  /\ q.seen.policy = ticket'[q.ticket].policy
                          /\ q.seen.firstAt = ticket'[q.ticket].firstAt
                          /\ q.seen.firstAt # None => q.seen.firstAt <= q.began
                          /\ q.began <= now'
    BY DEF ReadIsCurrent
  <2> DEFINE q == request'[r]
             t == q.ticket
  <2>1. CASE request'[r] = request[r]
    <3>1. request[r] # Idle /\ q \in Reqs /\ t \in Tickets /\ Exists(t) /\ q.began \in Nat
      BY <2>1, ActiveRequest, TimesAreNotNull DEF SlaShape, RequestsOK, Reqs
    <3>2. /\ q.seen.policy = ticket[t].policy /\ q.seen.firstAt = ticket[t].firstAt
          /\ q.seen.firstAt # None => q.seen.firstAt <= q.began
          /\ q.began <= now
      BY <1>0, <2>1 DEF ReadIsCurrent
    <3>3. ~Written(t)
      <4> SUFFICES ASSUME NEW s \in Requests, Finishes(s), request[s] # Idle
                   PROVE  FALSE
        BY DEF Written
      <4>1. s = r
        BY <3>1 DEF InTurn
      <4>2. request' = [request EXCEPT ![s] = Idle]
        BY FinishesLeaves
      <4> QED
        BY <4>1, <4>2 DEF SlaShape, RequestsOK
    <3>5. ASSUME NEW u \in Tickets, Exists(u), ~Written(u)
          PROVE  ticket'[u].policy = ticket[u].policy /\ ticket'[u].firstAt = ticket[u].firstAt
      <4>1. Exists(u)'
        BY <3>5, CreatedKept
      <4> QED
        BY <3>5, <4>1, RowSteps
           DEF Retyped, SameButType, Flagged, FlagsAfter, SameButFlags
    <3> QED
      BY <1>0, <3>1, <3>2, <3>3, <3>5
  <2>2. CASE request'[r] # request[r]
    <3>1. /\ t \in Tickets /\ Exists(t) /\ q.seen = UsedLater(ticket[t])
          /\ q.began = now /\ ticket' = ticket
      BY <2>2, RequestSteps
    <3>2. now' = now
      BY <2>2, RequestSteps DEF environment
    <3>3. q.seen.policy = ticket[t].policy /\ q.seen.firstAt = ticket[t].firstAt
      BY <3>1 DEF UsedLater
    <3>4. ticket[t].firstAt # None => ticket[t].firstAt <= now
      BY <1>0, <3>1 DEF FirstResponseIsFirst, RepliesPast
    <3> HIDE DEF q
    <3> QED
      BY <1>0, <3>1, <3>2, <3>3, <3>4 DEF q
  <2> QED
    BY <2>1, <2>2
<1> QED
  BY <1>3, <1>4, <1>5, <1>6 DEF RowsInTurn

-----------------------------------------------------------------------------
IsFlagged(b) == Exists(b[1]) /\ FlagOf(ticket[b[1]], b[2])

(* A sweep looks for breaches only until it has flagged them, what it has  *)
(* yet to announce is flagged, and so is what was announced.               *)
FlaggedFirst ==
  /\ \A p \in Processes : /\ sweep[p].at # "mark" => sweep[p].seen = {}
                          /\ \A b \in sweep[p].seen : Exists(b[1])
                          /\ \A b \in sweep[p].todo : IsFlagged(b)
  /\ \A b \in Breaches : noticed[b] > 0 => IsFlagged(b)

(* The processes that will still announce a breach, and those that will    *)
(* still mail it                                                           *)
ToNotice(b) == {p \in deployed : b \in sweep[p].seen \cup sweep[p].todo}
ToMail(b)   == {p \in deployed : sweep[p].mail = b}

(* Once a breach is announced it is flagged and no new sweep finds it, so  *)
(* its events, and the sweeps that may still publish one, are no more than *)
(* the processes.  Each email was preceded by its event.                   *)
NoticesCounted ==
  \A b \in Breaches :
    /\ noticed[b] > 0 => noticed[b] + Cardinality(ToNotice(b)) <= Cardinality(deployed)
    /\ mailed[b] + Cardinality(ToMail(b)) <= noticed[b]

(* Only a sweep's UPDATEs set a flag, and nothing resets one. *)
LEMMA FlagSteps ==
  ASSUME SlaShape, [Next]_vars, NEW b \in Breaches
  PROVE  /\ IsFlagged(b) => IsFlagged(b)'
         /\ IsFlagged(b)' => \/ IsFlagged(b)
                             \/ \E p \in deployed : SweepMark(p) /\ b \in sweep[p].seen
         /\ \A p \in deployed : SweepMark(p) /\ b \in sweep[p].seen /\ Exists(b[1])
                                => IsFlagged(b)'
<1> DEFINE t == b[1]
           w == b[2]
<1>1. t \in Tickets /\ w \in {"first_response", "resolution"} /\ b = <<t, w>>
  BY DEF Breaches
<1>2. /\ IsFlagged(b) <=> Exists(t) /\ FlagOf(ticket[t], w)
      /\ IsFlagged(b)' <=> Exists(t)' /\ FlagOf(ticket'[t], w)
  BY DEF IsFlagged, FlagOf, Exists
<1>3. Exists(t) => Exists(t)'
  BY <1>1, CreatedKept
<1>4. ASSUME NEW p \in deployed, SweepMark(p), Exists(t)
      PROVE  FlagsAfter(p, t, ticket'[t])
  BY <1>1, <1>4, MarkedRows DEF SlaShape, EnvTypeOK
<1> HIDE DEF t, w
<1>5. ASSUME NEW p \in deployed, FlagsAfter(p, t, ticket'[t])
      PROVE  FlagOf(ticket'[t], w) <=> FlagOf(ticket[t], w) \/ b \in sweep[p].seen
  BY <1>1, <1>5 DEF FlagsAfter, FlagOf
<1>6. ASSUME Exists(t), Exists(t)', ~Flagged(t)
      PROVE  FlagOf(ticket'[t], w) = FlagOf(ticket[t], w)
  BY <1>1, <1>6, RowSteps DEF Written, Leaves, Keeps, Retyped, SameButType, FlagOf
<1>7. ASSUME ~Exists(t), Exists(t)'
      PROVE  ~FlagOf(ticket'[t], w)
  BY <1>1, <1>7, RowSteps DEF IsNew, FlagOf
<1>8. ASSUME IsFlagged(b)
      PROVE  IsFlagged(b)'
  BY <1>2, <1>3, <1>5, <1>6, <1>8 DEF Flagged
<1>9. ASSUME IsFlagged(b)', ~IsFlagged(b)
      PROVE  \E p \in deployed : SweepMark(p) /\ b \in sweep[p].seen
  BY <1>2, <1>3, <1>5, <1>6, <1>7, <1>9 DEF Flagged
<1>10. ASSUME NEW p \in deployed, SweepMark(p), b \in sweep[p].seen, Exists(t)
       PROVE  IsFlagged(b)'
  BY <1>2, <1>3, <1>4, <1>5, <1>10
<1> QED
  BY <1>8, <1>9, <1>10 DEF t

(* The breaches a sweep selects exist and are not flagged. *)
LEMMA SelectedIsUnflagged ==
  ASSUME SlaShape, NEW p \in Processes, SweepSelect(p)
  PROVE  \A b \in sweep'[p].seen : b \in Breaches /\ Exists(b[1]) /\ ~IsFlagged(b)
<1> DEFINE open == {u \in Tickets : Exists(u) /\ ticket[u].status \notin Closed}
           S == UNION {Overdue(t, ticket[t], now) : t \in open}
<1>1. sweep \in [Processes -> SweepRecords]
  BY DEF SlaShape, SweepsOK
<1>2. sweep' = [sweep EXCEPT ![p] = [Resting EXCEPT !.at = "mark", !.seen = S]]
  BY DEF SweepSelect
<1>3. sweep'[p].seen = S
  <2> HIDE DEF S
  <2> QED
    BY <1>1, <1>2 DEF Resting
<1>4. ASSUME NEW t \in Tickets, Exists(t), NEW b \in Overdue(t, ticket[t], now)
      PROVE  b \in Breaches /\ b[1] = t /\ ~FlagOf(ticket[t], b[2])
  BY <1>4 DEF Overdue, Breaches, FlagOf
<1>5. \A b \in S : \E t \in Tickets : Exists(t) /\ b \in Overdue(t, ticket[t], now)
  OBVIOUS
<1> HIDE DEF S
<1> QED
  BY <1>3, <1>4, <1>5 DEF IsFlagged

LEMMA SmallerSet ==
  ASSUME NEW B, IsFiniteSet(B), NEW A, A \subseteq B
  PROVE  /\ IsFiniteSet(A) /\ Cardinality(A) \in Nat /\ Cardinality(B) \in Nat
         /\ Cardinality(A) <= Cardinality(B)
         /\ \A p \in B \ A : Cardinality(A) + 1 <= Cardinality(B)
<1>1. IsFiniteSet(A) /\ Cardinality(A) <= Cardinality(B)
  BY FS_Subset
<1>2. Cardinality(A) \in Nat /\ Cardinality(B) \in Nat
  BY <1>1, FS_CardinalityType
<1>3. ASSUME NEW p \in B \ A
      PROVE  Cardinality(A) + 1 <= Cardinality(B)
  <2>1. Cardinality(A \cup {p}) = Cardinality(A) + 1
    BY <1>1, <1>3, FS_AddElement
  <2>2. Cardinality(A \cup {p}) <= Cardinality(B)
    <3>1. A \cup {p} \subseteq B
      BY <1>3
    <3> QED
      BY <3>1, FS_Subset
  <2> QED
    BY <2>1, <2>2
<1> QED
  BY <1>1, <1>2, <1>3

LEMMA FlaggedFirstStep ==
  ASSUME FlaggedFirst, Dispatching, SlaShape, [Next]_vars
  PROVE  FlaggedFirst'
<1>0. /\ noticed \in [Breaches -> Nat]
      /\ sweep \in [Processes -> SweepRecords] /\ deployed \subseteq Processes
  BY DEF SlaShape, SweepsOK, AuditOK, EnvTypeOK
<1>1. \A p \in Processes : /\ sweep[p].seen \subseteq Breaches
                           /\ sweep[p].todo \subseteq Breaches
  BY <1>0 DEF SweepRecords
<1>2. \A b \in Breaches : Exists(b[1]) => Exists(b[1])'
  BY CreatedKept DEF Breaches
<1>3. \A b \in Breaches : IsFlagged(b) => IsFlagged(b)'
  BY FlagSteps
<1>4. CASE UNCHANGED <<sweep, noticed, mailed, lost>>
  BY <1>1, <1>2, <1>3, <1>4 DEF FlaggedFirst
<1>5. ASSUME NEW p \in Processes, p \in deployed,
             \A q \in Processes : q # p => sweep'[q] = sweep[q],
             \/ SweepSelect(p) \/ SweepMark(p) \/ SweepPublish(p) \/ SweepMail(p)
             \/ SweepFinish(p) \/ SweepFails(p)
      PROVE  FlaggedFirst'
  <2>1. ASSUME sweep'[p].at # "mark" => sweep'[p].seen = {},
               \A b \in sweep'[p].seen : Exists(b[1])',
               \A b \in sweep'[p].todo : IsFlagged(b)',
               \A b \in Breaches : noticed'[b] > 0 => IsFlagged(b)'
        PROVE  FlaggedFirst'
    BY <1>1, <1>2, <1>3, <1>5, <2>1 DEF FlaggedFirst
  <2>2. ASSUME noticed' = noticed, NEW b \in Breaches, noticed'[b] > 0
        PROVE  IsFlagged(b)'
    BY <1>3, <2>2 DEF FlaggedFirst
  <2>3. CASE SweepSelect(p)
    <3>1. UNCHANGED <<ticket, noticed>>
      BY <2>3 DEF SweepSelect, auditVars
    <3>2. sweep'[p].at = "mark" /\ sweep'[p].todo = {}
      BY <2>3, OtherSteps
    <3>3. \A b \in sweep'[p].seen : Exists(b[1])'
      BY <2>3, <3>1, SelectedIsUnflagged DEF Exists
    <3> QED
      BY <2>1, <2>2, <3>1, <3>2, <3>3
  <2>4. CASE SweepMark(p)
    <3>1. /\ noticed' = noticed /\ sweep'[p].seen = {}
          /\ sweep'[p].todo = sweep[p].seen
      <4>1. sweep'[p].seen = {}
        BY <1>0, <2>4 DEF SweepMark, Resting
      <4> QED
        BY <2>4, <4>1, OtherSteps DEF SweepMark, auditVars
    <3>2. \A b \in sweep[p].seen : IsFlagged(b)'
      BY <1>1, <1>5, <2>4, FlagSteps DEF FlaggedFirst
    <3> QED
      BY <2>1, <2>2, <3>1, <3>2
  <2>5. CASE SweepPublish(p)
    <3>1. PICK b \in sweep[p].todo :
              /\ noticed' = [noticed EXCEPT ![b] = @ + 1]
              /\ sweep'[p].at = "dispatch" /\ sweep'[p].seen = sweep[p].seen
              /\ sweep'[p].todo = sweep[p].todo \ {b}
      BY <2>5, PublishStep
    <3>2. sweep[p].at = "dispatch"
      BY <2>5, PublishStep
    <3>3. b \in Breaches /\ IsFlagged(b)' /\ sweep[p].seen = {}
      BY <1>1, <1>3, <3>2 DEF FlaggedFirst
    <3>4. ASSUME NEW c \in Breaches, noticed'[c] > 0
          PROVE  IsFlagged(c)'
      <4>1. CASE c = b
        BY <3>3, <4>1
      <4>2. CASE c # b
        <5>1. noticed'[c] = noticed[c]
          BY <1>0, <3>1, <3>3, <4>2
        <5> QED
          BY <1>3, <3>4, <5>1 DEF FlaggedFirst
      <4> QED
        BY <4>1, <4>2
    <3>5. \A c \in sweep'[p].todo : IsFlagged(c)'
      BY <1>1, <1>3, <3>1 DEF FlaggedFirst
    <3> QED
      BY <2>1, <3>1, <3>3, <3>4, <3>5
  <2>6. CASE SweepMail(p)
    <3>1. /\ noticed' = noticed /\ sweep'[p].at = sweep[p].at
          /\ sweep'[p].seen = sweep[p].seen /\ sweep'[p].todo = sweep[p].todo
      BY <2>6, MailStep DEF SweepMail
    <3> QED
      BY <1>1, <1>2, <1>3, <2>1, <2>2, <3>1 DEF FlaggedFirst
  <2>7. CASE SweepFinish(p) \/ SweepFails(p)
    <3>1. noticed' = noticed /\ sweep'[p] = Resting
      BY <1>0, <2>7 DEF SweepFinish, SweepFails, auditVars
    <3> QED
      BY <2>1, <2>2, <3>1 DEF Resting
  <2> QED
    BY <1>5, <2>3, <2>4, <2>5, <2>6, <2>7
<1> QED
  BY <1>4, <1>5, SweepSteps

LEMMA DeployedKept ==
  ASSUME SlaShape, [Next]_vars
  PROVE  deployed' = deployed
<1>1. ASSUME NEW r \in Requests, Finishes(r)
      PROVE  deployed' = deployed
  BY <1>1, FinishesLeaves DEF environment
<1> QED
  BY <1>1
     DEF Next, vars, environment, Tick, ClockTick, Create, Import, ApplyTriage, SkipTriage,
         EditPolicy, EditType, ReadAny, Read, Abandon, Sweep, SweepSelect, SweepMark, SweepPublish,
         SweepMail, SweepFinish, SweepFails, Fault

(* What a step does to the events and emails of a breach *)
NoticesMove(b) ==
  \/ /\ noticed'[b] = noticed[b]
     /\ noticed[b] = 0 \/ ToNotice(b)' \subseteq ToNotice(b)
  \/ \E p \in ToNotice(b) : /\ noticed'[b] = noticed[b] + 1
                            /\ ToNotice(b)' \subseteq ToNotice(b) \ {p}

MailsMove(b) ==
  \/ /\ mailed'[b] = mailed[b] /\ noticed'[b] >= noticed[b]
     /\ ToMail(b)' \subseteq ToMail(b)
  \/ \E p \in ToMail(b) : /\ mailed'[b] = mailed[b] + 1
                          /\ noticed'[b] = noticed[b]
                          /\ ToMail(b)' \subseteq ToMail(b) \ {p}
  \/ \E p \in Processes : /\ mailed'[b] = mailed[b]
                          /\ noticed'[b] = noticed[b] + 1
                          /\ ToMail(b)' \subseteq ToMail(b) \cup {p}

LEMMA NoticeSteps ==
  ASSUME FlaggedFirst, Dispatching, SlaShape, [Next]_vars, NEW b \in Breaches
  PROVE  NoticesMove(b) /\ MailsMove(b)
<1>0. /\ noticed \in [Breaches -> Nat] /\ mailed \in [Breaches -> Nat]
      /\ sweep \in [Processes -> SweepRecords] /\ deployed \subseteq Processes
      /\ None \notin Breaches /\ deployed' = deployed
  BY NullAssumption, DeployedKept DEF SlaShape, SweepsOK, AuditOK, EnvTypeOK
<1>1. \A p \in Processes : /\ sweep[p].seen \subseteq Breaches
                           /\ sweep[p].todo \subseteq Breaches
  BY <1>0 DEF SweepRecords
<1>2. CASE UNCHANGED <<sweep, noticed, mailed, lost>>
  BY <1>0, <1>2 DEF ToNotice, ToMail, NoticesMove, MailsMove
<1>3. CASE ~UNCHANGED <<sweep, noticed, mailed, lost>>
  <2>0. PICK p \in Processes : /\ p \in deployed
                               /\ \A q \in Processes : q # p => sweep'[q] = sweep[q]
                               /\ \/ SweepSelect(p) \/ SweepMark(p) \/ SweepPublish(p)
                                  \/ SweepMail(p) \/ SweepFinish(p) \/ SweepFails(p)
    BY <1>3, SweepSteps
  <2>1. ASSUME b \in sweep'[p].seen \cup sweep'[p].todo => b \in sweep[p].seen \cup sweep[p].todo
        PROVE  ToNotice(b)' \subseteq ToNotice(b)
    BY <1>0, <2>0, <2>1 DEF ToNotice
  <2>2. ASSUME b \notin sweep'[p].seen \cup sweep'[p].todo
        PROVE  ToNotice(b)' \subseteq ToNotice(b) \ {p}
    BY <1>0, <2>0, <2>2 DEF ToNotice
  <2>3. ASSUME sweep'[p].mail = b => sweep[p].mail = b
        PROVE  ToMail(b)' \subseteq ToMail(b)
    BY <1>0, <2>0, <2>3 DEF ToMail
  <2>4. ASSUME sweep'[p].mail # b
        PROVE  ToMail(b)' \subseteq ToMail(b) \ {p}
    BY <1>0, <2>0, <2>4 DEF ToMail
  <2>5. ToMail(b)' \subseteq ToMail(b) \cup {p}
    BY <1>0, <2>0 DEF ToMail
  <2>6. CASE SweepSelect(p)
    <3>1. /\ UNCHANGED <<noticed, mailed>> /\ sweep'[p].todo = {} /\ sweep'[p].mail = None
          /\ \A c \in sweep'[p].seen : ~IsFlagged(c)
      BY <2>6, OtherSteps, SelectedIsUnflagged DEF SweepSelect, auditVars
    <3>2. CASE noticed[b] = 0
      BY <1>0, <2>3, <3>1, <3>2 DEF NoticesMove, MailsMove
    <3>3. CASE noticed[b] # 0
      <4>1. b \notin sweep'[p].seen
        BY <1>0, <3>1, <3>3 DEF FlaggedFirst
      <4> QED
        BY <1>0, <2>1, <2>3, <3>1, <4>1 DEF NoticesMove, MailsMove
    <3> QED
      BY <3>2, <3>3
  <2>7. CASE SweepMark(p)
    <3>1. sweep'[p].seen = {}
      BY <1>0, <2>7 DEF SweepMark, Resting
    <3>2. /\ UNCHANGED <<noticed, mailed>>
          /\ sweep'[p].todo = sweep[p].seen /\ sweep'[p].mail = None
      BY <2>7, OtherSteps DEF SweepMark, auditVars
    <3> QED
      BY <1>0, <2>1, <2>3, <3>1, <3>2 DEF NoticesMove, MailsMove
  <2>8. CASE SweepPublish(p)
    <3>1. PICK c \in sweep[p].todo :
              /\ noticed' = [noticed EXCEPT ![c] = @ + 1]
              /\ sweep'[p].at = "dispatch" /\ sweep'[p].seen = sweep[p].seen
              /\ sweep'[p].todo = sweep[p].todo \ {c}
              /\ sweep'[p].mail = IF c[1] \in Assigned THEN c ELSE None
      BY <2>8, PublishStep
    <3>2. sweep[p].seen = {} /\ mailed' = mailed /\ c \in Breaches
      BY <1>1, <2>8, <3>1 DEF FlaggedFirst, SweepPublish
    <3>3. CASE c = b
      <4>1. noticed'[b] = noticed[b] + 1 /\ p \in ToNotice(b)
        BY <1>0, <2>0, <3>1, <3>3 DEF ToNotice
      <4>2. b \notin sweep'[p].seen \cup sweep'[p].todo
        BY <3>1, <3>2, <3>3
      <4> QED
        BY <2>2, <2>5, <3>2, <4>1, <4>2 DEF NoticesMove, MailsMove
    <3>4. CASE c # b
      <4>1. noticed'[b] = noticed[b] /\ sweep'[p].mail # b
        BY <1>0, <3>1, <3>2, <3>4
      <4>2. b \in sweep'[p].seen \cup sweep'[p].todo => b \in sweep[p].seen \cup sweep[p].todo
        BY <3>1
      <4> QED
        BY <1>0, <2>1, <2>3, <3>2, <4>1, <4>2 DEF NoticesMove, MailsMove
    <3> QED
      BY <3>3, <3>4
  <2>9. CASE SweepMail(p)
    <3>1. /\ sweep[p].mail \in Breaches /\ sweep'[p].mail = None
          /\ sweep'[p].seen = sweep[p].seen /\ sweep'[p].todo = sweep[p].todo
          /\ mailed' = [mailed EXCEPT ![sweep[p].mail] = @ + 1] /\ noticed' = noticed
      BY <2>9, MailStep DEF SweepMail
    <3>2. ToNotice(b)' \subseteq ToNotice(b)
      BY <2>1, <3>1
    <3>3. CASE sweep[p].mail = b
      <4>1. mailed'[b] = mailed[b] + 1 /\ p \in ToMail(b)
        BY <1>0, <2>0, <3>1, <3>3 DEF ToMail
      <4> QED
        BY <1>0, <2>4, <3>1, <3>2, <4>1 DEF NoticesMove, MailsMove
    <3>4. CASE sweep[p].mail # b
      <4>1. mailed'[b] = mailed[b]
        BY <1>0, <3>1, <3>4
      <4> QED
        BY <1>0, <2>3, <3>1, <3>2, <4>1 DEF NoticesMove, MailsMove
    <3> QED
      BY <3>3, <3>4
  <2>10. CASE SweepFinish(p) \/ SweepFails(p)
    <3>1. UNCHANGED <<noticed, mailed>> /\ sweep'[p] = Resting
      BY <1>0, <2>10 DEF SweepFinish, SweepFails, auditVars
    <3>2. sweep'[p].seen = {} /\ sweep'[p].todo = {} /\ sweep'[p].mail = None
      BY <3>1 DEF Resting
    <3> QED
      BY <1>0, <2>1, <2>3, <3>1, <3>2 DEF NoticesMove, MailsMove
  <2> QED
    BY <2>0, <2>6, <2>7, <2>8, <2>9, <2>10
<1> QED
  BY <1>2, <1>3

LEMMA NoticesCountedStep ==
  ASSUME NoticesCounted, FlaggedFirst, Dispatching, SlaShape, [Next]_vars
  PROVE  NoticesCounted'
<1> SUFFICES ASSUME NEW b \in Breaches
             PROVE  /\ noticed'[b] > 0 => noticed'[b] + Cardinality(ToNotice(b)') <= Cardinality(deployed')
                    /\ mailed'[b] + Cardinality(ToMail(b)') <= noticed'[b]
  BY DEF NoticesCounted
<1>1. /\ noticed[b] \in Nat /\ mailed[b] \in Nat /\ IsFiniteSet(deployed)
      /\ deployed' = deployed
  BY DeployedKept, EnvironmentAssumption, FS_Subset DEF SlaShape, AuditOK, EnvTypeOK
<1>2. /\ noticed[b] > 0 => noticed[b] + Cardinality(ToNotice(b)) <= Cardinality(deployed)
      /\ mailed[b] + Cardinality(ToMail(b)) <= noticed[b]
  BY DEF NoticesCounted
<1>3. PICK N : N = ToNotice(b)
  OBVIOUS
<1>4. PICK O : O = ToNotice(b)'
  OBVIOUS
<1>5. PICK M : M = ToMail(b)
  OBVIOUS
<1>6. PICK P : P = ToMail(b)'
  OBVIOUS
<1>7. /\ IsFiniteSet(N) /\ Cardinality(N) \in Nat /\ Cardinality(deployed) \in Nat
      /\ Cardinality(N) <= Cardinality(deployed)
      /\ IsFiniteSet(M) /\ Cardinality(M) \in Nat
  BY <1>1, <1>3, <1>5, SmallerSet DEF ToNotice, ToMail
<1>8. noticed'[b] > 0 => noticed'[b] + Cardinality(O) <= Cardinality(deployed)
  <2>1. CASE noticed'[b] = noticed[b] /\ noticed[b] = 0
    BY <2>1
  <2>2. CASE noticed'[b] = noticed[b] /\ O \subseteq N
    <3>1. Cardinality(O) \in Nat /\ Cardinality(O) <= Cardinality(N)
      BY <1>7, <2>2, SmallerSet
    <3> QED
      BY <1>1, <1>2, <1>3, <1>7, <2>2, <3>1
  <2>3. ASSUME NEW p \in N, noticed'[b] = noticed[b] + 1, O \subseteq N \ {p}
        PROVE  noticed'[b] + Cardinality(O) <= Cardinality(deployed)
    <3>1. Cardinality(O) \in Nat /\ Cardinality(O) + 1 <= Cardinality(N)
      BY <1>7, <2>3, SmallerSet
    <3> QED
      BY <1>1, <1>2, <1>3, <1>7, <2>3, <3>1
  <2> QED
    BY <1>3, <1>4, <2>1, <2>2, <2>3, NoticeSteps DEF NoticesMove
<1>9. mailed'[b] + Cardinality(P) <= noticed'[b]
  <2>1. CASE mailed'[b] = mailed[b] /\ noticed'[b] \in Nat /\ noticed'[b] >= noticed[b] /\ P \subseteq M
    <3>1. Cardinality(P) \in Nat /\ Cardinality(P) <= Cardinality(M)
      BY <1>7, <2>1, SmallerSet
    <3> QED
      BY <1>1, <1>2, <1>5, <1>7, <2>1, <3>1
  <2>2. ASSUME NEW p \in M, mailed'[b] = mailed[b] + 1, noticed'[b] = noticed[b], P \subseteq M \ {p}
        PROVE  mailed'[b] + Cardinality(P) <= noticed'[b]
    <3>1. Cardinality(P) \in Nat /\ Cardinality(P) + 1 <= Cardinality(M)
      BY <1>7, <2>2, SmallerSet
    <3> QED
      BY <1>1, <1>2, <1>5, <1>7, <2>2, <3>1
  <2>3. ASSUME NEW p, mailed'[b] = mailed[b], noticed'[b] = noticed[b] + 1, P \subseteq M \cup {p}
        PROVE  mailed'[b] + Cardinality(P) <= noticed'[b]
    <3>1. /\ IsFiniteSet(M \cup {p})
          /\ Cardinality(M \cup {p}) \in {Cardinality(M), Cardinality(M) + 1}
      BY <1>7, FS_AddElement
    <3>2. Cardinality(P) \in Nat /\ Cardinality(P) <= Cardinality(M \cup {p})
      BY <2>3, <3>1, SmallerSet
    <3> QED
      BY <1>1, <1>2, <1>5, <1>7, <2>3, <3>1, <3>2
  <2>4. noticed'[b] \in Nat
    BY SlaNextShape DEF SlaShape, AuditOK
  <2> QED
    BY <1>5, <1>6, <2>1, <2>2, <2>3, <2>4, NoticeSteps DEF MailsMove
<1> QED
  BY <1>1, <1>4, <1>6, <1>8, <1>9

LEMMA InitCounted == Init => RowsInTurn /\ FlaggedFirst /\ NoticesCounted
<1> SUFFICES ASSUME Init
             PROVE  RowsInTurn /\ FlaggedFirst /\ NoticesCounted
  OBVIOUS
<1>1. \A t \in Tickets : ~Exists(t)
  BY DEF Init, Exists
<1>2. RowsInTurn
  BY <1>1 DEF Init, RowsInTurn, ReadIsCurrent, RepliesPast,
              PolicyFollowsType, FirstResponseIsFirst
<1>3. FlaggedFirst
  BY DEF Init, FlaggedFirst, Resting
<1>4. NoticesCounted
  <2>1. \A p \in deployed : p \in Processes
    BY DEF Init, EnvInit
  <2>2. \A b \in Breaches : ToMail(b) = {}
    BY <2>1, NullAssumption DEF Init, ToMail, Resting
  <2>3. \A b \in Breaches : noticed[b] = 0 /\ mailed[b] = 0
    BY DEF Init
  <2>4. Cardinality({}) = 0
    BY FS_EmptySet
  <2> QED
    BY <2>2, <2>3, <2>4 DEF NoticesCounted
<1> QED
  BY <1>2, <1>3, <1>4

(* However many processes sweep at once, and whatever fails: a breach is   *)
(* announced once per process at most, and mailed no more often than it    *)
(* was announced.                                                          *)
THEOREM AnnouncedOncePerProcess == Spec => []NotifiedOncePerProcess
<1>1. FlaggedFirst /\ NoticesCounted /\ SlaShape => NotifiedOncePerProcess
  <2> SUFFICES ASSUME NoticesCounted, SlaShape, NEW b \in Breaches
               PROVE  noticed[b] <= Cardinality(deployed) /\ mailed[b] <= noticed[b]
    BY DEF NotifiedOncePerProcess
  <2>1. noticed[b] \in Nat /\ mailed[b] \in Nat /\ IsFiniteSet(deployed)
    BY EnvironmentAssumption, FS_Subset DEF SlaShape, AuditOK, EnvTypeOK
  <2>2. /\ Cardinality(ToNotice(b)) \in Nat /\ Cardinality(ToMail(b)) \in Nat
        /\ Cardinality(deployed) \in Nat
    BY <2>1, SmallerSet DEF ToNotice, ToMail
  <2> QED
    BY <2>1, <2>2 DEF NoticesCounted
<1>2. /\ FlaggedFirst /\ NoticesCounted /\ Dispatching /\ SlaShape /\ [Next]_vars
      => (FlaggedFirst /\ NoticesCounted)'
  BY FlaggedFirstStep, NoticesCountedStep
<1> QED
  BY <1>1, <1>2, InitCounted, ShapeInvariant, DispatchingInvariant, PTL DEF Spec

(* While requests come one after the other, whatever types and policies    *)
(* are edited, tickets imported and sweeps run in between: a ticket whose  *)
(* type came from create or update has a policy that is or was that type's *)
(* default, its first response is the first reply of addMessage, and no    *)
(* breach is announced more than once per process.  Without InTurn the     *)
(* first two do not hold.                                                  *)
THEOREM RightWhenInTurn == Spec /\ []InTurn => []RightInTurn
<1>1. RowsInTurn /\ NotifiedOncePerProcess => RightInTurn
  BY DEF RowsInTurn, RightInTurn
<1>2. RowsInTurn /\ InTurn /\ SlaShape /\ [Next]_vars => RowsInTurn'
  BY RowsInTurnStep
<1> QED
  BY <1>1, <1>2, InitCounted, AnnouncedOncePerProcess, ShapeInvariant, PTL DEF Spec

-----------------------------------------------------------------------------
(* TimeAutomation: what the actions of a rule leave of a ticket *)

AutoActions == {"note", "tag"} \cup AutoStatus

AutoRowResolved(row) == row.resolvedAt <=> row.status \in Closing

(* The tag is added once at most, and only where it was not seen or is not *)
TagAtMostOnce(x, seen, row) ==
  \/ x.tags = row.tags
  \/ x.tags = row.tags + 1 /\ (seen.tags = 0 \/ row.tags = 0)

LEMMA TagRowWrites ==
  ASSUME NEW seen \in AutoRows, NEW row \in AutoRows
  PROVE  /\ TagRow(seen, row) \in AutoRows
         /\ AutoRowResolved(row) => AutoRowResolved(TagRow(seen, row))
         /\ seen.tags > 0 => TagRow(seen, row) = row
         /\ ~(seen.tags > 0) => TagRow(seen, row).tags = row.tags + 1
<1>1. seen.tags \in Nat /\ row.tags \in Nat /\ row.tags + 1 \in Nat
  BY DEF AutoRows
<1>2. PICK n \in Nat : n = row.tags + 1
  BY <1>1
<1>3. PICK x : x = [row EXCEPT !.tags = n]
  OBVIOUS
<1>4. x \in AutoRows /\ x.tags = n /\ x.status = row.status /\ x.resolvedAt = row.resolvedAt
  BY <1>3 DEF AutoRows
<1>5. seen.tags > 0 => TagRow(seen, row) = row
  BY DEF TagRow
<1>6. ~(seen.tags > 0) => TagRow(seen, row) = x
  BY <1>2, <1>3 DEF TagRow
<1>7. AutoRowResolved(row) => AutoRowResolved(x)
  BY <1>4 DEF AutoRowResolved
<1> QED
  BY <1>2, <1>4, <1>5, <1>6, <1>7

LEMMA StatusRowWrites ==
  ASSUME NEW seen \in AutoRows, NEW row \in AutoRows, NEW s \in AutoStatus
  PROVE  /\ StatusRow(seen, row, s) \in AutoRows
         /\ AutoRowResolved(row) => AutoRowResolved(StatusRow(seen, row, s))
         /\ StatusRow(seen, row, s).tags = row.tags
<1>1. PICK b \in BOOLEAN : b = (s \in Closing)
  <2>1. CASE s \in Closing
    <3>1. TRUE \in BOOLEAN /\ TRUE = (s \in Closing)
      BY <2>1
    <3> QED
      BY <3>1, Zenon
  <2>2. CASE s \notin Closing
    <3>1. FALSE \in BOOLEAN /\ FALSE = (s \in Closing)
      BY <2>2
    <3> QED
      BY <3>1, Zenon
  <2> QED
    BY <2>1, <2>2
<1>2. PICK x : x = [row EXCEPT !.status = s, !.resolvedAt = b]
  OBVIOUS
<1>3. x \in AutoRows /\ x.tags = row.tags /\ x.status = s /\ x.resolvedAt = b
  BY <1>2 DEF AutoRows
<1>4. StatusRow(seen, row, s) = row \/ StatusRow(seen, row, s) = x
  BY <1>1, <1>2, Zenon DEF StatusRow
<1>5. AutoRowResolved(x)
  BY <1>1, <1>3, Zenon DEF AutoRowResolved
<1> QED
  BY <1>3, <1>4, <1>5

(* One action, on the row the code holds and the row in the database *)
ActionRow(a, z) ==
  CASE a = "note" -> z.row
    [] a = "tag" -> TagRow(z.seen, z.row)
    [] OTHER -> StatusRow(z.seen, z.row, a)

ActionStep(a, z) ==
  [row |-> ActionRow(a, z), seen |-> IF ActionRow(a, z) = z.row THEN z.seen ELSE ActionRow(a, z)]

(* What holds after every action *)
ActedSoFar(z, seen, row) ==
  /\ AutoRowResolved(row) => AutoRowResolved(z.row)
  /\ z.seen = z.row \/ (z.seen = seen /\ z.row = row)
  /\ TagAtMostOnce(z.row, seen, row)
  /\ z.row.tags # row.tags => z.seen.tags > 0

LEMMA ActionStepWrites ==
  ASSUME NEW a \in AutoActions, NEW seen \in AutoRows, NEW row \in AutoRows,
         NEW z \in [seen : AutoRows, row : AutoRows], ActedSoFar(z, seen, row)
  PROVE  /\ ActionStep(a, z) \in [seen : AutoRows, row : AutoRows]
         /\ ActedSoFar(ActionStep(a, z), seen, row)
<1>1. /\ z.seen \in AutoRows /\ z.row \in AutoRows /\ seen.tags \in Nat /\ row.tags \in Nat
      /\ z.seen.tags \in Nat /\ z.row.tags \in Nat
  BY DEF AutoRows
<1>2. PICK x : x = ActionRow(a, z)
  OBVIOUS
<1>3. /\ x \in AutoRows /\ (AutoRowResolved(z.row) => AutoRowResolved(x))
      /\ \/ x.tags = z.row.tags
         \/ ~(z.seen.tags > 0) /\ x.tags = z.row.tags + 1
  <2>1. CASE a = "note"
    BY <1>1, <1>2, <2>1 DEF ActionRow
  <2>2. CASE a = "tag"
    <3>1. x = TagRow(z.seen, z.row)
      BY <1>2, <2>2 DEF ActionRow
    <3> QED
      BY <1>1, <3>1, TagRowWrites
  <2>3. CASE a \notin {"note", "tag"}
    <3>1. x = StatusRow(z.seen, z.row, a) /\ a \in AutoStatus
      BY <1>2, <2>3 DEF ActionRow, AutoActions
    <3> QED
      BY <1>1, <3>1, StatusRowWrites
  <2> QED
    BY <2>1, <2>2, <2>3
<1>4. PICK y : y = ActionStep(a, z)
  OBVIOUS
<1>5. y.row = x /\ y.seen = IF x = z.row THEN z.seen ELSE x
  BY <1>2, <1>4 DEF ActionStep
<1>6. y \in [seen : AutoRows, row : AutoRows]
  BY <1>1, <1>2, <1>3, <1>4 DEF ActionStep
<1>7. x.tags \in Nat
  BY <1>3 DEF AutoRows
<1>8. y.seen = y.row \/ (y.seen = seen /\ y.row = row)
  BY <1>5 DEF ActedSoFar
<1>9. TagAtMostOnce(x, seen, row)
  <2>1. CASE x.tags = z.row.tags
    BY <2>1 DEF ActedSoFar, TagAtMostOnce
  <2>2. CASE ~(z.seen.tags > 0) /\ x.tags = z.row.tags + 1
    <3>1. z.seen.tags = 0 /\ z.row.tags = row.tags
      BY <1>1, <2>2 DEF ActedSoFar
    <3>2. seen.tags = 0 \/ row.tags = 0
      BY <3>1 DEF ActedSoFar
    <3> QED
      BY <2>2, <3>1, <3>2 DEF TagAtMostOnce
  <2> QED
    BY <1>3, <2>1, <2>2
<1>10. x.tags # row.tags => y.seen.tags > 0
  <2>1. CASE x = z.row
    BY <1>5, <2>1 DEF ActedSoFar
  <2>2. CASE x # z.row /\ x.tags # row.tags
    <3>1. x.tags = row.tags + 1
      BY <1>9, <2>2 DEF TagAtMostOnce
    <3> QED
      BY <1>1, <1>5, <2>2, <3>1
  <2> QED
    BY <2>1, <2>2
<1>11. AutoRowResolved(row) => AutoRowResolved(x)
  BY <1>3 DEF ActedSoFar
<1>12. ActedSoFar(y, seen, row)
  BY <1>5, <1>8, <1>9, <1>10, <1>11 DEF ActedSoFar
<1> QED
  BY <1>4, <1>6, <1>12

(* The loop over a rule's actions: resolved_at goes with the status, and   *)
(* the tag is added once at most                                           *)
LEMMA ActedWrites ==
  ASSUME NEW seen \in AutoRows, NEW row \in AutoRows, NEW actions \in Seq(AutoActions)
  PROVE  /\ Acted(seen, row, actions) \in AutoRows
         /\ AutoRowResolved(row) => AutoRowResolved(Acted(seen, row, actions))
         /\ TagAtMostOnce(Acted(seen, row, actions), seen, row)
<1> DEFINE n == Len(actions)
           T == {z \in [seen : AutoRows, row : AutoRows] : ActedSoFar(z, seen, row)}
           first == [seen |-> seen, row |-> row]
           F == [i \in 1..n |-> [z \in T |-> ActionStep(actions[i], z)]]
           D(g) == [i \in 0..n |-> IF i = 0 THEN first ELSE ActionStep(actions[i], g[i-1])]
           h == CHOOSE g : g = D(g)
<1>1. n \in Nat /\ \A i \in 1..n : actions[i] \in AutoActions
  OBVIOUS
<1>2. first \in T
  BY DEF ActedSoFar, TagAtMostOnce
<1>3. ASSUME NEW i \in 1..n, NEW z \in T
      PROVE  ActionStep(actions[i], z) \in T
  <2>1. actions[i] \in AutoActions
    BY <1>1
  <2> QED
    BY <2>1, ActionStepWrites
<1>4. F \in [1..n -> [T -> T]]
  <2> HIDE DEF T, n
  <2> QED
    BY <1>3
<1>5. PICK f : IsRun(f, n, T, first, F)
  <2> HIDE DEF T, F, n, first
  <2> QED
    BY <1>1, <1>2, <1>4, Iteration, Zenon
<1>6. f = D(f)
  <2>1. ASSUME NEW i \in 1..n
        PROVE  f[i] = ActionStep(actions[i], f[i-1])
    <3> HIDE DEF T, n, first
    <3>1. f[i-1] \in T
      BY <1>1, <1>5 DEF IsRun
    <3> QED
      BY <1>5, <3>1 DEF IsRun
  <2> HIDE DEF n, first
  <2> QED
    BY <1>1, <1>5, <2>1 DEF IsRun
<1>7. h = D(h)
  <2> HIDE DEF D
  <2> QED
    BY <1>6, Zenon
<1>8. \A i \in 0..n : h[i] \in T
  <2> DEFINE S == {i \in 0..n : h[i] \in T}
  <2> HIDE DEF h
  <2>1. h[0] = first /\ \A i \in 1..n : h[i] = ActionStep(actions[i], h[i-1])
    <3> HIDE DEF n, first
    <3> QED
      BY <1>1, <1>7
  <2>2. 0 \in S
    <3> HIDE DEF n, first, T
    <3> QED
      BY <1>1, <1>2, <2>1
  <2>3. \A i \in 1..n : i - 1 \in S => i \in S
    <3> HIDE DEF T, n
    <3> QED
      BY <1>1, <1>3, <2>1
  <2>4. \A i \in 0..n : i \in S
    <3> HIDE DEF S, n
    <3> QED
      BY <1>1, <2>2, <2>3, IntervalInduction
  <2> QED
    BY <2>4
<1>9. Acted(seen, row, actions) = h[n].row
  BY DEF Acted, ActionStep, ActionRow
<1>10. h[n] \in T
  <2> HIDE DEF h, T, n
  <2> QED
    BY <1>1, <1>8
<1>11. /\ h[n].row \in AutoRows /\ (AutoRowResolved(row) => AutoRowResolved(h[n].row))
       /\ TagAtMostOnce(h[n].row, seen, row)
  <2> HIDE DEF h, n
  <2> QED
    BY <1>10 DEF ActedSoFar
<1> HIDE DEF h, n
<1> QED
  BY <1>9, <1>11

-----------------------------------------------------------------------------
(* TimeAutomation: the sweep's transactions *)

avars == <<environment, autoVars>>

HasNote(k) == \E n \in DOMAIN AutoRules[k].actions : AutoRules[k].actions[n] = "note"

CandidateRecords == [ticket : AutoTickets, row : AutoRows]

(* The domains that AutoTypeOK leaves open *)
TxShape ==
  /\ candidates \in [Processes -> SUBSET CandidateRecords]
  /\ mine = [p \in Processes |-> mine[p]]
  /\ \A p \in Processes : DOMAIN mine[p] \subseteq AutoTickets
  /\ myNotes \in [Processes -> SUBSET (RuleNumbers \X AutoTickets)]
  /\ myApplied \in [Processes -> SUBSET (RuleNumbers \X AutoTickets)]

(* Rows, committed or not: resolved_at goes with the status, and a         *)
(* transaction has added one tag at most                                   *)
TxRows ==
  /\ \A t \in AutoTickets : AutoRowResolved(autoTicket[t])
  /\ \A p \in Processes : \A t \in DOMAIN mine[p] :
       /\ AutoRowResolved(mine[p][t])
       /\ mine[p][t].tags \in {autoTicket[t].tags, autoTicket[t].tags + 1}

(* Candidates: one per ticket, of the rule at hand, open when it was       *)
(* selected; of a row the transaction holds, the row as it is              *)
TxCandidates ==
  \A p \in Processes : \A c \in candidates[p] :
    /\ autoRule[p] \in RuleNumbers
    /\ \A d \in candidates[p] : c.ticket = d.ticket => c = d
    /\ c.row.status \notin Closing
    /\ c.ticket \in DOMAIN mine[p] => c.row = mine[p][c.ticket]

(* Notes go with application rows, in a transaction and committed *)
TxNotes ==
  \A k \in RuleNumbers, t \in AutoTickets :
    /\ \A p \in Processes : <<k, t>> \in myNotes[p] <=> <<k, t>> \in myApplied[p] /\ HasNote(k)
    /\ notes[k][t] > 0 <=> <<k, t>> \in applied /\ HasNote(k)

(* The inductive invariant *)
AutoInv == AutoTypeOK /\ TxShape /\ TxRows /\ TxCandidates /\ TxNotes

LEMMA AutoRulesTyped ==
  /\ Len(AutoRules) \in Nat /\ RuleNumbers = 1..Len(AutoRules)
  /\ \A k \in RuleNumbers : AutoRules[k].actions \in Seq(AutoActions) /\ AutoRules[k].after \in Nat
<1> DEFINE R == [after : Nat, when : AutoStatus \cup {None}, actions : Seq(AutoActions)]
<1>1. AutoRules \in Seq(R)
  BY AutoAssumption DEF AutoActions
<1>2. Len(AutoRules) \in Nat /\ RuleNumbers = 1..Len(AutoRules) /\ \A k \in RuleNumbers : AutoRules[k] \in R
  <2> HIDE DEF R
  <2> QED
    BY <1>1 DEF RuleNumbers
<1> QED
  BY <1>2

LEMMA AutoTyped ==
  ASSUME AutoInv
  PROVE  /\ EnvTypeOK /\ deployed \subseteq Processes /\ faults \in Nat
         /\ autoTicket \in [AutoTickets -> AutoRows]
         /\ notes \in [RuleNumbers -> [AutoTickets -> Nat]]
         /\ applied \subseteq RuleNumbers \X AutoTickets
         /\ agentEdits \in 0..MaxAgentEdits
         /\ autoRule \in [Processes -> 0..Len(AutoRules)]
         /\ candidates \in [Processes -> SUBSET CandidateRecords]
         /\ mine = [p \in Processes |-> mine[p]]
         /\ \A p \in Processes : /\ DOMAIN mine[p] \subseteq AutoTickets
                                 /\ \A t \in DOMAIN mine[p] : mine[p][t] \in AutoRows
                                 /\ mine[p] = [t \in DOMAIN mine[p] |-> mine[p][t]]
         /\ \A p, q \in Processes : p # q => DOMAIN mine[p] \cap DOMAIN mine[q] = {}
         /\ myNotes \in [Processes -> SUBSET (RuleNumbers \X AutoTickets)]
         /\ myApplied \in [Processes -> SUBSET (RuleNumbers \X AutoTickets)]
         /\ \A row \in AutoRows : /\ row.tags \in Nat /\ row.status \in AutoStatus
                                  /\ row.resolvedAt \in BOOLEAN
<1>1. \A row \in AutoRows : row.tags \in Nat /\ row.status \in AutoStatus /\ row.resolvedAt \in BOOLEAN
  BY DEF AutoRows
<1>2. EnvTypeOK /\ deployed \subseteq Processes /\ faults \in Nat
  BY EnvironmentAssumption DEF AutoInv, AutoTypeOK, EnvTypeOK
<1>3. \A p \in Processes : mine[p] \in [DOMAIN mine[p] -> AutoRows]
  BY DEF AutoInv, AutoTypeOK
<1>4. \A p, q \in Processes : p # q => DOMAIN mine[p] \cap DOMAIN mine[q] = {}
  BY DEF AutoInv, AutoTypeOK
<1> QED
  BY <1>1, <1>2, <1>3, <1>4 DEF AutoInv, AutoTypeOK, TxShape

LEMMA AutoInitInv == AutoInit => AutoInv
<1> SUFFICES ASSUME AutoInit
             PROVE  AutoInv
  OBVIOUS
<1>1. EnvTypeOK
  BY EnvironmentAssumption DEF AutoInit, EnvInit, EnvTypeOK, Times
<1>2. PICK row : row = [status |-> "new", resolvedAt |-> FALSE, tags |-> 0]
  OBVIOUS
<1>3. row \in AutoRows /\ AutoRowResolved(row)
  BY <1>2 DEF AutoRows, AutoStatus, AutoRowResolved, Closing
<1>4. autoTicket = [t \in AutoTickets |-> row]
  BY <1>2 DEF AutoInit
<1>5. \A p \in Processes : mine[p] = NoRows /\ DOMAIN mine[p] = {}
  BY DEF AutoInit, NoRows
<1>6. AutoTypeOK
  <2>1. \A p \in Processes : mine[p] \in [DOMAIN mine[p] -> AutoRows]
    BY <1>5 DEF NoRows
  <2>2. agentEdits \in 0..MaxAgentEdits /\ autoRule \in [Processes -> 0..Len(AutoRules)]
    BY AutoAssumption, AutoRulesTyped DEF AutoInit
  <2> QED
    BY <1>1, <1>3, <1>4, <1>5, <2>1, <2>2 DEF AutoInit, AutoTypeOK
<1>7. TxShape
  BY <1>5 DEF AutoInit, TxShape
<1>8. TxRows /\ TxCandidates
  BY <1>3, <1>4, <1>5 DEF AutoInit, TxRows, TxCandidates
<1>9. TxNotes
  BY DEF AutoInit, TxNotes
<1> QED
  BY <1>6, <1>7, <1>8, <1>9 DEF AutoInv

(* The row a transaction reads is a row *)
LEMMA RowRead ==
  ASSUME AutoInv, NEW p \in Processes, NEW t \in AutoTickets
  PROVE  /\ Row(p, t) \in AutoRows /\ AutoRowResolved(Row(p, t))
         /\ Row(p, t).tags \in {autoTicket[t].tags, autoTicket[t].tags + 1}
BY AutoTyped DEF AutoInv, TxRows, Row

(* A transaction ends: nothing committed, or its rows *)
LEMMA TxEnds ==
  ASSUME AutoInv, NEW p \in Processes, EndTx(p)
  PROVE  /\ autoRule' \in [Processes -> 0..Len(AutoRules)]
         /\ TxShape' /\ TxCandidates'
         /\ \A q \in Processes :
              /\ mine'[q] = (IF q = p THEN NoRows ELSE mine[q])
              /\ mine'[q] \in [DOMAIN mine'[q] -> AutoRows]
              /\ candidates'[q] = (IF q = p THEN {} ELSE candidates[q])
              /\ myNotes'[q] = (IF q = p THEN {} ELSE myNotes[q])
              /\ myApplied'[q] = (IF q = p THEN {} ELSE myApplied[q])
              /\ autoRule'[q] = (IF q = p THEN 0 ELSE autoRule[q])
         /\ DOMAIN NoRows = {}
<1>0. /\ candidates \in [Processes -> SUBSET CandidateRecords]
      /\ mine = [q \in Processes |-> mine[q]]
      /\ \A q \in Processes : DOMAIN mine[q] \subseteq AutoTickets /\ mine[q] \in [DOMAIN mine[q] -> AutoRows]
      /\ myNotes \in [Processes -> SUBSET (RuleNumbers \X AutoTickets)]
      /\ myApplied \in [Processes -> SUBSET (RuleNumbers \X AutoTickets)]
      /\ autoRule \in [Processes -> 0..Len(AutoRules)] /\ Len(AutoRules) \in Nat
  BY AutoRulesTyped DEF AutoInv, AutoTypeOK, TxShape
<1>1. autoRule' \in [Processes -> 0..Len(AutoRules)]
  BY <1>0 DEF EndTx
<1>2. \A q \in Processes :
        /\ mine'[q] = (IF q = p THEN NoRows ELSE mine[q])
        /\ candidates'[q] = (IF q = p THEN {} ELSE candidates[q])
        /\ myNotes'[q] = (IF q = p THEN {} ELSE myNotes[q])
        /\ myApplied'[q] = (IF q = p THEN {} ELSE myApplied[q])
        /\ autoRule'[q] = (IF q = p THEN 0 ELSE autoRule[q])
  BY <1>0 DEF EndTx
<1>3. DOMAIN NoRows = {} /\ NoRows \in [DOMAIN NoRows -> AutoRows]
  BY DEF NoRows
<1>4. \A q \in Processes : mine'[q] \in [DOMAIN mine'[q] -> AutoRows] /\ DOMAIN mine'[q] \subseteq AutoTickets
  BY <1>0, <1>2, <1>3
<1>5. mine' = [q \in Processes |-> mine'[q]]
  BY <1>0 DEF EndTx
<1>6. TxShape'
  <2>1. /\ candidates' \in [Processes -> SUBSET CandidateRecords]
        /\ myNotes' \in [Processes -> SUBSET (RuleNumbers \X AutoTickets)]
        /\ myApplied' \in [Processes -> SUBSET (RuleNumbers \X AutoTickets)]
    BY <1>0 DEF EndTx
  <2> QED
    BY <1>4, <1>5, <2>1 DEF TxShape
<1>7. TxCandidates'
  BY <1>2 DEF AutoInv, TxCandidates
<1> QED
  BY <1>1, <1>2, <1>3, <1>4, <1>6, <1>7

(* sweepRule, one candidate: what it may leave of its ticket and of the    *)
(* transaction                                                             *)
ActsOn(p, c, x) ==
  /\ x \in AutoRows /\ AutoRowResolved(x) /\ TagAtMostOnce(x, c.row, Row(p, c.ticket))
  /\ candidates' = [candidates EXCEPT ![p] = @ \ {c}]
  /\ \/ mine' = mine
     \/ /\ ~LockedByOther(p, c.ticket)
        /\ mine' = [mine EXCEPT ![p] = [y \in DOMAIN mine[p] \cup {c.ticket} |->
                                          IF y = c.ticket THEN x ELSE mine[p][y]]]
  /\ \/ myNotes' = myNotes /\ myApplied' = myApplied
     \/ /\ myApplied' = [myApplied EXCEPT ![p] = @ \cup {<<autoRule[p], c.ticket>>}]
        /\ IF HasNote(autoRule[p])
           THEN myNotes' = [myNotes EXCEPT ![p] = @ \cup {<<autoRule[p], c.ticket>>}]
           ELSE myNotes' = myNotes

LEMMA RuleActs ==
  ASSUME AutoInv, NEW p \in Processes, ApplyRule(p)
  PROVE  \E c \in candidates[p], x \in AutoRows :
           /\ ActsOn(p, c, x)
           /\ c.ticket \in AutoTickets /\ c.row \in AutoRows /\ autoRule[p] \in RuleNumbers
<1>1. PICK c \in candidates[p] :
        /\ ~Waits(p, c)
        /\ candidates' = [candidates EXCEPT ![p] = @ \ {c}]
        /\ IF ~Matches(autoRule[p], c.row)
           THEN UNCHANGED <<mine, myNotes, myApplied>>
           ELSE /\ mine' = IF RuleRow(p, c) = Row(p, c.ticket) THEN mine
                           ELSE [mine EXCEPT ![p] =
                             [y \in DOMAIN @ \cup {c.ticket} |-> IF y = c.ticket THEN RuleRow(p, c) ELSE @[y]]]
                /\ myNotes' = IF \E n \in DOMAIN AutoRules[autoRule[p]].actions :
                                   AutoRules[autoRule[p]].actions[n] = "note"
                              THEN [myNotes EXCEPT ![p] = @ \cup {<<autoRule[p], c.ticket>>}]
                              ELSE myNotes
                /\ myApplied' = [myApplied EXCEPT ![p] = @ \cup {<<autoRule[p], c.ticket>>}]
  BY DEF ApplyRule
<1>2. c \in CandidateRecords /\ autoRule[p] \in RuleNumbers
  BY AutoTyped DEF AutoInv, TxCandidates
<1>3. c.ticket \in AutoTickets /\ c.row \in AutoRows
  BY <1>2 DEF CandidateRecords
<1>4. Row(p, c.ticket) \in AutoRows /\ AutoRowResolved(Row(p, c.ticket))
  BY <1>3, RowRead
<1>5. PICK x : x = RuleRow(p, c)
  OBVIOUS
<1>6. x \in AutoRows /\ AutoRowResolved(x) /\ TagAtMostOnce(x, c.row, Row(p, c.ticket))
  <2>1. AutoRules[autoRule[p]].actions \in Seq(AutoActions)
    BY <1>2, AutoRulesTyped
  <2>2. x = Acted(c.row, Row(p, c.ticket), AutoRules[autoRule[p]].actions)
    BY <1>5 DEF RuleRow
  <2> QED
    BY <1>3, <1>4, <2>1, <2>2, ActedWrites
<1>7. \/ mine' = mine
      \/ /\ ~LockedByOther(p, c.ticket)
         /\ mine' = [mine EXCEPT ![p] = [y \in DOMAIN mine[p] \cup {c.ticket} |->
                                           IF y = c.ticket THEN x ELSE mine[p][y]]]
  <2>1. CASE ~Matches(autoRule[p], c.row) \/ x = Row(p, c.ticket)
    BY <1>1, <1>5, <2>1
  <2>2. CASE Matches(autoRule[p], c.row) /\ x # Row(p, c.ticket)
    <3>1. ~LockedByOther(p, c.ticket)
      BY <1>1, <1>5, <2>2 DEF Waits
    <3>2. mine' = [mine EXCEPT ![p] = [y \in DOMAIN mine[p] \cup {c.ticket} |->
                                         IF y = c.ticket THEN x ELSE mine[p][y]]]
      BY <1>1, <1>5, <2>2
    <3> QED
      BY <3>1, <3>2
  <2> QED
    BY <2>1, <2>2
<1>8. \/ myNotes' = myNotes /\ myApplied' = myApplied
      \/ /\ myApplied' = [myApplied EXCEPT ![p] = @ \cup {<<autoRule[p], c.ticket>>}]
         /\ IF HasNote(autoRule[p])
            THEN myNotes' = [myNotes EXCEPT ![p] = @ \cup {<<autoRule[p], c.ticket>>}]
            ELSE myNotes' = myNotes
  BY <1>1 DEF HasNote
<1>9. ActsOn(p, c, x)
  BY <1>1, <1>6, <1>7, <1>8 DEF ActsOn
<1> QED
  BY <1>2, <1>3, <1>6, <1>9

LEMMA RuleActsInv ==
  ASSUME AutoInv, NEW p \in Processes, NEW c \in candidates[p], NEW x \in AutoRows,
         ActsOn(p, c, x), c.ticket \in AutoTickets, c.row \in AutoRows, autoRule[p] \in RuleNumbers,
         UNCHANGED <<environment, autoStored, agentEdits, autoRule>>
  PROVE  AutoInv'
<1>0. AutoTypeOK /\ TxShape /\ TxRows /\ TxCandidates /\ TxNotes
  BY DEF AutoInv
<1>a. /\ autoTicket \in [AutoTickets -> AutoRows]
      /\ candidates \in [Processes -> SUBSET CandidateRecords]
      /\ mine = [q \in Processes |-> mine[q]]
      /\ \A q \in Processes : /\ DOMAIN mine[q] \subseteq AutoTickets
                              /\ \A t \in DOMAIN mine[q] : mine[q][t] \in AutoRows
      /\ \A q, w \in Processes : q # w => DOMAIN mine[q] \cap DOMAIN mine[w] = {}
      /\ myNotes \in [Processes -> SUBSET (RuleNumbers \X AutoTickets)]
      /\ myApplied \in [Processes -> SUBSET (RuleNumbers \X AutoTickets)]
      /\ \A row \in AutoRows : row.tags \in Nat
  BY AutoTyped
<1>t. PICK t \in AutoTickets : t = c.ticket
  OBVIOUS
<1>k. PICK k \in RuleNumbers : k = autoRule[p]
  OBVIOUS
<1>1. \A q \in Processes : candidates'[q] = IF q = p THEN candidates[p] \ {c} ELSE candidates[q]
  BY <1>a DEF ActsOn
<1>2. \/ \A q \in Processes : mine'[q] = mine[q]
      \/ /\ \A q \in Processes \ {p} : mine'[q] = mine[q] /\ t \notin DOMAIN mine[q]
         /\ mine'[p] = [y \in DOMAIN mine[p] \cup {t} |-> IF y = t THEN x ELSE mine[p][y]]
  <2>1. CASE mine' = mine
    BY <2>1
  <2>2. CASE /\ ~LockedByOther(p, t)
             /\ mine' = [mine EXCEPT ![p] = [y \in DOMAIN mine[p] \cup {t} |-> IF y = t THEN x ELSE mine[p][y]]]
    <3>1. PICK M : M = [y \in DOMAIN mine[p] \cup {t} |-> IF y = t THEN x ELSE mine[p][y]]
      OBVIOUS
    <3>2. mine' = [mine EXCEPT ![p] = M]
      BY <2>2, <3>1
    <3>3. mine'[p] = M /\ \A q \in Processes \ {p} : mine'[q] = mine[q]
      BY <1>a, <3>2
    <3>4. \A q \in Processes \ {p} : t \notin DOMAIN mine[q]
      BY <2>2 DEF LockedByOther
    <3> QED
      BY <3>1, <3>3, <3>4
  <2> QED
    BY <1>t, <2>1, <2>2 DEF ActsOn
<1>3. mine' = [q \in Processes |-> mine'[q]]
  BY <1>a DEF ActsOn
<1>4. \A q \in Processes :
        /\ DOMAIN mine'[q] \subseteq AutoTickets
        /\ mine'[q] \in [DOMAIN mine'[q] -> AutoRows]
        /\ \A w \in Processes : q # w => DOMAIN mine'[q] \cap DOMAIN mine'[w] = {}
        /\ \A y \in DOMAIN mine'[q] : (q = p /\ y = t /\ mine'[q][y] = x) \/ (y \in DOMAIN mine[q] /\ mine'[q][y] = mine[q][y])
  <2>0. \A q \in Processes : mine[q] \in [DOMAIN mine[q] -> AutoRows]
    BY <1>0 DEF AutoTypeOK
  <2>1. CASE \A q \in Processes : mine'[q] = mine[q]
    BY <1>a, <2>0, <2>1
  <2>2. CASE /\ \A q \in Processes \ {p} : mine'[q] = mine[q] /\ t \notin DOMAIN mine[q]
             /\ mine'[p] = [y \in DOMAIN mine[p] \cup {t} |-> IF y = t THEN x ELSE mine[p][y]]
    <3>1. DOMAIN mine'[p] = DOMAIN mine[p] \cup {t} /\ mine'[p] \in [DOMAIN mine'[p] -> AutoRows]
      BY <1>a, <2>2
    <3>2. \A y \in DOMAIN mine'[p] : (y = t /\ mine'[p][y] = x) \/ (y \in DOMAIN mine[p] /\ mine'[p][y] = mine[p][y])
      BY <2>2, <3>1
    <3>3. \A q \in Processes \ {p} : mine'[q] = mine[q] /\ t \notin DOMAIN mine[q]
      BY <2>2
    <3>4. ASSUME NEW q \in Processes, NEW w \in Processes, q # w
          PROVE  DOMAIN mine'[q] \cap DOMAIN mine'[w] = {}
      <4>1. DOMAIN mine[q] \cap DOMAIN mine[w] = {}
        BY <1>a, <3>4
      <4>2. CASE q = p
        BY <3>1, <3>3, <3>4, <4>1, <4>2
      <4>3. CASE w = p
        BY <3>1, <3>3, <3>4, <4>1, <4>3
      <4>4. CASE q # p /\ w # p
        BY <3>3, <4>1, <4>4
      <4> QED
        BY <4>2, <4>3, <4>4
    <3>5. ASSUME NEW q \in Processes, q # p
          PROVE  /\ DOMAIN mine'[q] \subseteq AutoTickets
                 /\ mine'[q] \in [DOMAIN mine'[q] -> AutoRows]
                 /\ \A y \in DOMAIN mine'[q] : y \in DOMAIN mine[q] /\ mine'[q][y] = mine[q][y]
      <4>1. mine'[q] = mine[q]
        BY <3>3, <3>5
      <4> QED
        BY <1>a, <2>0, <4>1
    <3>6. DOMAIN mine'[p] \subseteq AutoTickets
      BY <1>a, <3>1
    <3> QED
      BY <3>1, <3>2, <3>4, <3>5, <3>6
  <2> QED
    BY <1>2, <2>1, <2>2
<1>5. /\ myNotes' \in [Processes -> SUBSET (RuleNumbers \X AutoTickets)]
      /\ myApplied' \in [Processes -> SUBSET (RuleNumbers \X AutoTickets)]
      /\ \A q \in Processes, kk \in RuleNumbers, tt \in AutoTickets :
           <<kk, tt>> \in myNotes'[q] <=> <<kk, tt>> \in myApplied'[q] /\ HasNote(kk)
      /\ \A q \in Processes : myNotes'[q] \subseteq myApplied'[q]
  <2>0. \A q \in Processes : myNotes[q] \subseteq myApplied[q]
    BY <1>0 DEF AutoTypeOK
  <2>1. CASE myNotes' = myNotes /\ myApplied' = myApplied
    BY <1>0, <1>a, <2>0, <2>1 DEF TxNotes
  <2>2. CASE /\ myApplied' = [myApplied EXCEPT ![p] = @ \cup {<<k, t>>}]
             /\ IF HasNote(k) THEN myNotes' = [myNotes EXCEPT ![p] = @ \cup {<<k, t>>}]
                ELSE myNotes' = myNotes
    <3>1. <<k, t>> \in RuleNumbers \X AutoTickets
      OBVIOUS
    <3>2. \A q \in Processes :
            /\ myApplied'[q] = (IF q = p THEN myApplied[q] \cup {<<k, t>>} ELSE myApplied[q])
            /\ myNotes'[q] = (IF q = p /\ HasNote(k) THEN myNotes[q] \cup {<<k, t>>} ELSE myNotes[q])
      BY <1>a, <2>2
    <3>3. /\ myNotes' \in [Processes -> SUBSET (RuleNumbers \X AutoTickets)]
          /\ myApplied' \in [Processes -> SUBSET (RuleNumbers \X AutoTickets)]
      BY <1>a, <2>2, <3>1
    <3>4. \A q \in Processes, kk \in RuleNumbers, tt \in AutoTickets :
            <<kk, tt>> \in myNotes'[q] <=> <<kk, tt>> \in myApplied'[q] /\ HasNote(kk)
      <4> TAKE q \in Processes, kk \in RuleNumbers, tt \in AutoTickets
      <4>1. <<kk, tt>> \in myNotes[q] <=> <<kk, tt>> \in myApplied[q] /\ HasNote(kk)
        BY <1>0 DEF TxNotes
      <4>2. CASE kk = k /\ tt = t /\ q = p
        BY <3>2, <4>1, <4>2
      <4>3. CASE ~(kk = k /\ tt = t /\ q = p)
        <5>1. CASE q = p
          <6>1. <<kk, tt>> # <<k, t>>
            BY <4>3, <5>1
          <6>2. /\ myApplied'[q] = myApplied[q] \cup {<<k, t>>}
                /\ \/ myNotes'[q] = myNotes[q] \cup {<<k, t>>}
                   \/ myNotes'[q] = myNotes[q]
            BY <3>2, <5>1
          <6>3. <<kk, tt>> \in myApplied'[q] <=> <<kk, tt>> \in myApplied[q]
            BY <6>1, <6>2
          <6>4. <<kk, tt>> \in myNotes'[q] <=> <<kk, tt>> \in myNotes[q]
            BY <6>1, <6>2
          <6> QED
            BY <4>1, <6>3, <6>4
        <5>2. CASE q # p
          <6>1. myApplied'[q] = myApplied[q] /\ myNotes'[q] = myNotes[q]
            BY <3>2, <5>2
          <6> QED
            BY <4>1, <6>1
        <5> QED
          BY <5>1, <5>2
      <4> QED
        BY <4>2, <4>3
    <3>5. \A q \in Processes : myNotes'[q] \subseteq myApplied'[q]
      BY <2>0, <3>2
    <3> QED
      BY <3>3, <3>4, <3>5
  <2> QED
    BY <1>t, <1>k, <2>1, <2>2 DEF ActsOn
<1>6. candidates' \in [Processes -> SUBSET CandidateRecords]
  BY <1>a DEF ActsOn
<1>7. AutoTypeOK'
  <2>1. EnvTypeOK'
    BY <1>0, EnvironmentKept DEF AutoTypeOK
  <2>2. \A q \in Processes :
          /\ candidates'[q] \subseteq [ticket : AutoTickets, row : AutoRows]
          /\ mine'[q] \in [DOMAIN mine'[q] -> AutoRows]
          /\ \A w \in Processes \ {q} : DOMAIN mine'[q] \cap DOMAIN mine'[w] = {}
          /\ myNotes'[q] \subseteq myApplied'[q]
    BY <1>4, <1>5, <1>6 DEF CandidateRecords
  <2> QED
    BY <1>0, <2>1, <2>2 DEF AutoTypeOK, autoStored
<1>8. TxShape'
  BY <1>3, <1>4, <1>5, <1>6 DEF TxShape
<1>9. TxRows'
  <2>1. /\ autoTicket' = autoTicket /\ AutoRowResolved(x) /\ TagAtMostOnce(x, c.row, Row(p, t))
        /\ autoTicket[t].tags \in Nat
    BY <1>a, <1>t DEF ActsOn, autoStored
  <2>2. x.tags \in {autoTicket[t].tags, autoTicket[t].tags + 1}
    <3>1. CASE t \notin DOMAIN mine[p]
      BY <2>1, <3>1 DEF Row, TagAtMostOnce
    <3>2. CASE t \in DOMAIN mine[p]
      <4>1. /\ Row(p, t) = mine[p][t] /\ c.row = mine[p][t]
            /\ mine[p][t].tags \in {autoTicket[t].tags, autoTicket[t].tags + 1}
        BY <1>0, <1>t, <3>2 DEF Row, TxCandidates, TxRows
      <4>2. x.tags = mine[p][t].tags \/ (x.tags = mine[p][t].tags + 1 /\ mine[p][t].tags = 0)
        BY <2>1, <4>1 DEF TagAtMostOnce
      <4> QED
        BY <2>1, <4>1, <4>2
    <3> QED
      BY <3>1, <3>2
  <2>3. \A q \in Processes : \A y \in DOMAIN mine'[q] :
          /\ AutoRowResolved(mine'[q][y])
          /\ mine'[q][y].tags \in {autoTicket[y].tags, autoTicket[y].tags + 1}
    BY <1>0, <1>4, <2>1, <2>2 DEF TxRows
  <2> QED
    BY <1>0, <2>1, <2>3 DEF TxRows, AutoRowResolved
<1>10. TxCandidates'
  <2>1. SUFFICES ASSUME NEW q \in Processes, NEW d \in candidates'[q]
                 PROVE  /\ autoRule[q] \in RuleNumbers
                        /\ \A e \in candidates'[q] : d.ticket = e.ticket => d = e
                        /\ d.row.status \notin Closing
                        /\ d.ticket \in DOMAIN mine'[q] => d.row = mine'[q][d.ticket]
    BY DEF TxCandidates
  <2>2. d \in candidates[q] /\ (q = p => d # c) /\ candidates'[q] \subseteq candidates[q]
    BY <1>1, <2>1
  <2>3. q = p => d.ticket # t
    BY <1>0, <1>t, <2>2 DEF TxCandidates
  <2> QED
    BY <1>0, <1>4, <2>2, <2>3 DEF TxCandidates
<1>11. TxNotes'
  BY <1>0, <1>5 DEF TxNotes, autoStored
<1> QED
  BY <1>7, <1>8, <1>9, <1>10, <1>11 DEF AutoInv

(* One step per action *)
LEMMA AutoNextInv == AutoInv /\ [AutoNext]_avars => AutoInv'
<1> SUFFICES ASSUME AutoInv, [AutoNext]_avars
             PROVE  AutoInv'
  OBVIOUS
<1>0. AutoTypeOK /\ TxShape /\ TxRows /\ TxCandidates /\ TxNotes
  BY DEF AutoInv
<1>a. /\ EnvTypeOK /\ deployed \subseteq Processes
      /\ autoTicket \in [AutoTickets -> AutoRows]
      /\ notes \in [RuleNumbers -> [AutoTickets -> Nat]]
      /\ applied \subseteq RuleNumbers \X AutoTickets
      /\ agentEdits \in 0..MaxAgentEdits
      /\ autoRule \in [Processes -> 0..Len(AutoRules)]
      /\ candidates \in [Processes -> SUBSET CandidateRecords]
      /\ mine = [q \in Processes |-> mine[q]]
      /\ \A q \in Processes : /\ DOMAIN mine[q] \subseteq AutoTickets
                              /\ \A t \in DOMAIN mine[q] : mine[q][t] \in AutoRows
      /\ \A q, w \in Processes : q # w => DOMAIN mine[q] \cap DOMAIN mine[w] = {}
      /\ myNotes \in [Processes -> SUBSET (RuleNumbers \X AutoTickets)]
      /\ myApplied \in [Processes -> SUBSET (RuleNumbers \X AutoTickets)]
      /\ \A row \in AutoRows : row.tags \in Nat
  BY AutoTyped
<1>b. \A q \in Processes : /\ candidates[q] \subseteq [ticket : AutoTickets, row : AutoRows]
                           /\ mine[q] \in [DOMAIN mine[q] -> AutoRows]
                           /\ \A w \in Processes \ {q} : DOMAIN mine[q] \cap DOMAIN mine[w] = {}
                           /\ myNotes[q] \subseteq myApplied[q]
  BY <1>0 DEF AutoTypeOK
<1>1. CASE AutoTick
  <2>1. EnvTypeOK' /\ UNCHANGED autoVars
    BY <1>1, <1>a, EnvironmentAssumption DEF AutoTick, ClockTick, EnvTypeOK, Times
  <2> QED
    BY <1>0, <2>1 DEF AutoInv, AutoTypeOK, TxShape, TxRows, TxCandidates, TxNotes, AutoRowResolved,
                      autoVars, autoStored, autoTxVars
<1>2. ASSUME NEW t \in AutoTickets, AgentEdits(t)
      PROVE  AutoInv'
  <2>1. /\ UNCHANGED environment /\ UNCHANGED <<notes, applied, autoTxVars>>
        /\ agentEdits < MaxAgentEdits /\ agentEdits' = agentEdits + 1
        /\ \A p \in Processes : t \notin DOMAIN mine[p]
    BY <1>2 DEF AgentEdits
  <2>2. PICK x \in AutoRows : autoTicket' = [autoTicket EXCEPT ![t] = x] /\ AutoRowResolved(x)
    <3>0. autoTicket[t] \in AutoRows /\ AutoRowResolved(autoTicket[t])
      BY <1>0, <1>a DEF TxRows
    <3>1. CASE \E s \in AutoStatus :
                 autoTicket' = [autoTicket EXCEPT ![t].status = s, ![t].resolvedAt = s \in Closing]
      <4>1. PICK s \in AutoStatus :
              autoTicket' = [autoTicket EXCEPT ![t].status = s, ![t].resolvedAt = s \in Closing]
        BY <3>1
      <4>2. CASE s \in Closing
        <5>1. PICK x : x = [autoTicket[t] EXCEPT !.status = s, !.resolvedAt = TRUE]
          OBVIOUS
        <5>2. x \in AutoRows /\ x.status = s /\ x.resolvedAt = TRUE
          BY <3>0, <5>1 DEF AutoRows
        <5>3. autoTicket' = [autoTicket EXCEPT ![t].status = s, ![t].resolvedAt = TRUE]
          BY <4>1, <4>2
        <5>4. autoTicket' = [autoTicket EXCEPT ![t] = x]
          BY <1>a, <3>0, <5>1, <5>3 DEF AutoRows
        <5>5. AutoRowResolved(x)
          BY <4>2, <5>2 DEF AutoRowResolved
        <5> QED
          BY <5>2, <5>4, <5>5
      <4>3. CASE s \notin Closing
        <5>1. PICK x : x = [autoTicket[t] EXCEPT !.status = s, !.resolvedAt = FALSE]
          OBVIOUS
        <5>2. x \in AutoRows /\ x.status = s /\ x.resolvedAt = FALSE
          BY <3>0, <5>1 DEF AutoRows
        <5>3. autoTicket' = [autoTicket EXCEPT ![t].status = s, ![t].resolvedAt = FALSE]
          <6>1. (s \in Closing) = FALSE
            <7>1. s \in Closing <=> FALSE
              BY <4>3
            <7> QED
              BY <7>1
          <6> QED
            BY <4>1, <6>1, Zenon
        <5>4. autoTicket' = [autoTicket EXCEPT ![t] = x]
          BY <1>a, <3>0, <5>1, <5>3 DEF AutoRows
        <5>5. AutoRowResolved(x)
          BY <4>3, <5>2 DEF AutoRowResolved
        <5> QED
          BY <5>2, <5>4, <5>5
      <4> QED
        BY <4>2, <4>3
    <3>2. CASE \E n \in {0, 1} : autoTicket' = [autoTicket EXCEPT ![t].tags = n]
      <4>1. PICK n \in {0, 1} : autoTicket' = [autoTicket EXCEPT ![t].tags = n]
        BY <3>2
      <4>2. PICK x : x = [autoTicket[t] EXCEPT !.tags = n]
        OBVIOUS
      <4>3. /\ x \in AutoRows /\ x.status = autoTicket[t].status
            /\ x.resolvedAt = autoTicket[t].resolvedAt
        BY <3>0, <4>2 DEF AutoRows
      <4>4. autoTicket' = [autoTicket EXCEPT ![t] = x]
        BY <1>a, <4>1, <4>2
      <4>5. AutoRowResolved(x)
        BY <3>0, <4>3 DEF AutoRowResolved
      <4> QED
        BY <4>3, <4>4, <4>5
    <3> QED
      BY <1>2, <3>1, <3>2 DEF AgentEdits
  <2>3. \A y \in AutoTickets : autoTicket'[y] = IF y = t THEN x ELSE autoTicket[y]
    BY <1>a, <2>2
  <2>4. AutoTypeOK'
    <3>1. EnvTypeOK' /\ agentEdits' \in 0..MaxAgentEdits
      BY <1>a, <2>1, EnvironmentKept, AutoAssumption
    <3>2. autoTicket' \in [AutoTickets -> AutoRows]
      BY <1>a, <2>2
    <3> QED
      BY <1>0, <2>1, <3>1, <3>2 DEF AutoTypeOK, autoTxVars
  <2>5. TxRows'
    <3>1. \A y \in AutoTickets : AutoRowResolved(autoTicket'[y])
      BY <1>0, <2>2, <2>3 DEF TxRows
    <3>2. \A p \in Processes : \A y \in DOMAIN mine'[p] :
            /\ AutoRowResolved(mine'[p][y])
            /\ mine'[p][y].tags \in {autoTicket'[y].tags, autoTicket'[y].tags + 1}
      BY <1>0, <1>a, <2>1, <2>3, ZenonT(60) DEF TxRows, autoTxVars
    <3> QED
      BY <3>1, <3>2 DEF TxRows, AutoRowResolved
  <2>6. TxShape' /\ TxCandidates' /\ TxNotes'
    BY <1>0, <2>1 DEF TxShape, TxCandidates, TxNotes, autoTxVars
  <2> QED
    BY <2>4, <2>5, <2>6 DEF AutoInv
<1>3. ASSUME NEW p \in Processes, NextRule(p)
      PROVE  AutoInv'
  <2>1. PICK k \in RuleNumbers : k = autoRule[p] + 1
    BY <1>3 DEF NextRule
  <2>2. PICK C : C = CandidateRows(p, k)
    OBVIOUS
  <2>3. /\ autoRule' = [autoRule EXCEPT ![p] = k] /\ candidates' = [candidates EXCEPT ![p] = C]
        /\ UNCHANGED environment /\ UNCHANGED <<autoStored, agentEdits, mine, myNotes, myApplied>>
    BY <1>3, <2>1, <2>2 DEF NextRule
  <2>4. \A c \in C : \E t \in AutoTickets : c = [ticket |-> t, row |-> Row(p, t)] /\ Candidate(p, k, t)
    BY <2>2 DEF CandidateRows
  <2>5. \A c \in C : /\ c \in CandidateRecords /\ c.row = Row(p, c.ticket)
                     /\ c.row.status \notin Closing
    <3>1. SUFFICES ASSUME NEW c \in C
                   PROVE  /\ c \in CandidateRecords /\ c.row = Row(p, c.ticket)
                          /\ c.row.status \notin Closing
      OBVIOUS
    <3>2. PICK t \in AutoTickets : c = [ticket |-> t, row |-> Row(p, t)] /\ Candidate(p, k, t)
      BY <2>4
    <3>3. Row(p, t) \in AutoRows
      BY RowRead
    <3>4. c.ticket = t /\ c.row = Row(p, t) /\ c \in CandidateRecords
      BY <3>2, <3>3 DEF CandidateRecords
    <3>5. Row(p, t).status \notin Closing
      BY <3>2 DEF Candidate
    <3> QED
      BY <3>4, <3>5
  <2>6. \A c, d \in C : c.ticket = d.ticket => c = d
    <3>1. SUFFICES ASSUME NEW c \in C, NEW d \in C, c.ticket = d.ticket
                   PROVE  c = d
      OBVIOUS
    <3>2. PICK t \in AutoTickets : c = [ticket |-> t, row |-> Row(p, t)]
      BY <2>4
    <3>3. PICK y \in AutoTickets : d = [ticket |-> y, row |-> Row(p, y)]
      BY <2>4
    <3> QED
      BY <3>1, <3>2, <3>3
  <2>7. \A q \in Processes : /\ candidates'[q] = (IF q = p THEN C ELSE candidates[q])
                             /\ autoRule'[q] = (IF q = p THEN k ELSE autoRule[q])
    BY <1>a, <2>3
  <2>8. AutoTypeOK'
    <3>1. EnvTypeOK'
      BY <1>a, <2>3, EnvironmentKept
    <3>2. k \in 0..Len(AutoRules)
      BY AutoRulesTyped
    <3>3. autoRule' \in [Processes -> 0..Len(AutoRules)]
      BY <1>a, <2>3, <3>2
    <3>4. \A q \in Processes : candidates'[q] \subseteq [ticket : AutoTickets, row : AutoRows]
      BY <1>b, <2>5, <2>7 DEF CandidateRecords
    <3> QED
      BY <1>0, <1>b, <2>3, <3>1, <3>3, <3>4 DEF AutoTypeOK, autoStored
  <2>9. TxShape'
    <3>1. candidates' \in [Processes -> SUBSET CandidateRecords]
      BY <1>a, <2>3, <2>5
    <3> QED
      BY <1>0, <2>3, <3>1 DEF TxShape
  <2>10. TxRows' /\ TxNotes'
    BY <1>0, <2>3 DEF TxRows, TxNotes, AutoRowResolved, autoStored
  <2>11. TxCandidates'
    BY <1>0, <2>3, <2>5, <2>6, <2>7 DEF TxCandidates, Row
  <2> QED
    BY <2>8, <2>9, <2>10, <2>11 DEF AutoInv
<1>4. ASSUME NEW p \in Processes, ApplyRule(p)
      PROVE  AutoInv'
  <2>1. PICK c \in candidates[p], x \in AutoRows :
          /\ ActsOn(p, c, x)
          /\ c.ticket \in AutoTickets /\ c.row \in AutoRows /\ autoRule[p] \in RuleNumbers
    BY <1>4, RuleActs
  <2>2. UNCHANGED <<environment, autoStored, agentEdits, autoRule>>
    BY <1>4 DEF ApplyRule
  <2> QED
    BY <2>1, <2>2, RuleActsInv
<1>5. ASSUME NEW p \in Processes, AutoCommit(p)
      PROVE  AutoInv'
  <2>1. EndTx(p) /\ UNCHANGED <<environment, agentEdits>>
    BY <1>5 DEF AutoCommit
  <2>2. /\ \A t \in AutoTickets : autoTicket'[t] = Row(p, t)
        /\ \A k \in RuleNumbers, t \in AutoTickets :
             notes'[k][t] = notes[k][t] + (IF <<k, t>> \in myNotes[p] THEN 1 ELSE 0)
        /\ applied' = applied \cup myApplied[p]
    BY <1>5 DEF AutoCommit
  <2>3. /\ autoRule' \in [Processes -> 0..Len(AutoRules)]
        /\ TxShape' /\ TxCandidates'
        /\ \A q \in Processes :
             /\ mine'[q] = (IF q = p THEN NoRows ELSE mine[q])
             /\ mine'[q] \in [DOMAIN mine'[q] -> AutoRows]
             /\ candidates'[q] = (IF q = p THEN {} ELSE candidates[q])
             /\ myNotes'[q] = (IF q = p THEN {} ELSE myNotes[q])
             /\ myApplied'[q] = (IF q = p THEN {} ELSE myApplied[q])
        /\ DOMAIN NoRows = {}
    BY <2>1, TxEnds
  <2>4. \A t \in AutoTickets : Row(p, t) \in AutoRows /\ AutoRowResolved(Row(p, t))
    BY RowRead
  <2>5. \A q \in Processes : q # p => \A t \in DOMAIN mine[q] : Row(p, t) = autoTicket[t]
    BY <1>a DEF Row
  <2>6. AutoTypeOK'
    <3>1. autoTicket' \in [AutoTickets -> AutoRows]
      BY <1>5, <2>4 DEF AutoCommit
    <3>2. notes' \in [RuleNumbers -> [AutoTickets -> Nat]]
      BY <1>5, <1>a DEF AutoCommit
    <3>3. applied' \subseteq RuleNumbers \X AutoTickets
      BY <1>a, <2>2
    <3>4. EnvTypeOK' /\ agentEdits' \in 0..MaxAgentEdits
      BY <1>a, <2>1, EnvironmentKept
    <3>5. \A q \in Processes :
            /\ candidates'[q] \subseteq [ticket : AutoTickets, row : AutoRows]
            /\ mine'[q] \in [DOMAIN mine'[q] -> AutoRows]
            /\ \A w \in Processes \ {q} : DOMAIN mine'[q] \cap DOMAIN mine'[w] = {}
            /\ myNotes'[q] \subseteq myApplied'[q]
      BY <1>b, <2>3
    <3> QED
      BY <2>3, <3>1, <3>2, <3>3, <3>4, <3>5 DEF AutoTypeOK
  <2>7. TxRows'
    <3>1. \A t \in AutoTickets : AutoRowResolved(autoTicket'[t])
      BY <2>2, <2>4
    <3>2. \A q \in Processes : \A t \in DOMAIN mine'[q] :
            /\ AutoRowResolved(mine'[q][t])
            /\ mine'[q][t].tags \in {autoTicket'[t].tags, autoTicket'[t].tags + 1}
      <4>1. SUFFICES ASSUME NEW q \in Processes, NEW t \in DOMAIN mine'[q]
                     PROVE  /\ AutoRowResolved(mine'[q][t])
                            /\ mine'[q][t].tags \in {autoTicket'[t].tags, autoTicket'[t].tags + 1}
        OBVIOUS
      <4>2. q # p /\ mine'[q] = mine[q] /\ t \in DOMAIN mine[q] /\ t \in AutoTickets
        BY <1>a, <2>3, <4>1
      <4>3. autoTicket'[t] = autoTicket[t]
        BY <2>2, <2>5, <4>2
      <4> QED
        BY <1>0, <4>2, <4>3 DEF TxRows
    <3> QED
      BY <3>1, <3>2 DEF TxRows, AutoRowResolved
  <2>8. TxNotes'
    <3>1. SUFFICES ASSUME NEW k \in RuleNumbers, NEW t \in AutoTickets
                   PROVE  /\ \A q \in Processes : <<k, t>> \in myNotes'[q] <=> <<k, t>> \in myApplied'[q] /\ HasNote(k)
                          /\ notes'[k][t] > 0 <=> <<k, t>> \in applied' /\ HasNote(k)
      BY DEF TxNotes
    <3>2. /\ \A q \in Processes : <<k, t>> \in myNotes[q] <=> <<k, t>> \in myApplied[q] /\ HasNote(k)
          /\ notes[k][t] > 0 <=> <<k, t>> \in applied /\ HasNote(k)
          /\ notes[k][t] \in Nat
      BY <1>0, <1>a DEF TxNotes
    <3>3. \A q \in Processes : <<k, t>> \in myNotes'[q] <=> <<k, t>> \in myApplied'[q] /\ HasNote(k)
      BY <2>3, <3>2
    <3>4. CASE <<k, t>> \in myNotes[p]
      <4>1. notes'[k][t] > 0
        BY <2>2, <3>2, <3>4
      <4> QED
        BY <2>2, <3>2, <3>3, <3>4, <4>1
    <3>5. CASE <<k, t>> \notin myNotes[p]
      <4>1. notes'[k][t] = notes[k][t]
        BY <2>2, <3>2, <3>5
      <4> QED
        BY <2>2, <3>2, <3>3, <3>5, <4>1
    <3> QED
      BY <3>4, <3>5
  <2> QED
    BY <2>3, <2>6, <2>7, <2>8 DEF AutoInv
<1>6. ASSUME NEW p \in Processes, AutoDeadlock(p) \/ AutoAbort(p)
      PROVE  AutoInv'
  <2>1. EndTx(p) /\ UNCHANGED <<autoStored, agentEdits>> /\ EnvTypeOK'
    BY <1>6, <1>a, EnvironmentKept, FaultTyped DEF AutoDeadlock, AutoAbort
  <2>2. /\ autoRule' \in [Processes -> 0..Len(AutoRules)]
        /\ TxShape' /\ TxCandidates'
        /\ \A q \in Processes :
             /\ mine'[q] = (IF q = p THEN NoRows ELSE mine[q])
             /\ mine'[q] \in [DOMAIN mine'[q] -> AutoRows]
             /\ candidates'[q] = (IF q = p THEN {} ELSE candidates[q])
             /\ myNotes'[q] = (IF q = p THEN {} ELSE myNotes[q])
             /\ myApplied'[q] = (IF q = p THEN {} ELSE myApplied[q])
        /\ DOMAIN NoRows = {}
    BY <2>1, TxEnds
  <2>3. AutoTypeOK'
    <3>1. \A q \in Processes :
            /\ candidates'[q] \subseteq [ticket : AutoTickets, row : AutoRows]
            /\ mine'[q] \in [DOMAIN mine'[q] -> AutoRows]
            /\ \A w \in Processes \ {q} : DOMAIN mine'[q] \cap DOMAIN mine'[w] = {}
            /\ myNotes'[q] \subseteq myApplied'[q]
      BY <1>b, <2>2
    <3> QED
      BY <1>0, <2>1, <2>2, <3>1 DEF AutoTypeOK, autoStored
  <2>4. TxRows' /\ TxNotes'
    <3>1. TxRows'
      BY <1>0, <2>1, <2>2 DEF TxRows, AutoRowResolved, autoStored
    <3>2. TxNotes'
      BY <1>0, <2>1, <2>2 DEF TxNotes, autoStored
    <3> QED
      BY <3>1, <3>2
  <2> QED
    BY <2>2, <2>3, <2>4 DEF AutoInv
<1>7. CASE UNCHANGED avars
  <2>1. EnvTypeOK'
    BY <1>7, <1>a, EnvironmentKept DEF avars
  <2> QED
    BY <1>0, <1>7, <2>1 DEF AutoInv, AutoTypeOK, TxShape, TxRows, TxCandidates, TxNotes, AutoRowResolved,
                      avars, autoVars, autoStored, autoTxVars
<1> QED
  BY <1>a, <1>1, <1>2, <1>3, <1>4, <1>5, <1>6, <1>7 DEF AutoNext, AutoSweep

LEMMA AutoAlways == AutoSpec => []AutoInv
<1>1. AutoInit => AutoInv
  BY AutoInitInv
<1>2. AutoInv /\ [AutoNext]_<<environment, autoVars>> => AutoInv'
  BY AutoNextInv DEF avars
<1> QED
  BY <1>1, <1>2, PTL DEF AutoSpec

(* TimeAutomationSweepService keeps every variable in its type, and no row *)
(* is ever locked by two transactions.                                     *)
THEOREM AutoTypeCorrect == AutoSpec => []AutoTypeOK
<1>1. AutoInv => AutoTypeOK
  BY DEF AutoInv
<1> QED
  BY <1>1, AutoAlways, PTL

(* set_status keeps resolved_at right on every committed row, through      *)
(* stale reads, agents' edits between two statements, and rollbacks.       *)
THEOREM AutoResolvedAtRight == AutoSpec => []AutoResolvedAt
<1>1. AutoInv => AutoResolvedAt
  BY DEF AutoInv, TxRows, AutoRowResolved, AutoResolvedAt
<1> QED
  BY <1>1, AutoAlways, PTL

(* A rule that adds a note is recorded as applied to a ticket exactly when *)
(* its note is there: sweepRule's statements commit together or not at all.*)
THEOREM AppliedActed == AutoSpec => []AppliedMeansActed
<1>1. AutoInv => AppliedMeansActed
  BY DEF AutoInv, TxNotes, HasNote, AppliedMeansActed
<1> QED
  BY <1>1, AutoAlways, PTL

(* sweepRule's SELECT sees what the rules before it wrote in the same      *)
(* transaction: no candidate is a ticket one of them closed.               *)
THEOREM LaterRulesSee == AutoSpec => []LaterRulesSeeEarlier
<1>1. AutoInv => LaterRulesSeeEarlier
  BY DEF AutoInv, TxCandidates, LaterRulesSeeEarlier
<1> QED
  BY <1>1, AutoAlways, PTL

-----------------------------------------------------------------------------
(* TimeAutomation: how often concurrent sweeps repeat one another *)

(* The transactions that will still, or did and may still commit, apply    *)
(* rule k to ticket t                                                      *)
Pending(k, t) ==
  {p \in deployed : \/ <<k, t>> \in myApplied[p]
                    \/ autoRule[p] = k /\ \E c \in candidates[p] : c.ticket = t}

(* Once a note is committed no new sweep selects the ticket, so the notes  *)
(* and the sweeps that may still add one are no more than the processes.   *)
FiresCounted ==
  \A k \in RuleNumbers, t \in AutoTickets :
    notes[k][t] > 0 => notes[k][t] + Cardinality(Pending(k, t)) <= Cardinality(deployed)

(* What a step does to the notes of a rule on a ticket *)
LEMMA PendingSteps ==
  ASSUME AutoInv, [AutoNext]_avars, NEW k \in RuleNumbers, NEW t \in AutoTickets
  PROVE  /\ deployed' = deployed
         /\ \/ notes'[k][t] = notes[k][t] /\ (notes[k][t] = 0 \/ Pending(k, t)' \subseteq Pending(k, t))
            \/ \E p \in Pending(k, t) : /\ notes'[k][t] = notes[k][t] + 1
                                        /\ Pending(k, t)' \subseteq Pending(k, t) \ {p}
<1>0. AutoTypeOK /\ TxShape /\ TxRows /\ TxCandidates /\ TxNotes
  BY DEF AutoInv
<1>a. /\ deployed \subseteq Processes
      /\ notes \in [RuleNumbers -> [AutoTickets -> Nat]]
      /\ autoRule \in [Processes -> 0..Len(AutoRules)]
      /\ candidates \in [Processes -> SUBSET CandidateRecords]
      /\ myApplied \in [Processes -> SUBSET (RuleNumbers \X AutoTickets)]
  BY AutoTyped
<1>b. /\ \A p \in Processes : <<k, t>> \in myNotes[p] => <<k, t>> \in myApplied[p]
      /\ notes[k][t] \in Nat
      /\ notes[k][t] > 0 => <<k, t>> \in applied
  BY <1>0, <1>a DEF TxNotes
<1>1. CASE \/ AutoTick \/ UNCHANGED avars \/ \E y \in AutoTickets : AgentEdits(y)
  <2>1. UNCHANGED <<deployed, notes, autoRule, candidates, myApplied>>
    BY <1>1 DEF AutoTick, ClockTick, AgentEdits, avars, autoVars, autoStored, autoTxVars, environment
  <2>2. Pending(k, t)' = Pending(k, t)
    BY <2>1 DEF Pending
  <2> QED
    BY <2>1, <2>2
<1>2. ASSUME NEW p \in deployed, NextRule(p)
      PROVE  /\ deployed' = deployed /\ notes'[k][t] = notes[k][t]
             /\ (notes[k][t] = 0 \/ Pending(k, t)' \subseteq Pending(k, t))
  <2>1. /\ UNCHANGED <<deployed, notes, myApplied>>
        /\ candidates' = [candidates EXCEPT ![p] = CandidateRows(p, autoRule[p] + 1)]
        /\ autoRule' = [autoRule EXCEPT ![p] = autoRule[p] + 1]
    BY <1>2 DEF NextRule, environment, autoStored
  <2>2. ASSUME notes[k][t] # 0
        PROVE  Pending(k, t)' \subseteq Pending(k, t)
    <3>1. <<k, t>> \in applied
      BY <1>b, <2>2
    <3>2. SUFFICES ASSUME NEW q \in deployed, autoRule'[q] = k, NEW c \in candidates'[q], c.ticket = t
                   PROVE  autoRule[q] = k /\ c \in candidates[q]
      BY <2>1 DEF Pending
    <3>3. CASE q = p
      <4>1. c \in CandidateRows(p, k)
        BY <1>a, <2>1, <3>2, <3>3
      <4>2. Candidate(p, k, t)
        BY <3>2, <4>1 DEF CandidateRows
      <4> QED
        BY <3>1, <4>2 DEF Candidate
    <3>4. CASE q # p
      BY <1>a, <2>1, <3>2, <3>4
    <3> QED
      BY <3>3, <3>4
  <2> QED
    BY <2>1, <2>2
<1>3. ASSUME NEW p \in deployed, ApplyRule(p)
      PROVE  /\ deployed' = deployed /\ notes'[k][t] = notes[k][t]
             /\ Pending(k, t)' \subseteq Pending(k, t)
  <2>1. PICK c \in candidates[p], x \in AutoRows : ActsOn(p, c, x)
    BY <1>3, <1>a, RuleActs
  <2>2. UNCHANGED <<deployed, notes, autoRule>>
    BY <1>3 DEF ApplyRule, environment, autoStored
  <2>3. \A q \in deployed : candidates'[q] \subseteq candidates[q]
    BY <1>a, <2>1 DEF ActsOn
  <2>4. \A q \in deployed : <<k, t>> \in myApplied'[q] =>
          <<k, t>> \in myApplied[q] \/ (q = p /\ autoRule[p] = k /\ c.ticket = t)
    BY <1>a, <2>1 DEF ActsOn
  <2>5. Pending(k, t)' \subseteq Pending(k, t)
    BY <2>1, <2>2, <2>3, <2>4 DEF Pending
  <2> QED
    BY <2>2, <2>5
<1>4. ASSUME NEW p \in deployed, EndTx(p), deployed' = deployed
      PROVE  Pending(k, t)' \subseteq Pending(k, t) \ {p}
  <2>1. \A q \in deployed :
          /\ candidates'[q] = (IF q = p THEN {} ELSE candidates[q])
          /\ myApplied'[q] = (IF q = p THEN {} ELSE myApplied[q])
          /\ autoRule'[q] = (IF q = p THEN 0 ELSE autoRule[q])
    BY <1>a, <1>4, TxEnds
  <2> QED
    BY <1>4, <2>1 DEF Pending
<1>5. ASSUME NEW p \in deployed, AutoCommit(p)
      PROVE  /\ deployed' = deployed
             /\ \/ notes'[k][t] = notes[k][t] /\ (notes[k][t] = 0 \/ Pending(k, t)' \subseteq Pending(k, t))
                \/ /\ p \in Pending(k, t) /\ notes'[k][t] = notes[k][t] + 1
                   /\ Pending(k, t)' \subseteq Pending(k, t) \ {p}
  <2>1. EndTx(p) /\ deployed' = deployed
    BY <1>5 DEF AutoCommit, environment
  <2>2. notes'[k][t] = notes[k][t] + (IF <<k, t>> \in myNotes[p] THEN 1 ELSE 0)
    BY <1>5 DEF AutoCommit
  <2>3. Pending(k, t)' \subseteq Pending(k, t) \ {p}
    BY <1>4, <2>1
  <2>4. CASE <<k, t>> \in myNotes[p]
    <3>1. p \in Pending(k, t)
      BY <1>a, <1>b, <2>4 DEF Pending
    <3> QED
      BY <2>1, <2>2, <2>3, <2>4, <3>1
  <2>5. CASE <<k, t>> \notin myNotes[p]
    BY <1>b, <2>1, <2>2, <2>3, <2>5
  <2> QED
    BY <2>4, <2>5
<1>6. ASSUME NEW p \in deployed, AutoDeadlock(p) \/ AutoAbort(p)
      PROVE  /\ deployed' = deployed /\ notes'[k][t] = notes[k][t]
             /\ Pending(k, t)' \subseteq Pending(k, t)
  <2>1. EndTx(p) /\ deployed' = deployed /\ notes' = notes
    BY <1>6 DEF AutoDeadlock, AutoAbort, Fault, environment, autoStored
  <2> QED
    BY <1>4, <2>1
<1> QED
  BY <1>1, <1>2, <1>3, <1>5, <1>6 DEF AutoNext, AutoSweep

LEMMA FiresCountedStep == AutoInv /\ FiresCounted /\ [AutoNext]_avars => FiresCounted'
<1> SUFFICES ASSUME AutoInv, FiresCounted, [AutoNext]_avars, NEW k \in RuleNumbers, NEW t \in AutoTickets
             PROVE  (notes[k][t] > 0 => notes[k][t] + Cardinality(Pending(k, t)) <= Cardinality(deployed))'
  BY DEF FiresCounted
<1>1. IsFiniteSet(deployed) /\ notes[k][t] \in Nat
  BY AutoTyped, EnvironmentAssumption, FS_Subset
<1>2. /\ deployed' = deployed
      /\ \/ notes'[k][t] = notes[k][t] /\ (notes[k][t] = 0 \/ Pending(k, t)' \subseteq Pending(k, t))
         \/ \E p \in Pending(k, t) : /\ notes'[k][t] = notes[k][t] + 1
                                     /\ Pending(k, t)' \subseteq Pending(k, t) \ {p}
  BY PendingSteps
<1>3. notes[k][t] > 0 => notes[k][t] + Cardinality(Pending(k, t)) <= Cardinality(deployed)
  BY DEF FiresCounted
<1>4. PICK D : D = Pending(k, t)
  OBVIOUS
<1>5. PICK E : E = Pending(k, t)'
  OBVIOUS
<1>6. /\ IsFiniteSet(D) /\ Cardinality(D) \in Nat /\ Cardinality(deployed) \in Nat
      /\ Cardinality(D) <= Cardinality(deployed)
  BY <1>1, <1>4, SmallerSet DEF Pending
<1>7. CASE notes'[k][t] = notes[k][t] /\ notes[k][t] = 0
  BY <1>7
<1>8. CASE notes'[k][t] = notes[k][t] /\ E \subseteq D
  <2>1. Cardinality(E) \in Nat /\ Cardinality(E) <= Cardinality(D)
    BY <1>6, <1>8, SmallerSet
  <2> QED
    BY <1>1, <1>2, <1>3, <1>4, <1>5, <1>6, <1>8, <2>1
<1>9. ASSUME NEW p \in D, notes'[k][t] = notes[k][t] + 1, E \subseteq D \ {p}
      PROVE  notes'[k][t] + Cardinality(E) <= Cardinality(deployed)
  <2>1. Cardinality(E) \in Nat /\ Cardinality(E) + 1 <= Cardinality(D)
    BY <1>6, <1>9, SmallerSet
  <2> QED
    BY <1>1, <1>3, <1>4, <1>6, <1>9, <2>1
<1> QED
  BY <1>2, <1>4, <1>5, <1>7, <1>8, <1>9

(* "Each rule fires at most once per ticket", once for each process that   *)
(* sweeps, through rollbacks, deadlocks and restarts: a committed          *)
(* application row keeps every later SELECT from the ticket.               *)
THEOREM RuleFiresBounded == AutoSpec => []RuleFiresOncePerProcess
<1>1. AutoInit => AutoInv /\ FiresCounted
  BY AutoInitInv DEF AutoInit, FiresCounted
<1>2. (AutoInv /\ FiresCounted) /\ [AutoNext]_<<environment, autoVars>> => (AutoInv /\ FiresCounted)'
  BY AutoNextInv, FiresCountedStep DEF avars
<1>3. AutoInv /\ FiresCounted => RuleFiresOncePerProcess
  <2> SUFFICES ASSUME AutoInv, FiresCounted, NEW k \in RuleNumbers, NEW t \in AutoTickets
               PROVE  notes[k][t] <= Cardinality(deployed)
    BY DEF RuleFiresOncePerProcess
  <2>1. IsFiniteSet(deployed) /\ notes[k][t] \in Nat
    BY AutoTyped, EnvironmentAssumption, FS_Subset
  <2>2. Cardinality(Pending(k, t)) \in Nat /\ Cardinality(deployed) \in Nat
    BY <2>1, SmallerSet DEF Pending
  <2> QED
    BY <2>1, <2>2 DEF FiresCounted
<1> QED
  BY <1>1, <1>2, <1>3, PTL DEF AutoSpec


-----------------------------------------------------------------------------
(* The transactions that hold a SELECTed row of t without the tag *)
Stale(t) == {p \in deployed : \E c \in candidates[p] : c.ticket = t /\ c.row.tags = 0}

(* A second copy of the tag needs a sweep that read the row without it;    *)
(* writing it, the sweep spends that reading.                              *)
CopiesFit(n, t) == n <= 1 \/ n + Cardinality(Stale(t)) <= Cardinality(deployed) + 1

CopiesCounted ==
  \A t \in AutoTickets :
    /\ CopiesFit(autoTicket[t].tags, t)
    /\ \A p \in deployed : t \in DOMAIN mine[p] => CopiesFit(mine[p][t].tags, t)

(* The rows of t, committed and held, that a step leaves: a row of before, *)
(* while no sweep reads it anew; one that has the tag once; or one a sweep *)
(* added the tag to.                                                       *)
CopyFrom(n, t) ==
  \/ n <= 1
  \/ /\ Stale(t)' \subseteq Stale(t)
     /\ \/ n = autoTicket[t].tags
        \/ \E q \in deployed : t \in DOMAIN mine[q] /\ n = mine[q][t].tags
  \/ \E p \in Stale(t) :
       /\ Stale(t)' \subseteq Stale(t) \ {p}
       /\ n = Row(p, t).tags + 1

LEMMA CopyFromFits ==
  ASSUME AutoInv, CopiesCounted, deployed' = deployed, NEW t \in AutoTickets,
         NEW n \in Nat, CopyFrom(n, t)
  PROVE  n <= 1 \/ n + Cardinality(Stale(t)') <= Cardinality(deployed) + 1
<1>1. IsFiniteSet(deployed) /\ deployed \subseteq Processes
  BY AutoTyped, EnvironmentAssumption, FS_Subset
<1>2. PICK D : D = Stale(t)
  OBVIOUS
<1>3. PICK E : E = Stale(t)'
  OBVIOUS
<1>4. /\ IsFiniteSet(D) /\ D \subseteq deployed /\ Cardinality(D) \in Nat /\ Cardinality(deployed) \in Nat
      /\ Cardinality(D) <= Cardinality(deployed)
  BY <1>1, <1>2, SmallerSet DEF Stale
<1>5. \A m \in Nat : CopiesFit(m, t) <=> m <= 1 \/ m + Cardinality(D) <= Cardinality(deployed) + 1
  BY <1>2 DEF CopiesFit
<1>6. CASE n <= 1
  BY <1>6
<1>7. CASE /\ E \subseteq D
           /\ \/ n = autoTicket[t].tags
              \/ \E q \in deployed : t \in DOMAIN mine[q] /\ n = mine[q][t].tags
  <2>1. CopiesFit(n, t)
    BY <1>7 DEF CopiesCounted
  <2>2. Cardinality(E) \in Nat /\ Cardinality(E) <= Cardinality(D)
    BY <1>4, <1>7, SmallerSet
  <2> QED
    BY <1>3, <1>4, <1>5, <2>1, <2>2
<1>8. CASE \E p \in D : E \subseteq D \ {p} /\ n = Row(p, t).tags + 1
  <2>1. PICK p \in D : E \subseteq D \ {p} /\ n = Row(p, t).tags + 1
    BY <1>8
  <2>2. p \in deployed /\ p \in Processes
    BY <1>1, <1>4
  <2>3. PICK m : m = Row(p, t).tags
    OBVIOUS
  <2>4. m \in Nat
    BY <2>2, <2>3, RowRead, AutoTyped
  <2>5. CopiesFit(m, t)
    BY <2>2, <2>3 DEF CopiesCounted, Row
  <2>6. Cardinality(E) \in Nat /\ Cardinality(E) + 1 <= Cardinality(D)
    BY <1>4, <2>1, SmallerSet
  <2> QED
    BY <1>3, <1>4, <1>5, <2>1, <2>3, <2>4, <2>5, <2>6
<1> QED
  BY <1>2, <1>3, <1>6, <1>7, <1>8 DEF CopyFrom

LEMMA CopiesStep ==
  ASSUME AutoInv, [AutoNext]_avars, NEW t \in AutoTickets
  PROVE  /\ deployed' = deployed
         /\ CopyFrom(autoTicket'[t].tags, t)
         /\ \A p \in deployed : t \in DOMAIN mine'[p] => CopyFrom(mine'[p][t].tags, t)
<1>0. AutoTypeOK /\ TxShape /\ TxRows /\ TxCandidates /\ TxNotes
  BY DEF AutoInv
<1>a. /\ deployed \subseteq Processes
      /\ autoTicket \in [AutoTickets -> AutoRows]
      /\ autoRule \in [Processes -> 0..Len(AutoRules)]
      /\ candidates \in [Processes -> SUBSET CandidateRecords]
      /\ mine = [p \in Processes |-> mine[p]]
      /\ \A p \in Processes : \A y \in DOMAIN mine[p] : mine[p][y] \in AutoRows
      /\ \A row \in AutoRows : row.tags \in Nat
  BY AutoTyped
<1>b. ASSUME Stale(t)' \subseteq Stale(t), deployed' = deployed,
             autoTicket'[t].tags <= 1 \/ autoTicket'[t] = autoTicket[t]
               \/ \E p \in deployed : t \in DOMAIN mine[p] /\ autoTicket'[t] = mine[p][t],
             \A p \in deployed : t \in DOMAIN mine'[p] => t \in DOMAIN mine[p] /\ mine'[p][t] = mine[p][t]
      PROVE  /\ CopyFrom(autoTicket'[t].tags, t)
             /\ \A p \in deployed : t \in DOMAIN mine'[p] => CopyFrom(mine'[p][t].tags, t)
  BY <1>b DEF CopyFrom
<1>1. CASE AutoTick \/ UNCHANGED avars
  <2>1. UNCHANGED <<deployed, autoTicket, candidates, mine>>
    BY <1>1 DEF AutoTick, ClockTick, avars, autoVars, autoStored, autoTxVars, environment
  <2>2. Stale(t)' = Stale(t)
    BY <2>1 DEF Stale
  <2> QED
    BY <1>b, <2>1, <2>2
<1>2. ASSUME NEW y \in AutoTickets, AgentEdits(y)
      PROVE  /\ deployed' = deployed
             /\ CopyFrom(autoTicket'[t].tags, t)
             /\ \A p \in deployed : t \in DOMAIN mine'[p] => CopyFrom(mine'[p][t].tags, t)
  <2>1. UNCHANGED <<deployed, candidates, mine>>
    BY <1>2 DEF AgentEdits, autoTxVars, environment
  <2>2. Stale(t)' = Stale(t)
    BY <2>1 DEF Stale
  <2>3. autoTicket'[t].tags = autoTicket[t].tags \/ autoTicket'[t].tags <= 1
    <3>1. autoTicket[t] \in AutoRows /\ autoTicket[y] \in AutoRows
      BY <1>a
    <3>2. CASE \E s \in AutoStatus :
                 autoTicket' = [autoTicket EXCEPT ![y].status = s, ![y].resolvedAt = s \in Closing]
      <4>1. PICK s \in AutoStatus, b \in BOOLEAN :
              autoTicket' = [autoTicket EXCEPT ![y].status = s, ![y].resolvedAt = b]
        <5>1. PICK s \in AutoStatus :
                autoTicket' = [autoTicket EXCEPT ![y].status = s, ![y].resolvedAt = s \in Closing]
          BY <3>2
        <5>2. PICK b \in BOOLEAN : b = (s \in Closing)
          <6>1. (s \in Closing) \in BOOLEAN
            OBVIOUS
          <6> QED
            BY <6>1, Zenon
        <5> QED
          BY <5>1, <5>2, Zenon
      <4> QED
        BY <1>a, <3>1, <4>1 DEF AutoRows
    <3>3. CASE \E n \in {0, 1} : autoTicket' = [autoTicket EXCEPT ![y].tags = n]
      BY <1>a, <3>1, <3>3 DEF AutoRows
    <3> QED
      BY <1>2, <3>2, <3>3 DEF AgentEdits
  <2> QED
    BY <2>1, <2>2, <2>3 DEF CopyFrom
<1>3. ASSUME NEW p \in deployed, NextRule(p)
      PROVE  /\ deployed' = deployed
             /\ CopyFrom(autoTicket'[t].tags, t)
             /\ \A q \in deployed : t \in DOMAIN mine'[q] => CopyFrom(mine'[q][t].tags, t)
  <2>1. /\ UNCHANGED <<deployed, autoTicket, mine>>
        /\ candidates' = [candidates EXCEPT ![p] = CandidateRows(p, autoRule[p] + 1)]
    BY <1>3 DEF NextRule, environment, autoStored
  <2>2. CASE Row(p, t).tags = 0
    <3>1. autoTicket[t].tags = 0
      BY <1>a, <2>2, RowRead
    <3>2. \A q \in deployed : t \in DOMAIN mine[q] => mine[q][t].tags <= 1
      BY <1>0, <1>a, <3>1, SMTT(40) DEF TxRows
    <3> QED
      BY <2>1, <3>1, <3>2 DEF CopyFrom
  <2>3. CASE Row(p, t).tags # 0
    <3>1. \A c \in candidates'[p] : c.ticket = t => c.row.tags # 0
      BY <1>a, <2>1, <2>3 DEF CandidateRows
    <3>2. \A q \in deployed : q # p => candidates'[q] = candidates[q]
      BY <1>a, <2>1
    <3>3. Stale(t)' \subseteq Stale(t)
      BY <2>1, <3>1, <3>2 DEF Stale
    <3> QED
      BY <1>b, <2>1, <3>3
  <2> QED
    BY <2>2, <2>3
<1>4. ASSUME NEW p \in deployed, ApplyRule(p)
      PROVE  /\ deployed' = deployed
             /\ CopyFrom(autoTicket'[t].tags, t)
             /\ \A q \in deployed : t \in DOMAIN mine'[q] => CopyFrom(mine'[q][t].tags, t)
  <2>1. PICK c \in candidates[p], x \in AutoRows : ActsOn(p, c, x) /\ c.ticket \in AutoTickets
    BY <1>4, <1>a, RuleActs
  <2>2. UNCHANGED <<deployed, autoTicket>>
    BY <1>4 DEF ApplyRule, environment, autoStored
  <2>3. /\ \A q \in deployed : candidates'[q] \subseteq candidates[q]
        /\ candidates'[p] = candidates[p] \ {c}
    BY <1>a, <2>1 DEF ActsOn
  <2>4. Stale(t)' \subseteq Stale(t)
    BY <2>2, <2>3 DEF Stale
  <2>5. CASE \A q \in deployed : t \in DOMAIN mine'[q] => t \in DOMAIN mine[q] /\ mine'[q][t] = mine[q][t]
    BY <1>b, <2>2, <2>4, <2>5
  <2>6. CASE /\ c.ticket = t /\ t \in DOMAIN mine'[p] /\ mine'[p][t] = x
             /\ \A q \in deployed : q # p => mine'[q] = mine[q]
    <3>1. CopyFrom(autoTicket'[t].tags, t)
      BY <2>2, <2>4 DEF CopyFrom
    <3>2. \A q \in deployed : q # p /\ t \in DOMAIN mine'[q] => CopyFrom(mine'[q][t].tags, t)
      BY <2>4, <2>6 DEF CopyFrom
    <3>3. CASE x.tags = Row(p, t).tags
      <4>1. CopyFrom(x.tags, t)
        BY <2>4, <3>3 DEF CopyFrom, Row
      <4> QED
        BY <2>2, <2>6, <3>1, <3>2, <4>1
    <3>4. CASE x.tags = Row(p, t).tags + 1 /\ c.row.tags = 0
      <4>1. p \in Stale(t)
        BY <2>1, <2>6, <3>4 DEF Stale
      <4>2. \A d \in candidates'[p] : d.ticket # t
        BY <1>0, <1>a, <2>1, <2>3, <2>6 DEF TxCandidates
      <4>3. Stale(t)' \subseteq Stale(t) \ {p}
        BY <2>2, <2>4, <4>2 DEF Stale
      <4>4. CopyFrom(x.tags, t)
        BY <3>4, <4>1, <4>3 DEF CopyFrom
      <4> QED
        BY <2>2, <2>6, <3>1, <3>2, <4>4
    <3>5. CASE x.tags = Row(p, t).tags + 1 /\ Row(p, t).tags = 0
      <4>1. CopyFrom(x.tags, t)
        BY <3>5 DEF CopyFrom
      <4> QED
        BY <2>2, <2>6, <3>1, <3>2, <4>1
    <3> QED
      BY <2>1, <2>6, <3>3, <3>4, <3>5 DEF ActsOn, TagAtMostOnce
  <2>7. \/ mine' = mine
        \/ /\ \A q \in deployed : q # p => mine'[q] = mine[q]
           /\ mine'[p] = [y \in DOMAIN mine[p] \cup {c.ticket} |-> IF y = c.ticket THEN x ELSE mine[p][y]]
    <3>1. CASE mine' = mine
      BY <3>1
    <3>2. CASE mine' = [mine EXCEPT ![p] = [y \in DOMAIN mine[p] \cup {c.ticket} |->
                                          IF y = c.ticket THEN x ELSE mine[p][y]]]
      <4>1. PICK M : M = [y \in DOMAIN mine[p] \cup {c.ticket} |-> IF y = c.ticket THEN x ELSE mine[p][y]]
        OBVIOUS
      <4>2. mine' = [mine EXCEPT ![p] = M]
        BY <3>2, <4>1
      <4> QED
        BY <1>a, <4>1, <4>2
    <3> QED
      BY <2>1, <3>1, <3>2 DEF ActsOn
  <2> QED
    BY <2>5, <2>6, <2>7
<1>5. ASSUME NEW p \in deployed, EndTx(p), deployed' = deployed
      PROVE  /\ Stale(t)' \subseteq Stale(t)
             /\ \A q \in deployed : t \in DOMAIN mine'[q] => t \in DOMAIN mine[q] /\ mine'[q][t] = mine[q][t]
  <2>1. /\ \A q \in deployed :
             /\ candidates'[q] = (IF q = p THEN {} ELSE candidates[q])
             /\ mine'[q] = (IF q = p THEN NoRows ELSE mine[q])
        /\ DOMAIN NoRows = {}
    BY <1>a, <1>5, TxEnds
  <2>2. Stale(t)' \subseteq Stale(t)
    BY <1>5, <2>1 DEF Stale
  <2> QED
    BY <2>1, <2>2
<1>6. ASSUME NEW p \in deployed, AutoCommit(p) \/ AutoDeadlock(p) \/ AutoAbort(p)
      PROVE  /\ deployed' = deployed
             /\ CopyFrom(autoTicket'[t].tags, t)
             /\ \A q \in deployed : t \in DOMAIN mine'[q] => CopyFrom(mine'[q][t].tags, t)
  <2>1. EndTx(p) /\ deployed' = deployed
    BY <1>6 DEF AutoCommit, AutoDeadlock, AutoAbort, Fault, environment
  <2>2. autoTicket'[t] = autoTicket[t] \/ \E q \in deployed : t \in DOMAIN mine[q] /\ autoTicket'[t] = mine[q][t]
    <3>1. CASE AutoCommit(p)
      <4>1. autoTicket'[t] = Row(p, t)
        BY <3>1 DEF AutoCommit
      <4> QED
        BY <4>1 DEF Row
    <3>2. CASE AutoDeadlock(p) \/ AutoAbort(p)
      BY <3>2 DEF AutoDeadlock, AutoAbort, autoStored
    <3> QED
      BY <1>6, <3>1, <3>2
  <2>3. /\ Stale(t)' \subseteq Stale(t)
        /\ \A q \in deployed : t \in DOMAIN mine'[q] => t \in DOMAIN mine[q] /\ mine'[q][t] = mine[q][t]
    BY <1>5, <2>1
  <2> QED
    BY <1>b, <2>1, <2>2, <2>3
<1> QED
  BY <1>1, <1>2, <1>3, <1>4, <1>6 DEF AutoNext, AutoSweep

LEMMA CopiesCountedStep == AutoInv /\ CopiesCounted /\ [AutoNext]_avars => CopiesCounted'
<1> SUFFICES ASSUME AutoInv, CopiesCounted, [AutoNext]_avars, NEW t \in AutoTickets
             PROVE  (/\ CopiesFit(autoTicket[t].tags, t)
                     /\ \A p \in deployed : t \in DOMAIN mine[p] => CopiesFit(mine[p][t].tags, t))'
  BY DEF CopiesCounted
<1>1. /\ deployed' = deployed
      /\ CopyFrom(autoTicket'[t].tags, t)
      /\ \A p \in deployed : t \in DOMAIN mine'[p] => CopyFrom(mine'[p][t].tags, t)
  BY CopiesStep
<1>2. AutoInv'
  BY AutoNextInv
<1>3. /\ autoTicket'[t].tags \in Nat
      /\ \A p \in deployed : t \in DOMAIN mine'[p] => mine'[p][t].tags \in Nat
  <2>1. /\ deployed' \subseteq Processes
        /\ autoTicket'[t] \in AutoRows
        /\ \A p \in Processes : \A y \in DOMAIN mine'[p] : mine'[p][y] \in AutoRows
    BY <1>2 DEF AutoInv, AutoTypeOK, EnvTypeOK
  <2>2. \A row \in AutoRows : row.tags \in Nat
    BY DEF AutoRows
  <2> QED
    BY <1>1, <2>1, <2>2
<1>4. ASSUME NEW n \in Nat, CopyFrom(n, t)
      PROVE  n <= 1 \/ n + Cardinality(Stale(t)') <= Cardinality(deployed') + 1
  BY <1>1, <1>4, CopyFromFits
<1> QED
  BY <1>1, <1>3, <1>4 DEF CopiesFit

(* add_tag "keeps tags a set" but for the copies that concurrent writers   *)
(* add between a sweep's SELECT and its array_append: one per process.     *)
THEOREM TagCopiesBounded == AutoSpec => []TagCopiesAreBounded
<1>1. AutoInit => AutoInv /\ CopiesCounted
  BY AutoInitInv DEF AutoInit, CopiesCounted, CopiesFit, NoRows, AutoInv, AutoTypeOK, EnvTypeOK
<1>2. (AutoInv /\ CopiesCounted) /\ [AutoNext]_<<environment, autoVars>> => (AutoInv /\ CopiesCounted)'
  BY AutoNextInv, CopiesCountedStep DEF avars
<1>3. AutoInv /\ CopiesCounted => TagCopiesAreBounded
  <2> SUFFICES ASSUME AutoInv, CopiesCounted, NEW t \in AutoTickets
               PROVE  autoTicket[t].tags <= Cardinality(deployed) + 1
    BY DEF TagCopiesAreBounded
  <2>1. IsFiniteSet(deployed) /\ autoTicket[t].tags \in Nat
    BY AutoTyped, EnvironmentAssumption, FS_Subset
  <2>2. Cardinality(Stale(t)) \in Nat /\ Cardinality(deployed) \in Nat
    BY <2>1, SmallerSet DEF Stale
  <2> QED
    BY <2>1, <2>2 DEF CopiesCounted, CopiesFit
<1> QED
  BY <1>1, <1>2, <1>3, PTL DEF AutoSpec


(* The four together: a tenant's rules act in turn in one transaction.     *)
THEOREM RulesInTurn == AutoSpec => []RulesActInTurn
BY AppliedActed, LaterRulesSee, RuleFiresBounded, TagCopiesBounded, PTL DEF RulesActInTurn

(* Whoever writes a ticket's status, resolved_at agrees with it.           *)
THEOREM ResolvedAtAlwaysRight == Spec /\ AutoSpec => []ResolvedAtIsRight
BY ResolvedAtRight, AutoResolvedAtRight, PTL DEF ResolvedAtIsRight

=============================================================================
