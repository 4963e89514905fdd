------------------------- MODULE BusinessHoursProofs -------------------------
(***************************************************************************)
(* What BusinessHours keeps for every tenant's hours, every zone, every    *)
(* anchor and every target.                                                *)
(*                                                                         *)
(* Products are kept behind names: the leaves are linear.  The argument:   *)
(*   - a reading of the clock that exists once is converted exactly, so    *)
(*     every window a quiet switch leaves alone lasts as long in time as   *)
(*     on the clock (CalmConverts, WindowLasts);                           *)
(*   - whole days from local noon reach every later day (NoonSteps), so    *)
(*     nothing is worked between a cursor and the next (NextDayIsNext,     *)
(*     IdleUntil, NothingBetween);                                         *)
(*   - hence the loop has passed, up to its cursor, exactly the working    *)
(*     minutes that no longer remain (HoursInv).                           *)
(***************************************************************************)
EXTENDS BusinessHours, FiniteSetTheorems, TLAPS

-----------------------------------------------------------------------------
(* Integers and the parts of an instant *)

LEMMA MulStep ==
  ASSUME NEW n \in Nat, n > 0, NEW a \in Int, NEW b \in Int, a < b
  PROVE  a * n + n <= b * n
<1>1. b - a - 1 \in Nat
  OBVIOUS
<1>2. (b - a - 1) * n \in Nat
  BY <1>1
<1>3. (b - a - 1) * n = b * n - a * n - n
  OBVIOUS
<1> QED
  BY <1>2, <1>3

LEMMA DivMod ==
  ASSUME NEW n \in Nat, n > 0, NEW x \in Int
  PROVE  /\ x \div n \in Int /\ x % n \in Int
         /\ x = (x \div n) * n + (x % n)
         /\ 0 <= x % n /\ x % n < n
OBVIOUS

LEMMA DivUnique ==
  ASSUME NEW n \in Nat, n > 0, NEW x \in Int, NEW q \in Int,
         q * n <= x, x < q * n + n
  PROVE  x \div n = q /\ x % n = x - q * n
<1> DEFINE p == x \div n
<1>1. p \in Int /\ x % n \in Int /\ x = p * n + (x % n) /\ 0 <= x % n /\ x % n < n
  BY DivMod
<1> HIDE DEF p
<1>2. ~(p < q)
  <2> SUFFICES ASSUME p < q PROVE FALSE
    OBVIOUS
  <2>1. p * n + n <= q * n
    BY <1>1, MulStep
  <2> QED
    BY <1>1, <2>1
<1>3. ~(q < p)
  <2> SUFFICES ASSUME q < p PROVE FALSE
    OBVIOUS
  <2>1. q * n + n <= p * n
    BY <1>1, MulStep
  <2> QED
    BY <1>1, <2>1
<1>4. p = q
  BY <1>1, <1>2, <1>3
<1> QED
  BY <1>1, <1>4 DEF p

HoursSet == [start : 0..DayLen, end : 0..DayLen, days : SUBSET (0..6)]

(* The clock's reading at a minute of a day *)
LocalAt(day, minute) == day * DayTicks + minute * MinuteLen

LEMMA LengthsPositive ==
  /\ MinuteLen \in Nat /\ MinuteLen > 0
  /\ DayLen \in Nat /\ DayLen > 0
  /\ DayTicks \in Nat /\ DayTicks > 0 /\ DayTicks = DayLen * MinuteLen
<1>1. MinuteLen \in Nat /\ MinuteLen > 0 /\ DayLen \in Nat /\ DayLen > 0
  BY HoursAssumption
<1>2. 0 * MinuteLen + MinuteLen <= DayLen * MinuteLen
  BY <1>1, MulStep
<1> QED
  BY <1>1, <1>2 DEF DayTicks

(* A reading has one day and one minute *)
LEMMA PartsOf ==
  ASSUME NEW day \in Int, NEW minute \in 0..(DayLen - 1), NEW s \in 0..(MinuteLen - 1),
         NEW x \in Int, x = LocalAt(day, minute) + s
  PROVE  x \div DayTicks = day /\ (x % DayTicks) \div MinuteLen = minute
<1> USE LengthsPositive
<1> DEFINE y == minute * MinuteLen + s
<1>1. minute * MinuteLen + MinuteLen <= DayLen * MinuteLen
  BY MulStep
<1>2. minute * MinuteLen \in Nat
  OBVIOUS
<1>3. y \in Int /\ 0 <= y /\ y < DayTicks
  BY <1>1, <1>2
<1>4. x = day * DayTicks + y /\ day * DayTicks \in Int
  BY DEF LocalAt
<1> HIDE DEF y
<1>5. x \div DayTicks = day /\ x % DayTicks = x - day * DayTicks
  BY <1>3, <1>4, DivUnique
<1>6. x % DayTicks = y
  <2> DEFINE dd == day * DayTicks
  <2>1. x = dd + y /\ dd \in Int /\ x % DayTicks = x - dd
    BY <1>4, <1>5
  <2> HIDE DEF dd
  <2> QED
    BY <1>3, <2>1
<1>7. y \div MinuteLen = minute
  <2>1. minute * MinuteLen <= y /\ y < minute * MinuteLen + MinuteLen
    BY <1>2 DEF y
  <2> QED
    BY <1>3, <2>1, DivUnique
<1> QED
  BY <1>5, <1>6, <1>7

LEMMA HasParts ==
  ASSUME NEW x \in Int
  PROVE  \E day \in Int, minute \in 0..(DayLen - 1), s \in 0..(MinuteLen - 1) :
           /\ x = LocalAt(day, minute) + s
           /\ x \div DayTicks = day /\ (x % DayTicks) \div MinuteLen = minute
           /\ s = x % MinuteLen
<1> USE LengthsPositive
<1> DEFINE day == x \div DayTicks
           y == x % DayTicks
           minute == y \div MinuteLen
           s == y % MinuteLen
<1>1. day \in Int /\ y \in Int /\ x = day * DayTicks + y /\ 0 <= y /\ y < DayTicks
  BY DivMod
<1> HIDE DEF day, y
<1>2. minute \in Int /\ s \in Int /\ y = minute * MinuteLen + s /\ 0 <= s /\ s < MinuteLen
  BY <1>1, DivMod
<1> HIDE DEF minute, s
<1>3. ~(minute < 0)
  <2> SUFFICES ASSUME minute < 0 PROVE FALSE
    OBVIOUS
  <2>1. minute * MinuteLen + MinuteLen <= 0 * MinuteLen
    BY <1>2, MulStep
  <2> QED
    BY <1>1, <1>2, <2>1
<1>4. ~(DayLen <= minute)
  <2> SUFFICES ASSUME DayLen <= minute PROVE FALSE
    OBVIOUS
  <2>1. DayLen * MinuteLen <= minute * MinuteLen
    <3>1. CASE DayLen = minute
      BY <3>1
    <3>2. CASE DayLen < minute
      <4>1. DayLen * MinuteLen + MinuteLen <= minute * MinuteLen
        BY <3>2, <1>2, MulStep
      <4> QED
        BY <4>1, <1>2
    <3> QED
      BY <3>1, <3>2, <1>2
  <2> QED
    BY <1>1, <1>2, <2>1
<1>5. minute \in 0..(DayLen - 1) /\ s \in 0..(MinuteLen - 1)
  BY <1>2, <1>3, <1>4
<1>6. x = LocalAt(day, minute) + s
  BY <1>1, <1>2 DEF LocalAt
<1>7. s = x % MinuteLen
  <2> DEFINE w == day * DayLen + minute
  <2>1. w \in Int /\ x = w * MinuteLen + s
    <3>1. day * DayTicks = (day * DayLen) * MinuteLen
      BY <1>1
    <3>2. w * MinuteLen = (day * DayLen) * MinuteLen + minute * MinuteLen
      BY <1>1, <1>2
    <3> QED
      BY <1>1, <1>2, <3>1, <3>2
  <2> HIDE DEF w
  <2>2. x % MinuteLen = x - w * MinuteLen
    <3>1. w * MinuteLen <= x /\ x < w * MinuteLen + MinuteLen
      BY <2>1, <1>2
    <3> QED
      BY <2>1, <3>1, DivUnique
  <2> QED
    BY <1>2, <2>1, <2>2
<1> QED
  BY <1>1, <1>5, <1>6, <1>7 DEF day, y, minute

(* Days lie one after the other *)
LEMMA MinutesOrdered ==
  ASSUME NEW day \in Int, NEW a \in Int, NEW b \in Int
  PROVE  /\ LocalAt(day, a) \in Int
         /\ LocalAt(day, b) - LocalAt(day, a) = (b - a) * MinuteLen
         /\ a <= b => LocalAt(day, a) <= LocalAt(day, b)
         /\ a < b => LocalAt(day, a) + MinuteLen <= LocalAt(day, b)
<1> USE LengthsPositive
<1>1. a * MinuteLen \in Int /\ b * MinuteLen \in Int /\ day * DayTicks \in Int
  OBVIOUS
<1>2. (b - a) * MinuteLen = b * MinuteLen - a * MinuteLen
  OBVIOUS
<1>3. a < b => a * MinuteLen + MinuteLen <= b * MinuteLen
  BY MulStep
<1>4. a = b => a * MinuteLen = b * MinuteLen
  OBVIOUS
<1> QED
  BY <1>1, <1>2, <1>3, <1>4 DEF LocalAt

LEMMA DaysOrdered ==
  ASSUME NEW d \in Int, NEW e \in Int, d < e, NEW a \in 0..DayLen, NEW b \in 0..DayLen
  PROVE  LocalAt(d, a) <= LocalAt(e, b)
<1> USE LengthsPositive
<1>1. d * DayTicks + DayTicks <= e * DayTicks
  BY MulStep
<1>2. LocalAt(d, a) <= LocalAt(d, DayLen)
  BY MinutesOrdered
<1>3. LocalAt(e, 0) <= LocalAt(e, b)
  BY MinutesOrdered
<1>4. LocalAt(d, DayLen) = d * DayTicks + DayTicks /\ LocalAt(e, 0) = e * DayTicks
  BY DEF LocalAt
<1>5. LocalAt(d, a) \in Int /\ LocalAt(e, b) \in Int /\ d * DayTicks \in Int /\ e * DayTicks \in Int
  BY MinutesOrdered
<1> QED
  BY <1>1, <1>2, <1>3, <1>4, <1>5

(* Working time is the windows of the working days *)
LEMMA WindowIsWorking ==
  ASSUME NEW h \in HoursSet, NEW d \in Int, Weekday(d) \in h.days, NEW x \in Int,
         LocalAt(d, h.start) <= x, x < LocalAt(d, h.end)
  PROVE  WorkingAt(x, h)
<1> USE LengthsPositive
<1>0. h.start \in 0..DayLen /\ h.end \in 0..DayLen /\ h.start \in Int /\ h.end \in Int
  BY DEF HoursSet
<1>1. PICK day \in Int, minute \in 0..(DayLen - 1), s \in 0..(MinuteLen - 1) :
        /\ x = LocalAt(day, minute) + s
        /\ x \div DayTicks = day /\ (x % DayTicks) \div MinuteLen = minute
  BY HasParts
<1>m. minute \in Int /\ s \in Int /\ 0 <= minute /\ minute < DayLen /\ 0 <= s /\ s < MinuteLen
  OBVIOUS
<1>2. LocalAt(day, minute) \in Int /\ LocalAt(d, h.end) \in Int /\ LocalAt(d, h.start) \in Int
      /\ LocalAt(day, minute + 1) \in Int
      /\ LocalAt(day, minute + 1) = LocalAt(day, minute) + MinuteLen
  BY <1>0, MinutesOrdered DEF LocalAt
<1>3. ~(d < day)
  <2> SUFFICES ASSUME d < day PROVE FALSE
    OBVIOUS
  <2>1. LocalAt(d, h.end) <= LocalAt(day, minute)
    BY <1>0, DaysOrdered
  <2> QED
    BY <1>1, <1>2, <2>1
<1>4. ~(day < d)
  <2> SUFFICES ASSUME day < d PROVE FALSE
    OBVIOUS
  <2>1. LocalAt(day, minute + 1) <= LocalAt(d, h.start)
    BY <1>0, DaysOrdered
  <2> QED
    BY <1>1, <1>2, <2>1
<1>5. day = d
  BY <1>3, <1>4
<1>6. ~(minute < h.start)
  <2> SUFFICES ASSUME minute < h.start PROVE FALSE
    OBVIOUS
  <2>1. LocalAt(d, minute) + MinuteLen <= LocalAt(d, h.start)
    BY <1>0, <1>m, MinutesOrdered
  <2> QED
    BY <1>1, <1>2, <1>5, <2>1
<1>7. ~(h.end <= minute)
  <2> SUFFICES ASSUME h.end <= minute PROVE FALSE
    OBVIOUS
  <2>1. LocalAt(d, h.end) <= LocalAt(d, minute)
    BY <1>0, <1>m, MinutesOrdered
  <2> QED
    BY <1>1, <1>2, <1>5, <2>1
<1>8. minute \in h.start..(h.end - 1)
  BY <1>0, <1>6, <1>7
<1> QED
  BY <1>1, <1>5, <1>8 DEF WorkingAt

LEMMA WorkingIsWindow ==
  ASSUME NEW h \in HoursSet, NEW x \in Int, WorkingAt(x, h)
  PROVE  \E d \in Int : /\ Weekday(d) \in h.days
                        /\ LocalAt(d, h.start) <= x /\ x < LocalAt(d, h.end)
<1> USE LengthsPositive
<1>0. h.start \in 0..DayLen /\ h.end \in 0..DayLen /\ h.start \in Int /\ h.end \in Int
  BY DEF HoursSet
<1>1. PICK day \in Int, minute \in 0..(DayLen - 1), s \in 0..(MinuteLen - 1) :
        /\ x = LocalAt(day, minute) + s
        /\ x \div DayTicks = day /\ (x % DayTicks) \div MinuteLen = minute
  BY HasParts
<1>m. minute \in Int /\ s \in Int /\ 0 <= minute /\ minute < DayLen /\ 0 <= s /\ s < MinuteLen
  OBVIOUS
<1>2. Weekday(day) \in h.days /\ h.start <= minute /\ minute < h.end
  BY <1>0, <1>1 DEF WorkingAt
<1>3. LocalAt(day, h.start) <= LocalAt(day, minute)
  BY <1>0, <1>m, <1>2, MinutesOrdered
<1>4. LocalAt(day, minute) + MinuteLen <= LocalAt(day, h.end)
  BY <1>0, <1>m, <1>2, MinutesOrdered
<1>5. LocalAt(day, h.start) \in Int /\ LocalAt(day, minute) \in Int /\ LocalAt(day, h.end) \in Int
  BY <1>0, <1>m, MinutesOrdered
<1>6. LocalAt(day, h.start) <= x /\ x < LocalAt(day, h.end)
  BY <1>1, <1>3, <1>4, <1>5
<1> QED
  BY <1>2, <1>6

-----------------------------------------------------------------------------
(* What the clock shows at the switch, by the old and by the new offset *)
OldAt(z) == z.switch + MinuteLen * z.before
NewAt(z) == z.switch + MinuteLen * z.after

(* Readings that exist once *)
Calm(x, z) == (x < OldAt(z) /\ x < NewAt(z)) \/ (x >= OldAt(z) /\ x >= NewAt(z))

LEMMA ZoneNumbers ==
  ASSUME NEW z \in Zones
  PROVE  /\ z.switch \in Int /\ z.before \in Int /\ z.after \in Int
         /\ MinuteLen * z.before \in Int /\ MinuteLen * z.after \in Int
         /\ OldAt(z) \in Int /\ NewAt(z) \in Int
         /\ \A t \in Int : Local(t, z) = IF t < z.switch THEN t + MinuteLen * z.before
                                                         ELSE t + MinuteLen * z.after
<1>1. z.switch \in Int /\ z.before \in Int /\ z.after \in Int
  BY HoursAssumption
<1>2. MinuteLen * z.before \in Int /\ MinuteLen * z.after \in Int
  BY <1>1, LengthsPositive
<1> QED
  BY <1>1, <1>2 DEF OldAt, NewAt, Local

(* Such a reading is converted to the only instant that has it, and the    *)
(* clock shows earlier readings before and later ones after that instant.  *)
LEMMA CalmConverts ==
  ASSUME NEW z \in Zones, NEW day \in Int, NEW minute \in Int, Calm(LocalAt(day, minute), z)
  PROVE  LET x == LocalAt(day, minute)
             u == ZonedTimeToUtc(day, minute, z)
         IN  /\ u \in Int
             /\ u = IF x < OldAt(z) THEN x - MinuteLen * z.before ELSE x - MinuteLen * z.after
             /\ \A t \in Int : /\ Local(t, z) < x <=> t < u
                               /\ Local(t, z) = x <=> t = u
<1> DEFINE x == LocalAt(day, minute)
           u == ZonedTimeToUtc(day, minute, z)
           a == MinuteLen * z.before
           b == MinuteLen * z.after
           w == z.switch
           first == x - (Local(x, z) - x)
<1>1. /\ a \in Int /\ b \in Int /\ w \in Int /\ x \in Int
      /\ \A t \in Int : Local(t, z) = IF t < w THEN t + a ELSE t + b
  BY ZoneNumbers, MinutesOrdered
<1>2. (x < w + a /\ x < w + b) \/ (x >= w + a /\ x >= w + b)
  BY DEF Calm, OldAt, NewAt
<1>3. u = x - (Local(first, z) - first)
  BY DEF ZonedTimeToUtc, LocalAt
<1>4. OldAt(z) = w + a
  BY DEF OldAt
<1> HIDE DEF x, u, a, b, w
<1>5. first = IF x < w THEN x - a ELSE x - b
  BY <1>1
<1> HIDE DEF first
<1>6. u = IF first < w THEN x - a ELSE x - b
  BY <1>1, <1>3, <1>5
<1>7. u = IF x < w + a THEN x - a ELSE x - b
  BY <1>1, <1>2, <1>5, <1>6
<1>8. u \in Int /\ \A t \in Int : (Local(t, z) < x <=> t < u) /\ (Local(t, z) = x <=> t = u)
  BY <1>1, <1>2, <1>7
<1>9. u = IF x < OldAt(z) THEN x - a ELSE x - b
  BY <1>4, <1>7
<1> QED
  BY <1>8, <1>9 DEF x, u, a, b

LEMMA CalmOrder ==
  ASSUME NEW z \in Zones, NEW s \in Int, NEW t \in Int, s <= t, Calm(Local(t, z), z)
  PROVE  Local(s, z) <= Local(t, z)
<1> DEFINE a == MinuteLen * z.before
           b == MinuteLen * z.after
           w == z.switch
<1>1. /\ a \in Int /\ b \in Int /\ w \in Int
      /\ Local(t, z) = IF t < w THEN t + a ELSE t + b
      /\ Local(s, z) = IF s < w THEN s + a ELSE s + b
  BY ZoneNumbers
<1>2. (Local(t, z) < w + a /\ Local(t, z) < w + b) \/ (Local(t, z) >= w + a /\ Local(t, z) >= w + b)
  BY DEF Calm, OldAt, NewAt
<1> HIDE DEF a, b, w
<1> QED
  BY <1>1, <1>2

(* Working time is calm when the switch is quiet *)
LEMMA WorkIsCalm ==
  ASSUME NEW z \in Zones, NEW h \in HourConfigs, QuietSwitch(h, z),
         NEW x \in Int, WorkingAt(x, h)
  PROVE  Calm(x, z) /\ Calm(x + 1, z)
<1> DEFINE old == OldAt(z)
           new == NewAt(z)
<1>1. old \in Int /\ new \in Int
  BY ZoneNumbers
<1>2. old # new => x \notin (old - 1)..(new - 1) /\ x \notin (new - 1)..(old - 1)
  BY DEF QuietSwitch, OldAt, NewAt
<1> HIDE DEF old, new
<1>3. /\ (x < old /\ x < new) \/ (x >= old /\ x >= new)
      /\ (x + 1 < old /\ x + 1 < new) \/ (x + 1 >= old /\ x + 1 >= new)
  BY <1>1, <1>2
<1> QED
  BY <1>3 DEF Calm, old, new

(* Where the clock shows no working time between, there is none. *)
LEMMA NothingBetween ==
  ASSUME NEW z \in Zones, NEW h \in HourConfigs, QuietSwitch(h, z),
         NEW from \in Int, NEW day \in Int, NEW minute \in Int,
         Calm(LocalAt(day, minute), z), Local(from, z) <= LocalAt(day, minute),
         \A y \in Int : Local(from, z) <= y /\ y < LocalAt(day, minute) => ~WorkingAt(y, h)
  PROVE  LET u == ZonedTimeToUtc(day, minute, z)
         IN  /\ u \in Int /\ from <= u
             /\ \A t \in Int : from <= t /\ t < u => ~Working(t, h, z)
<1> DEFINE x == LocalAt(day, minute)
           u == ZonedTimeToUtc(day, minute, z)
<1>1. /\ u \in Int /\ x \in Int
      /\ \A t \in Int : (Local(t, z) < x <=> t < u) /\ (Local(t, z) = x <=> t = u)
  BY CalmConverts, MinutesOrdered
<1>2. \A t \in Int : Local(t, z) \in Int
  BY ZoneNumbers
<1> HIDE DEF u
<1>3. from <= u
  BY <1>1, <1>2
<1>4. ASSUME NEW t \in Int, from <= t, t < u, Working(t, h, z)
      PROVE  FALSE
  <2>1. WorkingAt(Local(t, z), h)
    BY <1>4 DEF Working
  <2>2. Calm(Local(t, z), z)
    BY <1>2, <2>1, WorkIsCalm
  <2>3. Local(from, z) <= Local(t, z)
    BY <1>4, <2>2, CalmOrder
  <2>4. Local(t, z) < x
    BY <1>1, <1>4
  <2> QED
    BY <1>2, <2>1, <2>3, <2>4
<1> QED
  BY <1>1, <1>3, <1>4 DEF u

(* Minutes of a working day's window last as long on the clock as in time. *)
LEMMA WindowLasts ==
  ASSUME NEW z \in Zones, NEW h \in HourConfigs, QuietSwitch(h, z),
         NEW day \in Int, Weekday(day) \in h.days,
         NEW m \in h.start..h.end, NEW n \in h.start..h.end, m < n
  PROVE  LET u == ZonedTimeToUtc(day, m, z)
             v == ZonedTimeToUtc(day, n, z)
         IN  /\ Calm(LocalAt(day, m), z) /\ Calm(LocalAt(day, n), z)
             /\ u \in Int /\ v \in Int /\ v - u = (n - m) * MinuteLen
             /\ \A t \in Int : u <= t /\ t < v => Working(t, h, z)
<1> DEFINE x == LocalAt(day, m)
           y == LocalAt(day, n)
           u == ZonedTimeToUtc(day, m, z)
           v == ZonedTimeToUtc(day, n, z)
           old == OldAt(z)
           new == NewAt(z)
           a == MinuteLen * z.before
           b == MinuteLen * z.after
<1>a. h \in HoursSet /\ h.start \in Int /\ h.end \in Int
  BY HoursAssumption DEF HoursSet
<1>0. h \in HoursSet /\ h.start \in Int /\ h.end \in Int /\ m \in Int /\ n \in Int
      /\ h.start <= m /\ n <= h.end
  BY <1>a
<1>1. /\ x \in Int /\ y \in Int /\ x < y /\ y - x = (n - m) * MinuteLen
      /\ LocalAt(day, h.start) <= x /\ y <= LocalAt(day, h.end)
      /\ LocalAt(day, h.start) \in Int /\ LocalAt(day, h.end) \in Int
  <2>1. x \in Int /\ y \in Int /\ y - x = (n - m) * MinuteLen /\ x + MinuteLen <= y
    BY <1>0, MinutesOrdered
  <2>2. LocalAt(day, h.start) <= x /\ LocalAt(day, h.start) \in Int
    BY <1>0, MinutesOrdered
  <2>3. y <= LocalAt(day, h.end) /\ LocalAt(day, h.end) \in Int
    BY <1>0, MinutesOrdered
  <2> HIDE DEF x, y
  <2> QED
    BY <2>1, <2>2, <2>3, LengthsPositive
<1> HIDE DEF x, y
<1>2. ASSUME NEW k \in Int, x <= k, k < y
      PROVE  WorkingAt(k, h)
  <2>1. LocalAt(day, h.start) <= k /\ k < LocalAt(day, h.end)
    BY <1>1, <1>2
  <2> QED
    BY <1>0, <2>1, WindowIsWorking
<1>3. Calm(x, z)
  <2>1. WorkingAt(x, h)
    BY <1>1, <1>2
  <2> QED
    BY <1>1, <2>1, WorkIsCalm
<1>4. Calm(y, z)
  <2>1. WorkingAt(y - 1, h)
    BY <1>1, <1>2
  <2>2. y - 1 \in Int /\ (y - 1) + 1 = y
    BY <1>1
  <2> QED
    BY <2>1, <2>2, WorkIsCalm
<1>5. old \in Int /\ new \in Int /\ a \in Int /\ b \in Int /\ (old = new <=> a = b)
  <2>1. old \in Int /\ new \in Int /\ a \in Int /\ b \in Int /\ z.switch \in Int
    BY ZoneNumbers
  <2>2. old = z.switch + a /\ new = z.switch + b
    BY DEF OldAt, NewAt
  <2> HIDE DEF old, new, a, b
  <2> QED
    BY <2>1, <2>2
<1>6. old = new \/ (x < old <=> y < old)
  <2> SUFFICES ASSUME old # new PROVE x < old <=> y < old
    OBVIOUS
  <2>0. \A k \in (old - 1)..(new - 1) \cup (new - 1)..(old - 1) : ~WorkingAt(k, h)
    BY DEF QuietSwitch, OldAt, NewAt
  <2>1. old < new => ~WorkingAt(old, h)
    <3> HIDE DEF old, new
    <3> QED
      BY <1>5, <2>0
  <2>2. new < old => ~WorkingAt(new, h)
    <3> HIDE DEF old, new
    <3> QED
      BY <1>5, <2>0
  <2>3. (x < old /\ x < new) \/ (x >= old /\ x >= new)
    BY <1>3 DEF Calm
  <2>4. (y < old /\ y < new) \/ (y >= old /\ y >= new)
    BY <1>4 DEF Calm
  <2> HIDE DEF old, new
  <2>5. CASE old < new
    BY <1>1, <1>2, <1>5, <2>1, <2>3, <2>4, <2>5
  <2>6. CASE new < old
    BY <1>1, <1>2, <1>5, <2>2, <2>3, <2>4, <2>6
  <2> QED
    BY <1>5, <2>5, <2>6
<1>7. /\ u \in Int /\ u = IF x < old THEN x - a ELSE x - b
      /\ \A t \in Int : Local(t, z) < x <=> t < u
  BY <1>0, <1>3, CalmConverts DEF x
<1>8. /\ v \in Int /\ v = IF y < old THEN y - a ELSE y - b
      /\ \A t \in Int : Local(t, z) < y <=> t < v
  BY <1>0, <1>4, CalmConverts DEF y
<1> HIDE DEF u, v, old, new, a, b
<1>9. v - u = y - x
  BY <1>1, <1>5, <1>6, <1>7, <1>8
<1>10. ASSUME NEW t \in Int, u <= t, t < v
       PROVE  Working(t, h, z)
  <2>1. Local(t, z) \in Int
    BY ZoneNumbers
  <2>2. x <= Local(t, z) /\ Local(t, z) < y
    BY <1>1, <1>7, <1>8, <1>10, <2>1
  <2> QED
    BY <1>2, <2>1, <2>2 DEF Working
<1> QED
  BY <1>1, <1>3, <1>4, <1>7, <1>8, <1>9, <1>10 DEF x, y, u, v

-----------------------------------------------------------------------------
(* Whole days from local noon reach every later day, whatever the clocks do *)
LEMMA NoonSteps ==
  ASSUME NEW z \in Zones, NEW day \in Int, NEW k \in Int
  PROVE  ZonedDay(ZonedTimeToUtc(day, DayLen \div 2, z) + k * DayTicks, z) = day + k
<1> USE LengthsPositive
<1> DEFINE half == DayLen \div 2
           noon == ZonedTimeToUtc(day, half, z)
           probe == noon + k * DayTicks
           x == LocalAt(day, half)
           c == z.after - z.before
           a == MinuteLen * z.before
           b == MinuteLen * z.after
<1>1. /\ z.before \in Int /\ z.after \in Int /\ z.switch \in Int /\ a \in Int /\ b \in Int
      /\ \A t \in Int : Local(t, z) \in {t + a, t + b}
  BY ZoneNumbers
<1>2. 4 * c <= DayLen /\ 4 * (0 - c) <= DayLen /\ c \in Int
  <2>1. 4 * (z.after - z.before) <= DayLen /\ 4 * (z.before - z.after) <= DayLen
    BY HoursAssumption
  <2> QED
    BY <1>1, <2>1
<1>3. half \in 0..(DayLen - 1) /\ half + c \in 0..(DayLen - 1) /\ half - c \in 0..(DayLen - 1)
  <2> HIDE DEF c
  <2> QED
    BY <1>2
<1>4. x \in Int
  BY <1>3, MinutesOrdered
<1>5. noon \in {x - a, x - b}
  <2> DEFINE first == x - (Local(x, z) - x)
  <2>1. first \in Int
    BY <1>1, <1>4
  <2>2. noon = x - (Local(first, z) - first)
    BY DEF ZonedTimeToUtc, LocalAt
  <2> HIDE DEF noon, x, a, b, first
  <2> QED
    BY <1>1, <1>4, <2>1, <2>2
<1>6. k * DayTicks \in Int
  OBVIOUS
<1>7. Local(probe, z) - k * DayTicks \in {x, x + b - a, x - b + a}
  <2>1. Local(probe, z) \in {probe + a, probe + b}
    <3> HIDE DEF noon, x, a, b
    <3> QED
      BY <1>1, <1>4, <1>5, <1>6
  <2> DEFINE kd == k * DayTicks
  <2> HIDE DEF noon, x, a, b, kd
  <2> QED
    BY <1>1, <1>4, <1>5, <1>6, <2>1 DEF kd
<1>8. b - a = c * MinuteLen
  BY <1>1
<1>9. ASSUME NEW e \in 0..(DayLen - 1)
      PROVE  LocalAt(day + k, e) = x + (e - half) * MinuteLen + k * DayTicks
  <2>1. (day + k) * DayTicks = day * DayTicks + k * DayTicks
    <3> HIDE DEF DayTicks
    <3> QED
      OBVIOUS
  <2>2. e * MinuteLen = half * MinuteLen + (e - half) * MinuteLen
    BY <1>3
  <2> QED
    BY <2>1, <2>2, <1>3, <1>6 DEF LocalAt
<1>10. PICK e \in 0..(DayLen - 1) : Local(probe, z) = LocalAt(day + k, e) + 0
  <2> HIDE DEF probe, x, a, b, c, half
  <2>0. Local(probe, z) \in Int
    BY <1>1, <1>4, <1>5, <1>6 DEF probe
  <2>1. LocalAt(day + k, half) = x + k * DayTicks
    BY <1>3, <1>4, <1>6, <1>9
  <2>2. LocalAt(day + k, half + c) = x + (b - a) + k * DayTicks
    BY <1>2, <1>3, <1>8, <1>9
  <2>3. LocalAt(day + k, half - c) = x - (b - a) + k * DayTicks
    <3>1. ((half - c) - half) * MinuteLen = 0 - c * MinuteLen
      BY <1>2, <1>3
    <3>2. c * MinuteLen \in Int
      BY <1>2
    <3> QED
      BY <1>2, <1>3, <1>4, <1>6, <1>8, <1>9, <3>1, <3>2
  <2> DEFINE kd == k * DayTicks
  <2>4. kd \in Int
    BY <1>6
  <2> HIDE DEF kd
  <2>5. Local(probe, z) \in {LocalAt(day + k, half), LocalAt(day + k, half + c), LocalAt(day + k, half - c)}
    <3>1. Local(probe, z) - kd \in {x, x + b - a, x - b + a}
      BY <1>7 DEF kd
    <3>2. /\ LocalAt(day + k, half) = x + kd
          /\ LocalAt(day + k, half + c) = x + (b - a) + kd
          /\ LocalAt(day + k, half - c) = x - (b - a) + kd
      BY <2>1, <2>2, <2>3 DEF kd
    <3> QED
      BY <1>1, <1>4, <2>0, <2>4, <3>1, <3>2
  <2> QED
    BY <1>3, <2>0, <2>5
<1>11. Local(probe, z) \in Int
  <2> HIDE DEF noon, x, a, b
  <2> QED
    BY <1>1, <1>4, <1>5, <1>6
<1>12. Local(probe, z) \div DayTicks = day + k
  <2> HIDE DEF probe
  <2>1. 0 \in 0..(MinuteLen - 1)
    OBVIOUS
  <2> QED
    BY <1>10, <1>11, <2>1, PartsOf
<1> QED
  BY <1>12 DEF ZonedDay

LEMMA LeastOf ==
  ASSUME NEW S \in SUBSET (1..7), S # {}
  PROVE  Min(S) \in S /\ \A k \in S : Min(S) <= k
<1>1. \E m \in S : \A k \in S : m <= k
  <2>1. PICK j \in S : TRUE
    OBVIOUS
  <2> DEFINE Low(m) == m \in S /\ \A k \in 1..(m - 1) : k \notin S
  <2>2. Low(1) \/ Low(2) \/ Low(3) \/ Low(4) \/ Low(5) \/ Low(6) \/ Low(7)
    OBVIOUS
  <2>3. \E m \in S : \A k \in 1..(m - 1) : k \notin S
    BY <2>2
  <2> QED
    BY <2>3
<1> QED
  BY <1>1 DEF Min

(* The next working day is the first later one, within a week. *)
LEMMA NextDayIsNext ==
  ASSUME NEW z \in Zones, NEW days \in SUBSET (0..6), days # {}, NEW day \in Int
  PROVE  LET next == NextWorkingDay(day, days, z)
         IN  /\ next \in Int /\ day < next /\ Weekday(next) \in days
             /\ \A d \in Int : day < d /\ d < next => Weekday(d) \notin days
<1> DEFINE noon == ZonedTimeToUtc(day, DayLen \div 2, z)
           Probe(k) == ZonedDay(noon + k * DayTicks, z)
           S == {k \in 1..7 : Weekday(Probe(k)) \in days}
<1>1. \A k \in 1..7 : Probe(k) = day + k
  BY NoonSteps
<1>2. S = {k \in 1..7 : Weekday(day + k) \in days}
  BY <1>1
<1>3. NextWorkingDay(day, days, z) = Probe(Min(S))
  BY DEF NextWorkingDay
<1> HIDE DEF Probe, S
<1>4. S # {}
  <2>1. PICK w \in 0..6 : w \in days
    OBVIOUS
  <2>2. \E k \in 1..7 : (day + k) % 7 = w
    <3> DEFINE k == ((w - day - 1) % 7) + 1
    <3>1. k \in 1..7 /\ (day + k) % 7 = w
      OBVIOUS
    <3> QED
      BY <3>1
  <2> QED
    BY <1>2, <2>1, <2>2 DEF Weekday
<1>5. S \in SUBSET (1..7)
  BY DEF S
<1>6. Min(S) \in S /\ \A k \in S : Min(S) <= k
  BY <1>4, <1>5, LeastOf
<1>7. Min(S) \in 1..7 /\ NextWorkingDay(day, days, z) = day + Min(S)
  BY <1>1, <1>3, <1>5, <1>6
<1>8. Weekday(day + Min(S)) \in days
  BY <1>2, <1>6
<1>9. ASSUME NEW d \in Int, day < d, d < day + Min(S)
      PROVE  Weekday(d) \notin days
  <2>1. d - day \in 1..7 /\ day + (d - day) = d /\ d - day < Min(S)
    BY <1>7, <1>9
  <2>2. d - day \notin S
    BY <1>6, <1>7, <2>1
  <2> QED
    BY <1>2, <2>1, <2>2
<1> QED
  BY <1>7, <1>8, <1>9

(* Nothing is worked from a minute to the next window's start. *)
LEMMA IdleUntil ==
  ASSUME NEW h \in HourConfigs, NEW day \in Int, NEW minute \in 0..DayLen, NEW next \in Int,
         day <= next, \A d \in Int : day < d /\ d < next => Weekday(d) \notin h.days,
         day < next => Weekday(day) \notin h.days \/ h.end <= minute,
         NEW y \in Int, LocalAt(day, minute) <= y, y < LocalAt(next, h.start)
  PROVE  ~WorkingAt(y, h)
<1>a. h \in HoursSet /\ h.start \in 0..DayLen /\ h.end \in 0..DayLen /\ h.start \in Int /\ h.end \in Int
  BY HoursAssumption DEF HoursSet
<1>b. minute \in Int
  BY LengthsPositive
<1> SUFFICES ASSUME WorkingAt(y, h) PROVE FALSE
  OBVIOUS
<1>1. PICK d \in Int : /\ Weekday(d) \in h.days
                       /\ LocalAt(d, h.start) <= y /\ y < LocalAt(d, h.end)
  BY <1>a, WorkingIsWindow
<1>2. /\ LocalAt(d, h.start) \in Int /\ LocalAt(d, h.end) \in Int
      /\ LocalAt(day, minute) \in Int /\ LocalAt(next, h.start) \in Int
  BY <1>a, <1>b, MinutesOrdered
<1>3. ~(next < d)
  <2> SUFFICES ASSUME next < d PROVE FALSE
    OBVIOUS
  <2>1. LocalAt(next, h.start) <= LocalAt(d, h.start)
    BY <1>a, DaysOrdered
  <2> QED
    BY <1>1, <1>2, <2>1
<1>4. d # next
  BY <1>1, <1>2
<1>5. ~(d < day)
  <2> SUFFICES ASSUME d < day PROVE FALSE
    OBVIOUS
  <2>1. LocalAt(d, h.end) <= LocalAt(day, minute)
    BY <1>a, DaysOrdered
  <2> QED
    BY <1>1, <1>2, <2>1
<1>6. d = day
  BY <1>1, <1>3, <1>4, <1>5
<1>7. h.end <= minute
  BY <1>1, <1>3, <1>4, <1>6
<1>8. LocalAt(day, h.end) <= LocalAt(day, minute)
  BY <1>a, <1>b, <1>7, MinutesOrdered
<1> QED
  BY <1>1, <1>2, <1>6, <1>8

(* The anchor's minute is on the clock what zonedParts says. *)
StartOf(t) == t - (t % MinuteLen)

LEMMA MinuteOfAnchor ==
  ASSUME NEW z \in Zones, NEW t \in Int
  PROVE  /\ StartOf(t) \in Int /\ StartOf(t) <= t /\ t < StartOf(t) + MinuteLen
         /\ ZonedDay(t, z) \in Int /\ ZonedMinute(t, z) \in 0..(DayLen - 1)
         /\ Local(StartOf(t), z) = LocalAt(ZonedDay(t, z), ZonedMinute(t, z))
<1> USE LengthsPositive
<1> DEFINE M == MinuteLen
           s == t % M
           i == t \div M
           from == StartOf(t)
           o == IF t < z.switch THEN z.before ELSE z.after
<1>1. i \in Int /\ s \in Int /\ t = i * M + s /\ 0 <= s /\ s < M
  BY DivMod
<1>2. from = t - s
  BY DEF StartOf
<1>3. z.switch \in Int /\ z.before \in Int /\ z.after \in Int /\ o \in Int
  BY ZoneNumbers
<1> HIDE DEF i, s, from
<1>4. from \in Int /\ from <= t /\ t < from + M /\ from = i * M
  BY <1>1, <1>2
<1>5. t < z.switch <=> from < z.switch
  <2> DEFINE j == z.switch \div M
  <2>1. j \in Int /\ z.switch = j * M
    <3>1. z.switch % M = 0
      BY HoursAssumption
    <3>2. z.switch = j * M + (z.switch % M) /\ j \in Int
      BY <1>3, DivMod
    <3> HIDE DEF j
    <3>3. j * M \in Int
      BY <3>2
    <3> QED
      BY <3>1, <3>2, <3>3
  <2> HIDE DEF j
  <2>2. ASSUME from < z.switch
        PROVE  t < z.switch
    <3>1. ~(j <= i)
      <4> SUFFICES ASSUME j <= i PROVE FALSE
        OBVIOUS
      <4>1. j = i \/ j * M + M <= i * M
        BY <1>1, <2>1, MulStep
      <4> QED
        BY <1>1, <1>3, <1>4, <2>1, <2>2, <4>1
    <3>2. i * M + M <= j * M
      BY <1>1, <2>1, <3>1, MulStep
    <3> QED
      BY <1>3, <1>4, <2>1, <3>2
  <2> QED
    BY <1>3, <1>4, <2>2
<1>6. Local(t, z) = t + M * o /\ Local(from, z) = from + M * o /\ M * o \in Int
  BY <1>3, <1>5 DEF Local
<1> HIDE DEF o
<1>7. Local(t, z) \in Int /\ Local(from, z) = Local(t, z) - s
  BY <1>1, <1>2, <1>6
<1>8. Local(t, z) % M = s
  <2>1. (i + o) * M = i * M + M * o
    BY <1>1, <1>3
  <2> DEFINE q == (i + o) * M
  <2>2. q \in Int /\ Local(t, z) = q + s
    BY <1>1, <1>3, <1>6, <2>1
  <2>3. i + o \in Int
    BY <1>1, <1>3
  <2>4. Local(t, z) % M = Local(t, z) - q
    <3>1. q <= Local(t, z) /\ Local(t, z) < q + M
      <4> HIDE DEF q
      <4> QED
        BY <1>1, <2>2
    <3> QED
      BY <1>7, <2>3, <3>1, DivUnique
  <2> HIDE DEF q
  <2> QED
    BY <1>1, <2>2, <2>4
<1>9. PICK day \in Int, minute \in 0..(DayLen - 1), r \in 0..(MinuteLen - 1) :
        /\ Local(t, z) = LocalAt(day, minute) + r
        /\ Local(t, z) \div DayTicks = day /\ (Local(t, z) % DayTicks) \div MinuteLen = minute
        /\ r = Local(t, z) % MinuteLen
  BY <1>7, HasParts
<1>10. ZonedDay(t, z) = day /\ ZonedMinute(t, z) = minute
  BY <1>9 DEF ZonedDay, ZonedMinute
<1>11. LocalAt(day, minute) \in Int
  <2>1. minute \in Int
    BY <1>9
  <2> QED
    BY <2>1, MinutesOrdered
<1>12. s = r
  BY <1>8, <1>9
<1>13. Local(t, z) = LocalAt(day, minute) + r
  BY <1>9
<1>14. Local(from, z) = LocalAt(day, minute)
  BY <1>1, <1>7, <1>11, <1>12, <1>13
<1> QED
  BY <1>4, <1>9, <1>10, <1>14 DEF from

-----------------------------------------------------------------------------
(* Counting working time *)
WorkedIn(a, b, h, z) == {t \in a..(b - 1) : Working(t, h, z)}

(* Counts of adjacent spans add up. *)
LEMMA CountsAdd ==
  ASSUME NEW h, NEW z, NEW a \in Int, NEW b \in Int, NEW c \in Int, a <= b, b <= c
  PROVE  /\ Cardinality(WorkedIn(a, b, h, z)) \in Nat
         /\ Cardinality(WorkedIn(b, c, h, z)) \in Nat
         /\ Cardinality(WorkedIn(a, c, h, z)) \in Nat
         /\ Cardinality(WorkedIn(a, c, h, z))
              = Cardinality(WorkedIn(a, b, h, z)) + Cardinality(WorkedIn(b, c, h, z))
<1> DEFINE A == WorkedIn(a, b, h, z)
           B == WorkedIn(b, c, h, z)
           C == WorkedIn(a, c, h, z)
<1>1. IsFiniteSet(A) /\ IsFiniteSet(B) /\ IsFiniteSet(C)
  <2>1. IsFiniteSet(a..(b - 1)) /\ IsFiniteSet(b..(c - 1)) /\ IsFiniteSet(a..(c - 1))
    BY FS_Interval
  <2>2. A \subseteq a..(b - 1) /\ B \subseteq b..(c - 1) /\ C \subseteq a..(c - 1)
    BY DEF WorkedIn
  <2> QED
    BY <2>1, <2>2, FS_Subset
<1>2. C = A \cup B
  <2>1. \A t : t \in a..(c - 1) <=> t \in a..(b - 1) \/ t \in b..(c - 1)
    OBVIOUS
  <2> QED
    BY <2>1 DEF WorkedIn
<1>3. A \cap B = {}
  BY DEF WorkedIn
<1>4. Cardinality({}) = 0
  BY FS_EmptySet
<1>5. Cardinality(A \cup B) = Cardinality(A) + Cardinality(B) - Cardinality(A \cap B)
  BY <1>1, FS_Union
<1>6. Cardinality(A) \in Nat /\ Cardinality(B) \in Nat /\ Cardinality(C) \in Nat
  BY <1>1, FS_CardinalityType
<1> HIDE DEF A, B, C
<1>7. Cardinality(C) = Cardinality(A) + Cardinality(B)
  BY <1>2, <1>3, <1>4, <1>5, <1>6
<1> QED
  BY <1>6, <1>7 DEF A, B, C

(* A span without working time counts nothing, one of nothing else all. *)
LEMMA CountsOf ==
  ASSUME NEW h, NEW z, NEW a \in Int, NEW b \in Int, a <= b
  PROVE  /\ (\A t \in Int : a <= t /\ t < b => ~Working(t, h, z))
              => Cardinality(WorkedIn(a, b, h, z)) = 0
         /\ (\A t \in Int : a <= t /\ t < b => Working(t, h, z))
              => Cardinality(WorkedIn(a, b, h, z)) = b - a
         /\ Cardinality(WorkedIn(a, b, h, z)) <= b - a
<1>1. IsFiniteSet(a..(b - 1)) /\ Cardinality(a..(b - 1)) = b - a
  <2>1. b - 1 \in Int
    OBVIOUS
  <2>2. IsFiniteSet(a..(b - 1)) /\ Cardinality(a..(b - 1)) = IF a > b - 1 THEN 0 ELSE (b - 1) - a + 1
    BY <2>1, FS_Interval
  <2> QED
    BY <2>2
<1>2. WorkedIn(a, b, h, z) \subseteq a..(b - 1)
  BY DEF WorkedIn
<1>3. Cardinality(WorkedIn(a, b, h, z)) <= Cardinality(a..(b - 1))
  BY <1>1, <1>2, FS_Subset
<1>4. ASSUME \A t \in Int : a <= t /\ t < b => ~Working(t, h, z)
      PROVE  Cardinality(WorkedIn(a, b, h, z)) = 0
  <2>1. WorkedIn(a, b, h, z) = {}
    BY <1>4 DEF WorkedIn
  <2> QED
    BY <2>1, FS_EmptySet
<1>5. ASSUME \A t \in Int : a <= t /\ t < b => Working(t, h, z)
      PROVE  Cardinality(WorkedIn(a, b, h, z)) = b - a
  <2>1. WorkedIn(a, b, h, z) = a..(b - 1)
    BY <1>5 DEF WorkedIn
  <2> QED
    BY <1>1, <2>1
<1> QED
  BY <1>1, <1>3, <1>4, <1>5

-----------------------------------------------------------------------------
(* The cursor *)

LEMMA InstantOf ==
  ASSUME NEW z \in Zones, NEW day \in Int, NEW minute \in Int
  PROVE  ZonedTimeToUtc(day, minute, z) \in Int
<1> DEFINE x == LocalAt(day, minute)
           first == x - (Local(x, z) - x)
<1>1. x \in Int
  BY MinutesOrdered
<1>2. \A t \in Int : Local(t, z) \in Int
  BY ZoneNumbers
<1>3. ZonedTimeToUtc(day, minute, z) = x - (Local(first, z) - first)
  BY DEF ZonedTimeToUtc, LocalAt
<1> HIDE DEF x
<1>4. first \in Int
  BY <1>1, <1>2
<1> HIDE DEF first
<1> QED
  BY <1>1, <1>2, <1>3, <1>4

Usable(h) == h.start < h.end /\ h.days # {}

LEMMA HoursNumbers ==
  ASSUME NEW h \in HourConfigs
  PROVE  /\ h \in HoursSet /\ h.days \in SUBSET (0..6)
         /\ h.start \in 0..DayLen /\ h.end \in 0..DayLen /\ h.start \in Int /\ h.end \in Int
BY HoursAssumption, LengthsPositive DEF HoursSet

(* The first cursor is in a window. *)
LEMMA FirstInWindow ==
  ASSUME NEW z \in Zones, NEW h \in HourConfigs, Usable(h), NEW t \in Int
  PROVE  LET f == FirstDay(t, h, z)
         IN  f.day \in Int /\ Weekday(f.day) \in h.days /\ f.minute \in h.start..(h.end - 1)
<1> DEFINE day == ZonedDay(t, z)
           minute == ZonedMinute(t, z)
           next == NextWorkingDay(day, h.days, z)
<1>1. h.start \in Int /\ h.end \in Int /\ h.start < h.end /\ h.days # {} /\ h.days \in SUBSET (0..6)
  BY HoursNumbers DEF Usable
<1>2. day \in Int /\ minute \in Int
  BY MinuteOfAnchor, LengthsPositive
<1> HIDE DEF day, minute
<1>3. next \in Int /\ Weekday(next) \in h.days
  BY <1>1, <1>2, NextDayIsNext
<1> HIDE DEF next
<1>4. FirstDay(t, h, z) =
        IF Weekday(day) \notin h.days \/ minute >= h.end
        THEN [day |-> next, minute |-> h.start]
        ELSE [day |-> day, minute |-> IF minute < h.start THEN h.start ELSE minute]
  BY DEF FirstDay, day, minute, next
<1> QED
  BY <1>1, <1>2, <1>3, <1>4

(* Nothing is worked between the anchor's minute and the first cursor. *)
LEMMA FirstIsNext ==
  ASSUME NEW z \in Zones, NEW h \in HourConfigs, Usable(h), QuietSwitch(h, z), NEW t \in Int
  PROVE  LET f == FirstDay(t, h, z)
             u == ZonedTimeToUtc(f.day, f.minute, z)
         IN  /\ u \in Int /\ StartOf(t) <= u
             /\ \A s \in Int : StartOf(t) <= s /\ s < u => ~Working(s, h, z)
<1> DEFINE day == ZonedDay(t, z)
           minute == ZonedMinute(t, z)
           next == NextWorkingDay(day, h.days, z)
           f == FirstDay(t, h, z)
<1>1. /\ h.start \in 0..DayLen /\ h.end \in 0..DayLen /\ h.start \in Int /\ h.end \in Int
      /\ h.start < h.end /\ h.days # {} /\ h.days \in SUBSET (0..6)
  BY HoursNumbers DEF Usable
<1>2. /\ StartOf(t) \in Int /\ day \in Int /\ minute \in 0..(DayLen - 1)
      /\ Local(StartOf(t), z) = LocalAt(day, minute)
  BY MinuteOfAnchor
<1> HIDE DEF day, minute
<1>3. /\ next \in Int /\ day < next /\ Weekday(next) \in h.days
      /\ \A d \in Int : day < d /\ d < next => Weekday(d) \notin h.days
  BY <1>1, <1>2, NextDayIsNext
<1> HIDE DEF next
<1>4. f = IF Weekday(day) \notin h.days \/ minute >= h.end
          THEN [day |-> next, minute |-> h.start]
          ELSE [day |-> day, minute |-> IF minute < h.start THEN h.start ELSE minute]
  BY DEF FirstDay, day, minute, next
<1>5. f.day \in Int /\ Weekday(f.day) \in h.days /\ f.minute \in h.start..(h.end - 1)
  BY FirstInWindow
<1> HIDE DEF f
<1>6. minute \in Int /\ minute \in 0..DayLen
  BY <1>2, LengthsPositive
<1>7. f.minute \in Int /\ h.start <= f.minute /\ f.minute < h.end
  BY <1>1, <1>5
<1>8. LocalAt(day, minute) \in Int /\ LocalAt(f.day, f.minute) \in Int
  BY <1>2, <1>5, <1>6, <1>7, MinutesOrdered
<1>9. /\ LocalAt(day, minute) <= LocalAt(f.day, f.minute)
      /\ \A y \in Int : LocalAt(day, minute) <= y /\ y < LocalAt(f.day, f.minute) => ~WorkingAt(y, h)
  <2>1. CASE Weekday(day) \notin h.days \/ minute >= h.end
    <3>1. f.day = next /\ f.minute = h.start
      BY <1>4, <2>1
    <3>2. LocalAt(day, minute) <= LocalAt(next, h.start)
      BY <1>1, <1>2, <1>3, <1>6, DaysOrdered
    <3>3. day <= next /\ (day < next => Weekday(day) \notin h.days \/ h.end <= minute)
      BY <1>1, <1>2, <1>3, <1>6, <2>1
    <3>4. \A y \in Int : LocalAt(day, minute) <= y /\ y < LocalAt(next, h.start) => ~WorkingAt(y, h)
      BY <1>2, <1>3, <1>6, <3>3, IdleUntil
    <3> QED
      BY <3>1, <3>2, <3>4
  <2>2. CASE ~(Weekday(day) \notin h.days \/ minute >= h.end) /\ minute < h.start
    <3>1. f.day = day /\ f.minute = h.start
      BY <1>4, <2>2
    <3>2. LocalAt(day, minute) <= LocalAt(day, h.start)
      <4>1. day \in Int /\ minute \in Int /\ h.start \in Int /\ minute <= h.start
        BY <1>1, <1>2, <1>6, <2>2
      <4> QED
        BY <4>1, MinutesOrdered
    <3>3. day <= day /\ ~(day < day) /\ (\A d \in Int : ~(day < d /\ d < day))
      <4>1. day \in Int
        BY <1>2
      <4> QED
        BY <4>1
    <3>4. \A y \in Int : LocalAt(day, minute) <= y /\ y < LocalAt(day, h.start) => ~WorkingAt(y, h)
      BY <1>2, <1>6, <3>3, IdleUntil
    <3> QED
      BY <3>1, <3>2, <3>4
  <2>3. CASE ~(Weekday(day) \notin h.days \/ minute >= h.end) /\ ~(minute < h.start)
    <3>1. f.day = day /\ f.minute = minute
      BY <1>4, <2>3
    <3> QED
      BY <1>8, <3>1
  <2> QED
    BY <2>1, <2>2, <2>3
<1>10. Calm(LocalAt(f.day, f.minute), z)
  <2>1. f.minute \in h.start..h.end /\ h.end \in h.start..h.end
    BY <1>1, <1>7
  <2> QED
    BY <1>5, <1>7, <2>1, WindowLasts
<1> QED
  BY <1>2, <1>5, <1>7, <1>9, <1>10, NothingBetween DEF f

(* From a cursor to the end of its window all is worked, and from there to *)
(* the next working day's cursor nothing.                                  *)
LEMMA DayIsConsumed ==
  ASSUME NEW z \in Zones, NEW h \in HourConfigs, Usable(h), QuietSwitch(h, z),
         NEW day \in Int, Weekday(day) \in h.days, NEW m \in h.start..(h.end - 1)
  PROVE  LET next == NextWorkingDay(day, h.days, z)
             u == ZonedTimeToUtc(day, m, z)
             e == ZonedTimeToUtc(day, h.end, z)
             v == ZonedTimeToUtc(next, h.start, z)
         IN  /\ u \in Int /\ e \in Int /\ v \in Int /\ u <= e /\ e <= v
             /\ e - u = (h.end - m) * MinuteLen
             /\ \A t \in Int : u <= t /\ t < e => Working(t, h, z)
             /\ \A t \in Int : e <= t /\ t < v => ~Working(t, h, z)
<1> DEFINE next == NextWorkingDay(day, h.days, z)
           u == ZonedTimeToUtc(day, m, z)
           e == ZonedTimeToUtc(day, h.end, z)
           v == ZonedTimeToUtc(next, h.start, z)
<1>1. /\ h.start \in 0..DayLen /\ h.end \in 0..DayLen /\ h.start \in Int /\ h.end \in Int
      /\ h.start < h.end /\ h.days # {} /\ h.days \in SUBSET (0..6)
      /\ m \in Int /\ h.start <= m /\ m < h.end
  BY HoursNumbers DEF Usable
<1>2. m \in h.start..h.end /\ h.end \in h.start..h.end /\ h.start \in h.start..h.end
  BY <1>1
<1>3. /\ Calm(LocalAt(day, h.end), z)
      /\ u \in Int /\ e \in Int /\ e - u = (h.end - m) * MinuteLen
      /\ \A t \in Int : u <= t /\ t < e => Working(t, h, z)
  BY <1>1, <1>2, WindowLasts
<1>4. Local(e, z) = LocalAt(day, h.end)
  BY <1>1, <1>3, CalmConverts
<1>5. /\ next \in Int /\ day < next /\ Weekday(next) \in h.days
      /\ \A d \in Int : day < d /\ d < next => Weekday(d) \notin h.days
  BY <1>1, NextDayIsNext
<1> HIDE DEF next, u, e
<1>6. Calm(LocalAt(next, h.start), z)
  BY <1>1, <1>2, <1>5, WindowLasts
<1>7. LocalAt(day, h.end) <= LocalAt(next, h.start)
  BY <1>1, <1>5, DaysOrdered
<1>8. \A y \in Int : LocalAt(day, h.end) <= y /\ y < LocalAt(next, h.start) => ~WorkingAt(y, h)
  <2>1. day <= next /\ h.end <= h.end
    BY <1>1, <1>5
  <2> QED
    BY <1>1, <1>5, <2>1, IdleUntil
<1>9. /\ v \in Int /\ e <= v
      /\ \A t \in Int : e <= t /\ t < v => ~Working(t, h, z)
  BY <1>1, <1>3, <1>4, <1>5, <1>6, <1>7, <1>8, NothingBetween
<1>10. u <= e
  <2>1. (h.end - m) * MinuteLen \in Nat
    <3>1. h.end - m \in Nat
      BY <1>1
    <3> QED
      BY <3>1, LengthsPositive
  <2> DEFINE l == (h.end - m) * MinuteLen
  <2> HIDE DEF l
  <2>2. l \in Nat /\ e - u = l
    BY <1>3, <2>1 DEF l
  <2> QED
    BY <1>3, <2>2
<1> QED
  BY <1>3, <1>9, <1>10 DEF next, u, e

-----------------------------------------------------------------------------
(* The inductive invariant: between two steps the cursor lies in a window, *)
(* and so far exactly the minutes that no longer remain were worked.       *)
Start == StartOf(question.anchor)
Cursor == ZonedTimeToUtc(position.day, position.minute, question.zone)

InWindow ==
  position # Unset =>
    /\ ~Misconfigured(question.target, question.hours)
    /\ Weekday(position.day) \in question.hours.days
    /\ position.minute \in question.hours.start..(question.hours.end - 1)
    /\ position.remaining > 0

Counted ==
  position # Unset /\ QuietSwitch(question.hours, question.zone) =>
    /\ Start <= Cursor
    /\ Cardinality(WorkedIn(Start, Cursor, question.hours, question.zone))
         = (question.target - position.remaining) * MinuteLen

HoursInv == HoursTypeOK /\ InWindow /\ Counted /\ DueCountsWorkingTime

LEMMA QuestionParts ==
  ASSUME HoursTypeOK
  PROVE  /\ question.anchor \in Int /\ question.target \in Int
         /\ question.hours \in HourConfigs /\ question.zone \in Zones
         /\ Start \in Int
         /\ position # Unset => /\ position \in Positions
                               /\ position.day \in Int /\ position.minute \in Int
                               /\ position.remaining \in Int
<1>1. /\ question.anchor \in Int /\ question.target \in Int
      /\ question.hours \in HourConfigs /\ question.zone \in Zones
  BY HoursAssumption DEF HoursTypeOK
<1>2. Start \in Int
  BY <1>1, MinuteOfAnchor DEF Start
<1>3. position # Unset => position \in Positions
  BY DEF HoursTypeOK
<1> QED
  BY <1>1, <1>2, <1>3 DEF Positions

LEMMA GoodHours ==
  ASSUME NEW h \in HourConfigs, NEW n \in Int
  PROVE  ~Misconfigured(n, h) <=> Usable(h) /\ n > 0
BY HoursNumbers DEF Misconfigured, Usable

LEMMA HoursInit_Inv == HoursInit => HoursInv
BY DEF HoursInit, HoursInv, HoursTypeOK, InWindow, Counted,
       DueCountsWorkingTime, CountsWorkingTime, NotBeforeAnchor

LEMMA FallbackKeeps == HoursInv /\ Fallback => HoursInv'
<1> SUFFICES ASSUME HoursInv, Fallback PROVE HoursInv'
  OBVIOUS
<1> DEFINE q == question
<1>1. HoursTypeOK /\ q.anchor \in Int /\ q.target \in Int
  BY QuestionParts DEF HoursInv
<1>2. question' = question /\ position' = position /\ Misconfigured(q.target, q.hours)
  BY DEF Fallback
<1>3. due' \in Int /\ due' >= q.anchor
  <2> DEFINE n == IF q.target > 0 THEN q.target ELSE 0
  <2>1. n \in Nat
    BY <1>1
  <2>2. due' = q.anchor + n * MinuteLen
    BY DEF Fallback
  <2> HIDE DEF n
  <2>3. n * MinuteLen \in Nat
    BY <2>1, LengthsPositive
  <2> DEFINE l == n * MinuteLen
  <2> HIDE DEF l
  <2>4. l \in Nat /\ due' = q.anchor + l
    BY <2>2, <2>3 DEF l
  <2> QED
    BY <1>1, <2>4
<1>4. HoursTypeOK'
  BY <1>1, <1>2, <1>3 DEF HoursTypeOK
<1>5. InWindow'
  BY <1>2 DEF HoursInv, InWindow
<1>6. Counted'
  BY <1>2 DEF HoursInv, Counted, Start, Cursor
<1>7. DueCountsWorkingTime'
  BY <1>2, <1>3 DEF DueCountsWorkingTime, CountsWorkingTime, NotBeforeAnchor
<1> QED
  BY <1>4, <1>5, <1>6, <1>7 DEF HoursInv

LEMMA PositionKeeps == HoursInv /\ PositionCursor => HoursInv'
<1> SUFFICES ASSUME HoursInv, PositionCursor PROVE HoursInv'
  OBVIOUS
<1> DEFINE h == question.hours
           z == question.zone
           f == FirstDay(question.anchor, h, z)
<1>1. /\ HoursTypeOK /\ question.anchor \in Int /\ question.target \in Int
      /\ h \in HourConfigs /\ z \in Zones /\ Start \in Int
  BY QuestionParts DEF HoursInv
<1>2. /\ question' = question /\ due' = due
      /\ ~Misconfigured(question.target, h)
      /\ position' = [day |-> f.day, minute |-> f.minute, remaining |-> question.target]
  BY DEF PositionCursor
<1>3. Usable(h) /\ question.target > 0
  BY <1>1, <1>2, GoodHours
<1>4. f.day \in Int /\ Weekday(f.day) \in h.days /\ f.minute \in h.start..(h.end - 1)
  BY <1>1, <1>3, FirstInWindow
<1>5. f.minute \in Int
  BY <1>1, <1>4, HoursNumbers
<1>6. HoursTypeOK'
  BY <1>1, <1>2, <1>4, <1>5 DEF HoursTypeOK, Positions
<1>7. InWindow'
  BY <1>2, <1>3, <1>4 DEF InWindow
<1>8. Counted'
  <2> SUFFICES ASSUME QuietSwitch(h, z)
               PROVE  /\ Start' <= Cursor'
                      /\ Cardinality(WorkedIn(Start', Cursor', h, z)) = (question.target - question.target) * MinuteLen
    BY <1>2 DEF Counted
  <2>1. Start' = Start /\ Cursor' = ZonedTimeToUtc(f.day, f.minute, z)
    BY <1>2 DEF Start, Cursor
  <2>2. /\ Cursor' \in Int /\ Start <= Cursor'
        /\ \A s \in Int : Start <= s /\ s < Cursor' => ~Working(s, h, z)
    BY <1>1, <1>3, <2>1, FirstIsNext DEF Start
  <2> HIDE DEF h, z
  <2>3. Cardinality(WorkedIn(Start, Cursor', h, z)) = 0
    BY <1>1, <2>2, CountsOf
  <2>4. (question.target - question.target) * MinuteLen = 0
    BY <1>1, LengthsPositive
  <2> QED
    BY <2>1, <2>2, <2>3, <2>4
<1>9. DueCountsWorkingTime'
  BY <1>2 DEF HoursInv, DueCountsWorkingTime, CountsWorkingTime, NotBeforeAnchor
<1> QED
  BY <1>6, <1>7, <1>8, <1>9 DEF HoursInv

(* The facts a step of the loop starts from *)
LEMMA InLoop ==
  ASSUME HoursInv, position # Unset
  PROVE  /\ question.hours \in HourConfigs /\ question.zone \in Zones /\ Usable(question.hours)
         /\ question.anchor \in Int /\ question.target \in Int /\ question.target > 0
         /\ question.hours.start \in Int /\ question.hours.end \in Int
         /\ Start \in Int /\ Cursor \in Int
         /\ position.day \in Int /\ Weekday(position.day) \in question.hours.days
         /\ position.minute \in Int
         /\ position.minute \in question.hours.start..(question.hours.end - 1)
         /\ position.remaining \in Int /\ position.remaining > 0
         /\ AvailableToday \in Int /\ AvailableToday > 0
<1>1. /\ HoursTypeOK /\ question.anchor \in Int /\ question.target \in Int
      /\ question.hours \in HourConfigs /\ question.zone \in Zones /\ Start \in Int
      /\ position.day \in Int /\ position.minute \in Int /\ position.remaining \in Int
  BY QuestionParts DEF HoursInv
<1>2. /\ ~Misconfigured(question.target, question.hours)
      /\ Weekday(position.day) \in question.hours.days
      /\ position.minute \in question.hours.start..(question.hours.end - 1)
      /\ position.remaining > 0
  BY DEF HoursInv, InWindow
<1>3. Usable(question.hours) /\ question.target > 0
  BY <1>1, <1>2, GoodHours
<1>4. Cursor \in Int
  BY <1>1, InstantOf DEF Cursor
<1>5. question.hours.start \in Int /\ question.hours.end \in Int
  BY <1>1, HoursNumbers
<1>6. AvailableToday \in Int /\ AvailableToday > 0
  <2> DEFINE e == question.hours.end
             s == question.hours.start
             m == position.minute
  <2>1. e \in Int /\ s \in Int /\ m \in Int /\ m \in s..(e - 1) /\ AvailableToday = e - m
    BY <1>1, <1>2, <1>5 DEF AvailableToday
  <2> HIDE DEF e, s, m
  <2> QED
    BY <2>1
<1> QED
  BY <1>1, <1>2, <1>3, <1>4, <1>5, <1>6

LEMMA ConsumeKeeps == HoursInv /\ ConsumeDay => HoursInv'
<1> SUFFICES ASSUME HoursInv, ConsumeDay PROVE HoursInv'
  OBVIOUS
<1> DEFINE h == question.hours
           z == question.zone
           next == NextWorkingDay(position.day, h.days, z)
<1>1. /\ position # Unset /\ question' = question /\ due' = due
      /\ position.remaining > AvailableToday
      /\ position' = [day |-> next, minute |-> h.start,
                      remaining |-> position.remaining - AvailableToday]
  BY DEF ConsumeDay
<1>2. /\ h \in HourConfigs /\ z \in Zones /\ Usable(h) /\ h.start \in Int /\ h.end \in Int
      /\ question.target \in Int /\ question.target > 0 /\ Start \in Int /\ Cursor \in Int
      /\ position.day \in Int /\ Weekday(position.day) \in h.days
      /\ position.minute \in Int /\ position.minute \in h.start..(h.end - 1)
      /\ position.remaining \in Int /\ AvailableToday \in Int /\ AvailableToday > 0
  BY <1>1, InLoop
<1>3. h.days # {} /\ h.days \in SUBSET (0..6) /\ h.start < h.end
  BY <1>2, HoursNumbers DEF Usable
<1>4. next \in Int /\ Weekday(next) \in h.days
  BY <1>2, <1>3, NextDayIsNext
<1>5. position'.remaining \in Int /\ position'.remaining > 0
      /\ position'.remaining = position.remaining - AvailableToday
  <2> HIDE DEF next, h
  <2> QED
    BY <1>1, <1>2
<1>6. HoursTypeOK'
  BY <1>1, <1>2, <1>4, <1>5 DEF HoursInv, HoursTypeOK, Positions
<1>7. InWindow'
  <2>1. ~Misconfigured(question.target, h)
    BY <1>2, GoodHours
  <2>2. h.start \in h.start..(h.end - 1)
    BY <1>2, <1>3
  <2> HIDE DEF next
  <2> QED
    BY <1>1, <1>4, <1>5, <2>1, <2>2 DEF InWindow
<1>8. Counted'
  <2> SUFFICES ASSUME QuietSwitch(h, z)
               PROVE  /\ Start' <= Cursor'
                      /\ Cardinality(WorkedIn(Start', Cursor', h, z))
                           = (question.target - position'.remaining) * MinuteLen
    BY <1>1 DEF Counted
  <2> DEFINE e == ZonedTimeToUtc(position.day, h.end, z)
             Count(a, b) == Cardinality(WorkedIn(a, b, h, z))
             n == AvailableToday
             done == question.target - position.remaining
  <2>1. Start' = Start /\ Cursor' = ZonedTimeToUtc(next, h.start, z)
    BY <1>1 DEF Start, Cursor
  <2>2. Start <= Cursor /\ Count(Start, Cursor) = done * MinuteLen
    BY <1>1 DEF HoursInv, Counted
  <2>3. /\ e \in Int /\ Cursor' \in Int /\ Cursor <= e /\ e <= Cursor'
        /\ e - Cursor = n * MinuteLen
        /\ \A t \in Int : Cursor <= t /\ t < e => Working(t, h, z)
        /\ \A t \in Int : e <= t /\ t < Cursor' => ~Working(t, h, z)
    BY <1>2, <2>1, DayIsConsumed DEF Cursor, AvailableToday
  <2> HIDE DEF e, h, z, n, done, next
  <2>4. Count(Cursor, e) = e - Cursor
    BY <1>2, <2>3, CountsOf
  <2>5. Count(e, Cursor') = 0
    BY <1>2, <2>3, CountsOf
  <2>6. Start <= e /\ Start <= Cursor'
    BY <1>2, <2>2, <2>3
  <2>7. Count(Start, e) = Count(Start, Cursor) + Count(Cursor, e)
    BY <1>2, <2>2, <2>3, CountsAdd
  <2>8. Count(Start, Cursor') = Count(Start, e) + Count(e, Cursor')
    BY <1>2, <2>3, <2>6, CountsAdd
  <2>9. Count(Start, e) \in Nat /\ Count(e, Cursor') \in Nat
    BY <1>2, <2>3, <2>6, CountsAdd
  <2>10. done \in Int /\ n \in Int /\ question.target - position'.remaining = done + n
    BY <1>2, <1>5 DEF done, n
  <2>11. (done + n) * MinuteLen = done * MinuteLen + n * MinuteLen
    BY <2>10, LengthsPositive
  <2> DEFINE d == done * MinuteLen
             l == n * MinuteLen
             c == Count(Start, Cursor')
             c1 == Count(Start, e)
             c2 == Count(e, Cursor')
             c3 == Count(Start, Cursor)
             c4 == Count(Cursor, e)
  <2>12. c = c1 + c2 /\ c1 = c3 + c4 /\ c3 = d /\ c4 = e - Cursor /\ c2 = 0 /\ e - Cursor = l /\ c1 \in Nat
    BY <2>2, <2>3, <2>4, <2>5, <2>7, <2>8, <2>9
  <2>13. c = d + l
    <3> HIDE DEF c, c1, c2, c3, c4, d, l
    <3> QED
      BY <2>12
  <2>14. c = (question.target - position'.remaining) * MinuteLen
    BY <2>10, <2>11, <2>13
  <2> QED
    BY <2>1, <2>6, <2>14
<1>9. DueCountsWorkingTime'
  BY <1>1 DEF HoursInv, DueCountsWorkingTime, CountsWorkingTime, NotBeforeAnchor
<1> QED
  BY <1>6, <1>7, <1>8, <1>9 DEF HoursInv

LEMMA ReturnKeeps == HoursInv /\ ReturnDue => HoursInv'
<1> SUFFICES ASSUME HoursInv, ReturnDue PROVE HoursInv'
  OBVIOUS
<1> DEFINE h == question.hours
           z == question.zone
           n == position.remaining
           m == position.minute
<1>1. /\ position # Unset /\ question' = question /\ position' = position
      /\ n <= AvailableToday
      /\ due' = ZonedTimeToUtc(position.day, m + n, z)
  BY DEF ReturnDue
<1>2. /\ h \in HourConfigs /\ z \in Zones /\ Usable(h) /\ h.start \in Int /\ h.end \in Int
      /\ question.anchor \in Int /\ question.target \in Int /\ question.target > 0
      /\ Start \in Int /\ Cursor \in Int
      /\ position.day \in Int /\ Weekday(position.day) \in h.days
      /\ m \in Int /\ m \in h.start..(h.end - 1)
      /\ n \in Int /\ n > 0 /\ AvailableToday \in Int
  BY <1>1, InLoop
<1>3. m + n \in Int /\ due' \in Int
  BY <1>1, <1>2, InstantOf
<1>4. HoursTypeOK'
  BY <1>1, <1>3 DEF HoursInv, HoursTypeOK
<1>5. InWindow'
  BY <1>1 DEF HoursInv, InWindow
<1>6. Counted'
  BY <1>1 DEF HoursInv, Counted, Start, Cursor
<1>7. ASSUME QuietSwitch(h, z)
      PROVE  /\ Working(due' - 1, h, z)
             /\ Cardinality(WorkedIn(Start, due', h, z)) = question.target * MinuteLen
             /\ due' >= question.anchor
  <2> DEFINE Count(a, b) == Cardinality(WorkedIn(a, b, h, z))
             done == question.target - n
  <2>1. Start <= Cursor /\ Count(Start, Cursor) = done * MinuteLen
    BY <1>1, <1>7 DEF HoursInv, Counted
  <2>2. m \in h.start..h.end /\ m + n \in h.start..h.end /\ m < m + n
    <3> DEFINE e == h.end
               s == h.start
    <3>1. e \in Int /\ s \in Int /\ m \in Int /\ n \in Int /\ n > 0 /\ m \in s..(e - 1) /\ n <= e - m
      BY <1>1, <1>2 DEF AvailableToday
    <3> HIDE DEF e, s, m, n
    <3> QED
      BY <3>1 DEF e, s
  <2>3. /\ due' - Cursor = ((m + n) - m) * MinuteLen
        /\ \A t \in Int : Cursor <= t /\ t < due' => Working(t, h, z)
    <3> HIDE DEF n
    <3> QED
      BY <1>1, <1>2, <1>7, <2>2, WindowLasts DEF Cursor
  <2> HIDE DEF h, z, m, n, done
  <2>4. due' - Cursor = n * MinuteLen
    <3>1. (m + n) - m = n
      BY <1>2
    <3> QED
      BY <2>3, <3>1
  <2>5. 0 * MinuteLen + MinuteLen <= n * MinuteLen
    BY <1>2, MulStep, LengthsPositive
  <2> DEFINE l == n * MinuteLen
  <2>6. l \in Int /\ l >= MinuteLen /\ l > 0
    BY <1>2, <2>5, LengthsPositive
  <2>7. Cursor < due'
    <3> HIDE DEF l
    <3>1. due' - Cursor = l
      BY <2>4 DEF l
    <3>2. Cursor \in Int /\ due' \in Int
      BY <1>2, <1>3
    <3>3. l \in Int /\ l > 0
      BY <2>6
    <3>4. \A a, b, c \in Int : b - a = c /\ c > 0 => a < b
      OBVIOUS
    <3> HIDE DEF Count
    <3> QED
      BY <3>1, <3>2, <3>3, <3>4, ZenonT(30)
  <2>8. Working(due' - 1, h, z)
    BY <1>2, <1>3, <2>3, <2>7
  <2>9. Count(Cursor, due') = due' - Cursor
    BY <1>2, <1>3, <2>3, <2>7, CountsOf
  <2>10. Start <= due'
    BY <1>2, <1>3, <2>1, <2>7
  <2>11. Count(Start, due') = Count(Start, Cursor) + Count(Cursor, due')
    BY <1>2, <1>3, <2>1, <2>7, CountsAdd
  <2>12. done \in Int /\ question.target = done + n
    BY <1>2 DEF done
  <2>13. (done + n) * MinuteLen = done * MinuteLen + n * MinuteLen
    BY <1>2, <2>12, LengthsPositive
  <2>14. Count(Start, due') = question.target * MinuteLen
    BY <2>1, <2>4, <2>9, <2>11, <2>12, <2>13
  <2>15. Count(Start, due') <= due' - Start
    BY <1>2, <1>3, <2>10, CountsOf
  <2>16. 0 * MinuteLen + MinuteLen <= question.target * MinuteLen
    BY <1>2, MulStep, LengthsPositive
  <2>17. Start <= question.anchor /\ question.anchor < Start + MinuteLen
    BY <1>2, MinuteOfAnchor DEF Start
  <2>18. due' >= question.anchor
    <3> DEFINE k == question.target * MinuteLen
    <3>1. k \in Int /\ MinuteLen <= k /\ k <= due' - Start
      BY <1>2, <2>14, <2>15, <2>16, LengthsPositive
    <3>2. Start \in Int /\ question.anchor \in Int /\ due' \in Int /\ MinuteLen \in Int
      BY <1>2, <1>3, LengthsPositive
    <3>3. \A s, a, d, i, j \in Int : s <= a /\ a < s + i /\ i <= j /\ j <= d - s => d >= a
      OBVIOUS
    <3> HIDE DEF k
    <3> QED
      BY <2>17, <3>1, <3>2, <3>3, ZenonT(30)
  <2> QED
    BY <2>8, <2>14, <2>18
<1>8. DueCountsWorkingTime'
  <2>1. CountsWorkingTime'
    <3> SUFFICES ASSUME QuietSwitch(h, z)
                 PROVE  /\ Working(due' - 1, h, z)
                        /\ Cardinality({t \in Start..(due' - 1) : Working(t, h, z)})
                             = question.target * MinuteLen
      BY <1>1 DEF CountsWorkingTime, Start, StartOf
    <3> QED
      BY <1>7 DEF WorkedIn
  <2>2. NotBeforeAnchor'
    BY <1>1, <1>7 DEF NotBeforeAnchor
  <2> QED
    BY <2>1, <2>2 DEF DueCountsWorkingTime
<1> QED
  BY <1>4, <1>5, <1>6, <1>8 DEF HoursInv

LEMMA HoursInvariant == HoursSpec => []HoursInv
<1>1. HoursInit => HoursInv
  BY HoursInit_Inv
<1>2. HoursInv /\ [HoursNext]_hoursVars => HoursInv'
  <2>1. HoursInv /\ UNCHANGED hoursVars => HoursInv'
    BY DEF hoursVars, HoursInv, HoursTypeOK, InWindow, Counted, Start, Cursor,
           DueCountsWorkingTime, CountsWorkingTime, NotBeforeAnchor
  <2> QED
    BY <2>1, FallbackKeeps, PositionKeeps, ConsumeKeeps, ReturnKeeps DEF HoursNext
<1> QED
  BY <1>1, <1>2, PTL DEF HoursSpec

-----------------------------------------------------------------------------
(* The question is one that was asked, the cursor a day and a minute, the  *)
(* due date an instant: addBusinessMinutes never loses its way in a        *)
(* conversion, whatever the zone.                                          *)
THEOREM HoursTypeCorrect == HoursSpec => []HoursTypeOK
<1>1. HoursInv => HoursTypeOK
  BY DEF HoursInv
<1> QED
  BY <1>1, HoursInvariant, PTL

(* "the clock only advances during the tenant's configured working         *)
(* window": wherever the clocks change outside working time, from the      *)
(* anchor's minute to the due date of calculateDueDates lie exactly the    *)
(* target's working minutes, and a due date is never before its anchor.    *)
THEOREM DuesCountWorkingTime == HoursSpec => []DueCountsWorkingTime
<1>1. HoursInv => DueCountsWorkingTime
  BY DEF HoursInv
<1> QED
  BY <1>1, HoursInvariant, PTL

(* Every round of addBusinessMinutes' loop leaves fewer minutes, but some: *)
(* the loop comes to a return.                                             *)
THEOREM EveryDayConsumes ==
  HoursSpec => [][ConsumeDay => /\ 0 < position'.remaining
                                /\ position'.remaining < position.remaining]_hoursVars
<1>1. HoursInv /\ [HoursNext]_hoursVars
        => [ConsumeDay => /\ 0 < position'.remaining
                          /\ position'.remaining < position.remaining]_hoursVars
  <2> SUFFICES ASSUME HoursInv, ConsumeDay
               PROVE  0 < position'.remaining /\ position'.remaining < position.remaining
    OBVIOUS
  <2>1. position # Unset /\ position.remaining > AvailableToday
        /\ position'.remaining = position.remaining - AvailableToday
    BY DEF ConsumeDay
  <2>2. position.remaining \in Int /\ AvailableToday \in Int /\ AvailableToday > 0
    BY <2>1, InLoop
  <2> QED
    BY <2>1, <2>2
<1> QED
  BY <1>1, HoursInvariant, PTL DEF HoursSpec

=============================================================================
