----------------------------- MODULE FormProofs -----------------------------
(***************************************************************************)
(* The forms and their toasts, for any clock, any words and any number of  *)
(* toasts and requests.                                                    *)
(***************************************************************************)
EXTENDS FormPages, TLAPS, WellFoundedInduction

-----------------------------------------------------------------------------
(* Dates and times of day *)

\* Division with remainder.
LEMMA Divided ==
  ASSUME NEW q \in Nat, NEW p \in Nat \ {0}, NEW r \in 0 .. (p - 1)
  PROVE  ((q * p) + r) \div p = q /\ ((q * p) + r) % p = r
  OBVIOUS

\* Every number is divided so.
LEMMA Divides ==
  ASSUME NEW d \in Nat, NEW p \in Nat \ {0}
  PROVE  d \div p \in Nat /\ d % p \in 0 .. (p - 1) /\ d = ((d \div p) * p) + (d % p)
  OBVIOUS

\* Minute m and second s of hour n, counted from day 0, and of hour h of day q.
OnHour(n, m, s) == (n * HourLength) + ((m * Seconds) + s)
At(q, h, m, s) == (q * DayLength) + (h * HourLength) + (m * Seconds) + s

LEMMA Lengths ==
  /\ HourLength \in Nat \ {0} /\ DayLength \in Nat \ {0}
  /\ HourLength = Minutes * Seconds /\ DayLength = Hours * HourLength
<1>1. Hours \in Nat \ {0} /\ Minutes \in Nat \ {0} /\ Seconds \in Nat \ {0}
  BY ClockAssumption
<1>2. HourLength \in Nat \ {0}
  BY <1>1 DEF HourLength
<1> QED
  BY <1>1, <1>2 DEF HourLength, DayLength

\* Less than n times p, and a remainder.
LEMMA Below ==
  ASSUME NEW n \in Nat, NEW p \in Nat \ {0}, NEW a \in 0 .. (n - 1), NEW r \in 0 .. (p - 1)
  PROVE  (a * p) + r \in 0 .. ((n * p) - 1)
<1>1. a + 1 <= n /\ a \in Nat /\ r \in Nat /\ r + 1 <= p
  OBVIOUS
<1>2. (a + 1) * p <= n * p
  BY <1>1
<1>3. (a + 1) * p = (a * p) + p
  BY <1>1
<1> QED
  BY <1>1, <1>2, <1>3

\* The parts of a date, of which the hour may be that of another day.
LEMMA HourParts ==
  ASSUME NEW n \in Nat, NEW m \in 0 .. (Minutes - 1), NEW s \in 0 .. (Seconds - 1)
  PROVE  /\ OnHour(n, m, s) \in Nat /\ OnHour(n, m, s) \div HourLength = n
         /\ getMinutes(OnHour(n, m, s)) = m /\ getSeconds(OnHour(n, m, s)) = s
<1> DEFINE d == OnHour(n, m, s)
           inHour == (m * Seconds) + s
<1>0. /\ Minutes \in Nat \ {0} /\ Seconds \in Nat \ {0} /\ m \in Nat /\ s \in Nat
      /\ HourLength \in Nat \ {0} /\ n * HourLength \in Nat
  BY ClockAssumption, Lengths
<1>1. inHour \in 0 .. (HourLength - 1)
  BY <1>0, Lengths, Below
<1>2. ((m * Seconds) + s) \div Seconds = m
  BY <1>0, Divided
<1> HIDE DEF inHour
<1>3. ((n * HourLength) + inHour) \div HourLength = n /\ ((n * HourLength) + inHour) % HourLength = inHour
  BY <1>0, <1>1, Divided
<1>4. d = (n * HourLength) + inHour
  BY DEF OnHour, inHour
<1>5. d \in Nat
  BY <1>0, <1>1, <1>4
<1>6. d = (((n * Minutes) + m) * Seconds) + s
  <2>1. n * HourLength = (n * Minutes) * Seconds
    BY <1>0, Lengths
  <2>2. ((n * Minutes) + m) * Seconds = ((n * Minutes) * Seconds) + (m * Seconds)
    BY <1>0
  <2>3. (n * Minutes) * Seconds \in Nat /\ m * Seconds \in Nat
    BY <1>0
  <2> QED
    BY <1>0, <2>1, <2>2, <2>3 DEF OnHour
<1> HIDE DEF d
<1>7. getMinutes(d) = m
  <2>1. d % HourLength = inHour
    BY <1>3, <1>4
  <2> QED
    BY <1>2, <2>1 DEF getMinutes, inHour
<1>8. getSeconds(d) = s
  <2>1. (n * Minutes) + m \in Nat
    BY <1>0
  <2>2. ((((n * Minutes) + m) * Seconds) + s) % Seconds = s
    BY <1>0, <2>1, Divided
  <2> QED
    BY <1>6, <2>2 DEF getSeconds
<1>9. d \div HourLength = n
  BY <1>3, <1>4
<1> QED
  BY <1>5, <1>7, <1>8, <1>9 DEF d

\* getHours, getMinutes and getSeconds give the parts back.
LEMMA PartsOf ==
  ASSUME NEW q \in Nat, NEW h \in 0 .. (Hours - 1), NEW m \in 0 .. (Minutes - 1),
         NEW s \in 0 .. (Seconds - 1)
  PROVE  /\ At(q, h, m, s) \in Nat /\ At(q, h, m, s) = OnHour((q * Hours) + h, m, s)
         /\ At(q, h, m, s) % DayLength = (h * HourLength) + ((m * Seconds) + s)
         /\ getHours(At(q, h, m, s)) = h /\ getMinutes(At(q, h, m, s)) = m
         /\ getSeconds(At(q, h, m, s)) = s
<1> DEFINE d == At(q, h, m, s)
           inHour == (m * Seconds) + s
           inDay == (h * HourLength) + inHour
<1>0. /\ Hours \in Nat \ {0} /\ Minutes \in Nat \ {0} /\ Seconds \in Nat \ {0}
      /\ h \in Nat /\ m \in Nat /\ s \in Nat /\ (q * Hours) + h \in Nat
  BY ClockAssumption
<1>1. inHour \in 0 .. (HourLength - 1)
  BY <1>0, Lengths, Below
<1>2. inHour \in Nat
  BY <1>1, Lengths
<1> HIDE DEF inHour
<1>3. inDay \in 0 .. (DayLength - 1)
  BY <1>0, <1>1, Lengths, Below
<1>4. d = (q * DayLength) + inDay
  BY <1>0, Lengths DEF At, inHour
<1>5. d = (((q * Hours) + h) * HourLength) + inHour
  <2>1. q * DayLength = (q * Hours) * HourLength
    BY <1>0, Lengths
  <2>2. ((q * Hours) + h) * HourLength = ((q * Hours) * HourLength) + (h * HourLength)
    BY <1>0, Lengths
  <2> QED
    BY <1>0, <1>2, <1>4, <2>1, <2>2, Lengths
<1> HIDE DEF d, inDay
<1>6. d \div DayLength = q /\ d % DayLength = inDay
  <2>1. DayLength \in Nat \ {0}
    BY Lengths
  <2>2. /\ ((q * DayLength) + inDay) \div DayLength = q
        /\ ((q * DayLength) + inDay) % DayLength = inDay
    BY <1>3, <2>1, Divided
  <2> QED
    BY <1>4, <2>2
<1>7. getHours(d) = h
  <2>1. inDay = (h * HourLength) + inHour
    BY DEF inDay
  <2>2. HourLength \in Nat \ {0}
    BY Lengths
  <2>3. ((h * HourLength) + inHour) \div HourLength = h
    BY <1>0, <1>1, <2>2, Divided
  <2> QED
    BY <1>6, <2>1, <2>3 DEF getHours
<1>8. d = OnHour((q * Hours) + h, m, s)
  BY <1>5 DEF OnHour, inHour
<1>9. d \in Nat /\ getMinutes(d) = m /\ getSeconds(d) = s
  BY <1>0, <1>8, HourParts
<1> QED
  BY <1>6, <1>7, <1>8, <1>9 DEF d, inDay, inHour

\* Every date has its parts.
LEMMA HasParts ==
  ASSUME NEW d \in Nat
  PROVE  \E q \in Nat, h \in 0 .. (Hours - 1), m \in 0 .. (Minutes - 1), s \in 0 .. (Seconds - 1) :
           d = At(q, h, m, s)
<1> DEFINE s == d % Seconds
           n == d \div Seconds
           m == n % Minutes
           k == n \div Minutes
           h == k % Hours
           q == k \div Hours
<1>0. Hours \in Nat \ {0} /\ Minutes \in Nat \ {0} /\ Seconds \in Nat \ {0}
  BY ClockAssumption
<1>1. n \in Nat /\ s \in 0 .. (Seconds - 1) /\ d = (n * Seconds) + s
  BY <1>0, Divides
<1> HIDE DEF n, s
<1>2. k \in Nat /\ m \in 0 .. (Minutes - 1) /\ n = (k * Minutes) + m
  BY <1>0, <1>1, Divides
<1> HIDE DEF k, m
<1>3. q \in Nat /\ h \in 0 .. (Hours - 1) /\ k = (q * Hours) + h
  BY <1>0, <1>2, Divides
<1> HIDE DEF q, h
<1>4. m \in Nat /\ s \in Nat /\ h \in Nat
  BY <1>0, <1>1, <1>2, <1>3
<1>5. n * Seconds = ((k * Minutes) * Seconds) + (m * Seconds)
  BY <1>0, <1>2, <1>4
<1>6. (k * Minutes) * Seconds = k * HourLength
  BY <1>0, <1>2, Lengths
<1>7. k * HourLength = ((q * Hours) * HourLength) + (h * HourLength)
  BY <1>0, <1>3, <1>4, Lengths
<1>8. (q * Hours) * HourLength = q * DayLength
  BY <1>0, <1>3, Lengths
<1>9. d = At(q, h, m, s)
  BY <1>0, <1>1, <1>2, <1>3, <1>4, <1>5, <1>6, <1>7, <1>8, Lengths DEF At
<1> QED
  BY <1>1, <1>2, <1>3, <1>9

\* What hour n is where the clocks skip hours.
Kept(n) == IF n \in Gaps THEN n + 1 ELSE n

\* It is not a skipped one.
LEMMA KeptHour ==
  ASSUME NEW n \in Nat
  PROVE  Kept(n) \in Nat /\ Kept(n) \notin Gaps /\ Kept(Kept(n)) = Kept(n)
  BY GapsAssumption DEF Kept

\* A time that is skipped becomes the one an hour later.
LEMMA LocalParts ==
  ASSUME NEW n \in Nat, NEW m \in 0 .. (Minutes - 1), NEW s \in 0 .. (Seconds - 1)
  PROVE  /\ Local(OnHour(n, m, s)) = OnHour(Kept(n), m, s)
         /\ Exists(OnHour(Kept(n), m, s))
<1> DEFINE d == OnHour(n, m, s)
<1>1. Exists(d) <=> n \notin Gaps
  BY HourParts DEF Exists
<1>2. OnHour(Kept(n), m, s) \div HourLength = Kept(n)
  BY KeptHour, HourParts
<1>3. Exists(OnHour(Kept(n), m, s))
  BY <1>2, KeptHour DEF Exists
<1>4. CASE Exists(d)
  BY <1>1, <1>3, <1>4 DEF Local, Kept
<1>5. CASE ~Exists(d)
  <2>1. Kept(n) = n + 1 /\ Local(d) = d + HourLength
    BY <1>1, <1>5 DEF Kept, Local
  <2>2. /\ (n + 1) * HourLength = (n * HourLength) + HourLength
        /\ n * HourLength \in Nat /\ HourLength \in Nat
    BY Lengths
  <2>3. Seconds \in Nat /\ m \in Nat /\ s \in Nat /\ m * Seconds \in Nat
    BY ClockAssumption
  <2>4. OnHour(n + 1, m, s) = d + HourLength
    BY <2>2, <2>3 DEF OnHour
  <2> QED
    BY <1>3, <2>1, <2>4
<1> QED
  BY <1>3, <1>4, <1>5

\* setHours, setMinutes and setSeconds change one part each, but for skipped
\* hours.
LEMMA SetMinuteOrSecond ==
  ASSUME NEW n \in Nat, NEW m \in 0 .. (Minutes - 1), NEW s \in 0 .. (Seconds - 1)
  PROVE  /\ \A k \in 0 .. (Minutes - 1) : setMinutes(OnHour(n, m, s), k) = OnHour(Kept(n), k, s)
         /\ \A k \in 0 .. (Seconds - 1) : setSeconds(OnHour(n, m, s), k) = OnHour(Kept(n), m, k)
<1> DEFINE d == OnHour(n, m, s)
<1>0. /\ Minutes \in Nat \ {0} /\ Seconds \in Nat \ {0} /\ m \in Nat /\ s \in Nat
      /\ n * HourLength \in Nat /\ m * Seconds \in Nat
  BY ClockAssumption, Lengths
<1>1. getMinutes(d) = m /\ getSeconds(d) = s
  BY HourParts
<1>2. d = (n * HourLength) + ((m * Seconds) + s)
  BY DEF OnHour
<1> HIDE DEF d
<1>3. ASSUME NEW k \in 0 .. (Minutes - 1)
      PROVE  setMinutes(d, k) = OnHour(Kept(n), k, s)
  <2>1. k \in Nat /\ k * Seconds \in Nat
    BY <1>0
  <2>2. (k - m) * Seconds = (k * Seconds) - (m * Seconds)
    BY <1>0, <2>1
  <2>3. d + ((k - m) * Seconds) = OnHour(n, k, s)
    BY <1>0, <1>2, <2>1, <2>2 DEF OnHour
  <2> QED
    BY <1>1, <2>3, LocalParts DEF setMinutes
<1>4. ASSUME NEW k \in 0 .. (Seconds - 1)
      PROVE  setSeconds(d, k) = OnHour(Kept(n), m, k)
  <2>1. k \in Nat
    BY <1>0
  <2>2. d + (k - s) = OnHour(n, m, k)
    BY <1>0, <1>2, <2>1 DEF OnHour
  <2> QED
    BY <1>1, <2>2, LocalParts DEF setSeconds
<1> QED
  BY <1>3, <1>4 DEF d

LEMMA SetHour ==
  ASSUME NEW q \in Nat, NEW h \in 0 .. (Hours - 1), NEW m \in 0 .. (Minutes - 1),
         NEW s \in 0 .. (Seconds - 1), NEW k \in 0 .. (Hours - 1)
  PROVE  setHours(At(q, h, m, s), k) = OnHour(Kept((q * Hours) + k), m, s)
<1> DEFINE d == At(q, h, m, s)
<1>0. /\ h \in Nat /\ m * Seconds \in Nat /\ s \in Nat /\ k \in Nat /\ HourLength \in Nat
      /\ q * DayLength \in Nat /\ h * HourLength \in Nat /\ k * HourLength \in Nat
      /\ (q * Hours) + k \in Nat
  BY ClockAssumption, Lengths
<1>1. getHours(d) = h
  BY PartsOf
<1>2. d = (q * DayLength) + (h * HourLength) + (m * Seconds) + s
  BY DEF At
<1> HIDE DEF d
<1>3. (k - h) * HourLength = (k * HourLength) - (h * HourLength)
  BY <1>0
<1>4. d + ((k - h) * HourLength) = At(q, k, m, s)
  BY <1>0, <1>2, <1>3 DEF At
<1>5. At(q, k, m, s) = OnHour((q * Hours) + k, m, s)
  BY PartsOf
<1>6. setHours(d, k) = Local(OnHour((q * Hours) + k, m, s))
  BY <1>1, <1>4, <1>5 DEF setHours
<1> QED
  BY <1>0, <1>6, LocalParts DEF d

\* Hours, minutes and seconds set one after the other on any hour of the day.
LEMMA SetInTurn ==
  ASSUME NEW q \in Nat, NEW a \in 0 .. (Hours - 1), NEW b \in 0 .. (Minutes - 1),
         NEW c \in 0 .. (Seconds - 1), NEW h \in 0 .. (Hours - 1),
         NEW m \in 0 .. (Minutes - 1), NEW s \in 0 .. (Seconds - 1)
  PROVE  Meets(setSeconds(setMinutes(setHours(At(q, a, b, c), h), m), s), At(q, h, m, s))
<1> DEFINE n == (q * Hours) + h
           k == Kept(n)
<1>0. n \in Nat
  BY ClockAssumption
<1>1. setHours(At(q, a, b, c), h) = OnHour(k, b, c)
  BY SetHour
<1>2. At(q, h, m, s) = OnHour(n, m, s)
  BY PartsOf
<1> HIDE DEF n
<1>3. k \in Nat /\ Kept(k) = k
  BY <1>0, KeptHour
<1>4. Local(At(q, h, m, s)) = OnHour(k, m, s) /\ Exists(OnHour(k, m, s))
  BY <1>0, <1>2, LocalParts
<1> HIDE DEF k
<1>5. setMinutes(OnHour(k, b, c), m) = OnHour(k, m, c)
  BY <1>3, SetMinuteOrSecond
<1>6. setSeconds(OnHour(k, m, c), s) = OnHour(k, m, s)
  BY <1>3, SetMinuteOrSecond
<1> QED
  BY <1>1, <1>4, <1>5, <1>6 DEF Meets, Local

\* The calendar's date is on the day picked, also where midnight is skipped.
LEMMA Midnight ==
  ASSUME NEW day \in Nat
  PROVE  \E n \in 0 .. (Hours - 1) : Local(day * DayLength) = At(day, n, 0, 0)
<1>0. /\ Hours \in Nat /\ Hours > 1 /\ Minutes \in Nat \ {0} /\ Seconds \in Nat \ {0}
      /\ 0 \in 0 .. (Hours - 1) /\ 1 \in 0 .. (Hours - 1)
      /\ 0 \in 0 .. (Minutes - 1) /\ 0 \in 0 .. (Seconds - 1)
      /\ day * DayLength \in Nat /\ HourLength \in Nat
  BY ClockAssumption, GapsAssumption, Lengths
<1>1. day * DayLength = At(day, 0, 0, 0) /\ (day * DayLength) + HourLength = At(day, 1, 0, 0)
  BY <1>0 DEF At
<1> QED
  BY <1>0, <1>1 DEF Local

\* What the setters make of any date exists.
LEMMA LocalExists ==
  ASSUME NEW d \in Int
  PROVE  Exists(Local(d)) /\ Local(d) \in Int
<1>1. CASE Exists(d)
  BY <1>1 DEF Local
<1>2. CASE ~Exists(d)
  <2> DEFINE g == d \div HourLength
             r == d % HourLength
             p == HourLength
  <2>0. p \in Nat \ {0}
    BY Lengths
  <2>1. g \in Gaps /\ g \in Nat /\ g + 1 \notin Gaps
    BY <1>2, GapsAssumption DEF Exists
  <2>2. d = (g * p) + r /\ r \in 0 .. (p - 1)
    <3> HIDE DEF p
    <3>1. d = ((d \div p) * p) + (d % p) /\ d % p \in 0 .. (p - 1)
      BY <2>0
    <3> QED
      BY <3>1 DEF p
  <2> HIDE DEF g, r, p
  <2>3. (g + 1) * p = (g * p) + p
    BY <2>0, <2>1
  <2>4. d + p = ((g + 1) * p) + r
    BY <2>0, <2>1, <2>2, <2>3
  <2>5. g + 1 \in Nat
    BY <2>1
  <2>6. (((g + 1) * p) + r) \div p = g + 1
    BY <2>0, <2>2, <2>5, Divided
  <2>7. (d + HourLength) \div HourLength = g + 1 /\ d + HourLength \in Int
    BY <2>0, <2>4, <2>6 DEF p
  <2> QED
    BY <1>2, <2>1, <2>7 DEF Exists, Local
<1> QED
  BY <1>1, <1>2

\* What the calendar and the inputs set exists.
LEMMA DatesSet ==
  ASSUME Current \in Nat
  PROVE  /\ \A day \in Day : Exists(SelectDay(day))
         /\ \A h \in HourInput : Exists(setHours(Current, h))
         /\ \A m \in MinuteInput : Exists(setMinutes(Current, m))
         /\ \A s \in SecondInput : Exists(setSeconds(Current, s))
<1> DEFINE c == Current
<1> HIDE DEF c
<1>0. /\ Hours \in Nat \ {0} /\ Minutes \in Nat \ {0} /\ Seconds \in Nat \ {0}
      /\ 0 \in 0 .. (Hours - 1) /\ 0 \in 0 .. (Minutes - 1) /\ 0 \in 0 .. (Seconds - 1)
      /\ HourLength \in Nat /\ DayLength \in Nat
  BY ClockAssumption, Lengths
<1>1. PICK q \in Nat, i \in 0 .. (Hours - 1), j \in 0 .. (Minutes - 1), k \in 0 .. (Seconds - 1) :
        c = At(q, i, j, k)
  BY HasParts DEF c
<1>2. getHours(c) = i /\ getMinutes(c) = j /\ getSeconds(c) = k /\ c \in Nat
  BY <1>1, PartsOf
<1>3. ASSUME NEW h \in HourInput
      PROVE  Exists(setHours(Current, h))
  <2>1. h \in Int /\ (h - i) * HourLength \in Int
    BY <1>0, ClockAssumption
  <2>2. c + (h - i) * HourLength \in Int
    BY <1>2, <2>1
  <2> QED
    BY <1>2, <2>2, LocalExists DEF setHours, c
<1>4. ASSUME NEW m \in MinuteInput
      PROVE  Exists(setMinutes(Current, m))
  <2>1. m \in Int /\ (m - j) * Seconds \in Int
    BY <1>0, ClockAssumption
  <2>2. c + (m - j) * Seconds \in Int
    BY <1>2, <2>1
  <2> QED
    BY <1>2, <2>2, LocalExists DEF setMinutes, c
<1>5. ASSUME NEW s \in SecondInput
      PROVE  Exists(setSeconds(Current, s))
  <2>1. c + (s - k) \in Int
    BY <1>0, <1>2, ClockAssumption
  <2> QED
    BY <1>2, <2>1, LocalExists DEF setSeconds, c
<1>6. ASSUME NEW day \in Day
      PROVE  Exists(SelectDay(day))
  <2>1. day \in Nat /\ day * DayLength \in Nat
    BY <1>0, ClockAssumption
  <2>3. PICK n \in 0 .. (Hours - 1) : Local(day * DayLength) = At(day, n, 0, 0)
    BY <2>1, Midnight
  <2>4. SelectDay(day) = setSeconds(setMinutes(setHours(At(day, n, 0, 0), i), j), k)
    BY <1>2, <2>3 DEF SelectDay, c
  <2>5. Meets(SelectDay(day), At(day, i, j, k))
    BY <1>0, <2>1, <2>3, <2>4, SetInTurn
  <2> QED
    BY <2>5 DEF Meets
<1> QED
  BY <1>3, <1>4, <1>5, <1>6

\* Where the calendar and the inputs are, when the date is a number.
LEMMA ApartWhenSet ==
  ASSUME Current \in Nat, date # NoDate => Exists(date)
  PROVE  DateAndTimeApart
<1>0. /\ Hours \in Nat \ {0} /\ Minutes \in Nat \ {0} /\ Seconds \in Nat \ {0}
      /\ 0 \in 0 .. (Hours - 1) /\ 0 \in 0 .. (Minutes - 1) /\ 0 \in 0 .. (Seconds - 1)
      /\ HourLength \in Nat /\ DayLength \in Nat
  BY ClockAssumption, Lengths
<1> DEFINE c == Current
<1> HIDE DEF c
<1>1. PICK q \in Nat, h \in 0 .. (Hours - 1), m \in 0 .. (Minutes - 1), s \in 0 .. (Seconds - 1) :
        c = At(q, h, m, s)
  BY HasParts DEF c
<1>2. /\ getHours(c) = h /\ getMinutes(c) = m /\ getSeconds(c) = s
      /\ TimeOfDay(c) = (h * HourLength) + ((m * Seconds) + s)
  BY <1>1, PartsOf DEF TimeOfDay
<1>3. h * HourLength \in Nat /\ m * Seconds \in Nat /\ s \in Nat /\ q * DayLength \in Nat
  BY <1>0
<1>4. ASSUME NEW day \in Day
      PROVE  Meets(SelectDay(day), (day * DayLength) + TimeOfDay(Current))
  <2>1. day \in Nat /\ day * DayLength \in Nat
    BY <1>0, ClockAssumption
  <2>3. PICK k \in 0 .. (Hours - 1) : Local(day * DayLength) = At(day, k, 0, 0)
    BY <2>1, Midnight
  <2>4. SelectDay(day) = setSeconds(setMinutes(setHours(At(day, k, 0, 0), h), m), s)
    BY <1>2, <2>3 DEF SelectDay, c
  <2>5. Meets(SelectDay(day), At(day, h, m, s))
    BY <1>0, <2>1, <2>3, <2>4, SetInTurn
  <2>6. (day * DayLength) + TimeOfDay(c) = At(day, h, m, s)
    BY <1>2, <1>3, <2>1 DEF At
  <2> QED
    BY <2>5, <2>6 DEF c
<1>5. ASSUME NEW i \in 0 .. (Hours - 1), NEW j \in 0 .. (Minutes - 1), NEW k \in 0 .. (Seconds - 1)
      PROVE  Meets(setSeconds(setMinutes(setHours(Current, i), j), k),
                   (Current - TimeOfDay(Current)) + (i * HourLength) + (j * Seconds) + k)
  <2>1. Meets(setSeconds(setMinutes(setHours(c, i), j), k), At(q, i, j, k))
    BY <1>1, SetInTurn
  <2>2. c - TimeOfDay(c) = q * DayLength
    BY <1>1, <1>2, <1>3 DEF At
  <2>3. (c - TimeOfDay(c)) + (i * HourLength) + (j * Seconds) + k = At(q, i, j, k)
    BY <2>2 DEF At
  <2> QED
    BY <2>1, <2>3 DEF c
<1> QED
  BY <1>4, <1>5 DEF DateAndTimeApart

-----------------------------------------------------------------------------
(* filter *)

\* Induction, for the numbers with a property as a set.
LEMMA NatSet ==
  ASSUME NEW A, 0 \in A, \A n \in Nat : n \in A => n + 1 \in A
  PROVE  Nat \subseteq A
<1> SUFFICES ASSUME Nat \ A # {}
             PROVE  FALSE
  OBVIOUS
<1> DEFINE R == OpToRel(<, Nat)
           T == Nat \ A
<1>1. IsWellFoundedOn(R, Nat)
  BY NatLessThanWellFounded
<1>2. \A x, y \in Nat : <<y, x>> \in R <=> y < x
  BY DEF OpToRel
<1> HIDE DEF R
<1>3. PICK d \in T : \A e \in T : ~(<<e, d>> \in R)
  BY <1>1, WFMin
<1>4. d \in Nat \ {0} /\ d - 1 \in Nat /\ (d - 1) + 1 = d
  OBVIOUS
<1>5. <<d - 1, d>> \in R
  BY <1>2, <1>4
<1>6. d - 1 \in A
  BY <1>3, <1>4, <1>5
<1> QED
  BY <1>4, <1>6

\* What of the first n elements of list is kept in s.
IsKept(list, drop, n, s) ==
  /\ Len(s) <= n
  /\ \A i \in 1 .. Len(s) : \E m \in 1 .. n : list[m] = s[i] /\ list[m] \notin drop
  /\ \A m \in 1 .. n : list[m] \notin drop => \E i \in 1 .. Len(s) : s[i] = list[m]
  /\ (\A a, b \in 1 .. n : list[a] = list[b] => a = b)
       => \A i, j \in 1 .. Len(s) : s[i] = s[j] => i = j

\* An element that is dropped.
LEMMA KeptDrop ==
  ASSUME NEW list, NEW drop, NEW n \in Nat, NEW S, NEW s \in Seq(S), IsKept(list, drop, n, s),
         list[n + 1] \in drop
  PROVE  IsKept(list, drop, n + 1, s)
<1>1. \A m \in 1 .. (n + 1) : m \in 1 .. n \/ m = n + 1
  OBVIOUS
<1>2. \A m \in 1 .. n : m \in 1 .. (n + 1)
  OBVIOUS
<1>3. Len(s) <= n + 1
  BY DEF IsKept
<1> QED
  BY <1>1, <1>2, <1>3 DEF IsKept

\* An element that is kept.
LEMMA KeptAppend ==
  ASSUME NEW list, NEW drop, NEW n \in Nat, NEW S, NEW s \in Seq(S), IsKept(list, drop, n, s),
         list[n + 1] \in S, list[n + 1] \notin drop
  PROVE  IsKept(list, drop, n + 1, Append(s, list[n + 1]))
<1> DEFINE x == list[n + 1]
           t == Append(s, x)
<1>1. \A m \in 1 .. (n + 1) : m \in 1 .. n \/ m = n + 1
  OBVIOUS
<1>2. n + 1 \in 1 .. (n + 1) /\ \A m \in 1 .. n : m \in 1 .. (n + 1) /\ m # n + 1
  OBVIOUS
<1>3. /\ Len(s) \in Nat /\ Len(t) = Len(s) + 1 /\ t[Len(t)] = x
      /\ \A i \in 1 .. Len(s) : t[i] = s[i] /\ i \in 1 .. Len(t)
      /\ \A i \in 1 .. Len(t) : i \in 1 .. Len(s) \/ i = Len(t)
  OBVIOUS
<1>4. Len(t) \in 1 .. Len(t)
  BY <1>3
<1> HIDE DEF t
<1>5. Len(t) <= n + 1
  BY <1>3 DEF IsKept
<1>6. \A i \in 1 .. Len(t) : \E m \in 1 .. (n + 1) : list[m] = t[i] /\ list[m] \notin drop
  BY <1>2, <1>3 DEF IsKept
<1>7. \A m \in 1 .. (n + 1) : list[m] \notin drop => \E i \in 1 .. Len(t) : t[i] = list[m]
  BY <1>1, <1>3, <1>4 DEF IsKept
<1>8. ASSUME \A a, b \in 1 .. (n + 1) : list[a] = list[b] => a = b
      PROVE  \A i, j \in 1 .. Len(t) : t[i] = t[j] => i = j
  <2>1. \A i, j \in 1 .. Len(s) : s[i] = s[j] => i = j
    BY <1>2, <1>8 DEF IsKept
  <2>2. \A i \in 1 .. Len(s) : s[i] # x
    BY <1>2, <1>8 DEF IsKept
  <2> QED
    BY <1>3, <2>1, <2>2
<1>9. IsKept(list, drop, n + 1, t)
  BY <1>5, <1>6, <1>7, <1>8 DEF IsKept
<1> QED
  BY <1>9 DEF t

\* filter keeps the elements that are not dropped, each as often as it was.
LEMMA WithoutKept ==
  ASSUME NEW S, NEW list \in Seq(S), NEW drop
  PROVE  /\ Without(list, drop) \in Seq(S)
         /\ IsKept(list, drop, Len(list), Without(list, drop))
<1> DEFINE N == Len(list)
           Body(f, n) == IF n = 0 THEN <<>>
                         ELSE IF list[n] \in drop THEN f[n - 1] ELSE Append(f[n - 1], list[n])
           kept == CHOOSE f : f = [n \in 0 .. N |-> Body(f, n)]
<1>0. N \in Nat /\ \A n \in 1 .. N : list[n] \in S
  OBVIOUS
<1>1. Without(list, drop) = kept[N]
  BY DEF Without
<1> HIDE DEF N
\* The recursion defines a function: one up to n can be continued to n + 1.
<1>2. \E f : f = [n \in 0 .. N |-> Body(f, n)]
  <2> DEFINE Upto(f, n) == f \in [0 .. n -> Seq(S)] /\ \A i \in 0 .. n : f[i] = Body(f, i)
             A == {n \in Nat : n <= N => \E f : Upto(f, n)}
  <2>1. 0 \in A
    <3> DEFINE f == [i \in 0 .. 0 |-> <<>>]
    <3>1. f \in [0 .. 0 -> Seq(S)] /\ \A i \in 0 .. 0 : f[i] = Body(f, i)
      OBVIOUS
    <3> HIDE DEF f
    <3> QED
      BY <3>1
  <2>2. ASSUME NEW n \in Nat, n \in A
        PROVE  n + 1 \in A
    <3>0. (n + 1 <= N => \E g : Upto(g, n + 1)) => n + 1 \in A
      <4> HIDE DEF Upto
      <4> QED
        OBVIOUS
    <3> SUFFICES ASSUME n + 1 <= N
                 PROVE  \E g : Upto(g, n + 1)
      <4> HIDE DEF Upto, A
      <4> QED
        BY <3>0
    <3>1. PICK f : Upto(f, n)
      BY <2>2, <1>0
    <3> DEFINE next == Body(f, n + 1)
               g == [i \in 0 .. (n + 1) |-> IF i = n + 1 THEN next ELSE f[i]]
    <3>2. n \in 0 .. n /\ f[n] \in Seq(S) /\ list[n + 1] \in S /\ (n + 1) - 1 = n /\ n + 1 # 0
      BY <3>1, <1>0
    <3>3. next \in Seq(S)
      BY <3>2
    <3>4. \A i \in 0 .. (n + 1) : i \in 0 .. n \/ i = n + 1
      OBVIOUS
    <3> HIDE DEF next
    <3>5. g \in [0 .. (n + 1) -> Seq(S)]
      BY <3>1, <3>3, <3>4
    <3>6. g[n + 1] = next /\ \A i \in 0 .. n : g[i] = f[i]
      OBVIOUS
    <3> HIDE DEF g
    <3>7. g[n + 1] = Body(g, n + 1)
      BY <3>2, <3>6 DEF next
    <3>8. ASSUME NEW i \in 0 .. n
          PROVE  g[i] = Body(g, i)
      <4>1. f[i] = Body(f, i)
        BY <3>1
      <4>2. i # 0 => i - 1 \in 0 .. n
        OBVIOUS
      <4>3. Body(g, i) = Body(f, i)
        BY <3>6, <4>2
      <4> QED
        BY <3>6, <4>1, <4>3
    <3>9. Upto(g, n + 1)
      BY <3>4, <3>5, <3>7, <3>8
    <3> QED
      BY <3>9
  <2>3. N \in A
    <3> HIDE DEF A
    <3> QED
      BY <1>0, <2>1, <2>2, NatSet
  <2>4. PICK f : Upto(f, N)
    <3>1. N <= N
      BY <1>0
    <3> HIDE DEF Upto
    <3> QED
      BY <2>3, <3>1
  <2>5. f = [n \in 0 .. N |-> Body(f, n)]
    <3> HIDE DEF Body
    <3> QED
      BY <2>4
  <2> QED
    BY <2>5
<1>3. kept = [n \in 0 .. N |-> Body(kept, n)]
  BY <1>2
<1> HIDE DEF kept
<1>4. \A n \in 0 .. N : kept[n] = Body(kept, n)
  BY <1>3
<1> DEFINE B == {n \in Nat : n <= N => kept[n] \in Seq(S) /\ IsKept(list, drop, n, kept[n])}
<1>5. 0 \in B
  <2>1. kept[0] = <<>>
    BY <1>0, <1>4
  <2>2. <<>> \in Seq(S) /\ IsKept(list, drop, 0, <<>>)
    BY DEF IsKept
  <2>3. kept[0] \in Seq(S) /\ IsKept(list, drop, 0, kept[0])
    BY <2>1, <2>2
  <2> QED
    BY <2>3
<1>6. ASSUME NEW n \in Nat, n \in B
      PROVE  n + 1 \in B
  <2> SUFFICES ASSUME n + 1 <= N
               PROVE  kept[n + 1] \in Seq(S) /\ IsKept(list, drop, n + 1, kept[n + 1])
    OBVIOUS
  <2>1. kept[n] \in Seq(S) /\ IsKept(list, drop, n, kept[n])
    BY <1>0, <1>6
  <2>2. n + 1 \in 0 .. N /\ n + 1 # 0 /\ (n + 1) - 1 = n /\ list[n + 1] \in S
    BY <1>0
  <2>3. kept[n + 1] = IF list[n + 1] \in drop THEN kept[n] ELSE Append(kept[n], list[n + 1])
    BY <1>4, <2>2
  <2>4. CASE list[n + 1] \in drop
    BY <2>1, <2>3, <2>4, KeptDrop
  <2>5. CASE list[n + 1] \notin drop
    BY <2>1, <2>2, <2>3, <2>5, KeptAppend
  <2> QED
    BY <2>4, <2>5
<1>7. N \in B
  <2> HIDE DEF B
  <2> QED
    BY <1>0, <1>5, <1>6, NatSet
<1>8. kept[N] \in Seq(S) /\ IsKept(list, drop, N, kept[N])
  BY <1>0, <1>7
<1> QED
  BY <1>1, <1>8 DEF N

-----------------------------------------------------------------------------
(* Toasts *)

ToastRecord == [id: Nat, title: Title, open: BOOLEAN]

ToastsInv ==
  /\ count \in 0 .. MaxToasts
  /\ toastTimeouts \subseteq 1 .. count
  /\ toasts \in Seq(ToastRecord) /\ Len(toasts) <= TOAST_LIMIT
  /\ \A n \in DOMAIN toasts :
       /\ toasts[n].id \in 1 .. count
       /\ toasts[n].id \in toastTimeouts => ~toasts[n].open

\* An open toast of the list stays, is dismissed, or gives way to a new one.
Stays(toast) ==
  \/ toast \in Open(toasts')
  \/ [toast EXCEPT !.open = FALSE] \in ToSet(toasts')
  \/ /\ count' > count /\ Len(toasts') = TOAST_LIMIT
     /\ toasts'[1].id = count' /\ toasts[Len(toasts)] = toast

OpenStay == \A toast \in Open(toasts) : Stays(toast)

\* toast(): the new one comes first, and the last goes if there is no room.
LEMMA ToastStepInv ==
  ASSUME ToastsInv, NEW title \in Title, Toast(title)
  PROVE  ToastsInv' /\ OpenStay
<1> DEFINE new == [id |-> count + 1, title |-> title, open |-> TRUE]
           all == <<new>> \o toasts
           len == IF Len(toasts) < TOAST_LIMIT THEN Len(toasts) + 1 ELSE TOAST_LIMIT
<1>0. /\ count \in Nat /\ toasts \in Seq(ToastRecord) /\ Len(toasts) \in Nat
      /\ Len(toasts) <= TOAST_LIMIT /\ TOAST_LIMIT \in Nat \ {0} /\ MaxToasts \in Nat
  BY ToastAssumption DEF ToastsInv
<1>1. /\ count < MaxToasts /\ count' = count + 1 /\ toastTimeouts' = toastTimeouts
      /\ toasts' = SubSeq(all, 1, len)
  BY DEF Toast, AddToast
<1>2. new \in ToastRecord /\ new.id = count + 1
  BY <1>0 DEF ToastRecord
<1> HIDE DEF new
<1>3. /\ all \in Seq(ToastRecord) /\ Len(all) = Len(toasts) + 1 /\ all[1] = new
      /\ \A n \in 1 .. Len(toasts) : all[n + 1] = toasts[n]
  BY <1>0, <1>2
<1>4. /\ len \in 1 .. Len(all) /\ len <= TOAST_LIMIT
      /\ \A n \in 1 .. Len(toasts) : n + 1 <= len \/ (len = TOAST_LIMIT /\ n = Len(toasts))
  BY <1>0, <1>3
<1> HIDE DEF all, len
<1>5. /\ toasts' \in Seq(ToastRecord) /\ Len(toasts') = len
      /\ \A n \in 1 .. len : toasts'[n] = all[n]
  BY <1>1, <1>3, <1>4
<1>6. \A n \in 1 .. len : n = 1 \/ (n - 1 \in 1 .. Len(toasts) /\ all[n] = toasts[n - 1])
  <2> SUFFICES ASSUME NEW n \in 1 .. len, n # 1
               PROVE  n - 1 \in 1 .. Len(toasts) /\ all[n] = toasts[n - 1]
    OBVIOUS
  <2>1. n - 1 \in 1 .. Len(toasts) /\ (n - 1) + 1 = n
    BY <1>0, <1>3, <1>4
  <2> QED
    BY <1>3, <2>1
<1>7. \A n \in DOMAIN toasts' : toasts'[n] = new \/ \E m \in DOMAIN toasts : toasts'[n] = toasts[m]
  <2> SUFFICES ASSUME NEW n \in DOMAIN toasts'
               PROVE  toasts'[n] = new \/ \E m \in DOMAIN toasts : toasts'[n] = toasts[m]
    OBVIOUS
  <2>1. n \in 1 .. len /\ toasts'[n] = all[n]
    BY <1>5
  <2>2. CASE n = 1
    BY <1>3, <2>1, <2>2
  <2>3. CASE n - 1 \in 1 .. Len(toasts) /\ all[n] = toasts[n - 1]
    <3>1. DOMAIN toasts = 1 .. Len(toasts)
      BY <1>0
    <3> QED
      BY <2>1, <2>3, <3>1
  <2> QED
    BY <1>6, <2>1, <2>2, <2>3
<1>8. count' \in 0 .. MaxToasts /\ toastTimeouts' \subseteq 1 .. count' /\ count + 1 \notin toastTimeouts
  BY <1>0, <1>1 DEF ToastsInv
<1>9. \A n \in DOMAIN toasts' : /\ toasts'[n].id \in 1 .. count'
                                /\ toasts'[n].id \in toastTimeouts' => ~toasts'[n].open
  <2>1. count + 1 \in 1 .. count' /\ \A i \in 1 .. count : i \in 1 .. count'
    BY <1>0, <1>1
  <2> QED
    BY <1>1, <1>2, <1>7, <1>8, <2>1 DEF ToastsInv
<1>10. ToastsInv'
  BY <1>4, <1>5, <1>8, <1>9 DEF ToastsInv
<1>11. ASSUME NEW n \in DOMAIN toasts, toasts[n].open
       PROVE  Stays(toasts[n])
  <2>1. n \in 1 .. Len(toasts) /\ n \in Nat
    BY <1>0
  <2>2. CASE n + 1 <= len
    <3>1. n + 1 \in 1 .. len /\ n + 1 \in DOMAIN toasts'
      BY <1>5, <2>1, <2>2, <1>4
    <3>2. toasts'[n + 1] = toasts[n]
      BY <1>3, <1>5, <2>1, <3>1
    <3> QED
      BY <1>11, <3>1, <3>2 DEF Stays, Open
  <2>3. CASE len = TOAST_LIMIT /\ n = Len(toasts)
    <3>1. toasts'[1].id = count'
      BY <1>1, <1>2, <1>3, <1>4, <1>5
    <3>2. count' > count
      BY <1>0, <1>1
    <3> QED
      BY <1>5, <2>3, <3>1, <3>2 DEF Stays
  <2> QED
    BY <1>4, <2>1, <2>2, <2>3
<1> QED
  BY <1>10, <1>11 DEF OpenStay, Open

\* Dismissing closes the toasts of one id.
LEMMA DismissStep ==
  ASSUME ToastsInv, NEW id \in 1 .. MaxToasts, Dismiss(id)
  PROVE  ToastsInv' /\ OpenStay
<1>0. toasts \in Seq(ToastRecord) /\ count' = count /\ toastTimeouts' = toastTimeouts \cup {id}
  BY DEF ToastsInv, Dismiss
<1> DEFINE Closed(t) == [t EXCEPT !.open = FALSE]
<1>1. toasts' = [n \in DOMAIN toasts |-> IF toasts[n].id = id THEN Closed(toasts[n]) ELSE toasts[n]]
  BY DEF Dismiss, DismissToast
<1>2. \A t \in ToastRecord : Closed(t) \in ToastRecord /\ Closed(t).id = t.id /\ ~Closed(t).open
  BY DEF ToastRecord
<1> HIDE DEF Closed
<1>3. id \in 1 .. count
  BY DEF Dismiss, ToastsInv
<1>4. \A n \in DOMAIN toasts : toasts[n] \in ToastRecord
  BY <1>0
<1>5. /\ toasts' \in Seq(ToastRecord) /\ Len(toasts') = Len(toasts) /\ DOMAIN toasts' = DOMAIN toasts
      /\ \A n \in DOMAIN toasts :
           toasts'[n] = IF toasts[n].id = id THEN Closed(toasts[n]) ELSE toasts[n]
  BY <1>0, <1>1, <1>2, <1>4
<1>6. \A n \in DOMAIN toasts' : /\ toasts'[n].id \in 1 .. count
                                /\ toasts'[n].id \in toastTimeouts' => ~toasts'[n].open
  BY <1>0, <1>2, <1>4, <1>5 DEF ToastsInv
<1>7. ToastsInv'
  BY <1>0, <1>3, <1>5, <1>6 DEF ToastsInv
<1>8. ASSUME NEW n \in DOMAIN toasts, toasts[n].open
      PROVE  Stays(toasts[n])
  <2>1. toasts'[n] = toasts[n] \/ toasts'[n] = Closed(toasts[n])
    BY <1>5
  <2> QED
    BY <1>5, <1>8, <2>1 DEF Stays, Open, ToSet, Closed
<1> QED
  BY <1>7, <1>8 DEF OpenStay, Open

\* The timer removes the toast that was dismissed and no other.
LEMMA RemoveStep ==
  ASSUME ToastsInv, NEW id \in 1 .. MaxToasts, RemoveTimeout(id)
  PROVE  ToastsInv' /\ OpenStay
<1> DEFINE drop == {toast \in ToSet(toasts) : toast.id = id}
<1>0. /\ toasts \in Seq(ToastRecord) /\ id \in toastTimeouts /\ count' = count
      /\ toastTimeouts' = toastTimeouts \ {id} /\ toasts' = Without(toasts, drop)
      /\ Len(toasts) \in Nat
  BY DEF ToastsInv, RemoveTimeout, RemoveToast
<1>1. toasts' \in Seq(ToastRecord) /\ IsKept(toasts, drop, Len(toasts), toasts')
  BY <1>0, WithoutKept
<1>2. \A n \in 1 .. Len(toasts) : toasts[n].open => toasts[n] \notin drop
  BY <1>0 DEF ToastsInv
<1> HIDE DEF drop
<1>3. ASSUME NEW i \in DOMAIN toasts'
      PROVE  \E m \in DOMAIN toasts : toasts[m] = toasts'[i]
  <2>1. i \in 1 .. Len(toasts') /\ DOMAIN toasts = 1 .. Len(toasts)
    BY <1>0, <1>1
  <2> QED
    BY <1>1, <2>1 DEF IsKept
<1>4. Len(toasts') <= Len(toasts) /\ Len(toasts') \in Nat
  BY <1>1 DEF IsKept
<1>5. Len(toasts') <= TOAST_LIMIT
  BY <1>0, <1>4, ToastAssumption DEF ToastsInv
<1>6. ToastsInv'
  BY <1>0, <1>1, <1>3, <1>5 DEF ToastsInv
<1>7. ASSUME NEW n \in DOMAIN toasts, toasts[n].open
      PROVE  toasts[n] \in Open(toasts')
  <2>1. n \in 1 .. Len(toasts) /\ toasts[n] \notin drop
    BY <1>0, <1>2, <1>7
  <2>2. PICK i \in 1 .. Len(toasts') : toasts'[i] = toasts[n]
    BY <1>1, <2>1 DEF IsKept
  <2> QED
    BY <1>1, <1>7, <2>2 DEF Open
<1> QED
  BY <1>6, <1>7 DEF OpenStay, Stays, Open

-----------------------------------------------------------------------------
(* The forms *)

Words == UNION {Word[l] : l \in AllLists}
Dates == (0 .. MaxDate) \cup {NoDate}

\* What the pages send.
Body == UNION {[form: {p}, lists: [Lists[p] -> Seq(Words)], date: Dates] : p \in DOMAIN Lists}

\* One request's part of RequestIsValid.
Good(b) ==
  /\ b.form = "new" => b.date # NoDate /\ b.lists["interviewers"] # <<>>
  /\ \A l \in DOMAIN b.lists : IsInjective(b.lists[l])

\* The field of a list has text exactly when its array has words, so that the
\* schema, which looks at the field, speaks of the array, which is sent.
ListsInv ==
  /\ entries \in [AllLists -> Seq(Words)] /\ joined \in [AllLists -> BOOLEAN]
  /\ \A l \in AllLists : /\ ToSet(entries[l]) \subseteq Word[l]
                         /\ IsInjective(entries[l])
                         /\ joined[l] <=> entries[l] # <<>>

StepInv ==
  \/ step = Idle
  \/ step \in [at: {"request", "served"}, body: Body] /\ Good(step.body)

SentInv == sent \in Seq(Body) /\ Len(sent) <= MaxSent /\ \A n \in DOMAIN sent : Good(sent[n])

PageInv ==
  /\ page \in DOMAIN Lists /\ pushed \in {"nowhere", "away"}
  /\ filled \in BOOLEAN /\ own \in BOOLEAN
  /\ date \in Dates /\ (date # NoDate => Exists(date))

FormInv == ToastsInv /\ ListsInv /\ StepInv /\ SentInv /\ PageInv

\* The lists of the two forms.
LEMMA ListNames ==
  /\ DOMAIN Lists = {"new", "evaluate", "away"}
  /\ Lists["new"] = {"interviewers", "tags"} /\ Lists["evaluate"] = {"strengths", "weaknesses"}
  /\ Lists["away"] = {} /\ \A p \in DOMAIN Lists : Lists[p] \subseteq AllLists
<1>1. /\ DOMAIN Lists = {"new", "evaluate", "away"}
      /\ Lists["new"] = {"interviewers", "tags"} /\ Lists["evaluate"] = {"strengths", "weaknesses"}
      /\ Lists["away"] = {}
  BY DEF Lists
<1> QED
  BY <1>1 DEF AllLists

\* A form that opens or closes is blank.
LEMMA BlankLists ==
  ASSUME entries' = NoWords, joined' = NoText
  PROVE  ListsInv'
<1>1. entries' \in [AllLists -> Seq(Words)] /\ joined' \in [AllLists -> BOOLEAN]
  BY DEF NoWords, NoText
<1>2. \A l \in AllLists : entries'[l] = <<>> /\ ~joined'[l]
  BY DEF NoWords, NoText
<1>3. ToSet(<<>>) = {} /\ IsInjective(<<>>)
  BY DEF ToSet, IsInjective
<1> QED
  BY <1>1, <1>2, <1>3 DEF ListsInv

\* A list is set together with its field.
LEMMA SetListStep ==
  ASSUME ListsInv, NEW l \in AllLists, NEW words \in Seq(Words), ToSet(words) \subseteq Word[l],
         IsInjective(words), SetList(l, words)
  PROVE  ListsInv'
<1> DEFINE text == words # <<>>
<1>0. /\ entries' = [entries EXCEPT ![l] = words] /\ joined' = [joined EXCEPT ![l] = text]
      /\ text \in BOOLEAN /\ (text <=> words # <<>>)
  BY DEF SetList
<1> HIDE DEF text
<1>1. entries' \in [AllLists -> Seq(Words)] /\ joined' \in [AllLists -> BOOLEAN]
  BY <1>0 DEF ListsInv
<1>2. /\ entries'[l] = words /\ joined'[l] = text
      /\ \A k \in AllLists : k # l => entries'[k] = entries[k] /\ joined'[k] = joined[k]
  BY <1>0 DEF ListsInv
<1>3. ASSUME NEW k \in AllLists
      PROVE  /\ ToSet(entries'[k]) \subseteq Word[k] /\ IsInjective(entries'[k])
             /\ joined'[k] <=> entries'[k] # <<>>
  <2>1. CASE k = l
    BY <1>0, <1>2, <2>1
  <2>2. CASE k # l
    BY <1>2, <2>2 DEF ListsInv
  <2> QED
    BY <2>1, <2>2
<1> QED
  BY <1>1, <1>3 DEF ListsInv

\* addInterviewer and its kind refuse a word that is in the list.
LEMMA AddWordStep ==
  ASSUME ListsInv, NEW l \in AllLists, NEW w \in Word[l], AddWord(l, w)
  PROVE  ListsInv'
<1> DEFINE old == entries[l]
           words == Append(old, w)
<1>1. /\ old \in Seq(Words) /\ ToSet(old) \subseteq Word[l] /\ IsInjective(old) /\ w \in Words
      /\ w \notin ToSet(old) /\ SetList(l, words)
  BY DEF ListsInv, AddWord, Words
<1> HIDE DEF old
<1>2. /\ words \in Seq(Words) /\ DOMAIN words = 1 .. (Len(old) + 1) /\ DOMAIN old = 1 .. Len(old)
      /\ \A n \in 1 .. Len(old) : words[n] = old[n] /\ old[n] # w
      /\ words[Len(old) + 1] = w /\ Len(old) \in Nat
  BY <1>1 DEF ToSet
<1>3. \A n \in DOMAIN words : n \in DOMAIN old \/ n = Len(old) + 1
  BY <1>2
<1> HIDE DEF words
<1>4. ToSet(words) \subseteq Word[l]
  BY <1>1, <1>2, <1>3 DEF ToSet
<1>5. IsInjective(words)
  BY <1>1, <1>2, <1>3 DEF IsInjective
<1> QED
  BY <1>1, <1>2, <1>4, <1>5, SetListStep

\* removeInterviewer and its kind filter the array.
LEMMA RemoveWordStep ==
  ASSUME ListsInv, NEW l \in AllLists, NEW w \in Word[l], RemoveWord(l, w)
  PROVE  ListsInv'
<1> DEFINE old == entries[l]
           words == Without(old, {w})
<1>1. /\ old \in Seq(Words) /\ ToSet(old) \subseteq Word[l] /\ IsInjective(old)
      /\ SetList(l, words)
  BY DEF ListsInv, RemoveWord
<1> HIDE DEF old
<1>2. words \in Seq(Words) /\ IsKept(old, {w}, Len(old), words)
  BY <1>1, WithoutKept
<1>3. DOMAIN old = 1 .. Len(old) /\ DOMAIN words = 1 .. Len(words)
  BY <1>1, <1>2
<1> HIDE DEF words
<1>4. \A i \in DOMAIN words : \E m \in DOMAIN old : old[m] = words[i]
  BY <1>2, <1>3 DEF IsKept
<1>5. ToSet(words) \subseteq Word[l]
  BY <1>1, <1>4 DEF ToSet
<1>6. IsInjective(words)
  <2>1. \A a, b \in 1 .. Len(old) : old[a] = old[b] => a = b
    BY <1>1, <1>3 DEF IsInjective
  <2>2. \A i, j \in 1 .. Len(words) : words[i] = words[j] => i = j
    BY <1>2, <2>1 DEF IsKept
  <2> QED
    BY <1>3, <2>2 DEF IsInjective
<1> QED
  BY <1>1, <1>2, <1>5, <1>6, SetListStep

\* What passes the schema makes a good request.
LEMMA PayloadGood ==
  ASSUME FormInv, page # "away", Valid
  PROVE  Payload(page) \in Body /\ Good(Payload(page))
<1> DEFINE b == Payload(page)
           ls == [l \in Lists[page] |-> entries[l]]
<1>1. page \in DOMAIN Lists /\ Lists[page] \subseteq AllLists /\ date \in Dates /\ ListsInv
  BY ListNames DEF FormInv, PageInv
<1>2. b = [form |-> page, lists |-> ls, date |-> date]
  BY DEF Payload
<1>3. ls \in [Lists[page] -> Seq(Words)] /\ \A l \in Lists[page] : ls[l] = entries[l]
  BY <1>1 DEF ListsInv
<1>4. DOMAIN ls = Lists[page]
  OBVIOUS
<1> HIDE DEF b, ls
<1>5. b \in [form: {page}, lists: [Lists[page] -> Seq(Words)], date: Dates]
  BY <1>1, <1>2, <1>3
<1>6. b.form = page /\ b.lists = ls /\ b.date = date
  BY <1>2
<1>7. ASSUME page = "new"
      PROVE  date # NoDate /\ ls["interviewers"] # <<>>
  <2>1. date # NoDate /\ joined["interviewers"] /\ "interviewers" \in Lists[page]
    BY <1>7, ListNames DEF Valid, ValidInterview
  <2> QED
    BY <1>1, <1>3, <2>1 DEF ListsInv
<1>8. \A l \in Lists[page] : IsInjective(ls[l])
  BY <1>1, <1>3 DEF ListsInv
<1>9. Good(b)
  BY <1>4, <1>6, <1>7, <1>8 DEF Good
<1> QED
  BY <1>1, <1>5, <1>9 DEF Body, b

\* Every step keeps the invariant, and no open toast is taken away.
LEMMA FormStep ==
  ASSUME FormInv, [Next]_vars
  PROVE  FormInv' /\ (OpenStay \/ UNCHANGED toastVars)
<1>0. /\ Idle.at = "none"
      /\ step # Idle => step \in [at: {"request", "served"}, body: Body] /\ Good(step.body)
  BY DEF FormInv, StepInv, Idle
\* The parts that a step leaves alone.
<1>1. /\ UNCHANGED toastVars => ToastsInv'
      /\ UNCHANGED <<entries, joined>> => ListsInv'
      /\ step' \in {step, Idle} => StepInv'
      /\ UNCHANGED sent => SentInv'
  BY DEF FormInv, toastVars, ToastsInv, ListsInv, StepInv, SentInv, Idle
<1>2. ASSUME NEW p \in DOMAIN Lists, OpenForm(p)
      PROVE  FormInv' /\ UNCHANGED toastVars
  <2>1. /\ ListsInv'
        /\ UNCHANGED <<step, sent, toastVars, own, pushed>> /\ page' = p
    BY <1>2, BlankLists DEF OpenForm, BlankForm
  <2>2. filled' \in BOOLEAN /\ date' = NoDate
    BY <1>2 DEF OpenForm, BlankForm
  <2> QED
    BY <1>1, <2>1, <2>2 DEF FormInv, PageInv, Dates
<1>3. CASE LeaveForm
  <2>1. /\ UNCHANGED <<page, entries, joined, filled, date, step, own, sent, toastVars>>
        /\ pushed' = "away"
    BY <1>3 DEF LeaveForm
  <2> QED
    BY <1>1, <2>1 DEF FormInv, PageInv
<1>4. CASE Navigates
  <2>1. /\ ListsInv'
        /\ UNCHANGED <<step, sent, toastVars>>
        /\ pushed # "nowhere" /\ page' = pushed /\ pushed' = "nowhere"
    BY <1>4, BlankLists DEF Navigates, BlankForm
  <2>2. own' \in BOOLEAN /\ filled' \in BOOLEAN /\ date' = NoDate
    BY <1>4 DEF Navigates, BlankForm
  <2>3. page' = "away" /\ "away" \in DOMAIN Lists
    BY <2>1, ListNames DEF FormInv, PageInv
  <2> QED
    BY <1>1, <2>1, <2>2, <2>3 DEF FormInv, PageInv, Dates
<1>5. CASE Edit
  <2>1. CASE FillFields
    <3>1. /\ UNCHANGED <<page, entries, joined, date, step, own, pushed, sent, toastVars>>
          /\ filled' \in BOOLEAN
      BY <2>1 DEF FillFields
    <3> QED
      BY <1>1, <3>1 DEF FormInv, PageInv
  <2>2. ASSUME NEW d, d # NoDate => Exists(d), SetDate(d)
        PROVE  FormInv' /\ UNCHANGED toastVars
    <3>1. /\ UNCHANGED <<page, entries, joined, filled, step, own, pushed, sent, toastVars>>
          /\ date' \in Dates /\ (date' # NoDate => Exists(date'))
      BY <2>2 DEF SetDate, Dates
    <3> QED
      BY <1>1, <3>1 DEF FormInv, PageInv
  <2>3. ASSUME NEW l \in AllLists, NEW w \in Word[l], AddWord(l, w) \/ RemoveWord(l, w)
        PROVE  FormInv' /\ UNCHANGED toastVars
    <3>1. UNCHANGED <<page, filled, date, step, own, pushed, sent, toastVars>>
      BY <2>3 DEF AddWord, RemoveWord, SetList
    <3>2. ListsInv'
      BY <2>3, AddWordStep, RemoveWordStep DEF FormInv
    <3> QED
      BY <1>1, <3>1, <3>2 DEF FormInv, PageInv
  <2>4. Current \in Nat
    BY ClockAssumption DEF FormInv, PageInv, Dates, Current
  <2>5. CASE \/ \E day \in Day : PickDay(day)
             \/ \E h \in HourInput : TypeHour(h)
             \/ \E m \in MinuteInput : TypeMinute(m)
             \/ \E s \in SecondInput : TypeSecond(s)
    BY <2>2, <2>4, <2>5, DatesSet DEF PickDay, TypeHour, TypeMinute, TypeSecond
  <2> QED
    BY <1>5, <2>1, <2>2, <2>3, <2>5 DEF Edit, ClearDay
<1>6. CASE Submit
  <2>1. /\ page # "away" /\ Valid /\ step' = [at |-> "request", body |-> Payload(page)]
        /\ UNCHANGED <<page, entries, joined, filled, date, pushed, sent, toastVars>>
    BY <1>6 DEF Submit
  <2>2. own' \in BOOLEAN
    BY <1>6 DEF Submit
  <2>3. StepInv'
    <3>1. Payload(page) \in Body /\ Good(Payload(page))
      BY <2>1, PayloadGood
    <3>2. step' \in [at: {"request", "served"}, body: Body] /\ step'.body = Payload(page)
      BY <2>1, <3>1
    <3> QED
      BY <3>1, <3>2 DEF StepInv
  <2> QED
    BY <1>1, <2>1, <2>2, <2>3 DEF FormInv, PageInv
<1>7. CASE ServerAccepts
  <2>1. /\ step.at = "request" /\ Len(sent) < MaxSent /\ sent' = Append(sent, step.body)
        /\ step' = [step EXCEPT !.at = "served"]
        /\ UNCHANGED <<page, entries, joined, filled, date, own, pushed, toastVars>>
    BY <1>7 DEF ServerAccepts
  <2>2. step \in [at: {"request", "served"}, body: Body] /\ Good(step.body)
    BY <1>0, <2>1
  <2>3. StepInv'
    <3>1. step' \in [at: {"request", "served"}, body: Body] /\ step'.body = step.body
      BY <2>1, <2>2
    <3> QED
      BY <2>2, <3>1 DEF StepInv
  <2>4. SentInv'
    <3>1. sent \in Seq(Body) /\ Len(sent) \in Nat /\ step.body \in Body
      BY <2>2 DEF FormInv, SentInv
    <3>2. /\ sent' \in Seq(Body) /\ Len(sent') = Len(sent) + 1
          /\ \A n \in DOMAIN sent' : sent'[n] = step.body \/ (n \in DOMAIN sent /\ sent'[n] = sent[n])
      BY <2>1, <3>1
    <3>3. Len(sent') <= MaxSent
      BY <2>1, <3>1, <3>2, SentAssumption
    <3> QED
      BY <2>2, <3>2, <3>3 DEF FormInv, SentInv
  <2> QED
    BY <1>1, <2>1, <2>3, <2>4 DEF FormInv, PageInv
<1>8. CASE SubmitFails
  <2>1. /\ Toast("Error") /\ step' = Idle
        /\ UNCHANGED <<page, entries, joined, filled, date, pushed, sent>>
    BY <1>8 DEF SubmitFails
  <2>2. own' \in BOOLEAN
    BY <1>8 DEF SubmitFails
  <2>3. ToastsInv' /\ OpenStay
    BY <2>1, ToastStepInv DEF FormInv, Title
  <2> QED
    BY <1>1, <2>1, <2>2, <2>3 DEF FormInv, PageInv
<1>9. CASE SubmitSucceeds
  <2>1. /\ \E title \in Title : Toast(title)
        /\ step' = Idle /\ pushed' \in {"nowhere", "away"}
        /\ UNCHANGED <<page, entries, joined, filled, date, sent>>
    BY <1>9 DEF SubmitSucceeds, Title
  <2>2. own' \in BOOLEAN
    BY <1>9 DEF SubmitSucceeds
  <2>3. ToastsInv' /\ OpenStay
    BY <2>1, ToastStepInv DEF FormInv
  <2> QED
    BY <1>1, <2>1, <2>2, <2>3 DEF FormInv, PageInv
<1>10. CASE ToastStep /\ UNCHANGED formVars
  <2>1. ToastsInv' /\ OpenStay
    BY <1>10, DismissStep, RemoveStep DEF ToastStep, FormInv
  <2> QED
    BY <1>1, <1>10, <2>1 DEF FormInv, PageInv, formVars
<1>11. CASE UNCHANGED vars
  BY <1>1, <1>11 DEF FormInv, PageInv, vars, formVars
<1>12. UNCHANGED vars => UNCHANGED toastVars
  BY DEF vars
<1> QED
  BY <1>2, <1>3, <1>4, <1>5, <1>6, <1>7, <1>8, <1>9, <1>10, <1>11, <1>12 DEF Next

\* Nothing is entered or sent at first.
LEMMA FormInit ==
  ASSUME Init
  PROVE  FormInv
<1>1. ToastsInv
  BY ToastAssumption DEF Init, ToastsInit, ToastsInv
<1>2. ListsInv
  <2>1. entries \in [AllLists -> Seq(Words)] /\ joined \in [AllLists -> BOOLEAN]
    BY DEF Init, NoWords, NoText
  <2>2. \A l \in AllLists : entries[l] = <<>> /\ ~joined[l]
    BY DEF Init, NoWords, NoText
  <2>3. ToSet(<<>>) = {} /\ IsInjective(<<>>)
    BY DEF ToSet, IsInjective
  <2> QED
    BY <2>1, <2>2, <2>3 DEF ListsInv
<1>3. StepInv /\ SentInv
  BY SentAssumption DEF Init, StepInv, SentInv
<1>4. own \in BOOLEAN /\ filled \in BOOLEAN
  BY DEF Init
<1>5. PageInv
  BY <1>4, ListNames DEF Init, PageInv, Dates
<1> QED
  BY <1>1, <1>2, <1>3, <1>5 DEF FormInv

\* The invariant holds throughout.
LEMMA FormAlways == Spec => []FormInv
<1>1. Init => FormInv
  BY FormInit
<1>2. FormInv /\ [Next]_vars => FormInv'
  BY FormStep
<1> QED
  BY <1>1, <1>2, PTL DEF Spec

-----------------------------------------------------------------------------
(* Theorems *)

\* The forms, the submission and the toasts stay within their types.
THEOREM FormsTyped == Spec => []TypeOK
<1>1. FormInv => TypeOK
  <2> SUFFICES ASSUME FormInv
               PROVE  TypeOK
    OBVIOUS
  <2>1. ToastsTypeOK(Title)
    <3>1. \A n \in DOMAIN toasts : toasts[n] \in ToastRecord /\ toasts[n].id \in 1 .. count
      BY DEF FormInv, ToastsInv
    <3>2. \A n \in DOMAIN toasts : toasts[n] \in [id: 1 .. count, title: Title, open: BOOLEAN]
      BY <3>1 DEF ToastRecord
    <3> QED
      BY <3>2 DEF FormInv, ToastsInv, ToastsTypeOK
  <2>2. step.at \in {"none", "request", "served"}
    BY DEF FormInv, StepInv, Idle
  <2> QED
    BY <2>1, <2>2 DEF FormInv, ListsInv, SentInv, PageInv, Dates, TypeOK
<1> QED
  BY <1>1, FormAlways, PTL

\* Every request that the server accepts passes the schema of its form, which
\* looked at the joined fields and not at the arrays that are sent: a scheduled
\* interview has a date and an interviewer, and no list names a word twice
\* (schedule-interview-form.tsx, submit-evaluation-form.tsx).
THEOREM RequestsValid == Spec => []RequestIsValid
<1>1. FormInv => RequestIsValid
  BY DEF FormInv, SentInv, Good, RequestIsValid
<1> QED
  BY <1>1, FormAlways, PTL

\* No late timer takes an open toast away, and a new toast takes the place of
\* none but the last, for any limit on the number of toasts (use-toast.ts).
THEOREM ToastsStay == Spec => OpenToastStays
<1>1. FormInv /\ [Next]_vars => [OpenStay]_toastVars
  BY FormStep
<1>2. [OpenStay]_toastVars =>
        [\A toast \in Open(toasts) :
           \/ toast \in Open(toasts')
           \/ [toast EXCEPT !.open = FALSE] \in ToSet(toasts')
           \/ /\ count' > count /\ Len(toasts') = TOAST_LIMIT
              /\ toasts'[1].id = count' /\ toasts[Len(toasts)] = toast]_toastVars
  BY DEF OpenStay, Stays
<1> QED
  BY <1>1, <1>2, FormAlways, PTL DEF Spec, OpenToastStays

\* The calendar keeps the time of day, and a time typed in range keeps the day
\* and the other parts of the time, in local time with any hours skipped for
\* summer time and for a clock of any number of hours, minutes and seconds; only
\* a time that the clocks skip on that day becomes the one an hour later
\* (schedule-interview-form.tsx, onSelect and the three inputs).
THEOREM DateTimeApart == Spec => []DateAndTimeApart
<1>1. FormInv => DateAndTimeApart
  <2>1. ASSUME FormInv
        PROVE  Current \in Nat /\ (date # NoDate => Exists(date))
    BY <2>1, ClockAssumption DEF FormInv, PageInv, Dates, Current
  <2> QED
    BY <2>1, ApartWhenSet
<1> QED
  BY <1>1, FormAlways, PTL

=============================================================================
