---------------------------- MODULE Metaphysical ----------------------------
(***************************************************************************)
(* The profile CustomerManagement derives from a birth date                *)
(* (src/utils/metaphysical.ts): the Western sign, the Chinese year with    *)
(* its element, and the life path number.  A date is chosen at the start   *)
(* and calculated in one step; the properties compare with the calendar.   *)
(***************************************************************************)
EXTENDS Integers, FiniteSets

CONSTANTS BirthYears   \* bound: the years of the dates tried

ASSUME MetaphysicalAssumption == BirthYears \subseteq 1583 .. 9998

VARIABLES
  birth,    \* the date of the request
  west,     \* is the server in a time zone behind UTC?
  profile   \* the calculated fields

profileVars == <<birth, west, profile>>

NotCalculated == [profile |-> "not calculated"]
NullProfile == [profile |-> "null"]

\* What the validation, a regular expression, lets through.
RequestDates == [year : BirthYears, month : 0 .. 13, day : 0 .. 32]
NoDate == [year |-> 0, month |-> 0, day |-> 0]

MetaphysicalInit ==
  /\ birth = NoDate
  /\ west \in BOOLEAN
  /\ profile = NotCalculated

-----------------------------------------------------------------------------
(***************************************************************************)
(* new Date(birthDateStr).                                                 *)
(***************************************************************************)
Leap(y) == y % 4 = 0 /\ (y % 100 # 0 \/ y % 400 = 0)
MonthDays(y, m) == IF m = 2 THEN (IF Leap(y) THEN 29 ELSE 28)
                   ELSE IF m \in {4, 6, 9, 11} THEN 30 ELSE 31

IsDate(b) == b.month \in 1 .. 12 /\ b.day \in 1 .. 31

\* A day behind the end of its month is one of the next month.
Rolled(b) ==
  LET days == MonthDays(b.year, b.month)
  IN IF b.day <= days THEN b
     ELSE [b EXCEPT !.month = @ + 1, !.day = @ - days]

DayBefore(b) ==
  IF b.day > 1 THEN [b EXCEPT !.day = @ - 1]
  ELSE IF b.month = 1 THEN [year |-> b.year - 1, month |-> 12, day |-> 31]
  ELSE [b EXCEPT !.month = @ - 1, !.day = MonthDays(b.year, b.month - 1)]

\* The string is midnight in UTC; getFullYear, getMonth and getDate are local.
LocalDate(b) == IF west THEN DayBefore(Rolled(b)) ELSE Rolled(b)

-----------------------------------------------------------------------------
ZODIAC_RANGES ==
  << <<"Capricorn", 12, 22, 1, 19>>, <<"Aquarius", 1, 20, 2, 18>>,
     <<"Pisces", 2, 19, 3, 20>>, <<"Aries", 3, 21, 4, 19>>,
     <<"Taurus", 4, 20, 5, 20>>, <<"Gemini", 5, 21, 6, 20>>,
     <<"Cancer", 6, 21, 7, 22>>, <<"Leo", 7, 23, 8, 22>>,
     <<"Virgo", 8, 23, 9, 22>>, <<"Libra", 9, 23, 10, 22>>,
     <<"Scorpio", 10, 23, 11, 21>>, <<"Sagittarius", 11, 22, 12, 21>> >>

InRange(range, d) ==
  \/ d.month = range[2] /\ d.day >= range[3]
  \/ d.month = range[4] /\ d.day <= range[5]

\* The first range that has the date.  All begin and end in different months: the
\* loop has the same test for them, whether or not they pass the end of a year.
CalculateZodiacSign(d) ==
  LET found == {i \in 1 .. 12 : InRange(ZODIAC_RANGES[i], d)}
  IN IF found = {} THEN "Capricorn"
     ELSE ZODIAC_RANGES[CHOOSE i \in found : \A j \in found : i <= j][1]

Stem(year) == (((year - 4) % 10) + 10) % 10
Branch(year) == (((year - 4) % 12) + 12) % 12

\* The stem and the branch, which also names the animal.
CalculateChineseZodiac(d) == <<Stem(d.year), Branch(d.year)>>

STEM_ELEMENTS == <<"wood", "wood", "fire", "fire", "earth", "earth",
                   "metal", "metal", "water", "water">>

CalculateFiveElement(d) == STEM_ELEMENTS[Stem(d.year) + 1]

Master == {11, 22, 33}

DigitSum(n) ==
  (n % 10) + ((n \div 10) % 10) + ((n \div 100) % 10) + (n \div 1000)

\* Digits are added until one is left, or a master number.  The sum of a year
\* has two digits at most, so that the loop runs three times at most.
ReduceToSingle(n) ==
  LET Step(k) == IF k > 9 /\ k \notin Master THEN DigitSum(k) ELSE k
  IN Step(Step(Step(n)))

CalculateLifePathNumber(d) ==
  ReduceToSingle(ReduceToSingle(d.year) + ReduceToSingle(d.month)
                   + ReduceToSingle(d.day))

CalculateAllMetaphysical ==
  /\ profile = NotCalculated
  /\ birth' \in RequestDates
  /\ profile' =
       IF ~IsDate(birth') THEN NullProfile
       ELSE LET d == LocalDate(birth')
            IN [sign |-> CalculateZodiacSign(d),
                chinese |-> CalculateChineseZodiac(d),
                element |-> CalculateFiveElement(d),
                path |-> CalculateLifePathNumber(d)]
  /\ UNCHANGED west

MetaphysicalNext == CalculateAllMetaphysical

MetaphysicalSpec == MetaphysicalInit /\ [][MetaphysicalNext]_profileVars

-----------------------------------------------------------------------------
(***************************************************************************)
(* Properties                                                              *)
(***************************************************************************)

\* The days on which the signs begin, as month and day, and the signs of the
\* year from the first of January on.
Begins == {120, 219, 321, 420, 521, 621, 723, 823, 923, 1023, 1122, 1222}
SignsOfTheYear ==
  <<"Capricorn", "Aquarius", "Pisces", "Aries", "Taurus", "Gemini", "Cancer",
    "Leo", "Virgo", "Libra", "Scorpio", "Sagittarius", "Capricorn">>
SignOn(d) ==
  SignsOfTheYear[Cardinality({b \in Begins : b <= 100 * d.month + d.day}) + 1]

OfTheCalendar(b) == IsDate(b) /\ b.day <= MonthDays(b.year, b.month)

\* On a server that is not behind UTC the profile of a date of the calendar has
\* the sign its day falls in, with no gap between two ranges; the 60-year cycle
\* of stems and branches from 1984 on, with its element for every two years; and
\* a life path number that leaves the remainder of the date's digits by nine.  A
\* month or day out of range has no profile.
ProfileIsOfItsDate ==
  profile # NotCalculated =>
    /\ ~IsDate(birth) => profile = NullProfile
    /\ OfTheCalendar(birth) /\ ~west =>
         LET since == (birth.year - 1984) % 60
         IN /\ profile # NullProfile
            /\ profile.sign = SignOn(birth)
            /\ profile.chinese = <<since % 10, since % 12>>
            /\ profile.element =
                 <<"wood", "fire", "earth", "metal", "water">>[(since % 10) \div 2 + 1]
            /\ profile.path \in 1 .. 9 \union Master
            /\ profile.path % 9 = (birth.year + birth.month + birth.day) % 9

\* "Returns null if the date string is invalid".  A day that its month does not
\* have is taken for one of the next month: TLC finds it violated.
InvalidDatesAreNull ==
  profile # NotCalculated /\ ~OfTheCalendar(birth) => profile = NullProfile

\* The test of the boundary dates, wherever it runs: 22 December and 19 January
\* are Capricorn's, 20 January is Aquarius'.  Behind UTC each is taken for the day
\* before: TLC finds it violated.
BoundaryDates == <<[year |-> 2000, month |-> 12, day |-> 22],
                   [year |-> 2000, month |-> 1, day |-> 20],
                   [year |-> 2000, month |-> 1, day |-> 19]>>
BoundariesHold ==
  profile # NotCalculated =>
    \A i \in 1 .. 3 : birth = BoundaryDates[i] =>
      profile.sign = <<"Capricorn", "Aquarius", "Capricorn">>[i]
=============================================================================
