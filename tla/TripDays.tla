------------------------------ MODULE TripDays ------------------------------
(***************************************************************************)
(* The days of one trip: their slots, their dates, and what hangs on them: *)
(* content (assignments and notes), one stay and one booking that is not a *)
(* hotel's.  A call runs to its end before the next; each is one           *)
(* transaction, save that updateTrip writes the trip's row before the one  *)
(* that regenerates the days.                                              *)
(***************************************************************************)
EXTENDS Integers, Sequences, FiniteSets, SequencesExt

CONSTANTS
    MaxDayRows,   \* day rows at a time (bound)
    MaxDate,      \* the calendar ends here (bound)
    MaxTripDays,  \* MAX_TRIP_DAYS
    MaxCalls      \* calls (bound)

DayIds == 1 .. MaxDayRows
Calendar == 1 .. MaxDate

ASSUME TripDaysAssumption ==
    MaxDayRows \in Nat /\ MaxDate \in Nat /\ MaxTripDays \in 1 .. MaxDayRows /\ MaxCalls \in Nat

VARIABLES
    number,    \* per row: days.day_number, 0 if there is no such row
    date,      \* per row: days.date, or 0
    full,      \* the rows with assignments or notes
    stay,      \* day_accommodations: start and end row, or << >>
    booking,   \* reservations: its day_id and its date, either may be 0
    range,     \* trips.start_date and end_date, each may be 0
    tidy,      \* history: "no" once a day was created with a date, or deleted
    calls      \* calls so far

tripDaysVars == <<number, date, full, stay, booking, range, tidy, calls>>

-----------------------------------------------------------------------------
(* Rows and slots. *)

Existing == {i \in DayIds : number[i] # 0}
Free == DayIds \ Existing

(* The rows of S in ascending order of day_number (or of another column). *)
ByNumber(S, num) ==
    [k \in 1 .. Cardinality(S) |->
        CHOOSE i \in S :
            Cardinality({j \in S : num[j] < num[i] \/ (num[j] = num[i] /\ j < i)}) = k - 1]

(* The rows of S, numbered 1, 2, ... as in the list, with their dates. *)
Numbered(list) ==
    number' = [i \in DayIds |-> IF \E k \in DOMAIN list : list[k] = i
                                THEN CHOOSE k \in DOMAIN list : list[k] = i ELSE 0]

First(list, n) == SubSeq(list, 1, IF n < Len(list) THEN n ELSE Len(list))
After(list, n) == SubSeq(list, n + 1, Len(list))
Least(a, b) == IF a < b THEN a ELSE b
Most(a, b) == IF a < b THEN b ELSE a

(* The next n rows to be inserted. *)
NewRows(n) == First(ByNumber(Free, [i \in DayIds |-> i]), n)

(* Deleted rows take stays with them, bookings lose their day. *)
Without(gone) ==
    [stay |-> IF Range(stay) \cap gone = {} THEN stay ELSE << >>,
     day |-> IF booking.day \in gone THEN 0 ELSE booking.day]

Empty(i, st) == i \notin full /\ i \notin Range(st)

-----------------------------------------------------------------------------
(* generateDays: the new list of rows, its dates, and the rows it deletes. *)

(* Without dates: all rows lose theirs, then the empty ones at the end go   *)
(* or rows are added, numbered on from how many there are.  A number that   *)
(* is taken, after a gap, fails the call.                                   *)
Undated(count) ==
    LET n == Cardinality(Existing)
        target == Least(Most(IF count # 0 THEN count ELSE IF n = 0 THEN 7 ELSE n, 1), MaxTripDays)
        added == NewRows(target - n)
        num == [i \in DayIds |->
                  IF i \in Range(added) THEN n + (CHOOSE k \in DOMAIN added : added[k] = i)
                  ELSE number[i]]
        trimmed == Range(First(Reverse(ByNumber({i \in Existing : Empty(i, stay)}, number)),
                               n - target))
    IN  IF target > n
        THEN [ok |-> \A i \in Existing, j \in Range(added) : num[i] # num[j],
              list |-> ByNumber(Existing \cup Range(added), num),
              dates |-> << >>, gone |-> {}]
        ELSE [ok |-> TRUE, list |-> ByNumber(Existing \ trimmed, number),
              dates |-> << >>, gone |-> trimmed]

(* With dates: the dated rows take the new dates by position, then the      *)
(* dateless ones, then new rows; what is over is deleted, except dateless   *)
(* rows with content.                                                       *)
Dated(start, end) ==
    LET n == Most(Least(end - start + 1, MaxTripDays), 0)
        dated == ByNumber({i \in Existing : date[i] # 0}, number)
        dateless == ByNumber({i \in Existing : date[i] = 0}, number)
        reused == First(dateless, Most(n - Len(dated), 0))
        overflow == Range(After(dated, n))
        left == After(dateless, Len(reused))
        kept == ByNumber({i \in Range(left) : ~Empty(i, Without(overflow).stay)}, number)
        added == NewRows(n - Len(dated) - Len(dateless))
    IN  [ok |-> TRUE,
         list |-> First(dated, n) \o reused \o added \o kept,
         dates |-> [k \in 1 .. n |-> start + k - 1],
         gone |-> overflow \cup (Range(left) \ Range(kept))]

Generated(start, end, count) ==
    IF start = 0 \/ end = 0 THEN Undated(count) ELSE Dated(start, end)

(* Mutant: a slot past the dates leaves its row as it was. *)
DateKept(g, i) ==
    IF \E k \in DOMAIN g.dates : k \in DOMAIN g.list /\ g.list[k] = i
    THEN g.dates[CHOOSE k \in DOMAIN g.list : g.list[k] = i] ELSE date[i]

(* Slot k has the k-th date; a slot past them has none. *)
DateOf(g, i) ==
    IF \E k \in DOMAIN g.dates : k \in DOMAIN g.list /\ g.list[k] = i
    THEN g.dates[CHOOSE k \in DOMAIN g.list : g.list[k] = i] ELSE 0

(* Mutant: the booking keeps its date whatever its day gets. *)
NotRestamped(day, new) == [day |-> day, date |-> booking.date]

(* restampReservationDates, for the days' dates before and after. *)
Restamped(day, new) ==
    IF day # 0 /\ booking.date # 0 /\ date[day] # 0 /\ new[day] # 0
    THEN [day |-> day, date |-> IF date[day] = new[day] THEN booking.date ELSE new[day]]
    ELSE [day |-> day, date |-> booking.date]

(* resyncReservationDays: to the day with the booking's date, if any. *)
Reanchored(day) ==
    LET on == {i \in DayIds : booking.date # 0 /\ date'[i] = booking.date}
    IN  booking' \in {[booking EXCEPT !.day = i] : i \in IF on = {} THEN {day} ELSE on}

(* Mutant: found days are taken in any order. *)
ResyncedAnyway(st) ==
    LET on(i) == {j \in DayIds : date[i] # 0 /\ date'[j] = date[i]}
        found == IF st = << >> THEN {} ELSE on(st[1]) \X on(st[2])
    IN  stay' \in IF found = {} THEN {st} ELSE found

(* resyncAccommodationDays: to the days with the stay's former dates. *)
ResyncedStay(st) ==
    LET on(i) == {j \in DayIds : date[i] # 0 /\ date'[j] = date[i]}
        found == IF st = << >> THEN {} ELSE on(st[1]) \X on(st[2])
    IN  stay' \in IF found = {} THEN {st}
                  ELSE {IF number'[new[1]] <= number'[new[2]] THEN new ELSE st : new \in found}

-----------------------------------------------------------------------------
(* The calls. *)

(* createTrip: dates, or a number of days. *)
TripDaysInit ==
    \E start, end \in 0 .. MaxDate, count \in 0 .. MaxTripDays :
        /\ \/ start \in Calendar /\ end \in start .. MaxDate /\ count = 0
           \/ start = 0 /\ end = 0 /\ count # 0
        /\ LET n == IF start = 0 THEN count ELSE Least(end - start + 1, MaxTripDays)
           IN  /\ number = [i \in DayIds |-> IF i <= n THEN i ELSE 0]
               /\ date = [i \in DayIds |-> IF i <= n /\ start # 0 THEN start + i - 1 ELSE 0]
        /\ range = <<start, end>>
        /\ full = {} /\ stay = << >> /\ booking = [day |-> 0, date |-> 0]
        /\ tidy = "yes" /\ calls = 0

Call == calls < MaxCalls /\ calls' = calls + 1

(* An update of the trip: what it does not give stays as it was.  Only two  *)
(* dates given together are compared.                                       *)
UpdateTrip(start, end, count, mode) ==
    LET g == Generated(start, end, count)
        left == Without(g.gone)
        changed == range # <<start, end>> \/ count # 0
    IN  /\ Call
        /\ start # range[1] /\ end # range[2] /\ start # 0 /\ end # 0 => start <= end
        /\ range' = <<start, end>>
        /\ IF ~changed \/ ~g.ok
           THEN UNCHANGED <<number, date, full, stay, booking, tidy>>
           ELSE /\ Numbered(g.list)
                /\ date' = [i \in DayIds |-> DateOf(g, i)]
                /\ full' = full \ g.gone
                /\ tidy' = "yes"
                /\ IF mode = "shift_all"
                   THEN stay' = left.stay /\ booking' = Restamped(left.day, date')
                   ELSE /\ ResyncedStay(left.stay)
                        /\ Reanchored(left.day)

(* Both repin the dates to the slots; a stay must not be inverted. *)
Repinned(list, dates) ==
    /\ Numbered(list)
    /\ date' = [i \in DayIds |-> DateOf([list |-> list, dates |-> dates], i)]
    /\ stay # << >> => number'[stay[1]] <= number'[stay[2]]
    /\ booking' = IF dates = << >> THEN booking ELSE Restamped(booking.day, date')

ReorderDays(list) ==
    /\ Call
    /\ LET dates == ByNumber({i \in Existing : date[i] # 0}, date)
       IN  Repinned(list, [k \in DOMAIN dates |-> date[dates[k]]])
    /\ UNCHANGED <<full, stay, range, tidy>>

(* Insert at a position: without dates, by shifting the later numbers. *)
InsertDay(pos) ==
    LET list == ByNumber(Existing, number)
        dates == {date[i] : i \in Existing} \ {0}
        earliest == CHOOSE d \in dates : \A e \in dates : d <= e
        new == NewRows(1)[1]
    IN  /\ Call /\ Free # {}
        /\ pos \in 1 .. Len(list) + 1
        /\ IF dates = {}
           THEN /\ number' = [i \in DayIds |-> IF i = new THEN pos
                                               ELSE IF number[i] >= pos THEN number[i] + 1
                                               ELSE number[i]]
                /\ UNCHANGED <<date, booking, range>>
           ELSE /\ earliest + Len(list) <= MaxDate
                /\ Repinned(InsertAt(list, pos, new),
                            [k \in 1 .. Len(list) + 1 |-> earliest + k - 1])
                /\ range' = [range EXCEPT ![2] = earliest + Len(list)]
        /\ UNCHANGED <<full, stay, tidy>>

(* A day is appended, with or without a date. *)
CreateDay(d) ==
    LET new == NewRows(1)[1]
    IN  /\ Call /\ Free # {}
        /\ number' = [number EXCEPT ![new] =
                        1 + (CHOOSE n \in {0} \cup {number[i] : i \in Existing} :
                               \A i \in Existing : number[i] <= n)]
        /\ date' = [date EXCEPT ![new] = d]
        /\ tidy' = IF d = 0 THEN tidy ELSE "no"
        /\ UNCHANGED <<full, stay, booking, range>>

DeleteDay(i) ==
    /\ Call /\ i \in Existing
    /\ number' = [number EXCEPT ![i] = 0] /\ date' = [date EXCEPT ![i] = 0]
    /\ full' = full \ {i}
    /\ stay' = Without({i}).stay
    /\ booking' = [booking EXCEPT !.day = Without({i}).day]
    /\ tidy' = "no"
    /\ UNCHANGED range

(* What hangs on the days: a place or note is added; a stay or a booking is *)
(* made or changed, whatever it was before.                                 *)
Fill(i) ==
    /\ Call /\ i \in Existing \ full
    /\ full' = full \cup {i}
    /\ UNCHANGED <<number, date, stay, booking, range, tidy>>

(* The two days of a stay need only exist: it may end before it begins. *)
PutStay(i, j) ==
    /\ Call /\ i \in Existing /\ j \in Existing
    /\ stay' = <<i, j>>
    /\ UNCHANGED <<number, date, full, booking, range, tidy>>

(* resolveDayIdFromTime: a day with the date, or else the nearest.  Days    *)
(* without a date sort before all others, then the earlier of two as near.  *)
DaysFor(d) ==
    LET on == {i \in Existing : date[i] = d}
        dateless == {i \in Existing : date[i] = 0}
        Away(i) == IF date[i] < d THEN d - date[i] ELSE date[i] - d
        Nearer(i, j) == Away(i) < Away(j) \/ (Away(i) = Away(j) /\ date[i] <= date[j])
    IN  IF on # {} THEN on
        ELSE IF dateless # {} THEN dateless
        ELSE {i \in Existing : \A j \in Existing : Nearer(i, j)}

(* A day that the client gives is taken, whatever date it gives beside it;  *)
(* a date alone is resolved to a day, if the trip has any.                  *)
Book(day, d) ==
    /\ Call /\ day \in {0} \cup Existing
    /\ booking' \in IF day # 0 \/ d = 0 \/ Existing = {} THEN {[day |-> day, date |-> d]}
                    ELSE {[day |-> i, date |-> d] : i \in DaysFor(d)}
    /\ UNCHANGED <<number, date, full, stay, range, tidy>>

TripDaysNext ==
    \/ \E start, end \in 0 .. MaxDate, mode \in {"shift_all", "anchor"} :
          \E count \in 0 .. (IF start = 0 \/ end = 0 THEN MaxTripDays ELSE 1) :
              UpdateTrip(start, end, count, mode)
    \/ \E list \in SetToSeqs(Existing) : ReorderDays(list)
    \/ \E pos \in 1 .. MaxDayRows + 1 : InsertDay(pos)
    \/ \E d \in 0 .. MaxDate : CreateDay(d)
    \/ \E i \in DayIds : DeleteDay(i) \/ Fill(i)
    \/ \E day \in 0 .. MaxDayRows, d \in 0 .. MaxDate : Book(day, d)
    \/ \E i, j \in DayIds : PutStay(i, j)

TripDaysSpec == TripDaysInit /\ [][TripDaysNext]_tripDaysVars

-----------------------------------------------------------------------------
(* Properties. *)

(* No call that renumbers or redates the days puts the end of a stay before *)
(* its start, though every one of them may; only a day created with a date  *)
(* behind dateless days, which new dates then bring to the front, could.    *)
(* A stay that the user puts down may be inverted from the start.           *)
InOrder(st) == st # << >> => number[st[1]] <= number[st[2]]
DatedFirst == \A i, j \in Existing : date[i] # 0 /\ date[j] = 0 => number[i] < number[j]

StaysKeepOrder ==
    [][DatedFirst /\ InOrder(stay) =>
         InOrder(stay)' \/ \E i, j \in DayIds : PutStay(i, j)]_tripDaysVars

(* A booking that is on the day of its date is so after any call other than *)
(* one on the booking itself, unless its day is deleted or has got a slot   *)
(* without a date, or no day has the booking's date.                        *)
OnItsDay == booking.day # 0 /\ booking.date # 0 /\ date[booking.day] = booking.date

BookingKeepsItsDay ==
    [][OnItsDay => \/ OnItsDay' \/ booking'.day = 0
                   \/ date'[booking'.day] = 0
                   \/ \A i \in DayIds : date'[i] # booking'.date
                   \/ \E day \in 0 .. MaxDayRows, d \in 0 .. MaxDate : Book(day, d)
      ]_tripDaysVars

(* The dated days are the trip's dates, one slot each and in order, up to   *)
(* the maximum; without dates no day has one.                               *)
DatesMatchTrip ==
    tidy = "yes" =>
        LET dated == ByNumber({i \in Existing : date[i] # 0}, number)
            n == Most(range[2] - range[1] + 1, 0)
        IN  IF range[1] = 0 \/ range[2] = 0 THEN dated = << >>
            ELSE /\ \A k \in DOMAIN dated : date[dated[k]] = range[1] + k - 1
                 /\ Len(dated) = n \/ (Len(dated) < n /\ Len(dated) = MaxTripDays)

(* Type invariant. *)
TripDaysTypeOK ==
    /\ number \in [DayIds -> Nat] /\ date \in [DayIds -> Nat]
    /\ full \subseteq DayIds
    /\ stay \in {<< >>} \cup (DayIds \X DayIds)
    /\ booking \in [day : {0} \cup DayIds, date : Nat]
    /\ range \in Nat \X Nat
    /\ tidy \in {"yes", "no"} /\ calls \in Nat

(* What the three properties need of the rows: no two in one slot, a date,  *)
(* a stay or a booking on rows that exist only, and no gap between the      *)
(* slots while no day was deleted.                                          *)
RowsSound ==
    /\ \A i, j \in Existing : number[i] = number[j] => i = j
    /\ \A i \in DayIds : date[i] # 0 => i \in Existing
    /\ Range(stay) \subseteq Existing
    /\ booking.day # 0 => booking.day \in Existing
    /\ tidy = "yes" => \A i \in Existing : number[i] <= Cardinality(Existing)

TripDaysInv == TripDaysTypeOK /\ RowsSound /\ DatesMatchTrip

=============================================================================
