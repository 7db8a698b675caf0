----------------------------- MODULE TokenMetrics -----------------------------
(***************************************************************************)
(* src/token_metrics.rs: the counters of each token, and the task that     *)
(* every five minutes takes them down one by one, while the scanner goes   *)
(* on counting, and writes them to a file; and every Every windows the sum *)
(* of the last Every to another.                                           *)
(*                                                                         *)
(* The files only show the numbers: what is in them, sorted and totalled,  *)
(* and whether they could be written, changes nothing here.  The time      *)
(* between two windows is not modelled: the next may begin at any time.    *)
(***************************************************************************)
EXTENDS Integers, Sequences

CONSTANTS Mints,  \* token_mints: a sequence, in which a mint may occur twice
          Every   \* windows in a summary: 6

VARIABLES live,     \* of a position and a counter: its value
          taken,    \* cells taken down in this pass
          snap,     \* of a cell: what was taken down in this pass
          acc,      \* of a cell: the sum since the last summary
          windows,  \* passes since the last summary
          total,    \* history: of a cell, everything ever counted
          told,     \* history: of a cell, the sum of all finished windows
          summed    \* history: of a cell, the sum of all summaries

bookVars == <<live, taken, snap, acc, windows, total, told, summed>>

Counter == {"q_sent", "route_ok", "route_fail", "profitable", "not_profitable"}
Cell == (DOMAIN Mints) \X Counter
Zero == [c \in Cell |-> 0]
Sum(f, g) == [c \in Cell |-> f[c] + g[c]]

-----------------------------------------------------------------------------
\* Faulty variants of the definitions above and below, for the mutation runs.

\* the verdicts are read first
OrderVerdictsFirst == <<"profitable", "not_profitable", "q_sent", "route_ok", "route_fail">>

\* the accumulator is not emptied after a summary
SummariseOnly ==
    /\ summed' = Sum(summed, Sum(acc, snap))
    /\ acc' = Sum(acc, snap) /\ windows' = 0

\* the windows are not counted from 0 again
SummariseOnce ==
    /\ summed' = Sum(summed, Sum(acc, snap))
    /\ acc' = Zero /\ windows' = windows + 1

\* the rule of the fourth century is missing
LeapEveryFourth(y) == y % 4 = 0 /\ y % 100 # 0

-----------------------------------------------------------------------------
\* The order in which a pass reads the counters of a token.
Order == <<"q_sent", "route_ok", "route_fail", "profitable", "not_profitable">>

CellAt(n) == <<(n \div Len(Order)) + 1, Order[(n % Len(Order)) + 1]>>
Cells == Len(Mints) * Len(Order)

BooksInit ==
    /\ live = Zero /\ taken = 0 /\ snap = Zero
    /\ acc = Zero /\ windows = 0
    /\ total = Zero /\ told = Zero /\ summed = Zero

\* get(mint): of a mint listed twice the index keeps the last position.
get(mint) == { i \in DOMAIN Mints : Mints[i] = mint /\ \A j \in DOMAIN Mints : Mints[j] = mint => j <= i }

\* fetch_add of one counter of a mint, of none if the mint is not listed.
Count(mint, counter, n) ==
    LET Plus(f) == [c \in Cell |-> IF c[1] \in get(mint) /\ c[2] = counter THEN f[c] + n ELSE f[c]]
    IN live' = Plus(live) /\ total' = Plus(total)

\* swap(0) of the next cell.
Swap ==
    /\ taken < Cells
    /\ taken' = taken + 1
    /\ snap' = [snap EXCEPT ![CellAt(taken)] = live[CellAt(taken)]]
    /\ live' = [live EXCEPT ![CellAt(taken)] = 0]
    /\ UNCHANGED <<acc, windows, total, told, summed>>

Summarise ==
    /\ summed' = Sum(summed, Sum(acc, snap))
    /\ acc' = Zero /\ windows' = 0

\* The window ends: it goes into the sum and into a file, and when it is time
\* the sum into another.  The numbers of a file that cannot be written are
\* not kept for the next try.
Report ==
    /\ taken = Cells
    /\ taken' = 0 /\ snap' = Zero
    /\ told' = Sum(told, snap)
    /\ \/ /\ windows + 1 < Every
          /\ acc' = Sum(acc, snap) /\ windows' = windows + 1
          /\ UNCHANGED summed
       \/ /\ windows + 1 >= Every
          /\ Summarise
    /\ UNCHANGED <<live, total>>

reporter == Swap \/ Report

-----------------------------------------------------------------------------
\* now_iso: the date of a day after 1970-01-01, by counting down.
is_leap(y) == (y % 4 = 0 /\ y % 100 # 0) \/ y % 400 = 0

MonthDays(y) == <<31, IF is_leap(y) THEN 29 ELSE 28, 31, 30, 31, 30, 31, 31, 30, 31, 30, 31>>

\* The loops of epoch_days_to_ymd, over years and over months, from the days that
\* are left, the year, and the month.
YearLoop[s \in Nat \X Nat] ==
    LET dy == IF is_leap(s[2]) THEN 366 ELSE 365
    IN IF s[1] < dy THEN s ELSE YearLoop[<<s[1] - dy, s[2] + 1>>]

MonthLoop[s \in Nat \X Nat \X (1 .. 13)] ==
    IF s[3] > 12 \/ s[1] < MonthDays(s[2])[s[3]] THEN s
    ELSE MonthLoop[<<s[1] - MonthDays(s[2])[s[3]], s[2], s[3] + 1>>]

epoch_days_to_ymd(days) ==
    LET y == YearLoop[<<days, 1970>>]  m == MonthLoop[<<y[1], y[2], 1>>]
    IN [year |-> m[2], month |-> m[3], day |-> m[1] + 1]

-----------------------------------------------------------------------------
\* Nothing is counted twice or lost between the scanner, the pass and the sums:
\* what was counted is still live, taken down in this pass, or told in one
\* window; and every finished window is in one summary or in the sum for the
\* next, which is due in time.
BooksBalance ==
    /\ \A c \in Cell : total[c] = live[c] + snap[c] + told[c]
    /\ \A c \in Cell : told[c] = summed[c] + acc[c]

\* A pass reads a token's counters one after the other while the scanner counts,
\* so a window may show more verdicts than routes.  It never shows a route too
\* few verdicts by more than the one check that was between its two counts:
\* so far, at the end of a window, verdicts are behind routes by one at most.
VerdictsKeepUp ==
    taken = 0 => \A i \in DOMAIN Mints :
        told[i, "route_ok"] <= told[i, "profitable"] + told[i, "not_profitable"] + 1

\* What epoch_days_to_ymd counts down to is a date of the calendar whose
\* distance from 1970-01-01 is what it was given.  (The months
\* follow each other as if all had 367 / 12 days, but February is short.)
DaysBefore(y) == 365 * (y - 1970) + ((y - 1) \div 4 - 492) - ((y - 1) \div 100 - 19) + ((y - 1) \div 400 - 4)
LeapDay(y) == (y % 4 = 0 /\ y % 100 # 0) \/ y % 400 = 0
DaysOfMonth(y, m) == IF m = 2 THEN IF LeapDay(y) THEN 29 ELSE 28 ELSE IF m \in {4, 6, 9, 11} THEN 30 ELSE 31
DaysInYear(y, m) ==
    (367 * m - 362) \div 12 - (IF m <= 2 THEN 0 ELSE IF LeapDay(y) THEN 1 ELSE 2)
DateRight(days) ==
    LET d == epoch_days_to_ymd(days)
    IN /\ d.month \in 1 .. 12 /\ d.day \in 1 .. DaysOfMonth(d.year, d.month)
       /\ days = DaysBefore(d.year) + DaysInYear(d.year, d.month) + d.day - 1
=============================================================================
