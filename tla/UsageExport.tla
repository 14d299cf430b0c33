---------------------------- MODULE UsageExport ----------------------------
(***************************************************************************)
(* The export of daily usage (myenergi / fetch.py): one pass over the      *)
(* hourly records of a device, which the service sends in order of time,   *)
(* and one row for each day of the month asked for.                        *)
(*                                                                         *)
(* The readings are kept in the unit of the service, not in kWh.           *)
(***************************************************************************)
EXTENDS Integers, Sequences, FiniteSetsExt

CONSTANTS
    Days,         \* the days of the month
    Metered,      \* is the device a zappi or an eddi?
    Amounts,      \* what one record may hold for one heater
    MaxReadings   \* bound of the model: records of the month

VARIABLES
    current_dom,  \* the day whose sums are being built
    last_dom,     \* the day of the last record of the month
    daily_boosted, daily_diverted,
    total_boosted, total_diverted,
    export_data,  \* the rows written so far
    readings,     \* the records of the month that have been read (history)
    closed        \* the row after the loop has been written

sums == <<daily_boosted, daily_diverted, total_boosted, total_diverted>>
vars == <<current_dom, last_dom, sums, export_data, readings, closed>>
----------------------------------------------------------------------------
Reading == [dom : Days, h1b : Amounts, h1d : Amounts]

Row(dom, boosted, diverted) == [dom |-> dom, boosted |-> boosted, diverted |-> diverted]

Init ==
    /\ current_dom = 1 /\ last_dom = 1
    /\ daily_boosted = 0 /\ daily_diverted = 0
    /\ total_boosted = 0 /\ total_diverted = 0
    /\ export_data = <<>>
    /\ readings = <<>>
    /\ closed = FALSE

Meter(r) ==
    /\ total_boosted' = total_boosted + r.h1b
    /\ total_diverted' = total_diverted + r.h1d
    /\ IF current_dom # r.dom
       THEN /\ export_data' = Append(export_data,
                   Row(current_dom, daily_boosted + r.h1b, daily_diverted + r.h1d))
            /\ current_dom' = r.dom
            /\ daily_boosted' = 0 /\ daily_diverted' = 0
       ELSE /\ daily_boosted' = daily_boosted + r.h1b
            /\ daily_diverted' = daily_diverted + r.h1d
            /\ UNCHANGED <<export_data, current_dom>>

\* A record of the month.  That of a zappi or an eddi is added to the sums, and
\* if its day is another one, a row is written and the sums are cleared.
AddReading(r) ==
    /\ ~closed
    /\ Len(readings) < MaxReadings
    /\ r.dom >= last_dom
    /\ readings' = Append(readings, r)
    /\ last_dom' = r.dom
    /\ IF Metered THEN Meter(r) ELSE UNCHANGED <<sums, export_data, current_dom>>
    /\ UNCHANGED closed

\* The row after the loop.  The file leaves year and month out of this row and of
\* no other (fetch.py:141), so that its columns are not those of the heading;
\* rows are kept here by what they hold, not by their columns.
CloseExport ==
    /\ ~closed
    /\ closed' = TRUE
    /\ export_data' = Append(export_data, Row(last_dom, daily_boosted, daily_diverted))
    /\ UNCHANGED <<current_dom, last_dom, sums, readings>>

Next == (\E r \in Reading : AddReading(r)) \/ CloseExport

Spec == Init /\ [][Next]_vars
----------------------------------------------------------------------------
BoostedOn(d) ==
    SumFunctionOnSet([i \in DOMAIN readings |-> readings[i].h1b],
                     { i \in DOMAIN readings : readings[i].dom = d })

\* "Using the fetch.py script, you can download the daily usage data of your
\* Myenergi devices" (README.md:5): a row holds what was used on its day.
RowsAreDaily ==
    \A i \in DOMAIN export_data :
        export_data[i].boosted = BoostedOn(export_data[i].dom)
============================================================================
