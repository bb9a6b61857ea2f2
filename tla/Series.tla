-------------------------------- MODULE Series --------------------------------
(***************************************************************************)
(* What the collector promises of its series, whatever it takes to keep    *)
(* it: at any time a slot may receive an observation, or a strictly more   *)
(* complete one in place of the one it has; and an observation that waits  *)
(* for a total of the day before is settled at most once, never waits      *)
(* again, and keeps what the device reported.                              *)
(***************************************************************************)
EXTENDS Naturals

CONSTANTS
    Slots,     \* the slots of the series
    NoValue    \* the absence of an observation

\* A level of completeness.  Only an observation with an energy reading, from
\* level 2 on, can be waiting for anything.
Level == 0..3
Entry == {entry \in [level : Level, waits : BOOLEAN] :
             entry.waits => entry.level >= 2}

VARIABLE series   \* the observation of each slot, if any

SeriesTypeOK == series \in [Slots -> Entry \union {NoValue}]

SeriesInit == series = [s \in Slots |-> NoValue]

\* A first observation of the slot, or a better one.
Record(s) ==
    \E entry \in Entry :
        /\ series[s] = NoValue \/ entry.level > series[s].level
        /\ series' = [series EXCEPT ![s] = entry]

\* The waiting ends, with a number or without.
Settle(s) ==
    /\ series[s] # NoValue
    /\ series[s].waits
    /\ series' = [series EXCEPT ![s] = [level |-> series[s].level, waits |-> FALSE]]

SeriesNext == \E s \in Slots : Record(s) \/ Settle(s)

SeriesSpec == SeriesInit /\ [][SeriesNext]_series
=============================================================================
