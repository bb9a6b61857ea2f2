---------------------------- MODULE EnergyPayload ----------------------------
(***************************************************************************)
(* Which number of LG's energy answer is the reading of a day:             *)
(* extract_energy_reading of src/airchive/thinq/payloads.py.               *)
(*                                                                         *)
(* An answer is a list of records, or one object in their place.  A record *)
(* has a date label, or none, and what it carries where the value should   *)
(* be; the names under which the fields may be found, and the units, are   *)
(* left out.                                                               *)
(***************************************************************************)
EXTENDS Observation, Sequences

\* A number is read; anything else, like an absent field, is no value.
ToDecimal(x) == IF x \in Reading THEN x ELSE NoValue

RecordValue(record) == ToDecimal(record.value)

Dated(records) == {i \in DOMAIN records : records[i].day # NoValue}

About(records, day) == {i \in Dated(records) : records[i].day = day}

First(indices) == CHOOSE i \in indices : \A j \in indices : i <= j

\* Variant: the last record is taken whatever day it is about.
ExtractLast(payload, day) ==
    LET records == payload.records
    IN  IF records = <<>> THEN NoValue ELSE RecordValue(records[Len(records)])

\* The record of the day; the last one if none is dated; never another day's.
\* The date of a single object is not looked at.
ExtractEnergyReading(payload, day) ==
    LET records == payload.records
        about == About(records, day)
    IN  CASE payload.single -> RecordValue(records[1])
          [] ~payload.single /\ about # {} -> RecordValue(records[First(about)])
          [] ~payload.single /\ about = {} ->
                 IF Dated(records) # {} \/ records = <<>> THEN NoValue
                 ELSE RecordValue(records[Len(records)])
=============================================================================
