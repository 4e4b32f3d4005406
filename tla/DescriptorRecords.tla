------------------------- MODULE DescriptorRecords -------------------------
(***************************************************************************)
(* The records of an ODBC descriptor, as src/driver/descriptor.cpp and     *)
(* src/driver/attributes.h keep them.                                      *)
(*                                                                         *)
(* A descriptor counts its records in SQL_DESC_COUNT and keeps more of     *)
(* them than it counts: lowering the count leaves the records behind it in *)
(* the vector, with whatever they held, until getRecord() reaches them     *)
(* again and initialises them.  A record that was never created is one     *)
(* that getRecord() will create fresh, so the vector is a function on all  *)
(* record numbers.  The 0th, the bookmark record, is left out.             *)
(***************************************************************************)
EXTENDS Naturals

CONSTANTS MaxParameters,    \* bound on record numbers
          None              \* the null pointer

ASSUME MaxParametersAssumption == MaxParameters \in Nat

Numbers == 1..MaxParameters

(***************************************************************************)
(* A record of an application descriptor: the C type, the data pointer,    *)
(* whether there is a length and indicator pointer, and the octet length.  *)
(* A record of an implementation descriptor: the SQL type.                 *)
(***************************************************************************)
FreshAppRecord == [type |-> "default", data |-> None, indicator |-> FALSE, octets |-> 0]
FreshImpRecord == [type |-> "unknown"]

\* Descriptors with records of a kind.
DescriptorsOf(Records) == [count : 0..MaxParameters, records : [Numbers -> Records]]

NoRecords(fresh) == [count |-> 0, records |-> [n \in Numbers |-> fresh]]

Smaller(a, b) == IF a < b THEN a ELSE b
Larger(a, b) == IF a > b THEN a ELSE b

\* setAttr(SQL_DESC_COUNT, n): the records themselves stay.
SetCount(desc, n) == [desc EXCEPT !.count = n]

\* Descriptor::getRecord(): records between the count and num are initialised
\* again, and counted.
KeepsStale(desc, num, fresh) ==  \* mutation of GetRecord
    [desc EXCEPT !.count = Larger(@, num)]
GetRecord(desc, num, fresh) ==
    [count |-> Larger(desc.count, num),
     records |-> [n \in Numbers |->
                    IF desc.count < n /\ n <= num THEN fresh ELSE desc.records[n]]]

\* setAttr(SQL_DESC_CONCISE_TYPE) of an application record: the change callback
\* clears the data pointer, but runs only when the value changes.
TypeOnly(rec, type) ==  \* mutation of SetConciseType
    [rec EXCEPT !.type = type]
SetConciseType(rec, type) ==
    IF rec.type = type THEN rec ELSE [rec EXCEPT !.type = type, !.data = None]

\* One of the three pointers is set.
IsBound(rec) == rec.data # None \/ rec.indicator

=============================================================================
