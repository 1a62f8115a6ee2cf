----------------------------- MODULE MemoryStore -----------------------------
(***************************************************************************)
(* The store of services/memory: a list of records, to which add appends   *)
(* and whose latest query returns.  The memory router of the gateway keeps *)
(* such a list too.                                                        *)
(***************************************************************************)
EXTENDS Integers, Sequences

Add(records, record) == Append(records, record)

(* records[start:] of Python: a negative start counts from the end, and    *)
(* one beyond either end is moved to it.                                   *)
SliceFrom(records, start) ==
  LET first == IF start < 0 THEN start + Len(records) ELSE start
  IN  SubSeq(records, 1 + (IF first < 0 THEN 0 ELSE first), Len(records))

\* Mutant of Query: the records before the limit.
QueryOldest(records, limit) == SubSeq(records, 1, Len(records) - limit)
Query(records, limit) == SliceFrom(records, -limit)
=============================================================================
