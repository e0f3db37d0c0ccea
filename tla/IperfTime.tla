------------------------------ MODULE IperfTime ------------------------------
(***************************************************************************)
(* The clock values of iperf_time.c, on which the timers, the intervals    *)
(* and the timeouts are built: seconds and microseconds, two unsigned      *)
(* numbers of one width.  Conversion to floating point is left out.        *)
(*                                                                         *)
(* ReportingProofs says for which clock values this arithmetic is that of  *)
(* the microseconds they stand for.                                        *)
(***************************************************************************)
EXTENDS Integers

CONSTANTS
  Million,  \* microseconds of a second
  Word      \* the values of a uint32_t

\* A uint32_t holds a second borrowed on top of the microseconds.
Clock == Million \in Nat \ {0} /\ Word \in Nat /\ 2 * Million <= Word

Time == [secs : 0..Word - 1, usecs : 0..Word - 1]

\* What the clock and the functions below deliver.
Normal == {t \in Time : t.usecs < Million}

InUsecs(t) == t.secs * Million + t.usecs

AddUsecs(t, n) ==
  LET total == t.usecs + n
  IN [secs |-> (t.secs + (total \div Million)) % Word, usecs |-> total % Million]

Compare(s, t) ==
  IF s.secs < t.secs THEN -1
  ELSE IF s.secs > t.secs THEN 1
  ELSE IF s.usecs < t.usecs THEN -1
  ELSE IF s.usecs > t.usecs THEN 1
  ELSE 0

\* A later time less an earlier one, with a second borrowed where that is needed.
Minus(s, t) ==
  IF s.usecs < t.usecs
    THEN [secs |-> (s.secs - t.secs - 1) % Word, usecs |-> (s.usecs + Million - t.usecs) % Word]
    ELSE [secs |-> (s.secs - t.secs) % Word, usecs |-> (s.usecs - t.usecs) % Word]

\* iperf_time_diff: the distance, and whether the first time is not the later one.
Diff(s, t) ==
  IF Compare(s, t) = 0 THEN [diff |-> [secs |-> 0, usecs |-> 0], past |-> TRUE]
  ELSE IF Compare(s, t) = 1 THEN [diff |-> Minus(s, t), past |-> FALSE]
  ELSE [diff |-> Minus(t, s), past |-> TRUE]
=============================================================================
