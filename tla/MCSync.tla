------------------------------- MODULE MCSync -------------------------------
(***************************************************************************)
(* Edges that write rows, or delete them, with others or alone.  Values    *)
(* 1 and 2 stand for 999 and 1000, of which the second is first as text.   *)
(***************************************************************************)
EXTENDS Sync, TLC

CONSTANTS k1, k2, p1, p2

Shared   == {"write", "foreign write", "autopush"}
Flaky    == {"write", "foreign write", "fault", "crash"}
Failing  == {"write", "autopush", "failing transaction", "skip initial sync"}
Deleting == {"write", "delete", "transaction", "origin", "fault"}
Missing  == {"missing table", "skip initial sync", "foreign write", "foreign delete",
             "concurrent messages"}
Created  == {"missing table", "skip initial sync", "write", "foreign write",
             "foreign delete", "crash"}

\* Columns whose echoes are compared as text, or never recognized.
Bigint     == Shared \cup {"bigint"}
Timestamp  == Shared \cup {"timestamp"}
FlakyTimes == Flaky \cup {"timestamp"}

\* Writes while remote changes are being applied.
WritingMeanwhile == {{"write", "foreign write", "autopush", "concurrent calls"}}

AllScenarios ==
  {Shared, Flaky, Failing, Deleting, Missing, Created, Bigint, Timestamp,
   FlakyTimes}

ThousandRanks == <<2, 1>>
=============================================================================
