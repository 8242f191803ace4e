--------------------------- MODULE MCHistoryLogger ---------------------------
(* HistoryLogger for TLC: three files instead of ten. *)
EXTENDS HistoryLogger

\* A year begins in the middle of the run: what comes after looks earlier than
\* what was before.
NewYear == 2
NewYearMisjudged == {p \in (0 .. MaxClock + MaxHours) \X (0 .. MaxClock) :
                        p[2] < NewYear /\ NewYear <= p[1]}
=============================================================================
