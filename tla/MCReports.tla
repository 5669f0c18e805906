----------------------------- MODULE MCReports -----------------------------
(***************************************************************************)
(* An instance of Reports for TLC.                                         *)
(***************************************************************************)
EXTENDS Reports

\* Half a window is shorter than the longest delay, or longer; and a window that
\* cannot be parsed.
ShortWideOrInvalid == {1, 2 * (MaxDelay + 1), NoWindow}
=============================================================================
