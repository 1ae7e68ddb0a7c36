----------------------------- MODULE ScheduleMC -----------------------------
(***************************************************************************)
(* The instance of ScheduleSystem that TLC checks.                         *)
(***************************************************************************)
EXTENDS ScheduleSystem, TLC

CONSTANTS f1, f2, c1, c2

\* The first flow keeps an expression that node-cron knows, the second has one
\* that it does not know.
ExpressionOf == (f1 :> {c1}) @@ (f2 :> {c2})
=============================================================================
