----------------------------- MODULE MCDashboard -----------------------------
(* Two runs, a log cut to two events, one stop request.                        *)
EXTENDS Dashboard

ScenarioThenBehavior == <<"scenario", "behavior">>
TwoScenarios         == <<"scenario", "scenario">>
=============================================================================
