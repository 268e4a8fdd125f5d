------------------------------ MODULE MCTelemetry ------------------------------
(* TelemetryPipeline for TLC: room for one source of each kind. *)
EXTENDS TelemetryPipeline, TLC

MCKeys == {<<"LiveUplink", 1>>, <<"LiveUplink", 2>>, <<"ArchivedReplay", 1>>}
MCOneKey == {<<"LiveUplink", 1>>}
MCMaxSources == [kind \in Kinds |-> 1]
=============================================================================
