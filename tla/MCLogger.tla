-------------------------------- MODULE MCLogger --------------------------------
(***************************************************************************)
(* Logger for TLC: two threads, three messages: one for all sinks, one for *)
(* all but the file, one for the OpenTelemetry sink alone.                 *)
(***************************************************************************)
EXTENDS Logger, TLC

MCLevels == ("a" :> <<3, 2>>) @@ ("b" :> <<1>>)
MCMinLogLevel == ("console" :> 2) @@ ("file" :> 3) @@ ("otel" :> 1)
===============================================================================
