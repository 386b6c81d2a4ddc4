--------------------------- MODULE MCFlightRecorder ---------------------------
(* Four exports that share spans, one of them with a bad span between two.       *)
EXTENDS FlightRecorder

MCExports == {<<"s1", "s2">>, <<"s2", "s3">>, <<"s3", "bad", "s1">>, <<"s4", "s1">>}

MCBad == {"bad"}
=============================================================================
