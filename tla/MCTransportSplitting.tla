------------------------ MODULE MCTransportSplitting ------------------------
(* TOS on the interval 0..1440 with steps up to 720; boundary data change in 720, sources
   in 480, porosity in 720, and the CFL limit is below min_dt, between the limits or above
   all steps. *)
EXTENDS TransportSplitting

MCTable == <<[time |-> 0, min_dt |-> 60, max_dt |-> 720],
             [time |-> 1440, min_dt |-> 60, max_dt |-> 720]>>
MCInputTimes == [bc |-> {0, 720}, src |-> {0, 480}, cross |-> {0}, por |-> {0, 720}]
=============================================================================
