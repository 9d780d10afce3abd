------------------------------ MODULE MCStartup ------------------------------
(* An instance of Startup: the boot device, a device whose second          *)
(* partition is cut by the end of the FTL, and one that is not selected;   *)
(* or two selected ones, the second with a partition beyond its end.       *)
EXTENDS Startup

Boot == [boot |-> TRUE, parts |-> <<>>, cap |-> 0, enabled |-> TRUE]
Clipped == [boot |-> FALSE, parts |-> <<5, 9>>, cap |-> 5, enabled |-> TRUE]
Beyond == [boot |-> FALSE, parts |-> <<6, 2, 2>>, cap |-> 3, enabled |-> TRUE]
Skipped == [Clipped EXCEPT !.enabled = FALSE]

MCDevs == <<Boot, Clipped, Skipped, Beyond>>
=============================================================================
