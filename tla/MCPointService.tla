--------------------------- MODULE MCPointService ---------------------------
(* Instances of PointService for TLC: one point of each kind that matters and a *)
(* few requests that share them.  The device's name is skipped, as a commandable *)
(* row of that name leaves it, and is no point.                                *)
EXTENDS PointService, TLC

MCNames == {"oat", "fan", "mode", "occ", "damper", "stage", "ghost", "device"}
MCPoints == {"oat", "fan", "mode", "occ", "damper", "stage"}
MCKind == "oat" :> "analog" @@ "fan" :> "binary" @@ "mode" :> "multistate" @@
          "occ" :> "schedule" @@ "damper" :> "analog" @@ "stage" :> "multistate"
MCCommandableNames == {"damper", "stage", "device"}
MCArrayed == {"damper"}

\* 3 is 1.5: kept by an analog point, truncated to 1 by a multistate one.
MCRequests ==
  {<< <<"oat", NaN>>, <<"mode", 4>> >>,
   << <<"mode", NaN>>, <<"oat", 3>> >>,
   << <<"damper", 4>>, <<"mode", 3>> >>,
   << <<"device", 2>>, <<"ghost", 2>>, <<"occ", 2>> >>,
   << <<"stage", 4>>, <<"fan", 3>> >>,
   << <<"fan", 2>> >>}

\* A server-owned multistate point is written like the commandable ones.
MCCommands == "oat" :> {} @@ "fan" :> {} @@ "mode" :> {4} @@
              "occ" :> {} @@ "damper" :> {4} @@ "stage" :> {4}
MCPriorities == 1 .. 2

=============================================================================
