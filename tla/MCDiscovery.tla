---------------------------- MODULE MCDiscovery ----------------------------
(***************************************************************************)
(* A device with an output and a commandable value, a plain value that has *)
(* no priority array, a lighting output, which has one and is not of the   *)
(* nine types, and an object of a vendor's own type; its list may shrink,  *)
(* hold nothing but the device object, or be empty.                        *)
(***************************************************************************)
EXTENDS Discovery

MCObjects == {"device", "ao", "av", "msv", "lo", "proprietary"}
MCKnown == MCObjects \ {"proprietary"}
MCMayCommand == {"ao", "av", "msv"}
MCArrayed == {"ao", "msv", "lo"}
MCPriorities == {16}
MCLists == {<<"device", "av", "ao", "msv", "proprietary">>, <<"device", "msv", "lo">>, <<"device">>, <<>>}
\* Two chunks; one of them refused for the vendor's object; nothing at all.
MCRequests == {<<"ao", "lo", "av">>, <<"ao", "proprietary", "msv">>, <<>>}

=============================================================================
