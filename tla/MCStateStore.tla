---------------------------- MODULE MCStateStore ----------------------------
(* Three ids in a group capped at two beside three ungrouped ones, one of   *)
(* them larger than the budget and one larger than what full pins leave, so  *)
(* that both loops, both refusals and the pin limit all decide something.    *)
EXTENDS StateStoreLoops, TLC, FiniteSetsExt

CONSTANTS a, b, c, d, e, f, g

MCIds == {a, b, c, d, e, f}
MCSize == (a :> 1) @@ (b :> 1) @@ (c :> 2) @@ (d :> 4) @@ (e :> 7) @@ (f :> 1)
MCGroup == (a :> g) @@ (b :> g) @@ (c :> g) @@ (d :> NoGroup) @@ (e :> NoGroup)
             @@ (f :> NoGroup)
MCCap == (g :> 2)
MCBytes(S) == MapThenSumSet(LAMBDA id : MCSize[id], S)
=============================================================================
