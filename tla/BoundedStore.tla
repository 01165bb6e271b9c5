---------------------------- MODULE BoundedStore ----------------------------
(***************************************************************************)
(* What a state store promises its callers, without saying how it chooses  *)
(* what to evict: a set of entries that fits the budget, of which pinned   *)
(* ones leave only when a caller drops them.                               *)
(***************************************************************************)
EXTENDS Naturals

CONSTANTS Ids, Budget, Bytes(_)

VARIABLES held, pinned

Init == held = {} /\ pinned = {}

\* An insert may push out unpinned entries, and only to make room: what is
\* held afterwards fits.
Admit(id) ==
  /\ \E room \in SUBSET (held \ pinned) : held' = (held \ room) \cup {id}
  /\ Bytes(held') <= Budget
  /\ UNCHANGED pinned

Pin(id) ==
  /\ id \in held
  /\ pinned' = pinned \cup {id}
  /\ Bytes(pinned') <= Budget \div 2
  /\ UNCHANGED held

Unpin(id) ==
  /\ pinned' = pinned \ {id}
  /\ UNCHANGED held

\* A caller drops entries, pinned ones with the rest.
Forget(keep) ==
  /\ held' = held \cap keep
  /\ pinned' = pinned \cap keep

Next ==
  \/ \E id \in Ids : Admit(id) \/ Pin(id) \/ Unpin(id)
  \/ \E keep \in SUBSET Ids : Forget(keep)

Spec == Init /\ [][Next]_<<held, pinned>>
=============================================================================
