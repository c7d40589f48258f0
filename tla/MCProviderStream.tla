--------------------------- MODULE MCProviderStream ---------------------------
(***************************************************************************)
(* Three calls: one whose item has an id of its own, one whose item shares *)
(* it, and one of a tool the turn does not have; threads short and long.   *)
(***************************************************************************)
EXTENDS ProviderStream

MCItemOf == [c \in Calls |-> IF c = 2 THEN 2 ELSE 10 + c]

Said(kind, size) == [kind |-> kind, turn |-> "before", size |-> size]
MCHistories ==
  {<<>>,
   <<Said("user", 1), Said("assistant", 9), Said("user", 0), Said("summary", 2), Said("user", 1)>>,
   <<Said("user", 1), Said("assistant", 1), Said("user", 1), Said("assistant", 1)>>}
=============================================================================
