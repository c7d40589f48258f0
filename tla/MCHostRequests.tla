--------------------------- MODULE MCHostRequests ---------------------------
(***************************************************************************)
(* Two calls, a gated one among them, lists with repeated and blank ids,   *)
(* and a host that picks "1" itself, the first number of the runtime.      *)
(***************************************************************************)
EXTENDS HostRequests

Use(call, gated, ok, safe) == [call |-> call, gated |-> gated, ok |-> ok, safe |-> safe]
MCToolUses == {Use("write", TRUE, TRUE, FALSE), Use("read", TRUE, FALSE, TRUE), Use("read", FALSE, TRUE, TRUE)}

Todo(id, status) == [id |-> id, status |-> status]
MCTodoLists ==
  {<<Todo(<<3>>, "pending"), Todo(<<>>, "cancelled"), Todo(<<>>, "pending")>>,
   <<Todo(<<1>>, "invalid")>>}
MCMaxRequests == [turns |-> 4, rest |-> 3, all |-> 6]
=============================================================================
