--------------------------- MODULE MCStoreOpening ---------------------------
(* One process that opens the stores over the files of an older version. *)
EXTENDS StoreOpening

\* Created at one nanosecond, and at two (which stand for a whole millisecond:
\* see BoxRecord): an older version kept the full precision of the clock.
Kept(nanos, lifecycle) ==
  [state |-> "ready", created_at |-> [secs |-> 1, nanos |-> nanos],
   spec |-> [rest |-> "r", lifecycle |-> lifecycle]]
OldInfos ==
  {Kept(1, [kind |-> "persistent", span |-> Unknown]),
   Kept(2, [kind |-> "ephemeral", span |-> [secs |-> 1, nanos |-> 0]])}
=============================================================================
