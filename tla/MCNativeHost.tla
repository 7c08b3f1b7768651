---------------------------- MODULE MCNativeHost ----------------------------
(* One collected command next to one managed one, and a cleanup caller. *)
EXTENDS NativeHost

CONSTANTS c1, m1, t1, nobody

BothHosts == {"limited", "jailed"}
OneCollected == {c1}
OneManaged == {m1}
OneTask == {t1}
=============================================================================
