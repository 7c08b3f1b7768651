----------------------------- MODULE BoxRecord -----------------------------
(***************************************************************************)
(* How a box is written down. A box in memory and in the files of older    *)
(* versions carries times in nanoseconds; a document body carries whole    *)
(* milliseconds, capped at the widest integer of the column. Three         *)
(* conversions exist: the current encoder and decoder of                   *)
(* tinybox-drivers/src/record.rs, and the translation of version 1 rows in *)
(* tinybox-bus/src/storage/box_v1.rs. Time is scaled down: a second has    *)
(* MsPerSec milliseconds of NsPerMs nanoseconds, and MaxU64, MaxI64 stand  *)
(* for the caps.                                                           *)
(***************************************************************************)
EXTENDS Integers

MsPerSec == 2
NsPerMs == 2
NsPerSec == MsPerSec * NsPerMs
MaxI64 == 7
MaxU64 == 15

(* No creation time, no interval: in memory, and in a document (null).     *)
Unknown == [unknown |-> TRUE]
Null == -1

AtMost(max, n) == IF n > max THEN max ELSE n

(* A point in time or a span, as whole seconds and the nanoseconds of the  *)
(* last one.                                                               *)
Nanos(t) == t.secs * NsPerSec + t.nanos
FromMillis(ms) == [secs |-> ms \div MsPerSec, nanos |-> (ms % MsPerSec) * NsPerMs]

(* record.rs: as_millis truncates, the conversion to the column saturates. *)
millis(span) == AtMost(MaxU64, Nanos(span) \div NsPerMs)
system_time_ms(at) == AtMost(MaxI64, Nanos(at) \div NsPerMs)
system_time_from_ms(ms) == FromMillis(ms)

LifecycleRecord(l) ==
    IF l.kind = "ephemeral" THEN [kind |-> "ephemeral", ms |-> millis(l.span)]
    ELSE [kind |-> "persistent", ms |-> IF l.span = Unknown THEN Null ELSE millis(l.span)]

Lifecycle(r) ==
    [kind |-> r.kind, span |-> IF r.ms = Null THEN Unknown ELSE FromMillis(r.ms)]

(* The other fields of the specification (placement, source, resources,    *)
(* network, ports, environment) are carried over field by field, under the *)
(* same names: one opaque value.                                           *)
SpecRecord(s) == [rest |-> s.rest, lifecycle |-> LifecycleRecord(s.lifecycle)]
IntoSpec(r) == [rest |-> r.rest, lifecycle |-> Lifecycle(r.lifecycle)]

Encode(info) ==
    [state |-> info.state, spec |-> SpecRecord(info.spec),
     created_ms |-> IF info.created_at = Unknown THEN Null ELSE system_time_ms(info.created_at)]

into_info(body) ==
    [state |-> body.state, spec |-> IntoSpec(body.spec),
     created_at |-> IF body.created_ms = Null THEN Unknown
                    ELSE system_time_from_ms(body.created_ms)]

(* box_v1.rs: the same row, reached with saturating arithmetic on the      *)
(* seconds and the nanoseconds of a stored row.                            *)
duration_ms(span) ==
    AtMost(MaxU64, AtMost(MaxU64, span.secs * MsPerSec) + span.nanos \div NsPerMs)

time_ms(at) == AtMost(MaxI64, duration_ms(at))

lifecycle_body(l) ==
    IF l.kind = "ephemeral" THEN [kind |-> "ephemeral", ms |-> duration_ms(l.span)]
    ELSE [kind |-> "persistent", ms |-> IF l.span = Unknown THEN Null ELSE duration_ms(l.span)]

to_body(row) ==
    [state |-> row.state,
     spec |-> [rest |-> row.spec.rest, lifecycle |-> lifecycle_body(row.spec.lifecycle)],
     created_ms |-> IF row.created_at = Unknown THEN Null ELSE time_ms(row.created_at)]
=============================================================================
