------------------------------ MODULE FieldTypes ------------------------------
(***************************************************************************)
(* Typed settings: coerce() and validate() of plugin_config/registry.py,   *)
(* which mirrors system_settings/registry.py.  A JSON value is a kind and  *)
(* a content; numbers are counted in halves, so that 1, 1.0 and 1.5 are    *)
(* <<"int", 2>>, <<"float", 2>> and <<"float", 3>>.                        *)
(***************************************************************************)
EXTENDS Integers

CONSTANT Absent  \* no value, no bound

Types == {"int", "float", "bool", "string", "secret"}
Numeric == {"int", "float"}

\* What JSON hands over: a whole number is even, in halves.
IsJson(v) ==
  /\ v = [kind |-> v.kind, value |-> v.value]
  /\ v.kind \in Numeric => v.value \in Int
  /\ v.kind = "int" => v.value % 2 = 0

\* coerce() accepts raw.
Fits(type, raw) ==
  CASE type = "int" -> raw.kind = "int" \/ (raw.kind = "float" /\ raw.value % 2 = 0)
    [] type = "float" -> raw.kind \in Numeric
    [] type = "bool" -> raw.kind = "bool"
    [] OTHER         -> raw.kind = "string"

\* What coerce() makes of a value it accepts.
Coerced(type, raw) == IF type \in Numeric THEN [raw EXCEPT !.kind = type] ELSE raw

\* validate(): the bounds of a numeric field.
InRange(field, v) ==
  field.type \in Numeric =>
    /\ (field.min # Absent => field.min <= v.value)
    /\ (field.max # Absent => v.value <= field.max)

Accepts(field, raw) ==
  Fits(field.type, raw) /\ InRange(field, Coerced(field.type, raw))

\* What a stored value stands for: one that no longer coerces gives way to the
\* default.  The bounds are not checked again.
Resolve(field, raw) ==
  IF raw # Absent /\ Fits(field.type, raw) THEN Coerced(field.type, raw) ELSE field.default
===============================================================================
