----------------------------- MODULE WireSchema -----------------------------
(***************************************************************************)
(* What a JSON object of the HTTP interface consists of, as one side       *)
(* declares it: a schema is a function from keys to fields.  The Java       *)
(* service and the Python client each declare their own schemas, and        *)
(* nothing compares them at run time; WireContract does.                    *)
(*                                                                         *)
(* A value is abstracted to what a reader of it tells apart: "text",        *)
(* "number", "flag", "uuid", "instant", "object" (an object nobody looks    *)
(* into), a literal of an enumeration, or the name of a nested schema;      *)
(* "null" and "absent" are what a key may hold instead of a value.          *)
(***************************************************************************)
EXTENDS TLC

Text == {"text"}
Number == {"number"}
Flag == {"flag"}
Free == {"object"}

\* An unchecked field: required, never null, kept as it arrives.
Plain(values) ==
    [of |-> values, must |-> TRUE, null |-> FALSE, many |-> FALSE, checked |-> FALSE, lenient |-> FALSE]

\* A field whose reader converts it and raises when it cannot.
Parsed(values) == [Plain(values) EXCEPT !.checked = TRUE]

\* A field whose reader tries to convert it and keeps the raw data when it cannot.
Union(values) == [Plain(values) EXCEPT !.lenient = TRUE, !.null = TRUE]

OrNull(field) == [field EXCEPT !.null = TRUE]
Opt(field) == [field EXCEPT !.must = FALSE]
ListOf(field) == [field EXCEPT !.many = TRUE]

\* The same declaration for every key of a set.
All(keys, field) == [k \in keys |-> field]

\* What a writer of a field may put at its key.
Written(field) ==
    field.of \cup (IF field.null THEN {"null"} ELSE {}) \cup (IF field.must THEN {} ELSE {"absent"})

\* Whether a value is of the kind a field declares; every scalar that is not a
\* number or a flag travels as a JSON string.
Takes(field, value, isObject) ==
    \/ value \in field.of
    \/ "object" \in field.of /\ isObject
    \/ "flag" \in field.of /\ value \in {"true", "false"}
    \/ "text" \in field.of /\ ~isObject /\ value \notin {"number", "flag", "true", "false"}
=============================================================================
