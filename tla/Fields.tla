-------------------------------- MODULE Fields --------------------------------
(***************************************************************************)
(* What becomes of one optional field on its way from a custom resource to *)
(* the request that carries it.  Two things decide it.                     *)
(*                                                                         *)
(* Its kind, from the type in api/: what the decoded struct still knows of *)
(* what the user wrote.                                                    *)
(*   pointer    nil when not written: "not written" and "zero" differ      *)
(*   value      a string, number, list or map: not written is zero         *)
(*   entries    a value that is a list of named objects                    *)
(*   enum       one of a few words (or a number above zero): never zero    *)
(*   preset     the API server fills in a default                          *)
(*   required   always written                                             *)
(* Its rule, from the code that builds the request.                        *)
(*   set        sent unless nil                                            *)
(*   nonempty   sent unless zero                                           *)
(*   always     sent as it is, zero for nil                                *)
(*   orDefault  a default instead of nil                                   *)
(*   orDerived  a value computed from other fields instead of zero         *)
(*   never      not sent at all                                            *)
(***************************************************************************)
EXTENDS TLC

(* A field is not written, or written as its zero value ("", 0, false, an  *)
(* empty list) or as one of two others. Every value is the set of its      *)
(* entries: a list of named objects may have several, any other value is   *)
(* one entry.                                                              *)
None == {"none"}
Zero == {}
Default == {"default"}
Other == {{"a"}, {"b"}}

Kinds == {"pointer", "value", "entries", "enum", "preset", "required"}
Rules == {"set", "nonempty", "always", "orDefault", "orDerived", "never"}

All(what, names) == [n \in names |-> what]

Pointers(names) == All("pointer", names)
Values(names) == All("value", names)
Entries(names) == All("entries", names)
Enums(names) == All("enum", names)
Presets(names) == All("preset", names)
Required(names) == All("required", names)

Set(names) == All("set", names)
Nonempty(names) == All("nonempty", names)
Always(names) == All("always", names)
OrDefault(names) == All("orDefault", names)
OrDerived(names) == All("orDerived", names)

(* Mutant: structs without pointers, where omitempty drops false and 0.    *)
FaultyMarshalled(kinds) == All("nonempty", DOMAIN kinds)
(* json.Marshal with omitempty: the structs that are sent as they are.     *)
Marshalled(kinds) ==
  [n \in DOMAIN kinds |-> IF kinds[n] \in {"pointer", "preset"} THEN "set" ELSE "nonempty"]

-----------------------------------------------------------------------------
(* What the API server lets the user write.                                *)
Writable(kind) ==
  Other \cup (IF kind = "required" THEN {} ELSE {None})
        \cup (IF kind = "enum" THEN {} ELSE {Zero})

Decode(kind, written) ==
  IF written # None THEN written
  ELSE CASE kind \in {"value", "entries"} -> Zero
         [] kind = "preset" -> Default
         [] OTHER -> None

(* The value in the request; None: the request does not name the field.    *)
Send(rule, value) ==
  CASE rule = "set" -> value
    [] rule = "nonempty" -> IF value = Zero THEN None ELSE value
    [] rule = "always" -> IF value = None THEN Zero ELSE value
    [] rule = "orDefault" -> IF value = None THEN Default ELSE value
    [] rule = "orDerived" -> IF value \in {None, Zero} THEN Default ELSE value
    [] OTHER -> None

Sent(kind, rule, written) == Send(rule, Decode(kind, written))
=============================================================================
