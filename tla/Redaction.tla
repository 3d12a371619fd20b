------------------------------ MODULE Redaction ------------------------------
(***************************************************************************)
(* Masking of secret attributes (redaction.go): the suffix list a          *)
(* RedactionConfig stands for, and what is masked by a list, at any depth. *)
(*                                                                         *)
(* A key or a suffix is opaque; constants tell how it is lowered and which *)
(* lowered key ends with which suffix.  Of a list of suffixes only the     *)
(* members count, neither order nor repetition; Nil is the nil list.       *)
(***************************************************************************)
EXTENDS Values

CONSTANTS
    LoweredKey,
    Suffix, LoweredSuffix,
    Malformed,              \* empty, with whitespace, or not ASCII
    EndsWith,               \* the pairs of a lowered key and a suffix of it
    DefaultSecretSuffixes,
    RedactedPlaceholder, Nil

ASSUME RedactionAssumption ==
    /\ LoweredKey \in [Key -> Key] /\ LoweredSuffix \in [Suffix -> Suffix]
    /\ Malformed \subseteq Suffix
    /\ EndsWith \subseteq Key \X Suffix
    /\ DefaultSecretSuffixes \subseteq Suffix
    /\ RedactedPlaceholder \in String
    /\ \A list \in SUBSET Suffix : list # Nil

Placeholder == [text |-> RedactedPlaceholder]

ValidateRedactionConfig(c) ==
    \A s \in c.ExtraSuffixes : s \notin Malformed /\ LoweredSuffix[s] = s

BuildEffectiveSuffixes(c) ==
    (IF c.ReplaceDefaults THEN {} ELSE DefaultSecretSuffixes)
    \cup {LoweredSuffix[s] : s \in c.ExtraSuffixes}

IsSecretKey(key, list) ==
    \E s \in IF list = Nil THEN DefaultSecretSuffixes ELSE list :
        <<LoweredKey[key], s>> \in EndsWith

redactValue(value, list) ==
    LET mask[v \in Value] ==
          CASE "map" \in DOMAIN v ->
                  [map |-> {<<p[1], IF IsSecretKey(p[1], list) THEN Placeholder
                                    ELSE mask[p[2]]>> : p \in v.map}]
            [] "list" \in DOMAIN v -> [list |-> [i \in DOMAIN v.list |-> mask[v.list[i]]]]
            [] OTHER -> v
    IN  mask[value]

RedactAttributes(attrs, list) == redactValue([map |-> attrs], list).map
=============================================================================
