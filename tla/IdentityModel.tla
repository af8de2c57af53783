----------------------------- MODULE IdentityModel -----------------------------
(***************************************************************************)
(* The identity record of internal/model/identity.go, as far as the rules  *)
(* of the code tell its values apart.                                      *)
(*                                                                         *)
(* Fields are the ones under the rule "a non-empty value wins, an empty    *)
(* one never clears" (Type, Source, Owner, Created, Runtime, OnBehalfOf,   *)
(* Parent, Attestation, DeclaredModels), and empty is NoValue.  A human is *)
(* an identity whose type is empty.  A grant's ARN is left out.            *)
(***************************************************************************)

CONSTANTS
    Names,          \* permission names
    Actions,        \* cloud actions a grant may allow
    Fields,         \* identity fields where the last non-empty value wins
    Values,         \* non-empty values of those fields
    NoValue         \* the empty value of a field

ASSUME NoValueAssumption == NoValue \notin Values

Permission == [name : Names, admin : BOOLEAN, used : BOOLEAN, actions : SUBSET Actions]

HasAdmin(node) == \E p \in node.permissions : p.admin

IsNHI(node) == node.fields["type"] # NoValue

IsAgent(node) == node.fields["type"] = "agent"

=============================================================================
