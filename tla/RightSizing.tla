------------------------------ MODULE RightSizing ------------------------------
(***************************************************************************)
(* The recommendations of internal/remediation/remediate.go about one      *)
(* identity.  The Terraform text is left out: a recommendation is the      *)
(* grants it lists for removal and the number it was counted against.      *)
(***************************************************************************)
EXTENDS Naturals, FiniteSets, IdentityModel

CONSTANTS
    AgeOf,          \* the age of a creation date
    RotationMaxAge, \* the age from which a credential is to be rotated
    IAMUsers        \* the IDs of the aws_iam users, which hold access keys

ASSUME AgesAssumption == RotationMaxAge \in Nat

NoRecommendation == [kind |-> "none", unused |-> {}, granted |-> 0]

Unused(node) == {p.name : p \in {q \in node.permissions : ~q.used}}

(* The grants never used, once any grant has been seen in use. *)
Generate(node) ==
    IF (\E p \in node.permissions : p.used) /\ Unused(node) # {}
    THEN [kind |-> "right_size", unused |-> Unused(node),
          granted |-> Cardinality(node.permissions)]
    ELSE NoRecommendation

(* A long-lived credential that is too old.  An aws_iam role has none, and  *)
(* neither has an identity of any other source.                            *)
GenerateRotation(id, node) ==
    LET source == node.fields["source"]
    IN  IF /\ IsNHI(node)
           /\ node.fields["created"] # NoValue
           /\ AgeOf[node.fields["created"]] >= RotationMaxAge
           /\ \/ source = "aws_iam" /\ id \in IAMUsers
              \/ source \in {"gcp_iam", "azure", "agents"}
        THEN [kind |-> "rotation", unused |-> {}, granted |-> 0]
        ELSE NoRecommendation

=============================================================================
