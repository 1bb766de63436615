---------------------------- MODULE MCHitlReview ----------------------------
(***************************************************************************)
(* Small instances of HitlReview: a generated playbook with one reversible *)
(* and one irreversible step, and an analyst's version that replaces the   *)
(* irreversible step by another one.                                       *)
(***************************************************************************)
EXTENDS HitlReview

AllSteps == {"BLOCK_IP", "DISABLE_USER", "ISOLATE_HOST"}
IrreversibleSteps == {"DISABLE_USER", "ISOLATE_HOST"}
GeneratedPlaybook == {"BLOCK_IP", "DISABLE_USER"}
RewrittenPlaybook == {"BLOCK_IP", "ISOLATE_HOST"}

=============================================================================
