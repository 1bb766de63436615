----------------------------- MODULE MCApiStores -----------------------------
(***************************************************************************)
(* A small instance of ApiStores: two workers and three requests at a      *)
(* time, each mix about one of the races: two edits and a delete, status   *)
(* and enrolment beside an edit, a new source that is changed at once, a   *)
(* new user who logs in.                                                   *)
(***************************************************************************)
EXTENDS ApiStores

ClientSet == {"c1", "c2", "c3"}
WorkerSet == {"w1", "w2"}
PlacementSet == {[x \in ClientSet |-> IF x = "c2" THEN "w2" ELSE "w1"],
                 [x \in ClientSet |-> IF x = "c1" THEN "w1" ELSE "w2"]}
AgentSet == {"007", "008"}
Mix(a, b, c) == [x \in ClientSet |-> CASE x = "c1" -> a [] x = "c2" -> b [] x = "c3" -> c]
MixSet == {Mix("edit", "edit", "delete"), Mix("status", "enroll", "edit"),
           Mix("status", "delete", "get"), Mix("create", "edit", "test"),
           Mix("login", "addUser", "login"), Mix("create", "delete", "enroll")}

=============================================================================
