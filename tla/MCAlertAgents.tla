---------------------------- MODULE MCAlertAgents ----------------------------
(***************************************************************************)
(* A small instance of AlertAgents: two tasks.  Three alerts of one rule   *)
(* need lookups: two come from an address with evidence against it, one    *)
(* from another address, whose evidence stays below the threshold; that of *)
(* the first drops below it when any one source is missing.  One alert has *)
(* a template and no indicator, and one is noise.                          *)
(***************************************************************************)
EXTENDS AlertAgents

Brute == [id |-> "a1", rule |-> "ssh", noise |-> FALSE, source |-> "host", ioc |-> "bad",
          topic |-> "ssh-high", template |-> FALSE]
BruteAgain == [Brute EXCEPT !.id = "a2"]
Quiet == [Brute EXCEPT !.id = "a3", !.source = "other", !.ioc = "meh"]
Simple == [id |-> "a4", rule |-> "pam", noise |-> FALSE, source |-> "none", ioc |-> "none",
           topic |-> "pam-low", template |-> TRUE]
Chatter == [Simple EXCEPT !.id = "a5", !.noise = TRUE, !.source = "host"]

TaskSet == {"t1", "t2"}
AlertSet == {Brute, BruteAgain, Quiet, Simple, Chatter}
Pair(a, b) == [t \in TaskSet |-> IF t = "t1" THEN a ELSE b]
Pairs == {Pair(Brute, Brute), Pair(Brute, BruteAgain), Pair(Brute, Quiet), Pair(Simple, Chatter)}

IndicatorSet == {"host", "other", "bad", "meh"}
Percent == [s \in Sources |-> [x \in IndicatorSet |->
    CASE s = "vt" /\ x = "bad" -> 100
      [] s = "misp" /\ x \in {"bad", "meh"} -> 70
      [] s = "shodan" /\ x \in {"host", "other"} -> 50
      [] OTHER -> 0]]
LiveSettings == {{}, {"vt", "misp"}, {"shodan"}}

=============================================================================
