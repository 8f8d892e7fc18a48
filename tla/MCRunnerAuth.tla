---------------------------- MODULE MCRunnerAuth ----------------------------
(* Ann and Bob: two administrators, or nobody yet.                         *)
EXTENDS RunnerAuth

CONSTANTS r1, r2, r3, ann, bob, home, cafe, old, new

Login1(u, p, a) == [kind |-> "login", user |-> u, password |-> p, from |-> a, by |-> u]
Admin1(k, u, b) == [kind |-> k, user |-> u, password |-> new, from |-> home, by |-> b]

MCCall ==
  {Login1(ann, p, home) : p \in {old, new}} \cup {Login1(ann, new, cafe)}
  \cup {[Login1(u, new, home) EXCEPT !.kind = "signup"] : u \in {ann, bob}}
  \cup {Admin1(k, bob, ann) : k \in {"promote", "demote", "delete"}}
  \cup {Admin1(k, ann, bob) : k \in {"reset", "demote", "delete"}}

MCOpening == {[u \in User |-> role] : role \in {"none", "admin"}}
=============================================================================
