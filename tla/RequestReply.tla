---------------------------- MODULE RequestReply ----------------------------
(***************************************************************************)
(* What the servers promise a client of the broker pipeline: a request is  *)
(* executed at most once, and its reply reaches the client at most once and*)
(* only after the execution.  Nothing is promised about losses: a request  *)
(* or a reply may disappear at any point.                                  *)
(***************************************************************************)
EXTENDS Naturals

CONSTANT Requests

VARIABLES sent,      \* requests the front ends have accepted
          execs,     \* how often the DB server executed each request
          received   \* how often each request's reply was handed to its client

vars == <<sent, execs, received>>

Init == /\ sent = {}
        /\ execs = [r \in Requests |-> 0]
        /\ received = [r \in Requests |-> 0]

Send(r) == /\ r \notin sent
           /\ sent' = sent \cup {r}
           /\ UNCHANGED <<execs, received>>

Execute(r) == /\ r \in sent
              /\ execs[r] = 0
              /\ execs' = [execs EXCEPT ![r] = 1]
              /\ UNCHANGED <<sent, received>>

Deliver(r) == /\ execs[r] = 1
              /\ received[r] = 0
              /\ received' = [received EXCEPT ![r] = 1]
              /\ UNCHANGED <<sent, execs>>

Next == \E r \in Requests : Send(r) \/ Execute(r) \/ Deliver(r)

Spec == Init /\ [][Next]_vars
=============================================================================
