-------------------------- MODULE RetainedBatches --------------------------
(***************************************************************************)
(* What retaining sent batches for replay under SSPPush promises, without  *)
(* versions: a batch is kept from when it is sent until every server is    *)
(* known to have applied it, and not a moment longer.                      *)
(***************************************************************************)
EXTENDS Integers, FiniteSetsExt, Functions

CONSTANT Servers

VARIABLES
  sent,      \* how many batches were sent; they are numbered from 0
  known,     \* the last batch that each server is known to have applied
  retained   \* the batches kept

rvars == <<sent, known, retained>>

Init ==
  /\ sent = 0
  /\ known = [s \in Servers |-> -1]
  /\ retained = {}

Send ==
  /\ sent' = sent + 1
  /\ retained' = retained \cup {sent}
  /\ UNCHANGED known

(* A server is heard of.                                                   *)
Hear(s, n) ==
  /\ known[s] <= n /\ n < sent
  /\ known' = [known EXCEPT ![s] = n]
  /\ retained' = { k \in retained : k > Min(Range(known')) }
  /\ UNCHANGED sent

Next == Send \/ \E s \in Servers, n \in 0 .. sent - 1 : Hear(s, n)

Spec == Init /\ [][Next]_rvars
=============================================================================
