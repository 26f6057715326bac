------------------------------ MODULE Pipeline ------------------------------
(***************************************************************************)
(* What a sender promises to whoever waits for it, whichever context runs  *)
(* it: its stages run one after the other where one precedes the other, in *)
(* each of a number of rounds; a round starts when the previous one is     *)
(* over; sync_wait returns after the last round, or throws, or tells that  *)
(* the sender was stopped; and nothing runs any more afterwards.           *)
(*                                                                         *)
(* The stages, their order and the number of rounds are variables because  *)
(* the specifications that implement this one choose the sender they run   *)
(* in their initial state; no step changes them.                           *)
(***************************************************************************)
EXTENDS Naturals

VARIABLES
  stages,   \* the stages of the sender
  before,   \* before[s]: what precedes stage s
  rounds,   \* how often every stage is to run
  runs,     \* runs[s]: how often stage s has run
  outcome   \* "pending", "returned", "threw" or "stopped"

shape == <<stages, before, rounds>>
pipelineVars == <<shape, runs, outcome>>

Init ==
  /\ runs = [s \in stages |-> 0]
  /\ outcome = "pending"

\* Stage s runs: all that precedes it has run in this round, and everything has
\* run in the rounds before.
Run(s) ==
  /\ outcome = "pending"
  /\ runs[s] < rounds
  /\ \A t \in stages : runs[t] >= runs[s]
  /\ \A t \in stages \cap before[s] : runs[t] > runs[s]
  /\ runs' = [runs EXCEPT ![s] = @ + 1]
  /\ UNCHANGED <<shape, outcome>>

Return ==
  /\ outcome = "pending"
  /\ \A s \in stages : runs[s] = rounds
  /\ outcome' = "returned"
  /\ UNCHANGED <<shape, runs>>

GiveUp ==
  /\ outcome = "pending"
  /\ outcome' \in {"threw", "stopped"}
  /\ UNCHANGED <<shape, runs>>

Next == (\E s \in stages : Run(s)) \/ Return \/ GiveUp

Spec == Init /\ [][Next]_pipelineVars

=============================================================================
