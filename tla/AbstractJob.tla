---------------------------- MODULE AbstractJob ----------------------------
(***************************************************************************)
(* What a cost-calculation job promises its users, with none of the        *)
(* messages, rows and retries by which CalcJob keeps it: chunks are        *)
(* released wave by wave and finish after they were released, only a       *)
(* cancellation drops chunks, each released chunk moves the progress at    *)
(* most once, and a complete job has finished every chunk.                 *)
(***************************************************************************)
EXTENDS Naturals, FiniteSets

CONSTANTS Chunks, Wave

VARIABLES
  released,   \* chunks handed to the workers
  finished,   \* chunks with a result, or dropped
  processed,  \* the progress a user is shown
  asked,      \* somebody asked for cancellation
  outcome     \* "open", "complete" (some product has a cost), "failed", "cancelled"

vars == <<released, finished, processed, asked, outcome>>

Init == /\ released = {} /\ finished = {} /\ processed = 0
        /\ asked = FALSE /\ outcome = "open"

Release(c) ==
  /\ \A d \in Chunks : Wave[d] < Wave[c] => d \in finished
  /\ released' = released \cup {c}
  /\ UNCHANGED <<finished, processed, asked, outcome>>

Finish(c) ==
  /\ c \in released
  /\ finished' = finished \cup {c}
  /\ UNCHANGED <<released, processed, asked, outcome>>

Drop(S) ==
  /\ asked
  /\ finished' = finished \cup S
  /\ UNCHANGED <<released, processed, asked, outcome>>

Count ==
  /\ processed < Cardinality(released)
  /\ processed' = processed + 1
  /\ UNCHANGED <<released, finished, asked, outcome>>

Ask == /\ asked' = TRUE
       /\ UNCHANGED <<released, finished, processed, outcome>>

\* A job without chunks is complete at once.
Complete ==
  /\ released = {} \/ finished = Chunks
  /\ outcome' = "complete"
  /\ UNCHANGED <<released, finished, processed, asked>>

\* Every outcome may still turn: a late error or cancellation overwrites it.
Fail == /\ outcome' = "failed"
        /\ UNCHANGED <<released, finished, processed, asked>>

Cancel == /\ asked /\ outcome' = "cancelled"
          /\ UNCHANGED <<released, finished, processed, asked>>

\* Planning goes on after a cancellation it did not see, but a complete job and a
\* job that released a chunk are never opened again.
Reopen ==
  /\ outcome # "complete" /\ released = {}
  /\ outcome' = "open"
  /\ UNCHANGED <<released, finished, processed, asked>>

Next == \/ \E c \in Chunks : Release(c) \/ Finish(c)
        \/ \E S \in SUBSET Chunks : Drop(S)
        \/ Count \/ Ask \/ Complete \/ Fail \/ Cancel \/ Reopen

Spec == Init /\ [][Next]_vars
=============================================================================
