------------------------------ MODULE JobLife ------------------------------
(***************************************************************************)
(* What the media worker promises of each job, seen from outside: it waits,*)
(* is held by one worker at a time, and leaves a worker's hands finished,  *)
(* queued once more with its attempt counted, or set aside for a human     *)
(* after the last attempt.  Only a crash of the worker that holds it can   *)
(* leave it stranded on the processing list, or lose it.                   *)
(***************************************************************************)
EXTENDS Naturals

CONSTANTS Jobs, MaxAttempts

VARIABLES
    readable, \* the jobs that can be parsed
    life,     \* where each job is
    tries     \* attempts that failed

vars == <<readable, life, tries>>

Lives == {"queued", "held", "done", "dead", "stranded", "lost"}

Init ==
    /\ readable \subseteq Jobs
    /\ life = [j \in Jobs |-> "queued"] /\ tries = [j \in Jobs |-> 0]

Move(j, from, to) == life[j] = from /\ life' = [life EXCEPT ![j] = to]

Fail(j, to) == Move(j, "held", to) /\ tries' = [tries EXCEPT ![j] = @ + 1]

Take(j)   == Move(j, "queued", "held") /\ UNCHANGED tries
Finish(j) == Move(j, "held", "done") /\ UNCHANGED tries
Retry(j)  == tries[j] + 1 < MaxAttempts /\ Fail(j, "queued")
Bury(j)   == tries[j] + 1 = MaxAttempts /\ Fail(j, "dead")

\* A job nobody can parse is set aside without an attempt.
BuryUnread(j) == j \notin readable /\ Move(j, "held", "dead") /\ UNCHANGED tries

Crash(j) == \E to \in {"stranded", "lost"} : Move(j, "held", to) /\ UNCHANGED tries

Next ==
    /\ UNCHANGED readable
    /\ \E j \in Jobs :
          Take(j) \/ Finish(j) \/ Retry(j) \/ Bury(j) \/ BuryUnread(j) \/ Crash(j)

Spec == Init /\ [][Next]_vars
=============================================================================
