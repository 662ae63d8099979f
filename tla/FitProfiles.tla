---------------------------- MODULE FitProfiles ----------------------------
(***************************************************************************)
(* A customer's fit profiles and their history (apps/tailoring/views.py,   *)
(* serializers.py, models.py): the measurements a garment is cut from, a   *)
(* revision for every edit, at most one default profile.                   *)
(*                                                                         *)
(* Nothing here runs in a transaction: an edit clears the other default,   *)
(* counts the revisions, adds one with the measurements it had read, and   *)
(* saves its whole copy, each on its own.  Measurements are a number that  *)
(* stands for the set; whether a set is valid is decided before.           *)
(***************************************************************************)
EXTENDS Naturals, FiniteSets, TLC

CONSTANTS
    Profiles, Writers,
    Sets,        \* measurement sets
    MaxRequests  \* bound: creates, edits and deletes

VARIABLES
    profiles,  \* the rows, or None
    revisions, \* of each profile, its history: [number, set]
    writers,   \* what each request under way has read and will write
    held,      \* history: the sets each profile has held
    requests,   \* creates, edits and deletes so far
    overlapped, \* history: profiles of which two edits overlapped
    reborn      \* history: profiles deleted with an edit of theirs under way

vars == <<profiles, revisions, writers, requests, held, overlapped, reborn>>

None == [set |-> 0, default |-> FALSE, verified |-> FALSE]
Idle == [at |-> "idle"]

Init ==
    /\ profiles = [p \in Profiles |-> None]
    /\ revisions = [p \in Profiles |-> {}]
    /\ writers = [w \in Writers |-> Idle]
    /\ held = [p \in Profiles |-> {}]
    /\ requests = 0 /\ overlapped = {} /\ reborn = {}

Kept == {p \in Profiles : profiles[p] # None}
Busy(p) == {w \in Writers : writers[w] # Idle /\ writers[w].profile = p}

Counted == requests < MaxRequests /\ requests' = requests + 1

Step(w, at) == writers' = [writers EXCEPT ![w].at = at]
Ends(w) == writers' = [writers EXCEPT ![w] = Idle]

\* The new row is a default when asked for, or when it is the first.
BeginsCreate(w, p, s, asked) ==
    /\ Counted /\ writers[w] = Idle /\ p \notin Kept /\ Busy(p) = {}
    /\ writers' = [writers EXCEPT ![w] =
          [at |-> IF asked THEN "clear" ELSE "save", profile |-> p, new |-> TRUE,
           row |-> [set |-> s, default |-> asked \/ Kept = {}, verified |-> FALSE]]]
    /\ UNCHANGED <<profiles, revisions, held, overlapped, reborn>>

\* get_object; the validated measurements are always among the changes.
BeginsEdit(w, p, s, asked) ==
    /\ Counted /\ writers[w] = Idle /\ p \in Kept
    /\ writers' = [writers EXCEPT ![w] =
          [at |-> IF asked = "yes" THEN "clear" ELSE "count", profile |-> p, new |-> FALSE,
           old |-> profiles[p].set, number |-> 0,
           row |-> [profiles[p] EXCEPT !.set = s,
                        !.default = IF asked = "same" THEN @ ELSE asked = "yes"]]]
    /\ overlapped' = IF Busy(p) = {} THEN overlapped ELSE overlapped \cup {p}
    /\ UNCHANGED <<profiles, revisions, held, reborn>>

Clears(w) ==
    /\ writers[w].at = "clear"
    /\ profiles' = [p \in Profiles |->
          IF p = writers[w].profile THEN profiles[p] ELSE [profiles[p] EXCEPT !.default = FALSE]]
    /\ Step(w, IF writers[w].new THEN "save" ELSE "count")
    /\ UNCHANGED <<requests, revisions, held, overlapped, reborn>>

Counts(w) ==
    /\ writers[w].at = "count"
    /\ writers' = [writers EXCEPT ![w].at = "snapshot",
                       ![w].number = Cardinality(revisions[writers[w].profile]) + 1]
    /\ UNCHANGED <<requests, profiles, revisions, held, overlapped, reborn>>

\* Mutant: the snapshot is taken after the change.
SnapshotLate(job) == [number |-> job.number, set |-> job.row.set]

Snapshot(job) == [number |-> job.number, set |-> job.old]

\* The unique constraint refuses a number that is taken, and the request fails
\* there, as it does when the profile is gone.
Snapshots(w) ==
    /\ writers[w].at = "snapshot"
    /\ LET job == writers[w]
       IN  IF job.profile \notin Kept
              \/ \E r \in revisions[job.profile] : r.number = job.number
           THEN Ends(w) /\ UNCHANGED revisions
           ELSE /\ revisions' = [revisions EXCEPT ![job.profile] = @ \cup {Snapshot(job)}]
                /\ Step(w, "save")
    /\ UNCHANGED <<requests, profiles, held, overlapped, reborn>>

\* Refused for a second default, and a create for a label in use; a row that is
\* gone is inserted again.
Saves(w) ==
    /\ writers[w].at = "save"
    /\ LET job == writers[w]
           p   == job.profile
       IN  \/ /\ job.row.default => \A q \in Kept \ {p} : ~profiles[q].default
              /\ profiles' = [profiles EXCEPT ![p] = job.row]
              /\ held' = [held EXCEPT ![p] = @ \cup {job.row.set}]
           \/ /\ \/ job.row.default /\ \E q \in Kept \ {p} : profiles[q].default
                 \/ job.new /\ Kept # {}
              /\ UNCHANGED <<profiles, held>>
    /\ Ends(w)
    /\ UNCHANGED <<requests, revisions, overlapped, reborn>>

\* The connection to the database, or the process, is lost on the way.
Dies(w) ==
    /\ writers[w] # Idle /\ Ends(w)
    /\ UNCHANGED <<requests, profiles, revisions, held, overlapped, reborn>>

\* A tailor attests the measurements; only that column is written.
Verifies(p) ==
    /\ p \in Kept /\ ~profiles[p].verified
    /\ profiles' = [profiles EXCEPT ![p].verified = TRUE]
    /\ UNCHANGED <<requests, revisions, writers, held, overlapped, reborn>>

\* The revisions go with the profile.
Deletes(p) ==
    /\ Counted /\ p \in Kept
    /\ profiles' = [profiles EXCEPT ![p] = None]
    /\ revisions' = [revisions EXCEPT ![p] = {}]
    /\ held' = [held EXCEPT ![p] = {}]
    /\ overlapped' = overlapped \ {p}
    /\ reborn' = IF Busy(p) = {} THEN reborn ELSE reborn \cup {p}
    /\ UNCHANGED writers

Next ==
    \/ \E w \in Writers, p \in Profiles, s \in Sets :
          \/ \E asked \in BOOLEAN : BeginsCreate(w, p, s, asked)
          \/ \E asked \in {"yes", "no", "same"} : BeginsEdit(w, p, s, asked)
    \/ \E w \in Writers : Clears(w) \/ Counts(w) \/ Snapshots(w) \/ Saves(w) \/ Dies(w)
    \/ \E p \in Profiles : Verifies(p) \/ Deletes(p)

Spec == Init /\ [][Next]_vars

-----------------------------------------------------------------------------
\* A dispute can be answered: the revisions of a profile are numbered from 1
\* without a gap, whatever edits raced or failed, and unless two of its edits
\* overlapped every set it held before the present one is among them.  One that
\* a late edit brought back after its deletion is left out (models.py,
\* FitProfileRevision; serializers.py, update).
HistoryComplete == \A p \in Kept \ reborn :
    /\ {r.number : r \in revisions[p]} = 1..Cardinality(revisions[p])
    /\ p \notin overlapped =>
          held[p] \ {profiles[p].set} \subseteq {r.set : r \in revisions[p]}
=============================================================================
