--------------------------- MODULE MediaPipeline ---------------------------
(***************************************************************************)
(* From an uploaded photo to the storefront: the worker of src/ai-engine   *)
(* (app/worker.py), the two endpoints it calls (apps/media_assets/views.py *)
(* and models.py) and the badge they derive (apps/catalog/services.py).    *)
(*                                                                         *)
(* A worker's Redis commands, its requests and its crashes are steps of    *)
(* their own.  A request that its worker gave up on still runs at the      *)
(* server.  The upload reads the asset without a lock and saves the whole  *)
(* row later; the callback locks the asset until it commits.  Nonces and   *)
(* signatures are left out: every request is signed afresh.                *)
(***************************************************************************)
EXTENDS Naturals, Sequences

CONSTANTS
    Assets,      \* the photos of one product
    Queued,      \* their jobs' order in the queue, newest first
    Workers,
    Photos,      \* what the photos may be: functions from Assets to Kinds
    MaxAttempts, \* max_attempts
    MaxFailures, \* bound: failed downloads and requests given up on
    MaxCrashes   \* bound: worker crashes

\* A photo with faces that can be blurred, with faces whose blur never
\* verifies, without faces, a file that is no photo, a job that is no job.
Kinds == {"faces", "unverifiable", "plain", "broken", "poison"}

ASSUME ConstantsAssumption ==
    /\ Photos \subseteq [Assets -> Kinds]
    /\ Queued \in Seq(Assets)
    /\ \A i, j \in DOMAIN Queued : Queued[i] = Queued[j] => i = j
    /\ \A a \in Assets : \E i \in DOMAIN Queued : Queued[i] = a
    /\ MaxAttempts \in Nat \ {0}
    /\ MaxFailures \in Nat /\ MaxCrashes \in Nat

VARIABLES
    photo,      \* what each photo is; chosen once
    queue,      \* the job list, newest first
    processing, \* jobs on the processing list
    dead,       \* jobs on the dead-letter list
    worker,     \* what each worker does, and the job it holds
    requests,   \* requests at the server, also those given up on
    row,        \* each MediaAsset row
    face,       \* the product's face_coverage
    vendor,     \* the face_coverage in a vendor's copy of the product, "none" or "saved"
    failures, crashes,
    finished,   \* history: jobs whose outcome was reported
    lost,       \* history: jobs in no list when their worker died
    approvedOnce \* history: assets that have been approved

queueVars  == <<queue, processing, dead>>
serverVars == <<row, face, vendor, approvedOnce>>
history    == <<failures, crashes, finished, lost>>
vars == <<photo, queueVars, worker, requests, serverVars, history>>

Job(a, n) == [asset |-> a, attempt |-> n]
Jobs == [asset : Assets, attempt : 0..MaxAttempts]

Idle == [at |-> "idle"]
At(step, job) == [at |-> step, job |-> job]
Steps == {"claimed", "uploading", "uploaded", "reporting", "reported", "failed", "released"}

NewAsset == [status |-> "pending", derivative |-> "none", verified |-> FALSE]
Rows == [status : {"pending", "needs_review", "approved"},
         derivative : {"none", "blurred", "raw"}, verified : BOOLEAN]

TypeOK ==
    /\ photo \in Photos
    /\ queue \in Seq(Jobs) /\ processing \subseteq Jobs /\ dead \subseteq Jobs
    /\ worker \in [Workers -> {Idle} \cup [at : Steps, job : Jobs]]
    /\ row \in [Assets -> Rows]
    /\ face \in {"exposed", "partial", "full"}
    /\ vendor \in {"none", "saved", "exposed", "partial", "full"}
    /\ failures \in 0..MaxFailures /\ crashes \in 0..MaxCrashes
    /\ finished \subseteq Jobs /\ lost \subseteq Jobs
    /\ \A r \in requests : r.job \in Jobs /\ r.kind \in {"upload", "callback"}
    \* One worker holds a job, and a job is in one place.
    /\ \A w, v \in Workers :
          w # v /\ worker[w] # Idle /\ worker[v] # Idle =>
              worker[w].job.asset # worker[v].job.asset
    /\ \A i, j \in DOMAIN queue : i # j => queue[i].asset # queue[j].asset
    /\ \A i \in DOMAIN queue, w \in Workers :
          worker[w] # Idle => worker[w].job.asset # queue[i].asset

Init ==
    /\ photo \in Photos
    /\ queue = [i \in DOMAIN Queued |-> Job(Queued[i], 0)]
    /\ processing = {} /\ dead = {}
    /\ worker = [w \in Workers |-> Idle]
    /\ requests = {}
    /\ row = [a \in Assets |-> NewAsset]
    /\ face \in {"exposed", "full"}
    /\ vendor = "none"
    /\ failures = 0 /\ crashes = 0 /\ finished = {} /\ lost = {} /\ approvedOnce = {}

-----------------------------------------------------------------------------
(* The worker. *)

\* Mutant: the job is read and pushed, and taken off the queue by nobody.
Peeked(q) == q

Popped(q) == SubSeq(q, 1, Len(q) - 1)

\* BRPOPLPUSH: the oldest job, to the processing list.
Claim(w) ==
    /\ worker[w] = Idle /\ queue # <<>>
    /\ LET job == queue[Len(queue)]
       IN  /\ queue' = Popped(queue)
           /\ processing' = processing \cup {job}
           /\ worker' = [worker EXCEPT ![w] = At("claimed", job)]
    /\ UNCHANGED <<photo, dead, requests, serverVars, history>>

Upload(job, content) ==
    [kind |-> "upload", job |-> job, content |-> content, at |-> "sent"]
Callback(job, outcome, faces) ==
    [kind |-> "callback", job |-> job, outcome |-> outcome, faces |-> faces, at |-> "sent"]

Send(w, step, request) ==
    /\ worker' = [worker EXCEPT ![w].at = step]
    /\ requests' = requests \cup {request}
    /\ UNCHANGED <<photo, queueVars, serverVars, history>>

\* Mutant: a blur counts although its verification never succeeded.
PublishableUnverified(kind) == kind \in {"faces", "unverifiable"}

\* BlurReport.is_publishable of a decoded photo.
Publishable(kind) == kind = "faces"

\* Download, decode, detect, blur: a verified blur is uploaded, anything else
\* is reported at once.
Judge(w) ==
    /\ worker[w].at = "claimed"
    /\ LET job  == worker[w].job
           kind == photo[job.asset]
       IN  /\ kind # "poison"
           /\ IF kind = "broken"
              THEN Send(w, "reporting", Callback(job, "rejected", 0))
              ELSE IF Publishable(kind)
              THEN Send(w, "uploading",
                        Upload(job, IF kind = "unverifiable" THEN "raw" ELSE "blurred"))
              ELSE IF kind = "plain"
              THEN Send(w, "reporting", Callback(job, "needs_review", 0))
              ELSE Send(w, "reporting", Callback(job, "rejected", 1))

Report(w) ==
    /\ worker[w].at = "uploaded"
    /\ LET job == worker[w].job
       IN  Send(w, "reporting",
                Callback(job, "approved", IF photo[job.asset] = "plain" THEN 0 ELSE 1))

\* The download fails, or a request times out or is answered with an error.
Fails(w) ==
    /\ failures < MaxFailures
    /\ worker[w].at \in {"claimed", "uploading", "reporting"}
    /\ worker[w].at = "claimed" => photo[worker[w].job.asset] # "poison"
    /\ failures' = failures + 1
    /\ worker' = [worker EXCEPT ![w].at = "failed"]
    /\ UNCHANGED <<photo, queueVars, requests, serverVars, crashes, finished, lost>>

\* LREM after the outcome was reported; the release of a failed job comes
\* before anything else is done with it.
Release(w) ==
    /\ worker[w].at \in {"reported", "failed"}
    /\ processing' = processing \ {worker[w].job}
    /\ IF worker[w].at = "reported"
       THEN /\ worker' = [worker EXCEPT ![w] = Idle]
            /\ finished' = finished \cup {worker[w].job}
       ELSE /\ worker' = [worker EXCEPT ![w].at = "released"]
            /\ UNCHANGED finished
    /\ UNCHANGED <<photo, queue, dead, requests, serverVars, failures, crashes, lost>>

\* Mutant: a retried job keeps its count.
OneMoreUncounted(job) == job

OneMore(job) == [job EXCEPT !.attempt = @ + 1]

\* Mutant: one attempt too many.
UsedUpLate(job) == job.attempt > MaxAttempts

UsedUp(job) == job.attempt >= MaxAttempts

\* After the backoff, or at once when the attempts are used up.
RetryOrBury(w) ==
    /\ worker[w].at = "released"
    /\ LET job == OneMore(worker[w].job)
       IN  IF UsedUp(job)
           THEN dead' = dead \cup {job} /\ UNCHANGED queue
           ELSE queue' = <<job>> \o queue /\ UNCHANGED dead
    /\ worker' = [worker EXCEPT ![w] = Idle]
    /\ UNCHANGED <<photo, processing, requests, serverVars, history>>

\* A job that cannot be parsed: set aside, then released.
BuryPoison(w) ==
    /\ worker[w].at = "claimed" /\ photo[worker[w].job.asset] = "poison"
    /\ dead' = dead \cup {worker[w].job}
    /\ worker' = [worker EXCEPT ![w].at = "reported"]
    /\ UNCHANGED <<photo, queue, processing, requests, serverVars, history>>

\* The process dies and is started again; a job it had released and not yet
\* queued again was in its memory only.
Crash(w) ==
    /\ worker[w] # Idle /\ crashes < MaxCrashes
    /\ crashes' = crashes + 1
    /\ lost' = IF worker[w].at = "released" THEN lost \cup {worker[w].job} ELSE lost
    /\ worker' = [worker EXCEPT ![w] = Idle]
    /\ UNCHANGED <<photo, queueVars, requests, serverVars, failures, finished>>

-----------------------------------------------------------------------------
(* The server.  An answer reaches the worker that still waits for it.      *)

Awaits(w, r) ==
    /\ worker[w] # Idle /\ worker[w].job = r.job
    /\ worker[w].at = IF r.kind = "upload" THEN "uploading" ELSE "reporting"

Answer(r, ok) ==
    /\ requests' = requests \ {r}
    /\ worker' = [w \in Workers |->
          IF ~Awaits(w, r) THEN worker[w]
          ELSE At(IF ~ok THEN "failed"
                  ELSE IF r.kind = "upload" THEN "uploaded" ELSE "reported", r.job)]
    /\ UNCHANGED <<photo, queueVars, history>>

\* A callback's transaction holds the asset's row.
Locked(a) == \E r \in requests :
    r.kind = "callback" /\ r.at = "begun" /\ r.job.asset = a

UploadReads(r) ==
    /\ r.kind = "upload" /\ r.at = "sent"
    /\ requests' = (requests \ {r}) \cup
          {[kind |-> "upload", job |-> r.job, content |-> r.content, at |-> "read",
            copy |-> row[r.job.asset]]}
    /\ UNCHANGED <<photo, queueVars, worker, serverVars, history>>

\* derivative.save(save=True): every column of the copy.
UploadSaves(r) ==
    /\ r.kind = "upload" /\ r.at = "read"
    /\ ~Locked(r.job.asset)
    /\ row' = [row EXCEPT ![r.job.asset] = [r.copy EXCEPT !.derivative = r.content]]
    /\ Answer(r, TRUE)
    /\ UNCHANGED <<face, vendor, approvedOnce>>

Settled(a) == row[a].status = "approved"

\* What mark_approved and mark_needs_review make of a row; {} where the
\* transition is refused, and where the method called does not exist.
Marked(r) ==
    LET asset == row[r.job.asset]
    IN  CASE r.outcome = "approved" /\ asset.derivative # "none" /\ r.faces > 0 ->
                {[asset EXCEPT !.status = "approved", !.verified = TRUE]}
          [] r.outcome = "needs_review" -> {[asset EXCEPT !.status = "needs_review"]}
          [] OTHER -> {}

\* Mutant: the photo just settled speaks for the product.
DerivedFromOne(a, marked) ==
    IF face = "full" THEN "full"
    ELSE IF marked.status = "approved" THEN "partial" ELSE "exposed"

\* sync_face_coverage, as a transaction sees it that has changed asset a.
Derived(a, marked) ==
    LET Status(b) == IF b = a THEN marked.status ELSE row[b].status
    IN  IF face = "full" THEN "full"
        ELSE IF \A b \in Assets : Status(b) = "approved" THEN "partial" ELSE "exposed"

\* A settled asset and a refusal end the request; otherwise the row is
\* changed and the badge derived, both to be seen on commit.
CallbackBegins(r) ==
    /\ r.kind = "callback" /\ r.at = "sent"
    /\ ~Locked(r.job.asset)
    /\ IF Settled(r.job.asset) \/ Marked(r) = {}
       THEN Answer(r, Settled(r.job.asset)) /\ UNCHANGED serverVars
       ELSE /\ \E marked \in Marked(r) :
                 requests' = (requests \ {r}) \cup
                    {[kind |-> "callback", job |-> r.job, outcome |-> r.outcome,
                      faces |-> r.faces, at |-> "begun", marked |-> marked,
                      derived |-> Derived(r.job.asset, marked), seen |-> face]}
            /\ UNCHANGED <<photo, queueVars, worker, serverVars, history>>

CallbackCommits(r) ==
    /\ r.kind = "callback" /\ r.at = "begun"
    /\ row' = [row EXCEPT ![r.job.asset] = r.marked]
    /\ face' = IF r.derived # r.seen THEN r.derived ELSE face
    /\ approvedOnce' = IF r.outcome = "approved" THEN approvedOnce \cup {r.job.asset}
                       ELSE approvedOnce
    /\ Answer(r, TRUE)
    /\ UNCHANGED vendor

\* A vendor's PATCH of the product, one in a behaviour, saves every column of
\* the copy it read.
VendorReads ==
    /\ vendor = "none"
    /\ vendor' = face
    /\ UNCHANGED <<photo, queueVars, worker, requests, row, face, approvedOnce, history>>

VendorSaves ==
    /\ vendor \notin {"none", "saved"}
    /\ face' = vendor /\ vendor' = "saved"
    /\ UNCHANGED <<photo, queueVars, worker, requests, row, approvedOnce, history>>

Works(w) == Claim(w) \/ Judge(w) \/ Report(w) \/ Release(w) \/ RetryOrBury(w) \/ BuryPoison(w)
Serves(r) == UploadReads(r) \/ UploadSaves(r) \/ CallbackBegins(r) \/ CallbackCommits(r)

Next ==
    \/ \E w \in Workers : Works(w) \/ Fails(w) \/ Crash(w)
    \/ \E r \in requests : Serves(r)
    \/ VendorReads \/ VendorSaves

\* Workers loop and the server answers; failures, crashes and vendors need not
\* come.
Fairness ==
    /\ \A w \in Workers : WF_vars(Works(w))
    /\ WF_vars(\E r \in requests : Serves(r))

Spec == Init /\ [][Next]_vars /\ Fairness
-----------------------------------------------------------------------------
(* Properties. *)

\* An approved asset is a photo whose faces were found, and what it serves is
\* a blur of it that was verified: whatever uploads and callbacks of earlier
\* attempts arrive late, and however they overlap (media_assets/models.py,
\* mark_approved and the check constraint; worker.py, process).
PublicWasBlurred == \A a \in Assets :
    row[a].status = "approved" =>
        photo[a] = "faces" /\ row[a].verified /\ row[a].derivative = "blurred"

\* The badge is worn only when every photo of the product has been approved,
\* although callbacks of two photos overlap and a vendor saves an old copy of
\* the product (catalog/services.py, sync_face_coverage).
BadgeBacked == face = "partial" => approvedOnce = Assets

InQueue(a) == {i \in DOMAIN queue : queue[i].asset = a}
Holders(a) == {w \in Workers : worker[w] # Idle /\ worker[w].job.asset = a}
Of(jobs, a) == {job \in jobs : job.asset = a}

\* Where a job is, seen from outside.
Life(a) ==
    IF InQueue(a) # {} THEN "queued"
    ELSE IF Of(dead, a) # {} THEN "dead"
    ELSE IF Holders(a) # {} THEN "held"
    ELSE IF Of(finished, a) # {} THEN "done"
    ELSE IF Of(lost, a) # {} THEN "lost"
    ELSE "stranded"

Tries(a) == (CHOOSE job \in
    {queue[i] : i \in InQueue(a)} \cup {worker[w].job : w \in Holders(a)}
    \cup Of(dead \cup finished \cup lost \cup processing, a) :
        Of(dead, a) # {} => job \in dead).attempt

Promise == INSTANCE JobLife WITH
    Jobs <- Assets, readable <- {a \in Assets : photo[a] # "poison"},
    life <- [a \in Assets |-> Life(a)], tries <- [a \in Assets |-> Tries(a)]

\* The Redis lists, the retries and the crashes keep the promise of JobLife:
\* a job is held by one worker, each failure is counted, the last one sets the
\* job aside, and only a crash strands or loses it (worker.py, handle).
JobLifeSpec == Promise!Spec

\* Every job comes to an end, whatever fails: finished, or set aside, or left
\* where a crash left it (worker.py, handle and run).
JobEnds == \A a \in Assets :
    <>[](Life(a) \in {"done", "dead"} \cup
                     (IF crashes > 0 THEN {"stranded", "lost"} ELSE {}))

\* "it is never silently lost" (worker.py, _claim): a job that has not ended is
\* in some list, or in the hands of a worker that runs.
JobNeverLost == \A a \in Assets : Life(a) # "lost"
=============================================================================
