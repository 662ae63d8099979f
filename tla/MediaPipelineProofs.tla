------------------------ MODULE MediaPipelineProofs ------------------------
(***************************************************************************)
(* Theorems about MediaPipeline, for any number of photos, workers and     *)
(* attempts, any photos and any bounds: what is stored and published of a  *)
(* photo, and, in the second half, that the pipeline implements JobLife.   *)
(***************************************************************************)
EXTENDS MediaPipeline, SequenceTheorems, TLAPS

Held == {Idle} \cup [at : Steps, job : Jobs]

\* The two halves of TypeOK: the types, and that a job is in one place.
Typed ==
    /\ photo \in Photos
    /\ queue \in Seq(Jobs) /\ processing \subseteq Jobs /\ dead \subseteq Jobs
    /\ worker \in [Workers -> Held]
    /\ row \in [Assets -> Rows]
    /\ face \in {"exposed", "partial", "full"}
    /\ vendor \in {"none", "saved", "exposed", "partial", "full"}
    /\ failures \in 0..MaxFailures /\ crashes \in 0..MaxCrashes
    /\ finished \subseteq Jobs /\ lost \subseteq Jobs
    /\ \A r \in requests : r.job \in Jobs /\ r.kind \in {"upload", "callback"}

InOnePlace ==
    /\ \A w, v \in Workers :
          w # v /\ worker[w] # Idle /\ worker[v] # Idle =>
              worker[w].job.asset # worker[v].job.asset
    /\ \A i, j \in DOMAIN queue : i # j => queue[i].asset # queue[j].asset
    /\ \A i \in DOMAIN queue, w \in Workers :
          worker[w] # Idle => worker[w].job.asset # queue[i].asset

\* A job that is queued or held has an attempt left.
AttemptsLeft ==
    /\ \A i \in DOMAIN queue : queue[i].attempt < MaxAttempts
    /\ \A w \in Workers : worker[w] # Idle => worker[w].job.attempt < MaxAttempts

\* What may be stored of a photo, in its row or in a copy of its row.
RowGood(a, x) ==
    /\ x \in Rows
    /\ x.derivative # "raw"
    /\ x.derivative = "blurred" => photo[a] = "faces"
    /\ x.status = "approved" => x.verified /\ x.derivative = "blurred"
    /\ x.status = "approved" => a \in approvedOnce

RowsGood ==
    /\ \A a \in Assets : RowGood(a, row[a])
    /\ approvedOnce \subseteq Assets

\* An upload carries a blur of a photo with faces, and the copy it has read
\* was once the row.
UploadGood(r) ==
    r.kind = "upload" =>
        /\ r.content = "blurred"
        /\ photo[r.job.asset] = "faces"
        /\ r.at = "read" => RowGood(r.job.asset, r.copy)

\* A callback that holds its asset: what it will store is good once its own
\* approval counts, and so is a badge it derived.
CallbackGood(r) ==
    LET a == r.job.asset
    IN  r.kind = "callback" /\ r.at = "begun" =>
        /\ r.marked \in Rows
        /\ r.marked.derivative # "raw"
        /\ r.marked.derivative = "blurred" => photo[a] = "faces"
        /\ r.marked.status = "approved" =>
              /\ r.marked.verified /\ r.marked.derivative = "blurred"
              /\ a \in approvedOnce \/ r.outcome = "approved"
        /\ r.derived \in {"exposed", "partial", "full"}
        /\ r.derived = "partial" =>
              /\ Assets \ {a} \subseteq approvedOnce
              /\ a \in approvedOnce \/ r.outcome = "approved"

RequestsGood == \A r \in requests : UploadGood(r) /\ CallbackGood(r)

BadgesGood ==
    /\ face = "partial" => approvedOnce = Assets
    /\ vendor = "partial" => approvedOnce = Assets

Inv == Typed /\ InOnePlace /\ AttemptsLeft /\ RowsGood /\ RequestsGood /\ BadgesGood

\* TypeOK is its two halves.
LEMMA TypeOKSplit == TypeOK <=> Typed /\ InOnePlace
  BY DEF TypeOK, Typed, InOnePlace, Held

\* There is at least one attempt.
LEMMA AttemptsBound == MaxAttempts \in Nat \ {0}
  BY ConstantsAssumption

\* A job is what it is made of.
LEMMA JobType ==
    ASSUME NEW a \in Assets, NEW n \in 0..MaxAttempts
    PROVE  Job(a, n) \in Jobs /\ Job(a, n).asset = a /\ Job(a, n).attempt = n
  BY DEF Job, Jobs

\* The jobs start on the queue, once each, and the rows are new.
LEMMA InitInv == Init => Inv
  <1> SUFFICES ASSUME Init PROVE Inv
    OBVIOUS
  <1>0. 0 \in 0..MaxAttempts
    BY AttemptsBound
  <1>1. \A a \in Assets : Job(a, 0) \in Jobs /\ Job(a, 0).asset = a /\ Job(a, 0).attempt = 0
    BY <1>0 DEF Job, Jobs
  <1>2. /\ queue \in Seq(Jobs) /\ DOMAIN queue = DOMAIN Queued
        /\ \A i \in DOMAIN Queued : Queued[i] \in Assets /\ queue[i] = Job(Queued[i], 0)
    <2>1. Queued \in Seq(Assets)
      BY ConstantsAssumption
    <2>2. Len(Queued) \in Nat /\ DOMAIN Queued = 1..Len(Queued)
          /\ \A i \in DOMAIN Queued : Queued[i] \in Assets
      BY <2>1
    <2>3. queue = [i \in 1..Len(Queued) |-> Job(Queued[i], 0)]
      BY <2>2 DEF Init
    <2>4. queue \in [1..Len(Queued) -> Jobs]
      BY <1>1, <2>2, <2>3
    <2>5. queue \in Seq(Jobs)
      BY <2>2, <2>4, SeqDef
    <2>6. QED
      BY <2>2, <2>3, <2>5
  <1>3. NewAsset \in Rows /\ NewAsset.status = "pending" /\ NewAsset.derivative = "none"
    BY DEF NewAsset, Rows
  <1>4. Typed
    BY <1>2, <1>3, ConstantsAssumption DEF Init, Typed, Held
  <1>5. InOnePlace
    BY ConstantsAssumption, <1>1, <1>2 DEF Init, InOnePlace
  <1>6. AttemptsLeft
    BY AttemptsBound, <1>1, <1>2 DEF Init, AttemptsLeft
  <1>7. RowsGood
    BY <1>3 DEF Init, RowsGood, RowGood
  <1>8. RequestsGood /\ BadgesGood
    BY DEF Init, RequestsGood, BadgesGood
  <1>9. QED
    BY <1>4, <1>5, <1>6, <1>7, <1>8 DEF Inv

\* A step in which workers go on with their jobs, or drop them.
JobsKept ==
    /\ worker' \in [Workers -> Held]
    /\ \A w \in Workers :
          worker'[w] = Idle \/ (worker[w] # Idle /\ worker'[w].job = worker[w].job)

\* Such a step leaves every job in one place.
LEMMA KeepsJobs ==
    ASSUME InOnePlace, AttemptsLeft, JobsKept, UNCHANGED queue
    PROVE  InOnePlace' /\ AttemptsLeft'
  <1>1. InOnePlace'
    BY DEF InOnePlace, JobsKept
  <1>2. AttemptsLeft'
    BY DEF AttemptsLeft, JobsKept
  <1>3. QED
    BY <1>1, <1>2

\* A worker takes its next step.
LEMMA NextStep ==
    ASSUME Typed, NEW w \in Workers, NEW step \in Steps, worker[w] # Idle,
           worker' = [worker EXCEPT ![w].at = step]
    PROVE  JobsKept
  <1>1. worker[w] \in [at : Steps, job : Jobs]
    BY DEF Typed, Held
  <1>2. [worker[w] EXCEPT !.at = step] \in [at : Steps, job : Jobs]
        /\ [worker[w] EXCEPT !.at = step].job = worker[w].job
    BY <1>1
  <1>3. QED
    BY <1>2 DEF Typed, Held, JobsKept

\* So it does when the server answers it.
LEMMA AnswerStep ==
    ASSUME Typed, NEW r \in requests, NEW ok \in BOOLEAN, Answer(r, ok)
    PROVE  /\ JobsKept
           /\ UNCHANGED <<photo, queueVars, history>>
           /\ requests' \subseteq requests
  <1>1. ASSUME NEW w \in Workers
        PROVE  /\ worker'[w] \in Held
               /\ worker'[w] = Idle \/ (worker[w] # Idle /\ worker'[w].job = worker[w].job)
    <2>1. CASE ~Awaits(w, r)
      BY <1>1, <2>1 DEF Answer, Typed
    <2>2. CASE Awaits(w, r)
      <3>1. PICK step \in Steps : worker'[w] = At(step, r.job)
        BY <2>2 DEF Answer, Steps
      <3>2. r.job \in Jobs
        BY DEF Typed
      <3>3. QED
        BY <2>2, <3>1, <3>2 DEF Awaits, At, Held
    <2>3. QED
      BY <2>1, <2>2
  <1>2. worker' = [w \in Workers |-> worker'[w]]
    BY DEF Answer
  <1>3. JobsKept
    BY <1>1, <1>2 DEF JobsKept
  <1>4. QED
    BY <1>3 DEF Answer

-----------------------------------------------------------------------------
(* The queue: a job is popped, held by one worker, and pushed again. *)

\* Popping takes the last job off and leaves the others where they were.
LEMMA PoppedQueue ==
    ASSUME NEW q \in Seq(Jobs), q # <<>>
    PROVE  /\ Len(q) \in DOMAIN q
           /\ Popped(q) \in Seq(Jobs)
           /\ DOMAIN Popped(q) = DOMAIN q \ {Len(q)}
           /\ \A i \in DOMAIN Popped(q) : Popped(q)[i] = q[i]
  <1>1. Len(q) \in Nat \ {0} /\ DOMAIN q = 1..Len(q)
    BY EmptySeq, LenProperties
  <1>2. \A i \in 1..(Len(q) - 1) : q[i] \in Jobs
    BY <1>1
  <1> DEFINE p == SubSeq(q, 1, Len(q) - 1)
  <1>3. /\ p \in Seq(Jobs)
        /\ Len(p) = IF 1 <= Len(q) - 1 THEN Len(q) - 1 - 1 + 1 ELSE 0
        /\ \A i \in 1..(Len(q) - 1 - 1 + 1) : p[i] = q[1 + i - 1]
    BY <1>1, <1>2, SubSeqProperties
  <1>4. Len(p) = Len(q) - 1 /\ DOMAIN p = 1..(Len(q) - 1)
    BY <1>1, <1>3, LenProperties
  <1>5. \A i \in 1..(Len(q) - 1) : p[i] = q[i]
    BY <1>1, <1>3
  <1> HIDE DEF p
  <1>6. DOMAIN p = DOMAIN q \ {Len(q)}
    BY <1>1, <1>4
  <1>7. Popped(q) = p
    BY DEF Popped, p
  <1>8. Len(q) \in DOMAIN q
    BY <1>1
  <1>9. p \in Seq(Jobs) /\ \A i \in DOMAIN p : p[i] = q[i]
    BY <1>3, <1>4, <1>5
  <1>10. QED
    BY <1>6, <1>7, <1>8, <1>9

\* Pushing puts a job before the others.
LEMMA PushedQueue ==
    ASSUME NEW q \in Seq(Jobs), NEW job \in Jobs
    PROVE  /\ <<job>> \o q \in Seq(Jobs)
           /\ \A i \in DOMAIN (<<job>> \o q) :
                 \/ i = 1 /\ (<<job>> \o q)[i] = job
                 \/ i - 1 \in DOMAIN q /\ i \in Nat /\ (<<job>> \o q)[i] = q[i - 1]
  <1>1. <<job>> \in Seq(Jobs) /\ Len(<<job>>) = 1 /\ <<job>>[1] = job
    OBVIOUS
  <1>2. /\ <<job>> \o q \in Seq(Jobs)
        /\ Len(<<job>> \o q) = 1 + Len(q)
        /\ \A i \in 1..(1 + Len(q)) :
              (<<job>> \o q)[i] = IF i <= 1 THEN <<job>>[i] ELSE q[i - 1]
    BY <1>1, ConcatProperties
  <1>3. /\ Len(q) \in Nat /\ DOMAIN q = 1..Len(q)
        /\ DOMAIN (<<job>> \o q) = 1..(1 + Len(q))
    BY <1>2, LenProperties
  <1>4. QED
    BY <1>1, <1>2, <1>3

\* A job that is claimed moves from the queue to one worker.
LEMMA ClaimStep ==
    ASSUME Typed, InOnePlace, AttemptsLeft, NEW w \in Workers, Claim(w)
    PROVE  Typed' /\ InOnePlace' /\ AttemptsLeft'
  <1> DEFINE n == Len(queue)
             job == queue[n]
  <1>1. /\ queue \in Seq(Jobs) /\ queue # <<>>
        /\ queue' = Popped(queue) /\ processing' = processing \cup {job}
        /\ worker' = [worker EXCEPT ![w] = At("claimed", job)]
    BY DEF Claim, Typed
  <1>2. /\ n \in DOMAIN queue /\ queue' \in Seq(Jobs)
        /\ DOMAIN queue' = DOMAIN queue \ {n}
        /\ \A i \in DOMAIN queue' : queue'[i] = queue[i]
    BY <1>1, PoppedQueue
  <1>3. job \in Jobs
    BY <1>1, <1>2
  <1> HIDE DEF n, job
  <1>4. At("claimed", job) \in Held /\ At("claimed", job).job = job
        /\ At("claimed", job) # Idle
    BY <1>3 DEF At, Held, Steps, Idle
  <1>5. /\ worker' \in [Workers -> Held] /\ worker'[w] = At("claimed", job)
        /\ \A v \in Workers : v # w => worker'[v] = worker[v]
    BY <1>1, <1>4 DEF Typed
  <1>6. Typed'
    BY <1>1, <1>2, <1>3, <1>5
    DEF Claim, Typed, serverVars, history
  <1>7. job = queue[n]
    BY DEF job
  <1>8. InOnePlace'
    BY <1>2, <1>4, <1>5, <1>7 DEF InOnePlace
  <1>9. AttemptsLeft'
    BY <1>2, <1>4, <1>5, <1>7 DEF AttemptsLeft
  <1>10. QED
    BY <1>6, <1>8, <1>9

\* A job that failed moves back to the queue, or to the dead.
LEMMA RetryStep ==
    ASSUME Typed, InOnePlace, AttemptsLeft, NEW w \in Workers, RetryOrBury(w)
    PROVE  Typed' /\ InOnePlace' /\ AttemptsLeft'
  <1> DEFINE job == worker[w].job
             again == OneMore(job)
  <1>1. worker[w] # Idle /\ worker[w] \in [at : Steps, job : Jobs]
    BY DEF RetryOrBury, Idle, Typed, Held
  <1>2. /\ job \in Jobs /\ job.asset \in Assets
        /\ job.attempt \in 0..MaxAttempts /\ job.attempt < MaxAttempts
    BY <1>1 DEF AttemptsLeft, Jobs
  <1>3. again = Job(job.asset, job.attempt + 1)
    BY <1>2 DEF OneMore, Job, Jobs
  <1>4. job.attempt + 1 \in 0..MaxAttempts
    BY <1>2, AttemptsBound
  <1>5. /\ again \in Jobs /\ again.asset = job.asset
        /\ again.attempt = job.attempt + 1
    BY <1>2, <1>3, <1>4, JobType
  <1>6. worker' = [worker EXCEPT ![w] = Idle]
        /\ UNCHANGED <<photo, processing, requests, serverVars, history>>
    BY DEF RetryOrBury
  <1>7. JobsKept
    BY <1>6 DEF Typed, JobsKept, Held
  <1>8. CASE UsedUp(again)
    <2>1. dead' = dead \cup {again} /\ UNCHANGED queue
      BY <1>8 DEF RetryOrBury
    <2> HIDE DEF job, again
    <2>2. Typed'
      BY <1>5, <1>6, <1>7, <2>1 DEF Typed, JobsKept, serverVars, history
    <2>3. QED
      BY <1>7, <2>1, <2>2, KeepsJobs
  <1>9. CASE ~UsedUp(again)
    <2>1. queue' = <<again>> \o queue /\ UNCHANGED dead
      BY <1>9 DEF RetryOrBury
    <2>2. again.attempt < MaxAttempts
      BY <1>4, <1>5, <1>9, AttemptsBound DEF UsedUp
    <2>3. \A v \in Workers : v # w /\ worker[v] # Idle => worker[v].job.asset # again.asset
      BY <1>1, <1>5 DEF InOnePlace
    <2>4. \A i \in DOMAIN queue : queue[i].asset # again.asset
      BY <1>1, <1>5 DEF InOnePlace
    <2> HIDE DEF job, again
    <2>5. /\ queue' \in Seq(Jobs)
          /\ \A i \in DOMAIN queue' :
                \/ i = 1 /\ queue'[i] = again
                \/ i - 1 \in DOMAIN queue /\ i \in Nat /\ queue'[i] = queue[i - 1]
      BY <1>5, <2>1, PushedQueue DEF Typed
    <2>6. Typed'
      BY <1>6, <1>7, <2>1, <2>5 DEF Typed, JobsKept, serverVars, history
    <2>7. \A v \in Workers : worker'[v] = IF v = w THEN Idle ELSE worker[v]
      BY <1>6 DEF Typed
    <2>8. AttemptsLeft'
      BY <2>2, <2>5, <2>7 DEF AttemptsLeft
    <2>9. \A v, u \in Workers :
              v # u /\ worker'[v] # Idle /\ worker'[u] # Idle =>
                  worker'[v].job.asset # worker'[u].job.asset
      BY <2>7 DEF InOnePlace
    <2>10. \A i \in DOMAIN queue', v \in Workers :
              worker'[v] # Idle => worker'[v].job.asset # queue'[i].asset
      BY <2>3, <2>5, <2>7 DEF InOnePlace
    <2>11. \A i, j \in DOMAIN queue' : i # j => queue'[i].asset # queue'[j].asset
      BY <2>4, <2>5 DEF InOnePlace
    <2>12. QED
      BY <2>6, <2>8, <2>9, <2>10, <2>11 DEF InOnePlace
  <1>10. QED
    BY <1>8, <1>9

-----------------------------------------------------------------------------
(* The other steps of the workers. *)

\* A worker that sends a request holds on to its job.
LEMMA SendStep ==
    ASSUME Typed, NEW w \in Workers, NEW step \in Steps, NEW request,
           worker[w] # Idle, Send(w, step, request),
           request.job \in Jobs, request.kind \in {"upload", "callback"}
    PROVE  Typed' /\ JobsKept
  <1>1. worker' = [worker EXCEPT ![w].at = step]
    BY DEF Send
  <1>2. JobsKept
    BY <1>1, NextStep
  <1>3. QED
    BY <1>2 DEF Send, Typed, JobsKept, queueVars, serverVars, history

\* What an upload consists of.
LEMMA UploadFields ==
    ASSUME NEW job, NEW content
    PROVE  LET r == Upload(job, content)
           IN  r.job = job /\ r.kind = "upload" /\ r.content = content /\ r.at = "sent"
  BY DEF Upload

\* What a callback consists of.
LEMMA CallbackFields ==
    ASSUME NEW job, NEW outcome, NEW faces
    PROVE  LET r == Callback(job, outcome, faces)
           IN  r.job = job /\ r.kind = "callback" /\ r.at = "sent"
  BY DEF Callback

\* What a worker sends is a callback, or an upload of a blur.
LEMMA Sent ==
    ASSUME Typed, NEW w \in Workers, Judge(w) \/ Report(w)
    PROVE  \E step \in Steps : \E request :
              /\ Send(w, step, request)
              /\ worker[w] # Idle
              /\ request.job \in Jobs /\ request.at = "sent"
              /\ request.kind \in {"upload", "callback"}
              /\ request.kind = "upload" =>
                    request.content = "blurred" /\ photo[request.job.asset] = "faces"
  <1> DEFINE job == worker[w].job
  <1>1. worker[w] # Idle /\ worker[w] \in [at : Steps, job : Jobs]
    BY DEF Judge, Report, Idle, Typed, Held
  <1>2. job \in Jobs
    BY <1>1
  <1> HIDE DEF job
  <1>3. ASSUME NEW outcome, NEW faces, Send(w, "reporting", Callback(job, outcome, faces))
        PROVE  \E step \in Steps : \E request :
              /\ Send(w, step, request)
              /\ worker[w] # Idle
              /\ request.job \in Jobs /\ request.at = "sent"
              /\ request.kind \in {"upload", "callback"}
              /\ request.kind = "upload" =>
                    request.content = "blurred" /\ photo[request.job.asset] = "faces"
    <2>1. "reporting" \in Steps
      BY DEF Steps
    <2> DEFINE request == Callback(job, outcome, faces)
    <2>2. request.job = job /\ request.kind = "callback" /\ request.at = "sent"
      BY CallbackFields
    <2> HIDE DEF request
    <2>3. Send(w, "reporting", request)
      BY <1>3 DEF request
    <2>4. QED
      BY <1>1, <1>2, <2>1, <2>2, <2>3
  <1>4. ASSUME photo[job.asset] = "faces", Send(w, "uploading", Upload(job, "blurred"))
        PROVE  \E step \in Steps : \E request :
              /\ Send(w, step, request)
              /\ worker[w] # Idle
              /\ request.job \in Jobs /\ request.at = "sent"
              /\ request.kind \in {"upload", "callback"}
              /\ request.kind = "upload" =>
                    request.content = "blurred" /\ photo[request.job.asset] = "faces"
    <2>1. "uploading" \in Steps
      BY DEF Steps
    <2> DEFINE request == Upload(job, "blurred")
    <2>2. request.job = job /\ request.kind = "upload" /\ request.at = "sent"
          /\ request.content = "blurred"
      BY UploadFields
    <2> HIDE DEF request
    <2>3. Send(w, "uploading", request)
      BY <1>4 DEF request
    <2>4. QED
      BY <1>1, <1>2, <1>4, <2>1, <2>2, <2>3
  <1>5. CASE Judge(w)
    <2>1. \/ photo[job.asset] = "faces" /\ Send(w, "uploading", Upload(job, "blurred"))
          \/ Send(w, "reporting", Callback(job, "rejected", 0))
          \/ Send(w, "reporting", Callback(job, "needs_review", 0))
          \/ Send(w, "reporting", Callback(job, "rejected", 1))
      BY <1>5 DEF Judge, Publishable, job
    <2>2. QED
      BY <1>3, <1>4, <2>1
  <1>6. CASE Report(w)
    <2>1. Send(w, "reporting", Callback(job, "approved",
                                        IF photo[job.asset] = "plain" THEN 0 ELSE 1))
      BY <1>6 DEF Report, job
    <2>2. QED
      BY <1>3, <2>1
  <1>7. QED
    BY <1>5, <1>6

\* The other steps of a worker hold no new job, send nothing and leave the
\* rows alone.
LEMMA WorkerStep ==
    ASSUME Typed, InOnePlace, AttemptsLeft, NEW w \in Workers,
           Fails(w) \/ Release(w) \/ BuryPoison(w) \/ Crash(w)
    PROVE  Typed' /\ InOnePlace' /\ AttemptsLeft'
  <1>1. worker[w] # Idle
    BY DEF Fails, Release, BuryPoison, Crash, Idle
  <1>2. worker[w] \in [at : Steps, job : Jobs]
    BY <1>1 DEF Typed, Held
  <1>3. worker[w].job \in Jobs
    BY <1>2
  <1>4. \/ worker' = [worker EXCEPT ![w] = Idle]
        \/ \E step \in Steps : worker' = [worker EXCEPT ![w].at = step]
    BY DEF Fails, Release, BuryPoison, Crash, Steps
  <1>5. ASSUME worker' = [worker EXCEPT ![w] = Idle] PROVE JobsKept
    BY <1>5 DEF Typed, JobsKept, Held
  <1>6. JobsKept
    BY <1>1, <1>4, <1>5, NextStep
  <1>7. Typed' /\ UNCHANGED queue
    <2> USE <1>3, <1>6 DEF Typed, JobsKept, queueVars, serverVars, history
    <2>1. CASE Fails(w)
      BY <2>1, ConstantsAssumption DEF Fails
    <2>2. CASE Release(w)
      BY <2>2 DEF Release
    <2>3. CASE BuryPoison(w)
      BY <2>3 DEF BuryPoison
    <2>4. CASE Crash(w)
      BY <2>4, ConstantsAssumption DEF Crash
    <2>5. QED
      BY <2>1, <2>2, <2>3, <2>4
  <1>8. QED
    BY <1>6, <1>7, KeepsJobs

-----------------------------------------------------------------------------
(* The rows, the requests and the badge. *)

Stored == RowsGood /\ RequestsGood /\ BadgesGood

\* A step that only sends, answers or ends requests changes nothing of it.
LEMMA StoredKept ==
    ASSUME Stored, UNCHANGED <<photo, serverVars>>,
           \A r \in requests' : r \in requests \/ (UploadGood(r) /\ CallbackGood(r))
    PROVE  Stored'
  <1>1. RowsGood' /\ BadgesGood'
    BY DEF Stored, RowsGood, RowGood, BadgesGood, serverVars
  <1>2. ASSUME NEW r \in requests' PROVE UploadGood(r)' /\ CallbackGood(r)'
    <2>1. UploadGood(r) /\ CallbackGood(r)
      BY <1>2 DEF Stored, RequestsGood
    <2>2. QED
      BY <2>1 DEF UploadGood, CallbackGood, RowGood, serverVars
  <1>3. QED
    BY <1>1, <1>2 DEF Stored, RequestsGood

\* Workers leave the rows alone and send only what may be stored.
LEMMA StoredByWorker ==
    ASSUME Typed, Stored, NEW w \in Workers, Works(w) \/ Fails(w) \/ Crash(w)
    PROVE  Stored'
  <1>1. CASE Judge(w) \/ Report(w)
    <2>1. PICK step \in Steps : \E request :
              /\ Send(w, step, request)
              /\ request.at = "sent"
              /\ request.kind \in {"upload", "callback"}
              /\ request.kind = "upload" =>
                    request.content = "blurred" /\ photo[request.job.asset] = "faces"
      BY <1>1, Sent
    <2>2. PICK request :
              /\ Send(w, step, request)
              /\ request.at = "sent"
              /\ request.kind \in {"upload", "callback"}
              /\ request.kind = "upload" =>
                    request.content = "blurred" /\ photo[request.job.asset] = "faces"
      BY <2>1
    <2>3. UploadGood(request) /\ CallbackGood(request)
      BY <2>2 DEF UploadGood, CallbackGood
    <2>4. requests' = requests \cup {request} /\ UNCHANGED <<photo, serverVars>>
      BY <2>2 DEF Send
    <2>5. QED
      BY <2>3, <2>4, StoredKept
  <1>2. CASE ~(Judge(w) \/ Report(w))
    <2>1. UNCHANGED <<photo, requests, serverVars>>
      BY <1>2 DEF Works, Claim, Release, RetryOrBury, BuryPoison, Fails, Crash
    <2>2. QED
      BY <2>1, StoredKept
  <1>3. QED
    BY <1>1, <1>2

\* What the server reads of a row is good, and stays good.
LEMMA UploadReadsStep ==
    ASSUME Typed, Stored, NEW r \in requests, UploadReads(r)
    PROVE  Stored' /\ \A q \in requests' : q.job \in Jobs /\ q.kind \in {"upload", "callback"}
  <1> DEFINE q == [kind |-> "upload", job |-> r.job, content |-> r.content,
                   at |-> "read", copy |-> row[r.job.asset]]
  <1>1. r.job \in Jobs /\ r.kind = "upload" /\ UploadGood(r)
    BY DEF UploadReads, Typed, Stored, RequestsGood
  <1>2. r.job.asset \in Assets
    BY <1>1 DEF Jobs
  <1>3. /\ q.kind = "upload" /\ q.job = r.job /\ q.content = r.content
        /\ q.at = "read" /\ q.copy = row[r.job.asset]
    OBVIOUS
  <1>4. requests' = (requests \ {r}) \cup {q} /\ UNCHANGED <<photo, serverVars>>
    BY DEF UploadReads
  <1> HIDE DEF q
  <1>5. RowGood(r.job.asset, row[r.job.asset])
    BY <1>2 DEF Stored, RowsGood
  <1>6. UploadGood(q) /\ CallbackGood(q)
    BY <1>1, <1>3, <1>5 DEF UploadGood, CallbackGood
  <1>7. Stored'
    BY <1>4, <1>6, StoredKept
  <1>8. QED
    BY <1>1, <1>3, <1>4, <1>7 DEF Typed

\* The late save of an old copy is harmless: the copy was good, and so is the blur.
LEMMA UploadSavesStep ==
    ASSUME Typed, Stored, NEW r \in requests, UploadSaves(r)
    PROVE  Stored' /\ row' \in [Assets -> Rows]
  <1> DEFINE a == r.job.asset
             x == [r.copy EXCEPT !.derivative = r.content]
  <1>1. /\ r.job \in Jobs /\ r.content = "blurred" /\ photo[a] = "faces"
        /\ RowGood(a, r.copy)
    BY DEF UploadSaves, Typed, Stored, RequestsGood, UploadGood
  <1>2. a \in Assets
    BY <1>1 DEF Jobs
  <1>3. /\ row' = [row EXCEPT ![a] = x]
        /\ UNCHANGED <<photo, face, vendor, approvedOnce>>
        /\ requests' \subseteq requests
    BY DEF UploadSaves, Answer
  <1>4. /\ x \in Rows /\ x.derivative = "blurred"
        /\ x.status = r.copy.status /\ x.verified = r.copy.verified
    BY <1>1 DEF RowGood, Rows
  <1> HIDE DEF x, a
  <1>5. RowGood(a, x)
    BY <1>1, <1>4 DEF RowGood
  <1>6. \A b \in Assets : RowGood(b, row'[b])
    BY <1>2, <1>3, <1>5 DEF Typed, Stored, RowsGood
  <1>7. RowsGood'
    BY <1>3, <1>6 DEF RowsGood, RowGood, Stored
  <1>8. RequestsGood'
    BY <1>3 DEF Stored, RequestsGood, UploadGood, CallbackGood, RowGood
  <1>9. BadgesGood'
    BY <1>3 DEF Stored, BadgesGood
  <1>10. QED
    BY <1>2, <1>3, <1>4, <1>7, <1>8, <1>9 DEF Stored, Typed

\* What a callback makes of a row.
LEMMA MarkedGood ==
    ASSUME Typed, Stored, NEW r \in requests, NEW marked \in Marked(r)
    PROVE  /\ marked \in Rows /\ marked.derivative # "raw"
           /\ marked.derivative = "blurred" => photo[r.job.asset] = "faces"
           /\ marked.status = "approved" =>
                 marked.verified /\ marked.derivative = "blurred" /\ r.outcome = "approved"
  <1> DEFINE asset == row[r.job.asset]
  <1>1. r.job.asset \in Assets
    BY DEF Typed, Jobs
  <1>2. RowGood(r.job.asset, asset)
    BY <1>1 DEF Stored, RowsGood
  <1>3. asset \in Rows /\ asset.derivative \in {"none", "blurred"}
        /\ (asset.derivative = "blurred" => photo[r.job.asset] = "faces")
    BY <1>2 DEF RowGood, Rows
  <1>4. \/ /\ r.outcome = "approved" /\ asset.derivative # "none"
           /\ marked = [asset EXCEPT !.status = "approved", !.verified = TRUE]
        \/ marked = [asset EXCEPT !.status = "needs_review"]
    BY DEF Marked
  <1> HIDE DEF asset
  <1>5. CASE /\ r.outcome = "approved" /\ asset.derivative # "none"
             /\ marked = [asset EXCEPT !.status = "approved", !.verified = TRUE]
    BY <1>3, <1>5 DEF Rows
  <1>6. CASE marked = [asset EXCEPT !.status = "needs_review"]
    BY <1>3, <1>6 DEF Rows
  <1>7. QED
    BY <1>4, <1>5, <1>6

\* A badge that is derived is backed once the callback commits.
LEMMA DerivedGood ==
    ASSUME Typed, Stored, NEW r \in requests, NEW marked \in Marked(r)
    PROVE  LET d == Derived(r.job.asset, marked)
           IN  /\ d \in {"exposed", "partial", "full"}
               /\ d = "partial" => /\ Assets \ {r.job.asset} \subseteq approvedOnce
                                   /\ r.outcome = "approved"
  <1> DEFINE d == Derived(r.job.asset, marked)
  <1>1. r.job.asset \in Assets
    BY DEF Typed, Jobs
  <1>2. d \in {"exposed", "partial", "full"}
    BY DEF Derived
  <1>3. ASSUME d = "partial"
        PROVE  /\ marked.status = "approved"
               /\ \A b \in Assets \ {r.job.asset} : row[b].status = "approved"
    BY <1>1, <1>3 DEF Derived
  <1>4. \A b \in Assets : row[b].status = "approved" => b \in approvedOnce
    BY DEF Stored, RowsGood, RowGood
  <1>5. QED
    BY <1>2, <1>3, <1>4, MarkedGood

\* A callback that begins holds good values.
LEMMA CallbackBeginsStep ==
    ASSUME Typed, Stored, NEW r \in requests, CallbackBegins(r)
    PROVE  /\ Stored'
           /\ \A q \in requests' : q.job \in Jobs /\ q.kind \in {"upload", "callback"}
  <1>1. CASE Settled(r.job.asset) \/ Marked(r) = {}
    <2>1. requests' \subseteq requests /\ UNCHANGED <<photo, serverVars>>
      BY <1>1 DEF CallbackBegins, Answer
    <2>2. QED
      BY <2>1, StoredKept DEF Typed
  <1>2. CASE ~(Settled(r.job.asset) \/ Marked(r) = {})
    <2>1. PICK marked \in Marked(r) :
              requests' = (requests \ {r}) \cup
                 {[kind |-> "callback", job |-> r.job, outcome |-> r.outcome,
                   faces |-> r.faces, at |-> "begun", marked |-> marked,
                   derived |-> Derived(r.job.asset, marked), seen |-> face]}
      BY <1>2 DEF CallbackBegins
    <2> DEFINE q == [kind |-> "callback", job |-> r.job, outcome |-> r.outcome,
                     faces |-> r.faces, at |-> "begun", marked |-> marked,
                     derived |-> Derived(r.job.asset, marked), seen |-> face]
    <2>2. requests' = (requests \ {r}) \cup {q} /\ UNCHANGED <<photo, serverVars>>
      BY <1>2, <2>1 DEF CallbackBegins
    <2>3. /\ q.kind = "callback" /\ q.job = r.job /\ q.outcome = r.outcome
          /\ q.at = "begun" /\ q.marked = marked
          /\ q.derived = Derived(r.job.asset, marked)
      OBVIOUS
    <2> HIDE DEF q
    <2>4. UploadGood(q) /\ CallbackGood(q)
      BY <2>3, MarkedGood, DerivedGood DEF UploadGood, CallbackGood
    <2>5. Stored'
      BY <2>2, <2>4, StoredKept
    <2>6. QED
      BY <2>2, <2>3, <2>5 DEF Typed
  <1>3. QED
    BY <1>1, <1>2

\* A callback that commits stores good values, and backs its badge.
LEMMA CallbackCommitsStep ==
    ASSUME Typed, Stored, NEW r \in requests, CallbackCommits(r)
    PROVE  /\ Stored' /\ row' \in [Assets -> Rows]
           /\ face' \in {"exposed", "partial", "full"}
  <1> DEFINE a == r.job.asset
             x == r.marked
  <1>1. /\ r.job \in Jobs /\ x \in Rows /\ x.derivative # "raw"
        /\ x.derivative = "blurred" => photo[a] = "faces"
        /\ x.status = "approved" =>
              /\ x.verified /\ x.derivative = "blurred"
              /\ a \in approvedOnce \/ r.outcome = "approved"
        /\ r.derived \in {"exposed", "partial", "full"}
        /\ r.derived = "partial" =>
              /\ Assets \ {a} \subseteq approvedOnce
              /\ a \in approvedOnce \/ r.outcome = "approved"
    BY DEF CallbackCommits, Typed, Stored, RequestsGood, CallbackGood
  <1>2. a \in Assets
    BY <1>1 DEF Jobs
  <1>3. /\ row' = [row EXCEPT ![a] = x]
        /\ face' \in {face, r.derived}
        /\ approvedOnce' = IF r.outcome = "approved" THEN approvedOnce \cup {a}
                           ELSE approvedOnce
        /\ UNCHANGED <<photo, vendor>>
        /\ requests' \subseteq requests
    BY DEF CallbackCommits, Answer
  <1> HIDE DEF a, x
  <1>4. approvedOnce \subseteq approvedOnce' /\ approvedOnce' \subseteq Assets
    BY <1>2, <1>3 DEF Stored, RowsGood
  <1>5. \A b \in Assets : row'[b] = IF b = a THEN x ELSE row[b]
    BY <1>2, <1>3 DEF Typed
  <1>6. RowsGood'
    BY <1>1, <1>3, <1>4, <1>5 DEF RowsGood, RowGood, Stored
  <1>7. \A q \in requests' : UploadGood(q)' /\ CallbackGood(q)'
    BY <1>3, <1>4 DEF Stored, RequestsGood, UploadGood, CallbackGood, RowGood
  <1>8. BadgesGood'
    BY <1>1, <1>3, <1>4 DEF Stored, BadgesGood
  <1>9. QED
    BY <1>1, <1>2, <1>3, <1>6, <1>7, <1>8 DEF Stored, RequestsGood, Typed

-----------------------------------------------------------------------------
(* The invariant and the theorems. *)

\* The server keeps the invariant.
LEMMA ServerStep ==
    ASSUME Inv, NEW r \in requests, Serves(r)
    PROVE  Inv'
  <1> USE DEF Inv
  <1>0. Stored
    BY DEF Stored
  <1>1. CASE UploadReads(r)
    <2>1. JobsKept /\ UNCHANGED <<photo, queueVars, worker, serverVars, history>>
      BY <1>1 DEF UploadReads, JobsKept, Typed
    <2>2. Stored' /\ Typed'
      BY <1>0, <1>1, <2>1, UploadReadsStep DEF Typed, queueVars, serverVars, history
    <2>3. QED
      BY <2>1, <2>2, KeepsJobs DEF Stored, queueVars
  <1>2. CASE UploadSaves(r)
    <2>1. /\ JobsKept /\ UNCHANGED <<photo, queueVars, history>>
          /\ requests' \subseteq requests
      BY <1>2, AnswerStep DEF UploadSaves
    <2>2. UNCHANGED <<face, vendor>>
      BY <1>2 DEF UploadSaves
    <2>3. Stored' /\ Typed'
      BY <1>0, <1>2, <2>1, <2>2, UploadSavesStep DEF Typed, JobsKept, queueVars, history
    <2>4. QED
      BY <2>1, <2>3, KeepsJobs DEF Stored, queueVars
  <1>3. CASE CallbackBegins(r)
    <2>1. JobsKept /\ UNCHANGED <<photo, queueVars, serverVars, history>>
      <3>1. CASE Settled(r.job.asset) \/ Marked(r) = {}
        <4>1. Settled(r.job.asset) \in BOOLEAN
          BY DEF Settled
        <4>2. Answer(r, Settled(r.job.asset)) /\ UNCHANGED serverVars
          BY <1>3, <3>1 DEF CallbackBegins
        <4>3. QED
          BY <4>1, <4>2, AnswerStep
      <3>2. CASE ~(Settled(r.job.asset) \/ Marked(r) = {})
        BY <1>3, <3>2 DEF CallbackBegins, JobsKept, Typed
      <3>3. QED
        BY <3>1, <3>2
    <2>2. Stored' /\ Typed'
      BY <1>0, <1>3, <2>1, CallbackBeginsStep
      DEF Typed, JobsKept, queueVars, serverVars, history
    <2>3. QED
      BY <2>1, <2>2, KeepsJobs DEF Stored, queueVars
  <1>4. CASE CallbackCommits(r)
    <2>1. /\ JobsKept /\ UNCHANGED <<photo, queueVars, history>>
          /\ requests' \subseteq requests /\ UNCHANGED vendor
      BY <1>4, AnswerStep DEF CallbackCommits
    <2>2. Stored' /\ Typed'
      BY <1>0, <1>4, <2>1, CallbackCommitsStep DEF Typed, JobsKept, queueVars, history
    <2>3. QED
      BY <2>1, <2>2, KeepsJobs DEF Stored, queueVars
  <1>5. QED
    BY <1>1, <1>2, <1>3, <1>4 DEF Serves

\* The workers keep it.
LEMMA WorkersStep ==
    ASSUME Inv, NEW w \in Workers, Works(w) \/ Fails(w) \/ Crash(w)
    PROVE  Inv'
  <1> USE DEF Inv
  <1>1. Stored'
    BY StoredByWorker DEF Stored
  <1>2. Typed' /\ InOnePlace' /\ AttemptsLeft'
    <2>1. CASE Claim(w)
      BY <2>1, ClaimStep
    <2>2. CASE RetryOrBury(w)
      BY <2>2, RetryStep
    <2>3. CASE Judge(w) \/ Report(w)
      <3>1. Typed' /\ JobsKept /\ UNCHANGED queue
        BY <2>3, Sent, SendStep DEF Send, queueVars
      <3>2. QED
        BY <3>1, KeepsJobs
    <2>4. CASE Fails(w) \/ Release(w) \/ BuryPoison(w) \/ Crash(w)
      BY <2>4, WorkerStep
    <2>5. QED
      BY <2>1, <2>2, <2>3, <2>4 DEF Works
  <1>3. QED
    BY <1>1, <1>2 DEF Stored

\* So does every step, the vendor's included.
LEMMA InvStep == Inv /\ [Next]_vars => Inv'
  <1> SUFFICES ASSUME Inv, [Next]_vars PROVE Inv'
    OBVIOUS
  <1>1. ASSUME VendorReads \/ VendorSaves PROVE Inv'
    <2>1. UNCHANGED <<photo, queueVars, worker, requests, row, approvedOnce, history>>
      BY <1>1 DEF VendorReads, VendorSaves
    <2>2. \/ vendor' = face /\ face' = face
          \/ vendor' = "saved" /\ face' = vendor /\ vendor \notin {"none", "saved"}
      BY <1>1 DEF VendorReads, VendorSaves
    <2>3. Typed'
      BY <2>1, <2>2 DEF Inv, Typed, queueVars, history
    <2>4. InOnePlace' /\ AttemptsLeft' /\ RowsGood'
      BY <2>1 DEF Inv, InOnePlace, AttemptsLeft, RowsGood, RowGood, queueVars
    <2>5. RequestsGood'
      BY <2>1 DEF Inv, RequestsGood, UploadGood, CallbackGood, RowGood
    <2>6. BadgesGood'
      BY <2>1, <2>2 DEF Inv, BadgesGood
    <2>7. QED
      BY <2>3, <2>4, <2>5, <2>6 DEF Inv
  <1>2. ASSUME UNCHANGED vars PROVE Inv'
    <2>1. Typed' /\ InOnePlace' /\ AttemptsLeft'
      BY <1>2 DEF Inv, vars, queueVars, serverVars, history, Typed, InOnePlace, AttemptsLeft
    <2>2. Stored'
      BY <1>2, StoredKept DEF Inv, Stored, vars
    <2>3. QED
      BY <2>1, <2>2 DEF Inv, Stored
  <1>3. QED
    BY <1>1, <1>2, ServerStep, WorkersStep DEF Next

\* Jobs, rows, requests and the badge keep to the invariant (worker.py and
\* media_assets/views.py).
THEOREM PipelineInvariant == Spec => []Inv
  BY InitInv, InvStep, PTL DEF Spec

\* The job is in one place, and every list, row and request keeps its type
\* (worker.py, _claim and _release).
THEOREM TypeCorrect == Spec => []TypeOK
  <1>1. Inv => TypeOK
    BY TypeOKSplit DEF Inv
  <1>2. QED
    BY <1>1, PipelineInvariant, PTL

\* Only a photo whose faces were found is ever approved, and what it serves is
\* a verified blur of it, however late uploads and callbacks overlap
\* (media_assets/models.py, mark_approved).
THEOREM PublicWasBlurredTheorem == Spec => []PublicWasBlurred
  <1>1. Inv => PublicWasBlurred
    BY DEF Inv, RowsGood, RowGood, PublicWasBlurred
  <1>2. QED
    BY <1>1, PipelineInvariant, PTL

\* A badge is worn by a product all of whose photos have been approved,
\* whichever stale copies are saved (catalog/services.py, sync_face_coverage).
THEOREM BadgeBackedTheorem == Spec => []BadgeBacked
  <1>1. Inv => BadgeBacked
    BY DEF Inv, BadgesGood, BadgeBacked
  <1>2. QED
    BY <1>1, PipelineInvariant, PTL
-----------------------------------------------------------------------------
(* Where a job is: the promise of JobLife. *)

QueuedJobs(a) == {queue[i] : i \in InQueue(a)}

HeldJobs(a) == {worker[w].job : w \in Holders(a)}

JobsOf(a) ==
    QueuedJobs(a) \cup HeldJobs(a)
    \cup Of(dead \cup finished \cup lost \cup processing, a)

\* Everything that is known of an asset's job is one job, and a job that is
\* queued or held has not ended.
JobSettled(a) ==
    /\ \E n \in 0..MaxAttempts : JobsOf(a) = {Job(a, n)}
    /\ QueuedJobs(a) # {} \/ HeldJobs(a) # {} =>
          Of(finished, a) = {} /\ Of(lost, a) = {}
    /\ QueuedJobs(a) # {} => Of(dead, a) = {}

\* A job that is held is on the processing list until it is released, and is
\* set aside only when it could not be parsed.
HoldSettled(w) ==
    worker[w] # Idle =>
        LET a == worker[w].job.asset
        IN  /\ Of(dead, a) # {} => worker[w].at = "reported"
            /\ IF worker[w].at = "released" THEN Of(processing, a) = {}
               ELSE worker[w].job \in Of(processing, a)

Whereabouts ==
    /\ \A a \in Assets : JobSettled(a)
    /\ \A w \in Workers : HoldSettled(w)

\* A step leaves the job of an asset where it was.
SameWhere(a) ==
    /\ QueuedJobs(a)' = QueuedJobs(a) /\ HeldJobs(a)' = HeldJobs(a)
    /\ Of(dead, a)' = Of(dead, a) /\ Of(finished, a)' = Of(finished, a)
    /\ Of(lost, a)' = Of(lost, a) /\ Of(processing, a)' = Of(processing, a)

SameLife(a) == Life(a)' = Life(a) /\ Tries(a)' = Tries(a)

LifeMap == [a \in Assets |-> Life(a)]
TriesMap == [a \in Assets |-> Tries(a)]

\* Where a job is, by the jobs in each place, before a step and after it.
LEMMA LifeOf ==
    ASSUME NEW a
    PROVE  LET L == IF QueuedJobs(a) # {} THEN "queued"
                    ELSE IF Of(dead, a) # {} THEN "dead"
                    ELSE IF HeldJobs(a) # {} THEN "held"
                    ELSE IF Of(finished, a) # {} THEN "done"
                    ELSE IF Of(lost, a) # {} THEN "lost"
                    ELSE "stranded"
           IN  Life(a) = L /\ Life(a)' = L'
  <1>1. QueuedJobs(a) # {} <=> InQueue(a) # {}
    BY DEF QueuedJobs
  <1>2. HeldJobs(a) # {} <=> Holders(a) # {}
    BY DEF HeldJobs
  <1>3. QueuedJobs(a)' # {} <=> InQueue(a)' # {}
    BY DEF QueuedJobs
  <1>4. HeldJobs(a)' # {} <=> Holders(a)' # {}
    BY DEF HeldJobs
  <1>5. QED
    BY <1>1, <1>2, <1>3, <1>4 DEF Life

\* How often it was tried, before a step and after it.
LEMMA TriesOf ==
    ASSUME NEW a, NEW job
    PROVE  /\ JobsOf(a) = {job} => Tries(a) = job.attempt
           /\ JobsOf(a)' = {job} => Tries(a)' = job.attempt
  <1>1. ASSUME JobsOf(a) = {job} PROVE Tries(a) = job.attempt
    <2> DEFINE S == {queue[i] : i \in InQueue(a)} \cup {worker[w].job : w \in Holders(a)}
                    \cup Of(dead \cup finished \cup lost \cup processing, a)
    <2>1. S = {job}
      BY <1>1 DEF JobsOf, QueuedJobs, HeldJobs
    <2>2. Of(dead, a) # {} => job \in dead
      <3>1. Of(dead, a) \subseteq S /\ Of(dead, a) \subseteq dead
        BY DEF Of
      <3>2. QED
        BY <2>1, <3>1
    <2> HIDE DEF S
    <2>3. (CHOOSE j \in S : Of(dead, a) # {} => j \in dead) = job
      BY <2>1, <2>2
    <2>4. QED
      BY <2>3 DEF Tries, S
  <1>2. ASSUME JobsOf(a)' = {job} PROVE Tries(a)' = job.attempt
    <2> DEFINE S == {queue'[i] : i \in InQueue(a)'} \cup {worker'[w].job : w \in Holders(a)'}
                    \cup Of(dead' \cup finished' \cup lost' \cup processing', a)
    <2>1. S = {job}
      BY <1>2 DEF JobsOf, QueuedJobs, HeldJobs, Of
    <2>2. Of(dead, a)' # {} => job \in dead'
      <3>1. Of(dead, a)' \subseteq S /\ Of(dead, a)' \subseteq dead'
        BY DEF Of
      <3>2. QED
        BY <2>1, <3>1
    <2> HIDE DEF S
    <2>3. (CHOOSE j \in S : Of(dead, a)' # {} => j \in dead') = job
      BY <2>1, <2>2
    <2>4. QED
      BY <2>3 DEF Tries, S, Of
  <1>3. QED
    BY <1>1, <1>2

\* The jobs of an asset, by place.
LEMMA JobsByPlace ==
    ASSUME NEW a
    PROVE  /\ JobsOf(a) = QueuedJobs(a) \cup HeldJobs(a) \cup Of(dead, a)
                          \cup Of(finished, a) \cup Of(lost, a) \cup Of(processing, a)
           /\ JobsOf(a)' = QueuedJobs(a)' \cup HeldJobs(a)' \cup Of(dead, a)'
                           \cup Of(finished, a)' \cup Of(lost, a)' \cup Of(processing, a)'
  BY DEF JobsOf, Of

\* A job that stays where it was lives on as it did.
LEMMA StaysSettled ==
    ASSUME NEW a \in Assets, JobSettled(a), SameWhere(a)
    PROVE  JobSettled(a)' /\ SameLife(a)
  <1>1. JobsOf(a)' = JobsOf(a)
    BY JobsByPlace DEF SameWhere
  <1>2. JobSettled(a)'
    BY <1>1 DEF JobSettled, SameWhere
  <1>3. Life(a)' = Life(a)
    BY LifeOf DEF SameWhere
  <1>4. PICK n \in 0..MaxAttempts : JobsOf(a) = {Job(a, n)}
    BY DEF JobSettled
  <1>5. Tries(a) = Job(a, n).attempt /\ Tries(a)' = Job(a, n).attempt
    BY <1>1, <1>4, TriesOf
  <1>6. QED
    BY <1>2, <1>3, <1>5 DEF SameLife

\* The job that is held is all that is known of its asset's job.
LEMMA HeldIsAll ==
    ASSUME Typed, InOnePlace, Whereabouts, NEW w \in Workers, worker[w] # Idle
    PROVE  LET job == worker[w].job IN
           /\ worker[w] \in [at : Steps, job : Jobs]
           /\ job \in Jobs /\ job.asset \in Assets
           /\ JobsOf(job.asset) = {job} /\ HeldJobs(job.asset) = {job}
           /\ QueuedJobs(job.asset) = {}
           /\ Of(finished, job.asset) = {} /\ Of(lost, job.asset) = {}
           /\ \A v \in Workers \ {w} :
                 worker[v] # Idle => worker[v].job.asset # job.asset
           /\ Tries(job.asset) = job.attempt
  <1> DEFINE job == worker[w].job
             a == job.asset
  <1>1. worker[w] \in [at : Steps, job : Jobs]
    BY DEF Typed, Held
  <1>2. job \in Jobs /\ a \in Assets
    BY <1>1 DEF Jobs
  <1>3. \A v \in Workers \ {w} : worker[v] # Idle => worker[v].job.asset # a
    BY DEF InOnePlace
  <1>4. Holders(a) = {w}
    BY <1>3 DEF Holders
  <1>5. HeldJobs(a) = {job}
    BY <1>4 DEF HeldJobs
  <1>6. InQueue(a) = {}
    BY DEF InQueue, InOnePlace
  <1>7. QueuedJobs(a) = {}
    BY <1>6 DEF QueuedJobs
  <1> HIDE DEF job, a
  <1>8. JobSettled(a)
    BY <1>2 DEF Whereabouts
  <1>9. PICK n \in 0..MaxAttempts : JobsOf(a) = {Job(a, n)}
    BY <1>8 DEF JobSettled
  <1>10. job \in JobsOf(a)
    BY <1>5 DEF JobsOf
  <1>11. JobsOf(a) = {job}
    BY <1>9, <1>10
  <1>12. Of(finished, a) = {} /\ Of(lost, a) = {}
    BY <1>5, <1>8 DEF JobSettled
  <1>13. Tries(a) = job.attempt
    BY <1>11, TriesOf
  <1>14. QED
    BY <1>1, <1>2, <1>3, <1>5, <1>7, <1>11, <1>12, <1>13 DEF job, a

\* Only one asset's job moves, and the worker w with it.
OnlyMoves(a, w) ==
    /\ \A b \in Assets \ {a} : SameWhere(b)
    /\ \A v \in Workers \ {w} :
          /\ worker'[v] = worker[v]
          /\ worker[v] # Idle => worker[v].job.asset # a

\* The others stay settled, and live on as they did.
LEMMA OthersSettled ==
    ASSUME Typed, Whereabouts, NEW a \in Assets, NEW w \in Workers, OnlyMoves(a, w),
           JobSettled(a)', HoldSettled(w)'
    PROVE  Whereabouts' /\ \A b \in Assets \ {a} : SameLife(b)
  <1>1. ASSUME NEW b \in Assets \ {a} PROVE JobSettled(b)' /\ SameLife(b)
    BY StaysSettled DEF Whereabouts, OnlyMoves
  <1>2. ASSUME NEW v \in Workers \ {w}, worker[v] # Idle PROVE HoldSettled(v)'
    <2> DEFINE b == worker[v].job.asset
    <2>1. b \in Assets \ {a}
      BY <1>2 DEF OnlyMoves, Typed, Held, Jobs
    <2>2. worker'[v] = worker[v] /\ SameWhere(b)
      BY <2>1 DEF OnlyMoves
    <2>3. HoldSettled(v)
      BY DEF Whereabouts
    <2>4. QED
      BY <1>2, <2>2, <2>3 DEF HoldSettled, SameWhere
  <1>3. ASSUME NEW v \in Workers \ {w}, worker[v] = Idle PROVE HoldSettled(v)'
    BY <1>3 DEF OnlyMoves, HoldSettled
  <1>4. QED
    BY <1>1, <1>2, <1>3 DEF Whereabouts

\* The jobs of other assets are held by other workers.
LEMMA OthersHeld ==
    ASSUME NEW a, NEW w \in Workers, worker' \in [Workers -> Held],
           \A v \in Workers \ {w} : worker'[v] = worker[v],
           worker[w] = Idle \/ worker[w].job.asset = a,
           worker'[w] = Idle \/ worker'[w].job.asset = a
    PROVE  \A b : b # a => HeldJobs(b)' = HeldJobs(b)
  <1> SUFFICES ASSUME NEW b, b # a PROVE HeldJobs(b)' = HeldJobs(b)
    OBVIOUS
  <1>1. Holders(b)' = Holders(b) /\ w \notin Holders(b)
    BY DEF Holders
  <1>2. QED
    BY <1>1 DEF HeldJobs, Holders
-----------------------------------------------------------------------------
(* The steps that move a job, and those that do not. *)

\* Workers keep their jobs and release none.
JobsHeld ==
    /\ worker' \in [Workers -> Held]
    /\ \A w \in Workers :
          IF worker[w] = Idle THEN worker'[w] = Idle
          ELSE /\ worker'[w] # Idle /\ worker'[w].job = worker[w].job
               /\ \/ worker'[w].at = worker[w].at
                  \/ /\ worker[w].at \notin {"released", "reported"}
                     /\ worker'[w].at # "released"

\* Such a step, if it leaves the lists alone, moves no job.
LEMMA NothingMoves ==
    ASSUME Typed, Whereabouts, JobsHeld, UNCHANGED <<queueVars, finished, lost>>
    PROVE  Whereabouts' /\ \A a \in Assets : SameLife(a)
  <1>1. ASSUME NEW a \in Assets PROVE SameWhere(a)
    <2>1. QueuedJobs(a)' = QueuedJobs(a)
      BY DEF QueuedJobs, InQueue, queueVars
    <2>2. Holders(a)' = Holders(a)
      BY DEF Holders, JobsHeld
    <2>3. HeldJobs(a)' = HeldJobs(a)
      BY <2>2 DEF HeldJobs, JobsHeld, Holders
    <2>4. QED
      BY <2>1, <2>3 DEF SameWhere, Of, queueVars
  <1>2. \A a \in Assets : JobSettled(a)' /\ SameLife(a)
    BY <1>1, StaysSettled DEF Whereabouts
  <1>3. ASSUME NEW w \in Workers, worker'[w] # Idle PROVE HoldSettled(w)'
    <2> DEFINE a == worker[w].job.asset
    <2>1. worker[w] # Idle /\ worker'[w].job = worker[w].job
      BY <1>3 DEF JobsHeld
    <2>2. \/ worker'[w].at = worker[w].at
          \/ worker[w].at \notin {"released", "reported"} /\ worker'[w].at # "released"
      BY <1>3 DEF JobsHeld
    <2>3. a \in Assets
      BY <2>1 DEF Typed, Held, Jobs
    <2>4. SameWhere(a) /\ HoldSettled(w)
      BY <1>1, <2>3 DEF Whereabouts
    <2>5. QED
      BY <1>3, <2>1, <2>2, <2>4 DEF HoldSettled, SameWhere
  <1>4. \A w \in Workers : HoldSettled(w)'
    BY <1>3 DEF HoldSettled
  <1>5. QED
    BY <1>2, <1>4 DEF Whereabouts

\* A worker that takes its next step, and releases nothing, keeps its job.
LEMMA NextStepHolds ==
    ASSUME Typed, NEW w \in Workers, NEW step \in Steps \ {"released"}, worker[w] # Idle,
           worker[w].at \notin {"released", "reported"},
           worker' = [worker EXCEPT ![w].at = step]
    PROVE  JobsHeld
  <1>1. worker[w] \in [at : Steps, job : Jobs]
    BY DEF Typed, Held
  <1> DEFINE x == [worker[w] EXCEPT !.at = step]
  <1>2. x \in [at : Steps, job : Jobs] /\ x.job = worker[w].job /\ x.at = step
    BY <1>1
  <1>3. x # Idle
    BY <1>2 DEF Idle, Steps
  <1>4. worker' = [worker EXCEPT ![w] = x]
    OBVIOUS
  <1> HIDE DEF x
  <1>5. QED
    BY <1>2, <1>3, <1>4 DEF Typed, Held, JobsHeld

\* So does one that is answered.
LEMMA AnswerHolds ==
    ASSUME Typed, NEW r \in requests, NEW ok \in BOOLEAN, Answer(r, ok)
    PROVE  JobsHeld
  <1>1. worker' \in [Workers -> Held]
    BY AnswerStep DEF JobsKept
  <1>2. ASSUME NEW w \in Workers, ~Awaits(w, r) PROVE worker'[w] = worker[w]
    BY <1>2 DEF Answer
  <1>3. ASSUME NEW w \in Workers, Awaits(w, r)
        PROVE  /\ worker[w] # Idle /\ worker'[w] # Idle
               /\ worker'[w].job = worker[w].job
               /\ worker[w].at \notin {"released", "reported"}
               /\ worker'[w].at # "released"
    <2>1. PICK step \in {"failed", "uploaded", "reported"} : worker'[w] = At(step, r.job)
      BY <1>3 DEF Answer
    <2>2. At(step, r.job).at = step /\ At(step, r.job).job = r.job
          /\ At(step, r.job) # Idle
      BY <2>1 DEF At, Idle
    <2>3. worker[w] # Idle /\ worker[w].job = r.job
          /\ worker[w].at \in {"uploading", "reporting"}
      BY <1>3 DEF Awaits
    <2>4. QED
      BY <2>1, <2>2, <2>3
  <1>4. QED
    BY <1>1, <1>2, <1>3 DEF JobsHeld

\* The server, the vendor and a worker that judges, reports or fails move no job.
LEMMA QuietSteps ==
    ASSUME Inv, Whereabouts,
           \/ \E w \in Workers : Judge(w) \/ Report(w) \/ Fails(w)
           \/ \E r \in requests : Serves(r)
           \/ VendorReads \/ VendorSaves \/ UNCHANGED vars
    PROVE  Whereabouts' /\ (\A a \in Assets : SameLife(a)) /\ UNCHANGED photo
  <1>1. SUFFICES JobsHeld /\ UNCHANGED <<photo, queueVars, finished, lost>>
    BY NothingMoves DEF Inv
  <1>2. ASSUME UNCHANGED <<worker, photo, queueVars, finished, lost>>
        PROVE  JobsHeld /\ UNCHANGED <<photo, queueVars, finished, lost>>
    BY <1>2 DEF JobsHeld, Inv, Typed
  <1>3. ASSUME NEW r \in requests, NEW ok \in BOOLEAN, Answer(r, ok)
        PROVE  JobsHeld /\ UNCHANGED <<photo, queueVars, finished, lost>>
    BY <1>3, AnswerHolds DEF Inv, Answer, history
  <1>4. ASSUME NEW r \in requests, Serves(r)
        PROVE  JobsHeld /\ UNCHANGED <<photo, queueVars, finished, lost>>
    <2>1. CASE UploadReads(r)
      BY <1>2, <2>1 DEF UploadReads, history
    <2>2. CASE UploadSaves(r) \/ CallbackCommits(r)
      BY <1>3, <2>2 DEF UploadSaves, CallbackCommits
    <2>3. CASE CallbackBegins(r)
      <3>1. Settled(r.job.asset) \in BOOLEAN
        BY DEF Settled
      <3>2. QED
        BY <1>2, <1>3, <2>3, <3>1 DEF CallbackBegins, history
    <2>4. QED
      BY <1>4, <2>1, <2>2, <2>3 DEF Serves
  <1>5. ASSUME NEW w \in Workers, Judge(w) \/ Report(w)
        PROVE  JobsHeld /\ UNCHANGED <<photo, queueVars, finished, lost>>
    <2>1. PICK step \in {"uploading", "reporting"} : \E request : Send(w, step, request)
      BY <1>5 DEF Judge, Report
    <2>2. /\ worker' = [worker EXCEPT ![w].at = step]
          /\ UNCHANGED <<photo, queueVars, finished, lost>>
      BY <2>1 DEF Send, history
    <2>3. worker[w] # Idle /\ worker[w].at \in {"claimed", "uploaded"}
      BY <1>5 DEF Judge, Report, Idle
    <2>4. step \in Steps \ {"released"}
      BY <2>1 DEF Steps
    <2>5. QED
      BY <2>2, <2>3, <2>4, NextStepHolds DEF Inv
  <1>6. ASSUME NEW w \in Workers, Fails(w)
        PROVE  JobsHeld /\ UNCHANGED <<photo, queueVars, finished, lost>>
    <2>1. /\ worker' = [worker EXCEPT ![w].at = "failed"]
          /\ UNCHANGED <<photo, queueVars, finished, lost>>
          /\ worker[w] # Idle /\ worker[w].at \in {"claimed", "uploading", "reporting"}
      BY <1>6 DEF Fails, Idle
    <2>2. "failed" \in Steps \ {"released"}
      BY DEF Steps
    <2>3. QED
      BY <2>1, <2>2, NextStepHolds DEF Inv
  <1>7. ASSUME VendorReads \/ VendorSaves \/ UNCHANGED vars
        PROVE  JobsHeld /\ UNCHANGED <<photo, queueVars, finished, lost>>
    BY <1>2, <1>7 DEF VendorReads, VendorSaves, vars, history, serverVars
  <1>8. QED
    BY <1>4, <1>5, <1>6, <1>7

\* The oldest job moves from the queue to a worker.
LEMMA ClaimMoves ==
    ASSUME Inv, Whereabouts, NEW w \in Workers, Claim(w)
    PROVE  \E a \in Assets :
              /\ Whereabouts' /\ \A b \in Assets \ {a} : SameLife(b)
              /\ Life(a) = "queued" /\ Life(a)' = "held" /\ Tries(a)' = Tries(a)
  <1>0. queue \in Seq(Jobs) /\ queue # <<>>
    BY DEF Claim, Inv, Typed
  <1> PICK n : n = Len(queue)
    OBVIOUS
  <1> PICK job \in Jobs : job = queue[n]
    BY <1>0, PoppedQueue, ElementOfSeq, LenProperties
  <1> PICK a \in Assets : a = job.asset
    BY DEF Jobs
  <1>1. /\ queue \in Seq(Jobs) /\ queue # <<>> /\ worker[w] = Idle
        /\ queue' = Popped(queue) /\ processing' = processing \cup {job}
        /\ worker' = [worker EXCEPT ![w] = At("claimed", job)]
        /\ UNCHANGED <<dead, finished, lost>>
    BY <1>0 DEF Claim, history
  <1>2. /\ n \in DOMAIN queue
        /\ DOMAIN queue' = DOMAIN queue \ {n}
        /\ \A i \in DOMAIN queue' : queue'[i] = queue[i]
    BY <1>1, PoppedQueue
  <1>3. job \in Jobs /\ a \in Assets
    OBVIOUS
  <1>4. \A i \in DOMAIN queue : i # n => queue[i].asset # a
    BY <1>2 DEF Inv, InOnePlace
  <1>5. \A v \in Workers : worker[v] # Idle => worker[v].job.asset # a
    BY <1>2 DEF Inv, InOnePlace
  <1>6. job = queue[n] /\ a = job.asset
    OBVIOUS
  <1>7. /\ At("claimed", job).job = job /\ At("claimed", job).at = "claimed"
        /\ At("claimed", job) # Idle /\ At("claimed", job) \in Held
    BY <1>3 DEF At, Idle, Held, Steps
  <1>8. /\ worker'[w] = At("claimed", job) /\ worker' \in [Workers -> Held]
        /\ \A v \in Workers \ {w} : worker'[v] = worker[v]
    BY <1>1, <1>7 DEF Inv, Typed
  <1>9. QueuedJobs(a) = {job} /\ QueuedJobs(a)' = {}
    BY <1>2, <1>4, <1>6 DEF QueuedJobs, InQueue
  <1>10. HeldJobs(a) = {} /\ HeldJobs(a)' = {job}
    <2>1. Holders(a) = {} /\ Holders(a)' = {w}
      BY <1>5, <1>6, <1>7, <1>8 DEF Holders
    <2>2. QED
      BY <2>1, <1>7, <1>8 DEF HeldJobs
  <1>11. /\ Of(processing, a)' = Of(processing, a) \cup {job}
         /\ Of(dead, a)' = Of(dead, a) /\ Of(finished, a)' = Of(finished, a)
         /\ Of(lost, a)' = Of(lost, a)
    BY <1>1, <1>6 DEF Of
  <1>12. JobSettled(a)
    BY <1>3 DEF Whereabouts
  <1>13. Of(dead, a) = {} /\ Of(finished, a) = {} /\ Of(lost, a) = {}
    BY <1>9, <1>12 DEF JobSettled
  <1>14. PICK k \in 0..MaxAttempts : JobsOf(a) = {Job(a, k)}
    BY <1>12 DEF JobSettled
  <1>15. JobsOf(a) = {job} /\ job = Job(a, k) /\ JobsOf(a)' = {job}
    BY <1>9, <1>10, <1>11, <1>14, JobsByPlace
  <1>16. JobSettled(a)'
    BY <1>9, <1>11, <1>13, <1>15 DEF JobSettled
  <1>17. HoldSettled(w)'
    BY <1>6, <1>7, <1>8, <1>11, <1>13 DEF HoldSettled
  <1>18. OnlyMoves(a, w)
    <2>1. ASSUME NEW b \in Assets \ {a} PROVE SameWhere(b)
      <3>1. QueuedJobs(b)' = QueuedJobs(b)
        <4>1. InQueue(b)' = InQueue(b)
          BY <1>2, <1>6 DEF InQueue
        <4>2. QED
          BY <4>1, <1>2 DEF QueuedJobs, InQueue
      <3>2. HeldJobs(b)' = HeldJobs(b)
        BY <1>1, <1>6, <1>7, <1>8, OthersHeld
      <3>3. QED
        BY <3>1, <3>2, <1>1, <1>6 DEF SameWhere, Of
    <2>2. QED
      BY <2>1, <1>5, <1>8 DEF OnlyMoves
  <1>19. Whereabouts' /\ \A b \in Assets \ {a} : SameLife(b)
    BY <1>3, <1>16, <1>17, <1>18, OthersSettled DEF Inv
  <1>20. Life(a) = "queued" /\ Life(a)' = "held"
    BY <1>9, <1>10, <1>11, <1>13, LifeOf
  <1>21. Tries(a)' = Tries(a)
    BY <1>15, TriesOf
  <1>22. QED
    BY <1>3, <1>19, <1>20, <1>21
\* A worker holds the job of an asset.
Holding(w, job, a) ==
    /\ worker[w] # Idle /\ job \in Jobs /\ a \in Assets
    /\ job = worker[w].job /\ a = job.asset

\* Where that job is: nowhere but in its hands and, until it is released, on
\* the processing list; or set aside, if it could not be parsed.
OnlyInHands(w, job, a) ==
    /\ QueuedJobs(a) = {} /\ HeldJobs(a) = {job}
    /\ Of(finished, a) = {} /\ Of(lost, a) = {}
    /\ Of(dead, a) \in {{}, {job}}
    /\ Of(dead, a) # {} => worker[w].at = "reported"
    /\ Of(processing, a) = IF worker[w].at = "released" THEN {} ELSE {job}
    /\ Life(a) = IF Of(dead, a) # {} THEN "dead" ELSE "held"
    /\ Tries(a) = job.attempt
    /\ \E n \in 0..MaxAttempts : job = Job(a, n)
    /\ \A v \in Workers \ {w} : worker[v] # Idle => worker[v].job.asset # a

\* So it is with every job that is held.
LEMMA HeldSettled ==
    ASSUME Inv, Whereabouts, NEW w \in Workers, NEW job, NEW a, Holding(w, job, a)
    PROVE  OnlyInHands(w, job, a)
  <1> USE DEF Holding
  <1>1. /\ JobsOf(a) = {job} /\ HeldJobs(a) = {job} /\ QueuedJobs(a) = {}
        /\ Of(finished, a) = {} /\ Of(lost, a) = {} /\ Tries(a) = job.attempt
        /\ \A v \in Workers \ {w} : worker[v] # Idle => worker[v].job.asset # a
    BY HeldIsAll DEF Inv
  <1>2. Of(dead, a) \subseteq {job} /\ Of(processing, a) \subseteq {job}
    BY <1>1, JobsByPlace
  <1>3. HoldSettled(w) /\ JobSettled(a)
    BY DEF Whereabouts
  <1>4. \E n \in 0..MaxAttempts : job = Job(a, n)
    BY <1>1, <1>3 DEF JobSettled
  <1>5. /\ Of(dead, a) # {} => worker[w].at = "reported"
        /\ IF worker[w].at = "released" THEN Of(processing, a) = {}
           ELSE job \in Of(processing, a)
    BY <1>3 DEF HoldSettled
  <1>6. Of(processing, a) = IF worker[w].at = "released" THEN {} ELSE {job}
    BY <1>2, <1>5
  <1>7. Life(a) = IF Of(dead, a) # {} THEN "dead" ELSE "held"
    BY <1>1, LifeOf
  <1>8. QED
    BY <1>1, <1>2, <1>4, <1>5, <1>6, <1>7 DEF OnlyInHands

\* The lists change in the job of one asset only.
ListsOfOthersKept(a) ==
    \A b \in Assets \ {a} :
        /\ QueuedJobs(b)' = QueuedJobs(b) /\ Of(dead, b)' = Of(dead, b)
        /\ Of(finished, b)' = Of(finished, b) /\ Of(lost, b)' = Of(lost, b)
        /\ Of(processing, b)' = Of(processing, b)

Becomes(w, x) == worker' = [worker EXCEPT ![w] = x]

\* No job at all is a worker's state.
LEMMA IdleIsHeld == Idle \in Held
  BY DEF Held

\* A worker that drops its job, or goes on with it, moves no other one.
LEMMA OneMovesOn ==
    ASSUME Inv, Whereabouts, NEW w \in Workers, NEW job, NEW a, Holding(w, job, a),
           NEW x \in Held, x = Idle \/ x.job = job, Becomes(w, x),
           ListsOfOthersKept(a)
    PROVE  /\ OnlyMoves(a, w) /\ worker'[w] = x
           /\ HeldJobs(a)' = IF x = Idle THEN {} ELSE {job}
  <1> USE DEF Holding, Becomes
  <1>1. \A v \in Workers \ {w} : worker[v] # Idle => worker[v].job.asset # a
    BY HeldSettled DEF OnlyInHands
  <1>2. /\ worker'[w] = x /\ worker' \in [Workers -> Held]
        /\ \A v \in Workers \ {w} : worker'[v] = worker[v]
    BY DEF Inv, Typed
  <1>3. \A b : b # a => HeldJobs(b)' = HeldJobs(b)
    BY <1>2, OthersHeld
  <1>4. OnlyMoves(a, w)
    BY <1>1, <1>2, <1>3 DEF OnlyMoves, SameWhere, ListsOfOthersKept
  <1>5. Holders(a)' = IF x = Idle THEN {} ELSE {w}
    BY <1>1, <1>2 DEF Holders
  <1>6. HeldJobs(a)' = IF x = Idle THEN {} ELSE {job}
    BY <1>2, <1>5 DEF HeldJobs
  <1>7. QED
    BY <1>2, <1>4, <1>6

\* What a step of a worker makes of its job: an outcome, and an attempt count.
Leaves(a, from, to, attempts) ==
    /\ Whereabouts' /\ \A b \in Assets \ {a} : SameLife(b)
    /\ Life(a) = from /\ Life(a)' = to /\ Tries(a)' = attempts

\* How the step of a worker is judged.
LEMMA LeavesIf ==
    ASSUME Inv, Whereabouts, NEW w \in Workers, NEW a \in Assets, OnlyMoves(a, w),
           HoldSettled(w)', NEW job, NEW n \in 0..MaxAttempts, job = Job(a, n),
           JobsOf(a)' = {job},
           QueuedJobs(a)' # {} \/ HeldJobs(a)' # {} =>
              Of(finished, a)' = {} /\ Of(lost, a)' = {},
           QueuedJobs(a)' # {} => Of(dead, a)' = {}
    PROVE  Leaves(a, Life(a), Life(a)', job.attempt)
  <1>1. JobSettled(a)'
    BY DEF JobSettled
  <1>2. Whereabouts' /\ \A b \in Assets \ {a} : SameLife(b)
    BY <1>1, OthersSettled DEF Inv
  <1>3. Tries(a)' = job.attempt
    BY TriesOf
  <1>4. QED
    BY <1>2, <1>3 DEF Leaves

\* A job that was reported is finished, unless it had been set aside; one that
\* failed is still held.
LEMMA ReleaseMoves ==
    ASSUME Inv, Whereabouts, NEW w \in Workers, Release(w)
    PROVE  \E a \in Assets :
              \/ Leaves(a, "held", "done", Tries(a))
              \/ Leaves(a, Life(a), Life(a), Tries(a))
  <1>1. /\ worker[w] # Idle /\ worker[w] \in [at : Steps, job : Jobs]
        /\ worker[w].at \in {"reported", "failed"}
    BY DEF Release, Idle, Inv, Typed, Held
  <1> PICK job \in Jobs : job = worker[w].job
    BY <1>1
  <1> PICK a \in Assets : a = job.asset
    BY DEF Jobs
  <1>0. Holding(w, job, a)
    BY <1>1 DEF Holding
  <1>2. /\ QueuedJobs(a) = {} /\ HeldJobs(a) = {job}
        /\ Of(finished, a) = {} /\ Of(lost, a) = {}
        /\ Of(dead, a) \in {{}, {job}}
        /\ Of(dead, a) # {} => worker[w].at = "reported"
        /\ Of(processing, a) = IF worker[w].at = "released" THEN {} ELSE {job}
        /\ Life(a) = IF Of(dead, a) # {} THEN "dead" ELSE "held"
        /\ Tries(a) = job.attempt
        /\ \E n \in 0..MaxAttempts : job = Job(a, n)
    BY <1>0, HeldSettled DEF OnlyInHands
  <1> PICK n \in 0..MaxAttempts : job = Job(a, n)
    BY <1>2
  <1>3. processing' = processing \ {job} /\ UNCHANGED <<queue, dead, lost>>
    BY DEF Release, history
  <1>4. Of(processing, a)' = {} /\ Of(dead, a)' = Of(dead, a) /\ Of(lost, a)' = {}
        /\ QueuedJobs(a)' = {}
    BY <1>2, <1>3 DEF Of, QueuedJobs, InQueue
  <1>5. CASE worker[w].at = "reported"
    <2>1. Becomes(w, Idle) /\ finished' = finished \cup {job}
      BY <1>5 DEF Release, Becomes
    <2>2. Of(finished, a)' = {job}
      BY <1>2, <2>1 DEF Of
    <2>3. ListsOfOthersKept(a)
      BY <1>3, <2>1 DEF ListsOfOthersKept, Of, QueuedJobs, InQueue
    <2>4. OnlyMoves(a, w) /\ worker'[w] = Idle /\ HeldJobs(a)' = {}
      BY <1>0, <2>1, <2>3, OneMovesOn, IdleIsHeld
    <2>5. HoldSettled(w)'
      BY <2>4 DEF HoldSettled
    <2>6. JobsOf(a)' = {job}
      <3>1. JobsOf(a)' = QueuedJobs(a)' \cup HeldJobs(a)' \cup Of(dead, a)'
                         \cup Of(finished, a)' \cup Of(lost, a)' \cup Of(processing, a)'
        BY JobsByPlace
      <3>2. JobsOf(a)' = {} \cup {} \cup Of(dead, a) \cup {job} \cup {} \cup {}
        BY <1>4, <2>2, <2>4, <3>1
      <3>3. QED
        BY <1>2, <3>2
    <2>7. Leaves(a, Life(a), Life(a)', job.attempt)
      BY <1>4, <2>4, <2>5, <2>6, LeavesIf
    <2>8. Life(a)' = IF Of(dead, a) # {} THEN "dead" ELSE "done"
      BY <1>4, <2>2, <2>4, LifeOf
    <2>9. QED
      BY <1>2, <2>7, <2>8
  <1>6. CASE worker[w].at = "failed"
    <2> DEFINE x == [worker[w] EXCEPT !.at = "released"]
    <2>1. Becomes(w, x) /\ UNCHANGED finished
      BY <1>6 DEF Release, Becomes
    <2>2. x \in Held /\ x.job = job /\ x.at = "released" /\ x # Idle
      BY <1>1 DEF Held, Steps, Idle
    <2> PICK y \in Held : y = x
      BY <2>2
    <2> HIDE DEF x
    <2>3. ListsOfOthersKept(a)
      BY <1>3, <2>1 DEF ListsOfOthersKept, Of, QueuedJobs, InQueue
    <2>4. OnlyMoves(a, w) /\ worker'[w] = y /\ HeldJobs(a)' = {job}
      BY <1>0, <2>1, <2>2, <2>3, OneMovesOn
    <2>5. Of(finished, a)' = {} /\ Of(dead, a) = {}
      BY <1>2, <1>6, <2>1 DEF Of
    <2>6. HoldSettled(w)'
      BY <1>4, <2>2, <2>4, <2>5 DEF HoldSettled
    <2>7. JobsOf(a)' = {job}
      BY <1>4, <2>4, <2>5, JobsByPlace
    <2>8. Leaves(a, Life(a), Life(a)', job.attempt)
      BY <1>4, <2>4, <2>5, <2>6, <2>7, LeavesIf
    <2>9. Life(a)' = "held"
      BY <1>4, <2>4, <2>5, LifeOf
    <2>10. Life(a) = "held" /\ Tries(a) = job.attempt
      BY <1>2, <2>5
    <2>11. Leaves(a, Life(a), Life(a), Tries(a))
      BY <2>8, <2>9, <2>10
    <2>12. QED
      BY <2>11
  <1>7. QED
    BY <1>1, <1>5, <1>6
\* A job that is pushed joins the queued ones of its asset.
LEMMA PushedJobs ==
    ASSUME Typed, NEW job \in Jobs, queue' = <<job>> \o queue, NEW b
    PROVE  QueuedJobs(b)' = IF b = job.asset THEN QueuedJobs(b) \cup {job}
                            ELSE QueuedJobs(b)
  <1>1. queue \in Seq(Jobs)
    BY DEF Typed
  <1>2. \A i \in DOMAIN queue' :
            \/ i = 1 /\ queue'[i] = job
            \/ i - 1 \in DOMAIN queue /\ i \in Nat /\ queue'[i] = queue[i - 1]
    BY <1>1, PushedQueue
  <1>3. 1 \in DOMAIN queue' /\ queue'[1] = job
        /\ \A i \in DOMAIN queue : i + 1 \in DOMAIN queue' /\ queue'[i + 1] = queue[i]
    <2>1. <<job>> \in Seq(Jobs) /\ Len(<<job>>) = 1 /\ <<job>>[1] = job
      OBVIOUS
    <2>2. /\ queue' \in Seq(Jobs) /\ Len(queue') = 1 + Len(queue)
          /\ \A i \in 1..(1 + Len(queue)) :
                queue'[i] = IF i <= 1 THEN <<job>>[i] ELSE queue[i - 1]
      BY <1>1, <2>1, ConcatProperties
    <2>3. /\ Len(queue) \in Nat /\ DOMAIN queue = 1..Len(queue)
          /\ DOMAIN queue' = 1..(1 + Len(queue))
      BY <1>1, <2>2, LenProperties
    <2>4. QED
      BY <2>1, <2>2, <2>3
  <1>4. QueuedJobs(b)' = {queue'[i] : i \in {k \in DOMAIN queue' : queue'[k].asset = b}}
    BY DEF QueuedJobs, InQueue
  <1>5. QueuedJobs(b) = {queue[i] : i \in {k \in DOMAIN queue : queue[k].asset = b}}
    BY DEF QueuedJobs, InQueue
  <1>6. ASSUME NEW j \in QueuedJobs(b)' PROVE j \in QueuedJobs(b) \/ (j = job /\ b = job.asset)
    BY <1>2, <1>4, <1>5
  <1>7. QueuedJobs(b) \subseteq QueuedJobs(b)'
    BY <1>3, <1>4, <1>5
  <1>8. b = job.asset => job \in QueuedJobs(b)'
    BY <1>3, <1>4
  <1>9. QED
    BY <1>6, <1>7, <1>8

\* A job that failed is queued again with its attempt counted, or set aside
\* when that was the last one.
LEMMA RetryMoves ==
    ASSUME Inv, Whereabouts, NEW w \in Workers, RetryOrBury(w)
    PROVE  \E a \in Assets :
              /\ Tries(a) \in Nat
              /\ \/ /\ Tries(a) + 1 < MaxAttempts
                    /\ Leaves(a, "held", "queued", Tries(a) + 1)
                 \/ /\ Tries(a) + 1 = MaxAttempts
                    /\ Leaves(a, "held", "dead", Tries(a) + 1)
  <1>1. /\ worker[w] # Idle /\ worker[w] \in [at : Steps, job : Jobs]
        /\ worker[w].at = "released"
    BY DEF RetryOrBury, Idle, Inv, Typed, Held
  <1> PICK job \in Jobs : job = worker[w].job
    BY <1>1
  <1> PICK a \in Assets : a = job.asset
    BY DEF Jobs
  <1>2. Holding(w, job, a)
    BY <1>1 DEF Holding
  <1>3. OnlyInHands(w, job, a)
    BY <1>2, HeldSettled
  <1>4. /\ QueuedJobs(a) = {} /\ Of(finished, a) = {} /\ Of(lost, a) = {}
        /\ Of(dead, a) = {} /\ Of(processing, a) = {}
        /\ Life(a) = "held" /\ Tries(a) = job.attempt
    BY <1>1, <1>3 DEF OnlyInHands
  <1>5. job.attempt \in Nat /\ job.attempt < MaxAttempts
    BY <1>1 DEF Inv, AttemptsLeft, Jobs
  <1> PICK n \in 0..MaxAttempts : n = job.attempt + 1
    BY <1>5, AttemptsBound
  <1> PICK again \in Jobs : again = Job(a, n)
    BY JobType
  <1>6. again.asset = a /\ again.attempt = n /\ again = OneMore(worker[w].job)
    BY JobType, <1>5 DEF OneMore, Job, Jobs
  <1>7. Becomes(w, Idle) /\ UNCHANGED <<processing, finished, lost>>
    BY DEF RetryOrBury, history, Becomes
  <1>8. Of(finished, a)' = {} /\ Of(lost, a)' = {} /\ Of(processing, a)' = {}
    BY <1>4, <1>7 DEF Of
  <1>9. CASE UsedUp(again)
    <2>1. dead' = dead \cup {again} /\ UNCHANGED queue
      BY <1>6, <1>9 DEF RetryOrBury
    <2>2. Of(dead, a)' = {again} /\ QueuedJobs(a)' = {}
      BY <1>4, <1>6, <2>1 DEF Of, QueuedJobs, InQueue
    <2>3. ListsOfOthersKept(a)
      BY <1>6, <1>7, <2>1 DEF ListsOfOthersKept, Of, QueuedJobs, InQueue
    <2>4. OnlyMoves(a, w) /\ worker'[w] = Idle /\ HeldJobs(a)' = {}
      BY <1>2, <1>7, <2>3, OneMovesOn, IdleIsHeld
    <2>5. HoldSettled(w)'
      BY <2>4 DEF HoldSettled
    <2>6. JobsOf(a)' = {again}
      BY <1>8, <2>2, <2>4, JobsByPlace
    <2>7. Leaves(a, Life(a), Life(a)', again.attempt)
      BY <1>8, <2>2, <2>4, <2>5, <2>6, LeavesIf
    <2>8. Life(a)' = "dead"
      BY <2>2, LifeOf
    <2>9. Tries(a) + 1 = MaxAttempts
      BY <1>4, <1>5, <1>6, <1>9, AttemptsBound DEF UsedUp
    <2>10. QED
      BY <1>4, <1>5, <1>6, <2>7, <2>8, <2>9
  <1>10. CASE ~UsedUp(again)
    <2>1. queue' = <<again>> \o queue /\ UNCHANGED dead
      BY <1>6, <1>10 DEF RetryOrBury
    <2>2. \A b : QueuedJobs(b)' = IF b = a THEN QueuedJobs(b) \cup {again}
                                  ELSE QueuedJobs(b)
      BY <1>6, <2>1, PushedJobs DEF Inv
    <2>3. QueuedJobs(a)' = {again} /\ Of(dead, a)' = {}
      BY <1>4, <2>1, <2>2 DEF Of
    <2>4. ListsOfOthersKept(a)
      BY <1>7, <2>1, <2>2 DEF ListsOfOthersKept, Of
    <2>5. OnlyMoves(a, w) /\ worker'[w] = Idle /\ HeldJobs(a)' = {}
      BY <1>2, <1>7, <2>4, OneMovesOn, IdleIsHeld
    <2>6. HoldSettled(w)'
      BY <2>5 DEF HoldSettled
    <2>7. JobsOf(a)' = {again}
      BY <1>8, <2>3, <2>5, JobsByPlace
    <2>8. Leaves(a, Life(a), Life(a)', again.attempt)
      BY <1>8, <2>3, <2>5, <2>6, <2>7, LeavesIf
    <2>9. Life(a)' = "queued"
      BY <2>3, LifeOf
    <2>10. Tries(a) + 1 < MaxAttempts
      BY <1>4, <1>5, <1>6, <1>10, AttemptsBound DEF UsedUp
    <2>11. QED
      BY <1>4, <1>5, <1>6, <2>8, <2>9, <2>10
  <1>11. QED
    BY <1>9, <1>10

\* A job that cannot be parsed is set aside.
LEMMA BuryPoisonMoves ==
    ASSUME Inv, Whereabouts, NEW w \in Workers, BuryPoison(w)
    PROVE  \E a \in Assets :
              photo[a] = "poison" /\ Leaves(a, "held", "dead", Tries(a))
  <1>1. /\ worker[w] # Idle /\ worker[w] \in [at : Steps, job : Jobs]
        /\ worker[w].at = "claimed" /\ photo[worker[w].job.asset] = "poison"
    BY DEF BuryPoison, Idle, Inv, Typed, Held
  <1> PICK job \in Jobs : job = worker[w].job
    BY <1>1
  <1> PICK a \in Assets : a = job.asset
    BY DEF Jobs
  <1>2. Holding(w, job, a)
    BY <1>1 DEF Holding
  <1>3. OnlyInHands(w, job, a)
    BY <1>2, HeldSettled
  <1>4. /\ QueuedJobs(a) = {} /\ Of(finished, a) = {} /\ Of(lost, a) = {}
        /\ Of(dead, a) = {} /\ Of(processing, a) = {job}
        /\ Life(a) = "held" /\ Tries(a) = job.attempt
        /\ \E n \in 0..MaxAttempts : job = Job(a, n)
    BY <1>1, <1>3 DEF OnlyInHands
  <1> PICK n \in 0..MaxAttempts : job = Job(a, n)
    BY <1>4
  <1>5. /\ dead' = dead \cup {job} /\ UNCHANGED <<queue, processing, finished, lost>>
        /\ worker' = [worker EXCEPT ![w] = [worker[w] EXCEPT !.at = "reported"]]
    BY DEF BuryPoison, history
  <1> DEFINE y == [worker[w] EXCEPT !.at = "reported"]
  <1>6. y \in Held /\ y.job = job /\ y.at = "reported" /\ y # Idle
    BY <1>1 DEF Held, Steps, Idle
  <1> HIDE DEF y
  <1> PICK x \in Held : x = y /\ x.job = job /\ x.at = "reported" /\ x # Idle
    BY <1>6
  <1>7. /\ Of(dead, a)' = {job} /\ QueuedJobs(a)' = {} /\ Of(finished, a)' = {}
        /\ Of(lost, a)' = {} /\ Of(processing, a)' = {job}
    BY <1>4, <1>5 DEF Of, QueuedJobs, InQueue
  <1>8. ListsOfOthersKept(a)
    BY <1>5 DEF ListsOfOthersKept, Of, QueuedJobs, InQueue
  <1>9. Becomes(w, x)
    BY <1>5 DEF Becomes, y
  <1>10. OnlyMoves(a, w) /\ worker'[w] = x /\ HeldJobs(a)' = {job}
    BY <1>2, <1>8, <1>9, OneMovesOn
  <1>11. HoldSettled(w)'
    BY <1>7, <1>10 DEF HoldSettled
  <1>12. JobsOf(a)' = {job}
    BY <1>7, <1>10, JobsByPlace
  <1>13. Leaves(a, Life(a), Life(a)', job.attempt)
    BY <1>7, <1>10, <1>11, <1>12, LeavesIf
  <1>14. Life(a)' = "dead"
    BY <1>7, LifeOf
  <1>15. QED
    BY <1>1, <1>4, <1>13, <1>14

\* A crash strands the job, or loses it when it had been released; one that
\* was set aside stays there.
LEMMA CrashMoves ==
    ASSUME Inv, Whereabouts, NEW w \in Workers, Crash(w)
    PROVE  \E a \in Assets :
              \/ \E to \in {"stranded", "lost"} : Leaves(a, "held", to, Tries(a))
              \/ Leaves(a, Life(a), Life(a), Tries(a))
  <1>1. worker[w] # Idle /\ worker[w] \in [at : Steps, job : Jobs]
    BY DEF Crash, Inv, Typed, Held
  <1> PICK job \in Jobs : job = worker[w].job
    BY <1>1
  <1> PICK a \in Assets : a = job.asset
    BY DEF Jobs
  <1>2. Holding(w, job, a)
    BY <1>1 DEF Holding
  <1>3. OnlyInHands(w, job, a)
    BY <1>2, HeldSettled
  <1>4. /\ QueuedJobs(a) = {} /\ Of(finished, a) = {} /\ Of(lost, a) = {}
        /\ Of(dead, a) \in {{}, {job}}
        /\ Of(dead, a) # {} => worker[w].at = "reported"
        /\ Of(processing, a) = IF worker[w].at = "released" THEN {} ELSE {job}
        /\ Life(a) = IF Of(dead, a) # {} THEN "dead" ELSE "held"
        /\ Tries(a) = job.attempt
        /\ \E n \in 0..MaxAttempts : job = Job(a, n)
    BY <1>3 DEF OnlyInHands
  <1> PICK n \in 0..MaxAttempts : job = Job(a, n)
    BY <1>4
  <1>5. /\ Becomes(w, Idle)
        /\ lost' = IF worker[w].at = "released" THEN lost \cup {job} ELSE lost
        /\ UNCHANGED <<queue, dead, processing, finished>>
    BY DEF Crash, queueVars, Becomes
  <1>6. /\ Of(dead, a)' = Of(dead, a) /\ QueuedJobs(a)' = {} /\ Of(finished, a)' = {}
        /\ Of(processing, a)' = Of(processing, a)
    BY <1>4, <1>5 DEF Of, QueuedJobs, InQueue
  <1>7. Of(lost, a)' = IF worker[w].at = "released" THEN {job} ELSE {}
    BY <1>4, <1>5 DEF Of
  <1>8. ListsOfOthersKept(a)
    BY <1>5 DEF ListsOfOthersKept, Of, QueuedJobs, InQueue
  <1>9. OnlyMoves(a, w) /\ worker'[w] = Idle /\ HeldJobs(a)' = {}
    BY <1>2, <1>5, <1>8, OneMovesOn, IdleIsHeld
  <1>10. HoldSettled(w)'
    BY <1>9 DEF HoldSettled
  <1>11. JobsOf(a)' = {job}
    <2>1. JobsOf(a)' = QueuedJobs(a)' \cup HeldJobs(a)' \cup Of(dead, a)'
                       \cup Of(finished, a)' \cup Of(lost, a)' \cup Of(processing, a)'
      BY JobsByPlace
    <2>2. JobsOf(a)' = Of(dead, a) \cup Of(lost, a)' \cup Of(processing, a)
      BY <1>6, <1>9, <2>1
    <2>3. QED
      BY <1>4, <1>7, <2>2
  <1>12. Leaves(a, Life(a), Life(a)', job.attempt)
    BY <1>6, <1>9, <1>10, <1>11, LeavesIf
  <1>13. Life(a)' = IF Of(dead, a) # {} THEN "dead"
                    ELSE IF worker[w].at = "released" THEN "lost" ELSE "stranded"
    BY <1>6, <1>7, <1>9, LifeOf
  <1>14. QED
    BY <1>4, <1>12, <1>13

-----------------------------------------------------------------------------
(* The refinement. *)

\* A step that moves one asset's job is a move of JobLife.
LEMMA MapsMove ==
    ASSUME NEW a \in Assets, NEW from, NEW to, NEW attempts,
           Leaves(a, from, to, attempts)
    PROVE  /\ Promise!Move(a, from, to)
           /\ TriesMap[a] = Tries(a)
           /\ TriesMap' = [TriesMap EXCEPT ![a] = attempts]
           /\ attempts = Tries(a) => UNCHANGED TriesMap
  BY DEF Leaves, SameLife, Promise!Move, TriesMap

\* All jobs are queued at first, and have not been tried.
LEMMA InitWhereabouts ==
    Init => Whereabouts /\ Promise!Init
  <1> SUFFICES ASSUME Init PROVE Whereabouts /\ Promise!Init
    OBVIOUS
  <1>1. 0 \in 0..MaxAttempts
    BY AttemptsBound
  <1>2. ASSUME NEW a \in Assets
        PROVE  JobSettled(a) /\ Life(a) = "queued" /\ Tries(a) = 0
    <2>1. PICK i \in DOMAIN Queued : Queued[i] = a
      BY ConstantsAssumption
    <2>2. /\ DOMAIN queue = DOMAIN Queued
          /\ \A k \in DOMAIN Queued : queue[k] = Job(Queued[k], 0)
      BY DEF Init
    <2>3. \A k \in DOMAIN Queued : queue[k].asset = Queued[k]
      BY <2>2 DEF Job
    <2>4. QueuedJobs(a) = {Job(a, 0)}
      <3>1. i \in InQueue(a) /\ \A k \in InQueue(a) : queue[k] = Job(a, 0)
        BY <2>1, <2>2, <2>3 DEF InQueue
      <3>2. QED
        BY <3>1 DEF QueuedJobs
    <2>5. /\ HeldJobs(a) = {} /\ Of(dead, a) = {} /\ Of(finished, a) = {}
          /\ Of(lost, a) = {} /\ Of(processing, a) = {}
      BY DEF Init, HeldJobs, Holders, Of
    <2>6. JobsOf(a) = {Job(a, 0)}
      BY <2>4, <2>5, JobsByPlace
    <2>7. Job(a, 0).attempt = 0
      BY DEF Job
    <2>8. Tries(a) = 0
      BY <2>6, <2>7, TriesOf
    <2>9. Life(a) = "queued"
      BY <2>4, LifeOf
    <2>10. QED
      BY <1>1, <2>5, <2>6, <2>8, <2>9 DEF JobSettled
  <1>3. \A w \in Workers : HoldSettled(w)
    BY DEF Init, HoldSettled
  <1>4. Promise!Init
    BY <1>2 DEF Promise!Init
  <1>5. QED
    BY <1>2, <1>3, <1>4 DEF Whereabouts

Readable == {a \in Assets : photo[a] # "poison"}

\* Every step moves jobs as JobLife says, and keeps where they are settled.
LEMMA LifeStep ==
    Inv /\ Whereabouts /\ [Next]_vars =>
        Whereabouts' /\ [Promise!Next]_<<Readable, LifeMap, TriesMap>>
  <1> SUFFICES ASSUME Inv, Whereabouts, [Next]_vars
               PROVE  Whereabouts' /\ [Promise!Next]_<<Readable, LifeMap, TriesMap>>
    OBVIOUS
  <1>1. UNCHANGED photo => UNCHANGED Readable
    BY DEF Readable
  <1>2. ASSUME (\A a \in Assets : SameLife(a)), UNCHANGED photo
        PROVE  UNCHANGED <<Readable, LifeMap, TriesMap>>
    BY <1>1, <1>2 DEF LifeMap, TriesMap, SameLife
  <1>3. ASSUME NEW a \in Assets, Leaves(a, Life(a), Life(a), Tries(a)), UNCHANGED photo
        PROVE  Whereabouts' /\ UNCHANGED <<Readable, LifeMap, TriesMap>>
    <2>1. \A b \in Assets : SameLife(b)
      BY <1>3 DEF Leaves, SameLife
    <2>2. QED
      BY <1>2, <1>3, <2>1 DEF Leaves
  <1>4. ASSUME NEW w \in Workers, Claim(w)
        PROVE  Whereabouts' /\ [Promise!Next]_<<Readable, LifeMap, TriesMap>>
    <2>1. PICK a \in Assets : Leaves(a, "queued", "held", Tries(a))
      BY <1>4, ClaimMoves DEF Leaves
    <2>2. Promise!Take(a)
      BY <2>1, MapsMove DEF Promise!Take, TriesMap
    <2>3. QED
      BY <1>1, <1>4, <2>1, <2>2 DEF Promise!Next, Leaves, Claim, Readable
  <1>5. ASSUME NEW w \in Workers, Release(w)
        PROVE  Whereabouts' /\ [Promise!Next]_<<Readable, LifeMap, TriesMap>>
    <2>1. UNCHANGED photo
      BY <1>5 DEF Release
    <2>2. PICK a \in Assets : \/ Leaves(a, "held", "done", Tries(a))
                              \/ Leaves(a, Life(a), Life(a), Tries(a))
      BY <1>5, ReleaseMoves
    <2>3. CASE Leaves(a, "held", "done", Tries(a))
      <3>1. Promise!Finish(a)
        BY <2>3, MapsMove DEF Promise!Finish, TriesMap
      <3>2. QED
        BY <2>1, <2>3, <3>1 DEF Promise!Next, Leaves, Readable
    <2>4. QED
      BY <1>3, <2>1, <2>2, <2>3
  <1>6. ASSUME NEW w \in Workers, RetryOrBury(w)
        PROVE  Whereabouts' /\ [Promise!Next]_<<Readable, LifeMap, TriesMap>>
    <2>1. UNCHANGED photo
      BY <1>6 DEF RetryOrBury
    <2>2. PICK a \in Assets :
              /\ Tries(a) \in Nat
              /\ \/ /\ Tries(a) + 1 < MaxAttempts
                    /\ Leaves(a, "held", "queued", Tries(a) + 1)
                 \/ /\ Tries(a) + 1 = MaxAttempts
                    /\ Leaves(a, "held", "dead", Tries(a) + 1)
      BY <1>6, RetryMoves
    <2>3. CASE Tries(a) + 1 < MaxAttempts /\ Leaves(a, "held", "queued", Tries(a) + 1)
      <3>1. Promise!Retry(a)
        BY <2>3, MapsMove DEF Promise!Retry, Promise!Fail, TriesMap
      <3>2. QED
        BY <2>1, <2>3, <3>1 DEF Promise!Next, Leaves, Readable
    <2>4. CASE Tries(a) + 1 = MaxAttempts /\ Leaves(a, "held", "dead", Tries(a) + 1)
      <3>1. Promise!Bury(a)
        BY <2>4, MapsMove DEF Promise!Bury, Promise!Fail, TriesMap
      <3>2. QED
        BY <2>1, <2>4, <3>1 DEF Promise!Next, Leaves, Readable
    <2>5. QED
      BY <2>2, <2>3, <2>4
  <1>7. ASSUME NEW w \in Workers, BuryPoison(w)
        PROVE  Whereabouts' /\ [Promise!Next]_<<Readable, LifeMap, TriesMap>>
    <2>1. PICK a \in Assets :
              photo[a] = "poison" /\ Leaves(a, "held", "dead", Tries(a))
      BY <1>7, BuryPoisonMoves
    <2>2. UNCHANGED photo /\ a \notin Readable
      BY <1>7, <2>1 DEF BuryPoison, Readable
    <2>3. Promise!BuryUnread(a)
      BY <2>1, <2>2, MapsMove DEF Promise!BuryUnread, TriesMap, Readable
    <2>4. QED
      BY <2>1, <2>2, <2>3 DEF Promise!Next, Leaves, Readable
  <1>8. ASSUME NEW w \in Workers, Crash(w)
        PROVE  Whereabouts' /\ [Promise!Next]_<<Readable, LifeMap, TriesMap>>
    <2>1. UNCHANGED photo
      BY <1>8 DEF Crash
    <2>2. PICK a \in Assets :
              \/ \E to \in {"stranded", "lost"} : Leaves(a, "held", to, Tries(a))
              \/ Leaves(a, Life(a), Life(a), Tries(a))
      BY <1>8, CrashMoves
    <2>3. ASSUME NEW to \in {"stranded", "lost"}, Leaves(a, "held", to, Tries(a))
          PROVE  Whereabouts' /\ [Promise!Next]_<<Readable, LifeMap, TriesMap>>
      <3>1. Promise!Crash(a)
        BY <2>3, MapsMove DEF Promise!Crash, TriesMap
      <3>2. QED
        BY <2>1, <2>3, <3>1 DEF Promise!Next, Leaves, Readable
    <2>4. QED
      BY <1>3, <2>1, <2>2, <2>3
  <1>9. ASSUME \/ \E w \in Workers : Judge(w) \/ Report(w) \/ Fails(w)
               \/ \E r \in requests : Serves(r)
               \/ VendorReads \/ VendorSaves \/ UNCHANGED vars
        PROVE  Whereabouts' /\ [Promise!Next]_<<Readable, LifeMap, TriesMap>>
    BY <1>2, <1>9, QuietSteps
  <1>10. QED
    BY <1>4, <1>5, <1>6, <1>7, <1>8, <1>9 DEF Next, Works

\* The Redis lists, the retries and the crashes keep the promise of JobLife:
\* one worker holds a job, each failure is counted, the last one sets the job
\* aside, and only a crash strands or loses it (worker.py, handle).
THEOREM JobLifeTheorem == Spec => JobLifeSpec
  <1>1. Inv /\ Whereabouts /\ [Next]_vars => Whereabouts' /\ [Promise!Next]_(Promise!vars)
    BY LifeStep DEF Promise!vars, Readable, LifeMap, TriesMap
  <1>2. QED
    BY <1>1, InitWhereabouts, PipelineInvariant, PTL DEF Spec, JobLifeSpec, Promise!Spec
=============================================================================
