--------------------------- MODULE RequestsProofs ---------------------------
(***************************************************************************)
(* Proofs, for any number of calls, workers, faults and crashes, that the  *)
(* front ends keep to their workers and that what a client is told is true *)
(* but for the exceptions MayHaveDone names.                               *)
(***************************************************************************)
EXTENDS Requests, FiniteSetTheorems, SequenceTheorems, TLAPS

Service == {"working", "locked", "reading"}
Places  == {"sending", "arrived", "replying", "over"} \cup Service

Job ==
  [op : AllOps, via : {"grpc"} \cup Http, place : Places, raised : Raised \cup {None},
   told : {None, "ok", "refused", "fault", "lost"}, effect : Effects,
   tmp : BOOLEAN, killed : BOOLEAN]

\* How far a call has come says what has been done and raised.
Progress(job) ==
  /\ job.place \in {"sending", "arrived", "working", "locked"} => job.effect = "none"
  /\ job.place = "reading" => job.effect = "done" /\ job.op = "download_collection_bundle"
  /\ job.place = "replying" /\ job.raised = None => job.effect = "done"
  /\ job.place = "replying" /\ job.raised \notin {None, "other"} => job.effect \in MayHaveDone(job)
  /\ job.place # "over" => job.told \in {None, "lost"}
  /\ job.place \notin {"replying", "over"} => job.raised = None

\* What the client has been told is so.
Honest(job) ==
  /\ job.told = "ok" => job.effect = "done"
  /\ job.told = "refused" => job.effect \in MayHaveDone(job)

Good(job) == job \in Job /\ Progress(job) /\ Honest(job)

JobsInv == jobs \in Seq(Job) /\ \A j \in Ids : Good(jobs[j])

\* The event loop is one worker more, for the upload that has it.
WorkersInv ==
  /\ TypeOK
  /\ Cardinality((InService \ Through("grpc")) \ {loop}) <= HttpThreads

-----------------------------------------------------------------------------
(* A step of one call. *)

\* Call j goes on, another call does not.
Advances(j) ==
  \E next : /\ Good(next) /\ next.op = jobs[j].op /\ next.via = jobs[j].via
            /\ jobs' = [jobs EXCEPT ![j] = next]

LEMMA Moved ==
  ASSUME JobsInv, NEW j \in Ids, Advances(j)
  PROVE  /\ JobsInv' /\ Ids' = Ids
         /\ jobs'[j].op = jobs[j].op /\ jobs'[j].via = jobs[j].via
         /\ \A i \in Ids : i # j => jobs'[i] = jobs[i]
<1>1. PICK next : Good(next) /\ next.op = jobs[j].op /\ next.via = jobs[j].via
                  /\ jobs' = [jobs EXCEPT ![j] = next]
  BY DEF Advances
<1>2. jobs \in Seq(Job) /\ next \in Job
  BY <1>1 DEF JobsInv, Good
<1>3. jobs' \in Seq(Job) /\ Ids' = Ids
  BY <1>1, <1>2, ExceptSeq DEF Ids
<1>4. \A i \in Ids : jobs'[i] = IF i = j THEN next ELSE jobs[i]
  BY <1>1, <1>2, <1>3 DEF Ids
<1>5. QED
  BY <1>1, <1>3, <1>4 DEF JobsInv

LEMMA AdvancesTo ==
  ASSUME NEW j \in Ids, NEW here, NEW next, Step(j, here, next),
         next \in Job, next.op = jobs[j].op, next.via = jobs[j].via, Progress(next), Honest(next)
  PROVE  Advances(j)
BY DEF Advances, Step, Good

LEMMA MadeJob == ASSUME NEW op \in AllOps, NEW via \in {"grpc"} \cup Http PROVE Good(Called(op, via))
BY RequestsAssumption DEF Raised, Good, Called, Job, Places, Service, Progress, Honest, Http, Effects

LEMMA Made ==
  ASSUME JobsInv, NEW job, Make(job), Good(job) PROVE JobsInv'
<1>1. jobs \in Seq(Job) /\ job \in Job /\ jobs' = Append(jobs, job)
  BY DEF JobsInv, Good, Make
<1>2. jobs' \in Seq(Job) /\ Ids' = 1..(Len(jobs) + 1) /\ Ids = 1..Len(jobs)
  BY <1>1, AppendProperties DEF Ids
<1>3. \A i \in Ids' : jobs'[i] = IF i = Len(jobs) + 1 THEN job ELSE jobs[i]
  BY <1>1, <1>2, AppendProperties
<1>4. QED
  BY <1>1, <1>2, <1>3 DEF JobsInv

LEMMA LostJob ==
  ASSUME NEW job, Good(job), NEW place \in {job.place, "over"}, NEW raised \in {job.raised, None},
         raised = job.raised \/ place = "over", NEW killed \in {job.killed, TRUE}
  PROVE  Good([Lost(job) EXCEPT !.place = place, !.raised = raised, !.killed = killed])
<1> DEFINE next == [Lost(job) EXCEPT !.place = place, !.raised = raised, !.killed = killed]
<1>1. job \in Job
  BY DEF Good
<1>2. Lost(job) \in Job /\ Lost(job) = [job EXCEPT !.told = Lost(job).told]
      /\ (Lost(job).told = "lost" \/ (job.told # None /\ Lost(job).told = job.told))
  BY <1>1 DEF Lost, Job
<1>3. /\ next \in Job
      /\ next = [job EXCEPT !.told = next.told, !.place = place, !.raised = raised, !.killed = killed]
      /\ next.told = "lost" \/ next.told = job.told
  BY <1>1, <1>2 DEF Job, Places
<1>4. Progress(next)
  BY <1>1, <1>3 DEF Good, Progress, Job, MayHaveDone
<1>5. Honest(next)
  BY <1>1, <1>3 DEF Good, Honest, Job, MayHaveDone
<1>6. QED
  BY <1>3, <1>4, <1>5 DEF Good

LEMMA ClientJobs ==
  ASSUME JobsInv, NEW j \in Ids, Lose(j) \/ Arrive(j) PROVE Advances(j)
<1> DEFINE job == jobs[j]
<1>1. Good(job) /\ job \in Job
  BY DEF JobsInv, Good
<1>2. CASE Lose(j)
  <2>1. PICK raised \in {job.raised, None} :
          jobs' = [jobs EXCEPT ![j] = [Lost(job) EXCEPT !.place = "over", !.raised = raised,
                                                       !.killed = job.killed]]
    BY <1>1, <1>2 DEF Lose, Step, Lost, Job
  <2> DEFINE next == [Lost(job) EXCEPT !.place = "over", !.raised = raised, !.killed = job.killed]
  <2>2. Good(next)
    BY <1>1, LostJob
  <2>3. next.op = job.op /\ next.via = job.via
    BY <1>1 DEF Lost, Job
  <2>4. QED
    BY <2>1, <2>2, <2>3 DEF Advances
<1>3. CASE Arrive(j)
  BY <1>1, <1>3 DEF Arrive, Step, Advances, Good, Job, Places, Progress, Honest, MayHaveDone
<1>4. QED
  BY <1>2, <1>3

LEMMA RouteJobs ==
  ASSUME JobsInv, NEW j \in Ids,
         HttpRoute(j) \/ HttpUploadIndex(j) \/ HttpUploadBundle(j) \/ GrpcRoute(j)
         \/ Unlocked(j) \/ Enter(j)
  PROVE  Advances(j)
<1>1. Good(jobs[j]) /\ jobs[j] \in Job
  BY DEF JobsInv, Good
<1>2. CASE HttpRoute(j) \/ HttpUploadIndex(j) \/ HttpUploadBundle(j)
  BY <1>1, <1>2, RequestsAssumption
     DEF HttpRoute, HttpUploadIndex, HttpUploadBundle, Step, Advances, Good, Job, Places, Service,
         Progress, Honest, Raised, MayHaveDone
<1>3. CASE GrpcRoute(j)
  <2> DEFINE next == [jobs[j] EXCEPT !.place = "working", !.tmp = jobs[j].op \in Uploads]
  <2>1. Step(j, "arrived", next)
    BY <1>3 DEF GrpcRoute, GrpcRouteUnbounded
  <2>2. (jobs[j].op \in Uploads) \in BOOLEAN
    OBVIOUS
  <2>3. next \in Job /\ next.op = jobs[j].op /\ next.via = jobs[j].via
    BY <1>1, <2>2 DEF Job, Places, Service
  <2>4. Progress(next) /\ Honest(next)
    BY <1>1, <2>1, <2>3 DEF Step, Good, Job, Progress, Honest, MayHaveDone
  <2>5. QED
    BY <2>1, <2>3, <2>4, AdvancesTo
<1>4. CASE Unlocked(j)
  <2>1. PICK e \in Raised \cup {None} :
          Step(j, "working", [jobs[j] EXCEPT !.place = "replying", !.raised = e,
                                !.effect = IF e = None THEN "done" ELSE "none"])
    BY <1>4 DEF Unlocked, Refusals, Raised
  <2> DEFINE effect == IF e = None THEN "done" ELSE "none"
             next == [jobs[j] EXCEPT !.place = "replying", !.raised = e, !.effect = effect]
  <2>2. next \in Job /\ next.op = jobs[j].op /\ next.via = jobs[j].via
    BY <1>1, <2>1 DEF Job, Places, Effects
  <2>3. Progress(next) /\ Honest(next)
    BY <1>1, <2>1, <2>2, RequestsAssumption DEF Step, Good, Job, Progress, Honest, Raised, MayHaveDone
  <2>4. QED
    BY <2>1, <2>2, <2>3, AdvancesTo
<1>5. CASE Enter(j)
  BY <1>1, <1>5 DEF Enter, Step, Advances, Good, Job, Places, Service, Progress, Honest, MayHaveDone
<1>6. QED
  BY <1>2, <1>3, <1>4, <1>5

\* However the engine is left, an exception that is the caller's fault has left no more
\* than MayHaveDone says.
LEMMA EngineLeft ==
  ASSUME JobsInv, NEW j \in Ids, Refuse(j) \/ RefuseLate(j) \/ Work(j) \/ Break(j)
  PROVE  \E place \in {"replying", "reading"}, e \in Raised \cup {None}, effect \in Effects :
           /\ Leaves(j, [jobs[j] EXCEPT !.place = place, !.raised = e, !.effect = effect])
           /\ place = "reading" => jobs[j].op = "download_collection_bundle"
           /\ e = None => effect = "done"
           /\ e \in Raised \ {"other"} => effect \in MayHaveDone(jobs[j]) /\ place = "replying"
           /\ e = "other" => place = "replying"
<1>1. jobs[j] \in Job /\ Good(jobs[j])
  BY DEF JobsInv, Good
<1>2. CASE Refuse(j)
  <2>1. PICK e \in Raised : Leaves(j, [jobs[j] EXCEPT !.place = "replying", !.raised = e]) /\ e # "other"
    BY <1>2 DEF Refuse, Refusals, Objections, Raised
  <2>2. jobs[j].effect = "none"
    BY <1>1, <2>1 DEF Leaves, Step, Good, Progress
  <2>3. [jobs[j] EXCEPT !.place = "replying", !.raised = e]
          = [jobs[j] EXCEPT !.place = "replying", !.raised = e, !.effect = "none"]
    BY <1>1, <2>2 DEF Job
  <2>4. QED
    BY <2>1, <2>3, RequestsAssumption DEF Effects, MayHaveDone
<1>3. CASE RefuseLate(j)
  <2>1. PICK e \in {"value", "missing"}, effect \in Effects :
          /\ Leaves(j, [jobs[j] EXCEPT !.place = "replying", !.raised = e, !.effect = effect])
          /\ effect \in MayHaveDone(jobs[j])
    BY <1>3 DEF RefuseLate, Effects, MayHaveDone
  <2>2. QED
    BY <2>1, RequestsAssumption DEF Raised
<1>4. CASE Work(j)
  <2> DEFINE place == IF jobs[j].op = "download_collection_bundle" THEN "reading" ELSE "replying"
  <2>1. Leaves(j, [jobs[j] EXCEPT !.effect = "done", !.place = place])
    BY <1>4 DEF Work
  <2>2. jobs[j].raised = None
    BY <1>1, <2>1 DEF Leaves, Step, Good, Progress
  <2>3. [jobs[j] EXCEPT !.effect = "done", !.place = place]
          = [jobs[j] EXCEPT !.place = place, !.raised = None, !.effect = "done"]
    BY <1>1, <2>2 DEF Job
  <2>4. place \in {"replying", "reading"} /\ (place = "reading" => jobs[j].op = "download_collection_bundle")
    OBVIOUS
  <2>5. Leaves(j, [jobs[j] EXCEPT !.place = place, !.raised = None, !.effect = "done"])
    BY <2>1, <2>3
  <2>6. None \notin Raised /\ None # "other" /\ "done" \in Effects
    BY RequestsAssumption DEF Effects, Raised
  <2> HIDE DEF place
  <2>7. QED
    BY <2>4, <2>5, <2>6
<1>5. CASE Break(j)
  <2>1. PICK effect \in Effects :
          Leaves(j, [jobs[j] EXCEPT !.effect = effect, !.place = "replying", !.raised = "other"])
    BY <1>5 DEF Break
  <2>2. [jobs[j] EXCEPT !.effect = effect, !.place = "replying", !.raised = "other"]
          = [jobs[j] EXCEPT !.place = "replying", !.raised = "other", !.effect = effect]
    BY <1>1 DEF Job
  <2>3. QED
    BY <2>1, <2>2, RequestsAssumption DEF Raised
<1>6. QED
  BY <1>2, <1>3, <1>4, <1>5

LEMMA EngineJobs ==
  ASSUME JobsInv, NEW j \in Ids, Refuse(j) \/ RefuseLate(j) \/ Work(j) \/ Break(j)
  PROVE  Advances(j)
<1>1. Good(jobs[j]) /\ jobs[j] \in Job
  BY DEF JobsInv, Good
<1>2. PICK place \in {"replying", "reading"}, e \in Raised \cup {None}, effect \in Effects :
           /\ Leaves(j, [jobs[j] EXCEPT !.place = place, !.raised = e, !.effect = effect])
           /\ place = "reading" => jobs[j].op = "download_collection_bundle"
           /\ e = None => effect = "done"
           /\ e \in Raised \ {"other"} => effect \in MayHaveDone(jobs[j]) /\ place = "replying"
           /\ e = "other" => place = "replying"
  BY EngineLeft
<1> DEFINE next == [jobs[j] EXCEPT !.place = place, !.raised = e, !.effect = effect, !.tmp = FALSE]
<1>3. Step(j, "locked", next)
  BY <1>1, <1>2 DEF Leaves, Job
<1>4. next \in Job /\ next.op = jobs[j].op /\ next.via = jobs[j].via
  BY <1>1, <1>2 DEF Job, Places, Service
<1>5. Progress(next) /\ Honest(next)
  BY <1>1, <1>2, <1>3, <1>4, RequestsAssumption
     DEF Step, Good, Job, Progress, Honest, Raised, MayHaveDone
<1>6. QED
  BY <1>3, <1>4, <1>5, AdvancesTo

LEMMA AnswerJobs ==
  ASSUME JobsInv, NEW j \in Ids,
         HttpDownloadBundle(j) \/ GrpcDownloadBundle(j) \/ Receive(j) \/ CutH2c(j)
  PROVE  Advances(j)
<1>1. Good(jobs[j]) /\ jobs[j] \in Job
  BY DEF JobsInv, Good
<1>2. CASE HttpDownloadBundle(j) \/ GrpcDownloadBundle(j)
  <2>1. PICK e \in Raised \cup {None} :
          /\ Step(j, "reading", [jobs[j] EXCEPT !.place = "replying", !.raised = e])
          /\ e \notin {None, "other"} => jobs[j].via = "grpc"
    BY <1>2 DEF HttpDownloadBundle, GrpcDownloadBundle, Raised
  <2> DEFINE next == [jobs[j] EXCEPT !.place = "replying", !.raised = e]
  <2>2. next \in Job /\ next.op = jobs[j].op /\ next.via = jobs[j].via
    BY <1>1, <2>1 DEF Job, Places
  <2>3. Progress(next) /\ Honest(next)
    BY <1>1, <2>1, <2>2, RequestsAssumption DEF Step, Good, Job, Progress, Honest, Raised, MayHaveDone
  <2>4. QED
    BY <2>1, <2>2, <2>3, AdvancesTo
<1>3. CASE Receive(j) \/ CutH2c(j)
  <2> DEFINE heard == [jobs[j] EXCEPT !.place = "over", !.raised = None, !.told = Told(jobs[j])]
             unheard == [jobs[j] EXCEPT !.place = "over", !.raised = None]
  <2>1. jobs[j].place = "replying" /\ (Step(j, "replying", heard) \/ Step(j, "replying", unheard))
    BY <1>3 DEF Receive, CutH2c, Step
  <2>2. /\ heard \in Job /\ heard.op = jobs[j].op /\ heard.via = jobs[j].via
        /\ unheard \in Job /\ unheard.op = jobs[j].op /\ unheard.via = jobs[j].via
    BY <1>1 DEF Job, Places, Told
  <2>3. Progress(heard) /\ Progress(unheard) /\ Honest(unheard)
    BY <1>1, <2>1, <2>2 DEF Good, Job, Progress, Honest, MayHaveDone
  <2>4. Honest(heard)
    BY <1>1, <2>1, <2>2, RequestsAssumption
       DEF Good, Job, Progress, Honest, Told, CallersFault, Raised, MayHaveDone
  <2>5. QED
    BY <2>1, <2>2, <2>3, <2>4, AdvancesTo
<1>4. QED
  BY <1>2, <1>3

LEMMA InvokeJobs ==
  ASSUME JobsInv, NEW op \in Ops, NEW scheme, NEW http2, Invoke(op, scheme, http2)
  PROVE  \E job : Good(job) /\ job.place \in {"sending", "over"} /\ Make(job)
<1> DEFINE via == Via(scheme, http2)
           refused == [Called(op, "grpc") EXCEPT !.place = "over", !.told = "fault"]
<1>1. via \in {"grpc"} \cup Http /\ op \in AllOps
  BY RequestsAssumption DEF Via, Http
<1>2. Good(Called(op, via)) /\ Called(op, via).place = "sending"
  BY <1>1, MadeJob DEF Called
<1>3. Good(refused) /\ refused.place = "over"
  BY <1>1, RequestsAssumption
     DEF Called, Good, Job, Places, Service, Progress, Honest, Raised, Effects, MayHaveDone
<1>4. Make(Called(op, via)) \/ Make(refused)
  BY DEF Invoke, GrpcCall, GrpcTransfer, GrpcBundle, HttpCall, HttpTransfer, HttpBundle
<1>5. QED
  BY <1>2, <1>3, <1>4

\* The end of the server is the end of the connections.
LEMMA EndJobs ==
  ASSUME JobsInv, GraceOver \/ Crash
  PROVE  /\ JobsInv' /\ Ids' = Ids
         /\ \A j \in Ids : jobs'[j].via = jobs[j].via /\ jobs'[j].op = jobs[j].op
         /\ \A j \in Ids : jobs'[j].place = jobs[j].place \/ jobs'[j].place = "over"
         /\ Crash => \A j \in Ids : jobs'[j].place \in {"sending", "over"}
<1> DEFINE over(j) == [Lost(jobs[j]) EXCEPT !.place = "over"]
           dead(j) == [Lost(jobs[j]) EXCEPT !.place = "over", !.raised = None, !.killed = TRUE]
<1>1. Len(jobs) \in Nat /\ Ids = 1..Len(jobs) /\ DOMAIN jobs' = Ids
  <2>1. jobs \in Seq(Job)
    BY DEF JobsInv
  <2>2. DOMAIN jobs' = Ids
    BY DEF GraceOver, Crash
  <2>3. QED
    BY <2>1, <2>2 DEF Ids
<1>2. ASSUME NEW j \in Ids
      PROVE  /\ Good(jobs'[j])
             /\ jobs'[j].via = jobs[j].via /\ jobs'[j].op = jobs[j].op
             /\ jobs'[j].place = jobs[j].place \/ jobs'[j].place = "over"
             /\ Crash => jobs'[j].place \in {"sending", "over"}
  <2>1. Good(jobs[j]) /\ jobs[j] \in Job
    BY DEF JobsInv, Good
  <2>2. Lost(jobs[j]) \in Job /\ [Lost(jobs[j]) EXCEPT !.told = @] = Lost(jobs[j])
        /\ Lost(jobs[j]).place = jobs[j].place /\ Lost(jobs[j]).killed = jobs[j].killed
        /\ Lost(jobs[j]).raised = jobs[j].raised
        /\ Lost(jobs[j]).op = jobs[j].op /\ Lost(jobs[j]).via = jobs[j].via
    BY <2>1 DEF Lost, Job
  <2>3. /\ over(j) = [Lost(jobs[j]) EXCEPT !.place = "over", !.raised = jobs[j].raised,
                                           !.killed = jobs[j].killed]
        /\ Lost(jobs[j]) = [Lost(jobs[j]) EXCEPT !.place = jobs[j].place, !.raised = jobs[j].raised,
                                                !.killed = jobs[j].killed]
    BY <2>2 DEF Job
  <2>4. Good(Lost(jobs[j])) /\ Good(over(j)) /\ Good(dead(j))
    <3>1. Good([Lost(jobs[j]) EXCEPT !.place = jobs[j].place, !.raised = jobs[j].raised,
                                     !.killed = jobs[j].killed])
      BY <2>1, LostJob
    <3>2. Good([Lost(jobs[j]) EXCEPT !.place = "over", !.raised = jobs[j].raised,
                                     !.killed = jobs[j].killed])
      BY <2>1, LostJob
    <3>3. Good(dead(j))
      BY <2>1, LostJob
    <3>4. QED
      BY <2>3, <3>1, <3>2, <3>3
  <2>5. /\ over(j).op = jobs[j].op /\ over(j).via = jobs[j].via /\ over(j).place = "over"
        /\ dead(j).op = jobs[j].op /\ dead(j).via = jobs[j].via /\ dead(j).place = "over"
    BY <2>2 DEF Job
  <2>6. CASE GraceOver /\ ~Crash
    <3>1. jobs'[j] \in {jobs[j], over(j), Lost(jobs[j])}
      BY <2>6 DEF GraceOver
    <3>2. QED
      BY <2>1, <2>2, <2>4, <2>5, <2>6, <3>1
  <2>7. CASE Crash
    <3>1. \/ jobs'[j] = jobs[j] /\ jobs[j].place \in {"sending", "over"}
          \/ jobs'[j] = dead(j)
      BY <2>7 DEF Crash
    <3>2. QED
      BY <2>1, <2>4, <2>5, <3>1
  <2>8. QED
    BY <2>6, <2>7
<1>3. jobs' \in Seq(Job) /\ Ids' = Ids
  <2>1. jobs' \in [Ids -> Job]
    BY <1>1, <1>2 DEF Good, GraceOver, Crash
  <2>2. QED
    BY <1>1, <2>1, SeqDef DEF Ids
<1>4. QED
  BY <1>2, <1>3 DEF JobsInv

LEMMA JobsStep == ASSUME JobsInv, [Next]_vars PROVE JobsInv'
<1>1. CASE UNCHANGED vars
  BY <1>1 DEF vars, JobsInv, Ids
<1>2. ASSUME NEW op \in Ops, NEW scheme, NEW http2, Invoke(op, scheme, http2) PROVE JobsInv'
  BY <1>2, InvokeJobs, Made
<1>3. ASSUME NEW j \in Ids,
             Lose(j) \/ Arrive(j) \/ Handling(j) \/ CutH2c(j)
      PROVE  JobsInv'
  BY <1>3, ClientJobs, RouteJobs, EngineJobs, AnswerJobs, Moved DEF Handling
<1>4. CASE Serve \/ StopHttp
  BY <1>4 DEF Serve, StopHttp, JobsInv, Ids
<1>5. CASE GraceOver \/ Crash
  BY <1>5, EndJobs
<1>6. QED
  BY <1>1, <1>2, <1>3, <1>4, <1>5 DEF Next

LEMMA JobsInvariance == Spec => []JobsInv
<1>1. Init => JobsInv
  BY EmptySeq DEF Init, JobsInv, Ids
<1>2. QED
  BY <1>1, JobsStep, PTL DEF Spec

\* What a client has been told of its call is so, whatever broke, was given up or
\* raised: "ok" comes only from an engine that has done it; a refusal only from one
\* that has not, but for an insert that has moved the data version, a drop that has been
\* done, and a gRPC bundle download that is recorded as an export.
THEOREM ToldTruly == Spec => []AnswersAreTrue
<1>1. JobsInv => AnswersAreTrue
  BY DEF JobsInv, Good, Honest, AnswersAreTrue
<1>2. QED
  BY <1>1, JobsInvariance, PTL

-----------------------------------------------------------------------------
(* The workers, the event loop and the lock. *)

GrpcBusy == InService \cap Through("grpc")
HttpBusy == InService \ Through("grpc")

LEMMA CallIsSome == ASSUME JobsInv, NEW j \in Ids PROVE j # None
BY RequestsAssumption DEF JobsInv, Ids

LEMMA BusyFinite ==
  ASSUME JobsInv
  PROVE  /\ IsFiniteSet(InService) /\ IsFiniteSet(GrpcBusy) /\ IsFiniteSet(HttpBusy)
         /\ Cardinality(GrpcBusy) \in Nat /\ Cardinality(HttpBusy) \in Nat
<1>1. IsFiniteSet(Ids)
  <2>1. Ids = 1..Len(jobs) /\ Len(jobs) \in Nat
    BY DEF JobsInv, Ids
  <2>2. QED
    BY <2>1, FS_Interval
<1>2. InService \subseteq Ids
  BY DEF InService, At
<1>3. QED
  BY <1>1, <1>2, FS_Subset, FS_CardinalityType DEF GrpcBusy, HttpBusy

LEMMA Served ==
  ASSUME JobsInv, NEW j \in Ids, Advances(j)
  PROVE  /\ InService' = IF jobs'[j].place \in Service THEN InService \cup {j} ELSE InService \ {j}
         /\ At("locked")' = IF jobs'[j].place = "locked" THEN At("locked") \cup {j}
                            ELSE At("locked") \ {j}
         /\ Through("grpc")' = Through("grpc")
<1>1. /\ Ids' = Ids /\ jobs'[j].via = jobs[j].via
      /\ \A i \in Ids : i # j => jobs'[i] = jobs[i]
  BY Moved
<1>2. At("locked")' = {i \in Ids : jobs'[i].place = "locked"}
      /\ InService' = {i \in Ids : jobs'[i].place \in Service}
      /\ InService = {i \in Ids : jobs[i].place \in Service}
  BY <1>1 DEF At, InService, Service
<1>3. QED
  BY <1>1, <1>2 DEF At, Through

\* No more at work than there was.
LEMMA FewerBusy ==
  ASSUME JobsInv, WorkersInv, GrpcBusy' \subseteq GrpcBusy,
         HttpBusy' \ {loop'} \subseteq HttpBusy \ {loop}, JobsInv'
  PROVE  /\ Cardinality(GrpcBusy') <= GrpcWorkers
         /\ Cardinality(HttpBusy' \ {loop'}) <= HttpThreads
<1>1. /\ Cardinality(GrpcBusy) <= GrpcWorkers /\ Cardinality(HttpBusy \ {loop}) <= HttpThreads
      /\ GrpcWorkers \in Nat /\ HttpThreads \in Nat
  BY RequestsAssumption DEF WorkersInv, TypeOK, GrpcBusy, HttpBusy
<1>2. IsFiniteSet(GrpcBusy) /\ IsFiniteSet(HttpBusy \ {loop})
  BY BusyFinite, FS_Subset
<1>3. /\ Cardinality(GrpcBusy') <= Cardinality(GrpcBusy)
      /\ Cardinality(HttpBusy' \ {loop'}) <= Cardinality(HttpBusy \ {loop})
      /\ Cardinality(GrpcBusy') \in Nat /\ Cardinality(HttpBusy' \ {loop'}) \in Nat
      /\ Cardinality(GrpcBusy) \in Nat /\ Cardinality(HttpBusy \ {loop}) \in Nat
  BY <1>2, FS_Subset, FS_CardinalityType
<1>4. QED
  BY <1>1, <1>3

\* With one on the event loop, at most one more than the threads.
LEMMA OneMore ==
  ASSUME NEW busy, IsFiniteSet(busy), NEW on, NEW n \in Nat, Cardinality(busy \ {on}) <= n
  PROVE  Cardinality(busy) <= n + 1
<1>1. /\ Cardinality(busy) \in Nat
      /\ Cardinality(busy \ {on}) = IF on \in busy THEN Cardinality(busy) - 1
                                    ELSE Cardinality(busy)
  BY FS_RemoveElement, FS_CardinalityType
<1>2. QED
  BY <1>1

LEMMA AddOne ==
  ASSUME NEW busy, IsFiniteSet(busy), NEW on
  PROVE  /\ Cardinality(busy) \in Nat /\ Cardinality(busy \cup {on}) \in Nat
         /\ Cardinality(busy \cup {on}) <= Cardinality(busy) + 1
<1>1. /\ Cardinality(busy) \in Nat
      /\ Cardinality(busy \cup {on}) = IF on \in busy THEN Cardinality(busy) ELSE Cardinality(busy) + 1
  BY FS_AddElement, FS_CardinalityType
<1>2. QED
  BY <1>1

LEMMA WorkersFrom ==
  ASSUME JobsInv', Cardinality(GrpcBusy') <= GrpcWorkers,
         Cardinality(HttpBusy' \ {loop'}) <= HttpThreads,
         loop' # None => loop' \in InService' /\ jobs'[loop'].op \in Uploads,
         At("locked")' = IF holder' = None THEN {} ELSE {holder'},
         up' \in {"grpc", "both", "stopping", "down"}
  PROVE  WorkersInv'
<1>1. IsFiniteSet(HttpBusy')
  <2>1. Ids' = 1..Len(jobs') /\ Len(jobs') \in Nat /\ HttpBusy' \subseteq Ids'
    BY DEF JobsInv, Ids, HttpBusy, InService, At
  <2>2. IsFiniteSet(Ids')
    BY <2>1, FS_Interval
  <2>3. QED
    BY <2>1, <2>2, FS_Subset
<1>2. Cardinality(HttpBusy') <= HttpThreads + 1
  BY <1>1, OneMore, RequestsAssumption
<1>3. QED
  BY <1>2 DEF WorkersInv, TypeOK, GrpcBusy, HttpBusy

\* A call moves, but not on to a worker or into the lock.
LEMMA QuietWorkers ==
  ASSUME JobsInv, WorkersInv, NEW j \in Ids, Advances(j), UNCHANGED <<loop, holder, up>>,
         \/ jobs'[j].place = jobs[j].place
         \/ jobs[j].place # "locked" /\ jobs'[j].place \notin Service /\ j # loop
  PROVE  WorkersInv'
<1>1. JobsInv' /\ Ids' = Ids /\ jobs'[j].op = jobs[j].op /\ \A i \in Ids : i # j => jobs'[i] = jobs[i]
  BY Moved
<1>2. j \in InService <=> jobs[j].place \in Service
  BY DEF InService, At, Service
<1>3. j \in At("locked") <=> jobs[j].place = "locked"
  BY DEF At
<1>4. InService' \subseteq InService /\ Through("grpc")' = Through("grpc") /\ At("locked")' = At("locked")
  BY <1>2, <1>3, Served DEF Service
<1>5. loop # None => loop \in InService' /\ jobs'[loop].op \in Uploads
  <2>1. loop # None => loop \in InService /\ loop \in Ids /\ jobs[loop].op \in Uploads
    BY DEF WorkersInv, TypeOK, InService, At
  <2>2. QED
    BY <1>1, <1>2, <2>1, Served
<1>6. GrpcBusy' \subseteq GrpcBusy /\ HttpBusy' \ {loop'} \subseteq HttpBusy \ {loop}
  BY <1>4 DEF GrpcBusy, HttpBusy
<1>7. QED
  BY <1>1, <1>4, <1>5, <1>6, FewerBusy, WorkersFrom DEF WorkersInv, TypeOK

\* The engine is left: by the one in the lock, who lets the event loop go if he has it.
LEMMA LeaveWorkers ==
  ASSUME JobsInv, WorkersInv, NEW j \in Ids, Advances(j), NEW next, Leaves(j, next),
         next.place \in {"replying", "reading"},
         next.place = "reading" => next.op = "download_collection_bundle", next.op = jobs[j].op,
         next \in Job
  PROVE  WorkersInv'
<1>1. JobsInv' /\ Ids' = Ids /\ jobs'[j].op = jobs[j].op /\ \A i \in Ids : i # j => jobs'[i] = jobs[i]
  BY Moved
<1>2. /\ jobs[j].place = "locked" /\ jobs'[j].place = next.place
      /\ holder' = None /\ loop' = (IF loop = j THEN None ELSE loop) /\ up' = up
  BY <1>1 DEF Leaves, Step, Job, JobsInv
<1>3. holder = j /\ At("locked") = {j}
  BY <1>2 DEF WorkersInv, TypeOK, At
<1>4. InService' \subseteq InService /\ Through("grpc")' = Through("grpc") /\ At("locked")' = {}
      /\ InService \ {j} \subseteq InService'
  BY <1>2, <1>3, Served DEF Service, InService, At
<1>5. loop' # None => loop' \in InService' /\ jobs'[loop'].op \in Uploads
  <2>1. loop # None => loop \in InService /\ loop \in Ids /\ jobs[loop].op \in Uploads
    BY DEF WorkersInv, TypeOK, InService, At
  <2>2. QED
    BY <1>1, <1>2, <1>4, <2>1
<1>6. GrpcBusy' \subseteq GrpcBusy
  BY <1>4 DEF GrpcBusy, HttpBusy
<1>7. HttpBusy' \ {loop'} \subseteq HttpBusy \ {loop}
  <2>1. loop = j => jobs'[j].place = "replying"
    BY <1>2, <1>3, RequestsAssumption DEF WorkersInv, TypeOK, Uploads, Ids
  <2>2. loop = j => j \notin InService'
    BY <1>2, <2>1, Served DEF Service
  <2>3. QED
    BY <1>2, <1>4, <2>2 DEF GrpcBusy, HttpBusy
<1>8. QED
  BY <1>1, <1>2, <1>4, <1>5, <1>6, <1>7, FewerBusy, WorkersFrom DEF WorkersInv, TypeOK

LEMMA ClientWorkers ==
  ASSUME JobsInv, WorkersInv, NEW j \in Ids, Lose(j) \/ Arrive(j)
  PROVE  WorkersInv'
<1>1. Advances(j) /\ jobs[j] \in Job
  BY ClientJobs DEF JobsInv, Good
<1>2. UNCHANGED <<loop, holder, up>>
  BY DEF Lose, Arrive, server
<1>3. jobs[j].place \in {"sending", "replying"} /\ jobs'[j].place \in {"over", "arrived"}
  <2>1. jobs \in Seq(Job) /\ Lost(jobs[j]) \in Job
    BY <1>1 DEF JobsInv, Lost, Job
  <2>2. CASE Lose(j)
    BY <2>1, <2>2 DEF Lose, Step, Job, Ids
  <2>3. CASE Arrive(j)
    BY <1>1, <2>1, <2>3 DEF Arrive, Step, Job, Ids
  <2>4. QED
    BY <2>2, <2>3
<1>4. j # loop
  BY <1>3, CallIsSome DEF WorkersInv, TypeOK, InService, At
<1>5. QED
  BY <1>1, <1>2, <1>3, <1>4, QuietWorkers DEF Service

\* A worker is free for the request, or the event loop is.
LEMMA RouteWorkers ==
  ASSUME JobsInv, WorkersInv, NEW j \in Ids,
         HttpRoute(j) \/ HttpUploadIndex(j) \/ HttpUploadBundle(j) \/ GrpcRoute(j)
  PROVE  WorkersInv'
<1>1. Advances(j) /\ jobs[j] \in Job /\ JobsInv' /\ Ids' = Ids
  BY RouteJobs, Moved DEF JobsInv, Good
<1>2. jobs[j].place = "arrived" /\ UNCHANGED <<holder, up>> /\ j # None
  BY RequestsAssumption
     DEF HttpRoute, HttpUploadIndex, HttpUploadBundle, GrpcRoute, GrpcRouteUnbounded, Step, server,
         Ids, JobsInv
<1>3. j # loop /\ j \notin InService
  BY <1>2 DEF WorkersInv, TypeOK, InService, At
<1>4. CASE jobs'[j].place = "replying" /\ UNCHANGED loop
  BY <1>1, <1>2, <1>3, <1>4, QuietWorkers DEF Service
<1>5. CASE jobs'[j].place = "working"
  <2>1. /\ InService' = InService \cup {j} /\ Through("grpc")' = Through("grpc")
        /\ At("locked")' = At("locked")
    BY <1>1, <1>2, <1>5, Served DEF Service, At
  <2>2. /\ IsFiniteSet(GrpcBusy) /\ IsFiniteSet(HttpBusy)
        /\ Cardinality(GrpcBusy) \in Nat /\ Cardinality(HttpBusy) \in Nat
        /\ Cardinality(GrpcBusy) <= GrpcWorkers /\ Cardinality(HttpBusy \ {loop}) <= HttpThreads
    BY BusyFinite DEF WorkersInv, TypeOK, GrpcBusy, HttpBusy
  <2>3. CASE jobs[j].via = "grpc" /\ GrpcRoute(j)
    <3>1. GrpcBusy' = GrpcBusy \cup {j} /\ HttpBusy' = HttpBusy /\ UNCHANGED loop
      BY <2>1, <2>3 DEF GrpcBusy, HttpBusy, Through, GrpcRoute, GrpcRouteUnbounded, server
    <3>2. Cardinality(GrpcBusy) < GrpcWorkers
      BY <2>3 DEF GrpcRoute, GrpcBusy
    <3>3. Cardinality(GrpcBusy') <= GrpcWorkers /\ Cardinality(HttpBusy' \ {loop'}) <= HttpThreads
      <4>1. /\ Cardinality(GrpcBusy) \in Nat /\ Cardinality(GrpcBusy \cup {j}) \in Nat
            /\ Cardinality(GrpcBusy \cup {j}) <= Cardinality(GrpcBusy) + 1
        BY <2>2, AddOne
      <4>2. GrpcWorkers \in Nat
        BY RequestsAssumption
      <4>3. QED
        BY <2>2, <3>1, <3>2, <4>1, <4>2
    <3>4. loop' # None => loop' \in InService' /\ jobs'[loop'].op \in Uploads
      BY <1>1, <1>3, <2>1, <3>1, Moved DEF WorkersInv, TypeOK, InService, At
    <3>5. QED
      BY <1>1, <1>2, <2>1, <3>3, <3>4, WorkersFrom DEF WorkersInv, TypeOK
  <2>4. CASE jobs[j].via # "grpc" /\ HttpRoute(j)
    <3>1. GrpcBusy' = GrpcBusy /\ HttpBusy' = HttpBusy \cup {j} /\ loop = None /\ loop' = None
      BY <2>1, <2>4 DEF GrpcBusy, HttpBusy, Through, HttpRoute, server
    <3>2. Cardinality(HttpBusy) < HttpThreads
      BY <2>4 DEF HttpRoute, HttpBusy
    <3>3. Cardinality(HttpBusy \cup {j}) <= HttpThreads /\ None \notin HttpBusy \cup {j}
      <4>1. /\ Cardinality(HttpBusy) \in Nat /\ Cardinality(HttpBusy \cup {j}) \in Nat
            /\ Cardinality(HttpBusy \cup {j}) <= Cardinality(HttpBusy) + 1
        BY <2>2, AddOne
      <4>2. None \notin HttpBusy \cup {j}
        BY CallIsSome DEF HttpBusy, InService, At
      <4>3. HttpThreads \in Nat
        BY RequestsAssumption
      <4>4. QED
        BY <3>2, <4>1, <4>2, <4>3
    <3>4. HttpBusy' \ {loop'} = HttpBusy \cup {j}
      BY <3>1, <3>3
    <3>5. QED
      BY <1>1, <1>2, <2>1, <2>2, <3>1, <3>3, <3>4, WorkersFrom DEF WorkersInv, TypeOK
  <2>5. CASE /\ jobs[j].via # "grpc" /\ loop = None /\ loop' = j
             /\ HttpUploadIndex(j) \/ HttpUploadBundle(j)
    <3>1. GrpcBusy' = GrpcBusy /\ HttpBusy' \ {loop'} = HttpBusy \ {j} /\ j \notin HttpBusy
      BY <1>3, <2>1, <2>5 DEF GrpcBusy, HttpBusy, Through
    <3>2. HttpBusy' \ {loop'} \subseteq HttpBusy \ {loop}
      BY <2>5, <3>1, CallIsSome DEF HttpBusy, InService, At
    <3>3. Cardinality(GrpcBusy') <= GrpcWorkers /\ Cardinality(HttpBusy' \ {loop'}) <= HttpThreads
      BY <1>1, <3>1, <3>2, FewerBusy
    <3>4. jobs'[j].op \in Uploads
      BY <1>1, <2>5, Moved DEF HttpUploadIndex, HttpUploadBundle, Uploads
    <3>5. QED
      BY <1>1, <1>2, <2>1, <2>5, <3>3, <3>4, WorkersFrom DEF WorkersInv, TypeOK
  <2>6. GrpcRoute(j) => jobs[j].via = "grpc"
    BY DEF GrpcRoute, GrpcRouteUnbounded
  <2>7. ~GrpcRoute(j) => jobs[j].via # "grpc"
    BY DEF HttpRoute, HttpUploadIndex, HttpUploadBundle, Http
  <2>8. HttpUploadIndex(j) => loop = None /\ loop' = j
    BY DEF HttpUploadIndex
  <2>9. HttpUploadBundle(j) => loop = None /\ loop' = j
    BY <1>1, <1>5 DEF HttpUploadBundle, Step, Job, JobsInv, Ids
  <2>10. QED
    BY <2>3, <2>4, <2>5, <2>6, <2>7, <2>8, <2>9
<1>6. jobs'[j].place = "working" \/ (jobs'[j].place = "replying" /\ UNCHANGED loop)
  <2>1. jobs \in Seq(Job)
    BY DEF JobsInv
  <2>2. CASE HttpRoute(j) \/ GrpcRoute(j)
    BY <1>1, <2>1, <2>2 DEF HttpRoute, GrpcRoute, GrpcRouteUnbounded, Step, Job, Ids
  <2>3. CASE HttpUploadIndex(j) \/ HttpUploadBundle(j)
    BY <1>1, <2>1, <2>3 DEF HttpUploadIndex, HttpUploadBundle, Step, Job, Ids
  <2>4. QED
    BY <2>2, <2>3
<1>7. QED
  BY <1>4, <1>5, <1>6

LEMMA EnterWorkers ==
  ASSUME JobsInv, WorkersInv, NEW j \in Ids, Enter(j) PROVE WorkersInv'
<1>1. Advances(j) /\ JobsInv' /\ Ids' = Ids /\ \A i \in Ids : jobs'[i].op = jobs[i].op
  BY RouteJobs, Moved
<1>2. /\ jobs[j].place = "working" /\ jobs'[j].place = "locked"
      /\ holder = None /\ holder' = j /\ UNCHANGED <<loop, up>>
  <2>1. jobs \in Seq(Job) /\ jobs[j] \in Job
    BY DEF JobsInv, Good
  <2>2. QED
    BY <2>1 DEF Enter, Step, Ids, Job
<1>3. InService' = InService /\ Through("grpc")' = Through("grpc") /\ At("locked")' = {j}
  BY <1>1, <1>2, Served DEF Service, InService, At, WorkersInv, TypeOK
<1>4. GrpcBusy' \subseteq GrpcBusy /\ HttpBusy' \ {loop'} \subseteq HttpBusy \ {loop}
  BY <1>2, <1>3 DEF GrpcBusy, HttpBusy
<1>5. loop' # None => loop' \in InService' /\ jobs'[loop'].op \in Uploads
  BY <1>1, <1>2, <1>3 DEF WorkersInv, TypeOK, InService, At
<1>6. j # None
  BY CallIsSome
<1>7. QED
  BY <1>1, <1>2, <1>3, <1>4, <1>5, <1>6, FewerBusy, WorkersFrom DEF WorkersInv, TypeOK

LEMMA EngineWorkers ==
  ASSUME JobsInv, WorkersInv, NEW j \in Ids, Refuse(j) \/ RefuseLate(j) \/ Work(j) \/ Break(j)
  PROVE  WorkersInv'
<1>1. Advances(j) /\ jobs[j] \in Job
  BY EngineJobs DEF JobsInv, Good
<1>2. PICK place \in {"replying", "reading"}, e \in Raised \cup {None}, effect \in Effects :
        /\ Leaves(j, [jobs[j] EXCEPT !.place = place, !.raised = e, !.effect = effect])
        /\ place = "reading" => jobs[j].op = "download_collection_bundle"
  BY EngineLeft
<1> DEFINE next == [jobs[j] EXCEPT !.place = place, !.raised = e, !.effect = effect]
<1>3. next \in Job /\ next.place = place /\ next.op = jobs[j].op
  BY <1>1, <1>2 DEF Job, Places, Service
<1>4. QED
  BY <1>1, <1>2, <1>3, LeaveWorkers

LEMMA AnswerWorkers ==
  ASSUME JobsInv, WorkersInv, NEW j \in Ids,
         Unlocked(j) \/ HttpDownloadBundle(j) \/ GrpcDownloadBundle(j) \/ Receive(j) \/ CutH2c(j)
  PROVE  WorkersInv'
<1>1. Advances(j) /\ Good(jobs[j]) /\ jobs[j] \in Job
  BY RouteJobs, AnswerJobs DEF JobsInv, Good
<1>2. UNCHANGED <<loop, holder, up>>
  BY DEF Unlocked, HttpDownloadBundle, GrpcDownloadBundle, Receive, CutH2c, server
<1>3. /\ jobs[j].place \in {"working", "reading", "replying"}
      /\ jobs[j].place = "working" => jobs[j].op \in LockFree
  BY DEF Unlocked, HttpDownloadBundle, GrpcDownloadBundle, Receive, CutH2c, Step
<1>4. jobs'[j].place \in {"replying", "over"}
  <2>1. CASE Unlocked(j) \/ HttpDownloadBundle(j) \/ GrpcDownloadBundle(j)
    <3>1. PICK e, effect : jobs' = [jobs EXCEPT ![j] = [jobs[j] EXCEPT !.place = "replying", !.raised = e,
                                                                     !.effect = effect]]
      <4>1. CASE Unlocked(j)
        BY <4>1 DEF Unlocked, Step
      <4>2. CASE HttpDownloadBundle(j) \/ GrpcDownloadBundle(j)
        <5>1. PICK e : jobs' = [jobs EXCEPT ![j] = [jobs[j] EXCEPT !.place = "replying", !.raised = e]]
          BY <4>2 DEF HttpDownloadBundle, GrpcDownloadBundle, Step
        <5>2. [jobs[j] EXCEPT !.place = "replying", !.raised = e]
                = [jobs[j] EXCEPT !.place = "replying", !.raised = e, !.effect = jobs[j].effect]
          BY <1>1 DEF Job
        <5>3. QED
          BY <5>1, <5>2
      <4>3. QED
        BY <2>1, <4>1, <4>2
    <3>2. QED
      BY <1>1, <3>1 DEF JobsInv, Ids, Job
  <2>2. CASE Receive(j) \/ CutH2c(j)
    BY <1>1, <2>2 DEF Receive, CutH2c, Step, JobsInv, Ids, Job
  <2>3. QED
    BY <2>1, <2>2
<1>5. j # loop
  <2>1. jobs[j].op \notin Uploads \/ jobs[j].place = "replying"
    BY <1>1, <1>3 DEF Good, Progress, Uploads, LockFree
  <2>2. QED
    BY <2>1, CallIsSome DEF WorkersInv, TypeOK, InService, At
<1>6. QED
  BY <1>1, <1>2, <1>3, <1>4, <1>5, QuietWorkers DEF Service

LEMMA InvokeWorkers ==
  ASSUME JobsInv, WorkersInv, NEW op \in Ops, NEW scheme, NEW http2, Invoke(op, scheme, http2)
  PROVE  WorkersInv'
<1>1. PICK job : Good(job) /\ job.place \in {"sending", "over"} /\ Make(job)
  BY InvokeJobs
<1>2. JobsInv' /\ UNCHANGED <<loop, holder, up>>
  BY <1>1, Made DEF Make, server
<1>3. /\ Ids' = Ids \cup {Len(jobs) + 1} /\ Len(jobs) + 1 \notin Ids
      /\ \A i \in Ids : jobs'[i] = jobs[i]
      /\ jobs'[Len(jobs) + 1].place \notin Service
  <2>1. jobs \in Seq(Job) /\ job \in Job /\ jobs' = Append(jobs, job)
    BY <1>1 DEF JobsInv, Good, Make
  <2>2. QED
    BY <1>1, <2>1, AppendProperties DEF Ids, Service
<1>4. /\ InService' = InService /\ At("locked")' = At("locked")
      /\ Through("grpc") \subseteq Through("grpc")' /\ Through("grpc")' \cap Ids = Through("grpc")
      /\ InService \subseteq Ids
  BY <1>3 DEF InService, At, Through, Service
<1>5. GrpcBusy' \subseteq GrpcBusy /\ HttpBusy' \ {loop'} \subseteq HttpBusy \ {loop}
  BY <1>2, <1>4 DEF GrpcBusy, HttpBusy
<1>6. loop' # None => loop' \in InService' /\ jobs'[loop'].op \in Uploads
  BY <1>2, <1>3, <1>4 DEF WorkersInv, TypeOK
<1>7. QED
  BY <1>2, <1>4, <1>5, <1>6, FewerBusy, WorkersFrom DEF WorkersInv, TypeOK

LEMMA EndWorkers ==
  ASSUME JobsInv, WorkersInv, Serve \/ StopHttp \/ GraceOver \/ Crash PROVE WorkersInv'
<1>1. CASE Serve \/ StopHttp
  BY <1>1 DEF Serve, StopHttp, WorkersInv, TypeOK, InService, At, Through, Ids
<1>2. CASE Crash
  <2>1. InService' = {} /\ At("locked")' = {} /\ loop' = None /\ holder' = None /\ up' = "grpc" /\ JobsInv'
    BY <1>2, EndJobs DEF InService, At, Crash
  <2>2. GrpcBusy' \subseteq GrpcBusy /\ HttpBusy' \ {loop'} \subseteq HttpBusy \ {loop}
    BY <2>1 DEF GrpcBusy, HttpBusy
  <2>3. QED
    BY <2>1, <2>2, FewerBusy, WorkersFrom
<1>3. CASE GraceOver
  <2>1. /\ InService' = InService /\ At("locked")' = At("locked") /\ Through("grpc")' = Through("grpc")
        /\ JobsInv' /\ UNCHANGED <<loop, holder>> /\ up' = "down" /\ Ids' = Ids
        /\ \A j \in Ids : jobs'[j].op = jobs[j].op
    <3>1. /\ JobsInv' /\ Ids' = Ids
          /\ \A j \in Ids : jobs'[j].op = jobs[j].op /\ jobs'[j].via = jobs[j].via
      BY <1>3, EndJobs
    <3>2. ASSUME NEW j \in Ids, jobs[j].place \in Service PROVE jobs'[j].place = jobs[j].place
      <4>1. jobs'[j] = Lost(jobs[j]) /\ jobs[j] \in Job
        BY <1>3, <3>2 DEF GraceOver, JobsInv, Good, Service
      <4>2. QED
        BY <4>1 DEF Lost, Job
    <3>3. \A j \in Ids : jobs'[j].place = jobs[j].place \/ jobs'[j].place = "over"
      BY <1>3, EndJobs
    <3>4. QED
      BY <1>3, <3>1, <3>2, <3>3 DEF GraceOver, InService, At, Through, Service
  <2>2. GrpcBusy' \subseteq GrpcBusy /\ HttpBusy' \ {loop'} \subseteq HttpBusy \ {loop}
    BY <2>1 DEF GrpcBusy, HttpBusy
  <2>3. loop' # None => loop' \in InService' /\ jobs'[loop'].op \in Uploads
    BY <2>1 DEF WorkersInv, TypeOK, InService, At
  <2>4. QED
    BY <2>1, <2>2, <2>3, FewerBusy, WorkersFrom DEF WorkersInv, TypeOK
<1>4. QED
  BY <1>1, <1>2, <1>3

LEMMA WorkersStep == ASSUME JobsInv, WorkersInv, [Next]_vars PROVE WorkersInv'
<1>1. CASE UNCHANGED vars
  BY <1>1 DEF vars, WorkersInv, TypeOK, InService, At, Through, Ids
<1>2. ASSUME NEW j \in Ids,
             Lose(j) \/ Arrive(j) \/ Handling(j) \/ CutH2c(j)
      PROVE  WorkersInv'
  BY <1>2, ClientWorkers, RouteWorkers, EnterWorkers, EngineWorkers, AnswerWorkers DEF Handling
<1>3. QED
  BY <1>1, <1>2, InvokeWorkers, EndWorkers DEF Next

\* gRPC runs no more handlers than max_workers, HTTP no more than its thread pool and
\* the event loop, and the collection's lock has at most the one call that is in it,
\* whatever fails, is given up or is killed.
THEOREM WorkersBounded == Spec => []TypeOK
<1>1. Init => WorkersInv
  <2>1. ASSUME Init PROVE InService = {} /\ At("locked") = {} /\ loop = None /\ holder = None /\ up = "grpc"
    BY <2>1 DEF Init, InService, At, Ids
  <2>2. Cardinality({}) = 0
    BY FS_EmptySet
  <2>3. ASSUME Init PROVE WorkersInv
    <3>1. InService \cap Through("grpc") = {} /\ InService \ Through("grpc") = {}
          /\ (InService \ Through("grpc")) \ {loop} = {}
      BY <2>1, <2>3
    <3>2. GrpcWorkers >= 0 /\ HttpThreads >= 0 /\ HttpThreads + 1 >= 0
      BY RequestsAssumption
    <3>3. QED
      BY <2>1, <2>2, <2>3, <3>1, <3>2 DEF WorkersInv, TypeOK
  <2>4. QED
    BY <2>3
<1>2. WorkersInv => TypeOK
  BY DEF WorkersInv
<1>3. QED
  BY <1>1, <1>2, WorkersStep, JobsInvariance, PTL DEF Spec

=============================================================================
