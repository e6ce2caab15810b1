------------------------------ MODULE Requests ------------------------------
(***************************************************************************)
(* A call of the Python client on its way through the client's transport,  *)
(* the HTTP or gRPC front end, the one engine both share, and back.  The   *)
(* engine is reduced to one collection under its lock; CollectionEngine    *)
(* has the rest.  A connection may break, a client may give up (30 seconds *)
(* by default) while the server works on, the engine may raise, and the    *)
(* server may be stopped or die.  The client never sends a call again.     *)
(*                                                                         *)
(* Calls are numbered in the order in which they are made.  A query stands *)
(* for the queries like it: describe_collection for has_collection,        *)
(* get_version and sync_check, which take no lock; search for load and     *)
(* close, which take it.  That searches share the lock is SearchThreads'.  *)
(***************************************************************************)
EXTENDS Integers, Sequences, FiniteSets

CONSTANTS
  None,
  Ops, Sizes,   \* operations that are called, among AllOps, and sizes of bundles
  HttpThreads,  \* threads for the routes that are not async
  GrpcWorkers,  \* max_workers of the gRPC server
  MaxCalls, MaxFaults  \* bounds

Queries   == {"list_collections", "describe_collection", "search"}
Changes   == {"create_collection", "drop_collection", "insert", "flush"}
Uploads   == {"upload_index", "upload_collection_bundle"}
Downloads == {"download_index", "download_collection_bundle"}
Purges    == {"purge_collection_data", "purge_unexported"}
AllOps == Queries \cup Changes \cup Uploads \cup Downloads \cup Purges

\* The engine answers these without the collection's lock.
LockFree == {"list_collections", "describe_collection", "download_index"}

\* How far an operation went: not at all, some of its writes, all of it.
Effects == {"none", "part", "done"}

\* Over gRPC's message limit (256 MB), and over the upload limit of HTTP (2 GiB) too.
AllSizes == {"small", "big", "huge"}

\* What the engine raises; every exception of no class of its own is "other".
Raised == {"missing", "exists", "conflict", "value", "type", "other"}

ASSUME RequestsAssumption ==
  /\ Ops \subseteq AllOps /\ Sizes \subseteq AllSizes
  /\ None \notin Nat \cup Raised \cup {"ok", "refused"}
  /\ HttpThreads \in Nat \ {0} /\ GrpcWorkers \in Nat \ {0}
  /\ {MaxCalls, MaxFaults} \subseteq Nat

VARIABLES
  jobs,    \* the calls made so far
  store,   \* the collection: whether it exists, its index file as the record sees it
           \* ("given" was uploaded), whether the export covers it, its data_state
           \* ("importing" is "invalid" too)
  bundle,  \* whether there is a file at the export path
  holder,  \* the call in the collection's lock
  loop,    \* the upload on the HTTP server's event loop
  up,      \* what the server process is doing
  faults   \* exceptions and crashes so far

vars == <<jobs, store, bundle, holder, loop, up, faults>>
server == <<store, bundle, holder, loop, up>>

Ids      == DOMAIN jobs
At(here) == {j \in Ids : jobs[j].place = here}
InService == At("working") \cup At("locked") \cup At("reading")
Through(via) == {j \in Ids : jobs[j].via = via}
Http == {"http", "h2c"}

Init ==
  /\ jobs = <<>> /\ holder = None /\ loop = None /\ up = "grpc" /\ faults = 0
  /\ bundle = FALSE
  /\ store = [exists |-> TRUE, index |-> "fresh", exported |-> FALSE, state |-> "ready"]

\* Call j is where it says, and goes on as the record next.
Step(j, here, next) == jobs[j].place = here /\ jobs' = [jobs EXCEPT ![j] = next]
Fault == faults < MaxFaults /\ faults' = faults + 1

-----------------------------------------------------------------------------
(* The client: the transport, and what each method sends. *)

\* parse_uri, and the choice of the HTTP version: a bare host:port is gRPC; HTTP/2
\* over TLS is httpx's and like HTTP/1.1 here.
Via(scheme, http2) ==
  IF scheme \in {None, "tcp", "grpc"} THEN "grpc"
  ELSE IF http2 /\ scheme = "http" THEN "h2c" ELSE "http"

\* effect, tmp and killed are about the server's side: how much of what was asked the
\* engine has done (history), whether there is a temporary file of the call, whether
\* the process died under it.
Called(op, via) ==
  [op |-> op, via |-> via, place |-> "sending", raised |-> None, told |-> None,
   effect |-> "none", tmp |-> FALSE, killed |-> FALSE]

Make(job) ==
  /\ Len(jobs) < MaxCalls /\ jobs' = Append(jobs, job)
  /\ UNCHANGED <<server, faults>>

HttpCall(op, via)     == op \in Queries \cup Changes /\ Make(Called(op, via))
HttpTransfer(op, via) == op \in {"upload_index", "download_index"} /\ Make(Called(op, via))
HttpBundle(op, via) ==
  op \in {"upload_collection_bundle", "download_collection_bundle"} \cup Purges
  /\ Make(Called(op, via))

GrpcCall(op)     == op \in Queries \cup Changes /\ Make(Called(op, "grpc"))
GrpcTransfer(op) == op \in {"upload_index", "download_index"} /\ Make(Called(op, "grpc"))

\* grpc refuses to send a message over the limit, and the call ends there.
GrpcBundle(op) ==
  /\ op \in {"upload_collection_bundle", "download_collection_bundle"} \cup Purges
  /\ \E size \in Sizes :
       Make(IF op = "upload_collection_bundle" /\ size # "small"
            THEN [Called(op, "grpc") EXCEPT !.place = "over", !.told = "fault"]
            ELSE Called(op, "grpc"))

Invoke(op, scheme, http2) ==
  LET via == Via(scheme, http2)
  IN \/ via = "grpc" /\ (GrpcCall(op) \/ GrpcTransfer(op) \/ GrpcBundle(op))
     \/ via \in Http /\ (HttpCall(op, via) \/ HttpTransfer(op, via) \/ HttpBundle(op, via))

Lost(job) == [job EXCEPT !.told = IF @ = None THEN "lost" ELSE @]

Serving(via) == IF via = "grpc" THEN {"grpc", "both"} ELSE {"both"}

\* The client gives up, or the connection is refused or breaks: urllib, httpx and grpc
\* raise.  A request is read whole or not at all, and nothing stops one that has
\* reached the server: that its client has gone shows when the answer comes.
Lose(j) ==
  /\ \/ Step(j, "sending", [Lost(jobs[j]) EXCEPT !.place = "over"])
     \/ Step(j, "replying", [Lost(jobs[j]) EXCEPT !.place = "over", !.raised = None])
  /\ UNCHANGED <<server, faults>>

-----------------------------------------------------------------------------
(* The front ends. *)

Arrive(j) ==
  /\ Step(j, "sending", [jobs[j] EXCEPT !.place = "arrived"])
  /\ up \in Serving(jobs[j].via) /\ (jobs[j].via \in Http => loop = None)
  /\ UNCHANGED <<server, faults>>

\* A route that is not async runs on a thread of the pool.
HttpRoute(j) ==
  /\ jobs[j].via \in Http /\ jobs[j].op \notin Uploads /\ loop = None
  /\ Cardinality((InService \ Through("grpc"))) < HttpThreads
  /\ Step(j, "arrived", [jobs[j] EXCEPT !.place = "working"])
  /\ UNCHANGED <<server, faults>>

\* The upload routes are async: the engine runs on the event loop, which nobody else
\* has until it is done.
HttpUploadIndex(j) ==
  /\ jobs[j].via \in Http /\ jobs[j].op = "upload_index" /\ loop = None /\ loop' = j
  /\ Step(j, "arrived", [jobs[j] EXCEPT !.place = "working", !.tmp = TRUE])
  /\ UNCHANGED <<store, bundle, holder, up, faults>>

HttpUploadBundle(j) ==
  /\ jobs[j].via \in Http /\ jobs[j].op = "upload_collection_bundle" /\ loop = None
  /\ \/ /\ "huge" \in Sizes /\ UNCHANGED loop
        /\ Step(j, "arrived", [jobs[j] EXCEPT !.place = "replying", !.raised = "value"])
     \/ /\ Sizes # {"huge"} /\ loop' = j
        /\ Step(j, "arrived", [jobs[j] EXCEPT !.place = "working", !.tmp = TRUE])
  /\ UNCHANGED <<store, bundle, holder, up, faults>>

\* Mutant: any number of handlers at a time.
GrpcRouteUnbounded(j) ==
  /\ jobs[j].via = "grpc" /\ up # "down"
  /\ Step(j, "arrived", [jobs[j] EXCEPT !.place = "working", !.tmp = jobs[j].op \in Uploads])
  /\ UNCHANGED <<server, faults>>

GrpcRoute(j) ==
  /\ Cardinality(InService \cap Through("grpc")) < GrpcWorkers
  /\ GrpcRouteUnbounded(j)

\* fail and _status_for: whose fault the client takes the exception for.  TypeError is
\* the caller's in gRPC and the server's in HTTP.
CallersFault(via) ==
  {"missing", "exists", "conflict", "value"} \cup (IF via = "grpc" THEN {"type"} ELSE {})

\* Mutant: whatever the engine raises is answered as a bad request.
ToldAsBadRequest(job) == IF job.raised = None THEN "ok" ELSE "refused"

Told(job) ==
  IF job.raised = None THEN "ok"
  ELSE IF job.raised \in CallersFault(job.via) THEN "refused" ELSE "fault"

-----------------------------------------------------------------------------
(* The engine. *)

\* What the collection is when an operation has been done.  A flush may build the
\* very index that was exported; an upload is of another one.
Done(op) ==
  CASE op = "create_collection" ->
         {[exists |-> TRUE, index |-> "none", exported |-> FALSE, state |-> "ready"]}
    [] op = "drop_collection" ->
         {[exists |-> FALSE, index |-> "none", exported |-> FALSE, state |-> "ready"]}
    [] op = "insert" ->
         {[store EXCEPT !.index = IF @ = "none" THEN @ ELSE "stale", !.exported = FALSE]}
    [] op = "flush" ->
         {[store EXCEPT !.index = "fresh", !.exported = e] : e \in {FALSE, store.exported}}
    [] op = "upload_index" -> {[store EXCEPT !.index = "given", !.exported = FALSE]}
    [] op = "upload_collection_bundle" ->
         {[store EXCEPT !.index = "fresh", !.exported = FALSE, !.state = "ready"]}
    [] op = "download_collection_bundle" -> {[store EXCEPT !.exported = TRUE]}
    [] op \in Purges ->
         {[store EXCEPT !.index = "none", !.exported = FALSE, !.state = "purged"]}
    [] OTHER -> {store}

\* ... and when it was cut short between its writes: the index file replaced and not
\* the record, an import in its switch, a purge before its record.
HalfDone(op) ==
  CASE op \in {"flush", "upload_index"} ->
         {[store EXCEPT !.index = IF @ \in {"none", "stale"} THEN "stale" ELSE "given"]}
    [] op = "upload_collection_bundle" ->
         {[store EXCEPT !.index = i, !.state = "importing"] : i \in {"none", store.index}}
    [] op \in Purges -> {[store EXCEPT !.index = "none"]}
    [] OTHER -> Done(op)

After(op, effect) ==
  CASE effect = "none" -> {store}
    [] effect = "part" -> HalfDone(op)
    [] effect = "done" -> Done(op)

\* The exceptions that an operation answers with in the collection's state.
Refusals(op) ==
  CASE op \in {"list_collections", "drop_collection"} -> {}
    [] op = "create_collection" -> IF store.exists THEN {"exists"} ELSE {}
    [] ~store.exists -> {"missing"}
    [] op \in {"search", "download_index"} /\ store.index = "none" -> {"missing"}
    [] op = "purge_collection_data" /\ ~store.exported -> {"conflict"}
    [] op = "download_collection_bundle" /\ store.state # "ready" -> {"conflict"}
    [] op = "download_collection_bundle" /\ store.index = "none" -> {"missing"}
    [] op = "download_collection_bundle" /\ store.index = "stale" -> {"conflict"}
    [] OTHER -> {}

\* Those that it may answer with because of its arguments, or of the rows and counts,
\* before it has done anything.  A ConflictError about arguments is answered like a
\* ValueError.
Objections(op) ==
  CASE op \in {"insert", "search"} \cup Uploads -> {"value", "type"}
    [] op = "flush" -> {"value"}
    [] op = "download_collection_bundle" /\ store.index = "given" -> {"conflict"}
    [] OTHER -> {}

Unlocked(j) ==
  LET op == jobs[j].op
      answer(e) == Step(j, "working", [jobs[j] EXCEPT !.place = "replying", !.raised = e,
                                         !.effect = IF e = None THEN "done" ELSE "none"])
  IN /\ op \in LockFree
     /\ \/ /\ \E e \in IF Refusals(op) = {} THEN {None} ELSE Refusals(op) : answer(e)
           /\ UNCHANGED faults
        \/ Fault /\ answer("other")
     /\ UNCHANGED server

Enter(j) ==
  /\ jobs[j].op \notin LockFree /\ holder = None /\ holder' = j
  /\ Step(j, "working", [jobs[j] EXCEPT !.place = "locked"])
  /\ UNCHANGED <<store, bundle, loop, up, faults>>

\* Mutant: only a handler that succeeds lets the lock go.
LeavesUnlessRaised(j, next) ==
  /\ Step(j, "locked", [next EXCEPT !.tmp = FALSE])
  /\ holder' = IF next.raised = None THEN None ELSE holder
  /\ loop' = IF loop = j THEN None ELSE loop
  /\ UNCHANGED up

\* The lock, the event loop and the upload's file are let go however the engine ends.
Leaves(j, next) ==
  /\ Step(j, "locked", [next EXCEPT !.tmp = FALSE])
  /\ holder' = None /\ loop' = IF loop = j THEN None ELSE loop
  /\ UNCHANGED up

Refuse(j) ==
  /\ \E e \in Refusals(jobs[j].op) \cup Objections(jobs[j].op) :
       Leaves(j, [jobs[j] EXCEPT !.place = "replying", !.raised = e])
  /\ UNCHANGED <<store, bundle, faults>>

\* The caller's fault, or so it is answered, when something has been done: an insert
\* whose ids clash, or whose text has no UTF-8, has moved the data version and fixed the
\* dim before its rows are refused (and may have some of them in its connection's
\* transaction); under a drop or an export, a download in progress may unlink a file that
\* is about to be deleted or measured.
RefuseLate(j) ==
  LET op == jobs[j].op
      raise(e, effect) == Leaves(j, [jobs[j] EXCEPT !.place = "replying", !.raised = e,
                                                    !.effect = effect])
                          /\ store' \in After(op, effect)
  IN /\ Refusals(op) = {}
     /\ \/ op = "insert" /\ raise("value", "part") /\ UNCHANGED bundle
        \/ /\ op = "drop_collection" /\ bundle /\ At("reading") # {}
           /\ raise("missing", "done") /\ UNCHANGED bundle
        \/ /\ op = "download_collection_bundle" /\ At("reading") # {}
           /\ raise("missing", "none") /\ bundle' = TRUE
     /\ UNCHANGED faults

Work(j) ==
  LET op == jobs[j].op
  IN /\ Refusals(op) = {} /\ store' \in Done(op)
     /\ bundle' = (op = "download_collection_bundle" \/ (bundle /\ op \notin Purges \cup {"drop_collection"}))
     /\ Leaves(j, [jobs[j] EXCEPT !.effect = "done",
                     !.place = IF op = "download_collection_bundle" THEN "reading" ELSE "replying"])
     /\ UNCHANGED faults

\* What an exception may leave at the export path: an export that fails before its
\* record is written sweeps it.
LeftBundles(op, effect) ==
  CASE op = "download_collection_bundle" -> IF effect = "none" THEN {bundle, FALSE} ELSE {TRUE}
    [] op \in Purges \cup {"drop_collection"} -> {bundle, FALSE}
    [] OTHER -> {bundle}

\* Something else is raised, at any of the operation's writes.
Break(j) ==
  /\ Fault /\ Refusals(jobs[j].op) = {}
  /\ \E effect \in Effects :
       /\ store' \in After(jobs[j].op, effect)
       /\ bundle' \in LeftBundles(jobs[j].op, effect)
       /\ Leaves(j, [jobs[j] EXCEPT !.effect = effect, !.place = "replying", !.raised = "other"])

\* The bundle is read and unlinked outside the lock.  Another download or a purge may
\* have taken it away: HTTP opens it outside its try, gRPC inside.
HttpDownloadBundle(j) ==
  /\ jobs[j].via \in Http /\ bundle' = FALSE
  /\ Step(j, "reading", [jobs[j] EXCEPT !.place = "replying", !.raised = IF bundle THEN None ELSE "other"])
  /\ UNCHANGED <<store, holder, loop, up, faults>>

\* A bundle over the message limit is read, and not sent.
GrpcDownloadBundle(j) ==
  /\ jobs[j].via = "grpc" /\ bundle' = FALSE
  /\ \E size \in Sizes :
       Step(j, "reading", [jobs[j] EXCEPT !.place = "replying",
         !.raised = IF ~bundle THEN "missing" ELSE IF size # "small" THEN "other" ELSE None])
  /\ UNCHANGED <<store, holder, loop, up, faults>>

-----------------------------------------------------------------------------
(* The answer. *)

Receive(j) ==
  /\ (jobs[j].via \in Http => loop = None)
  /\ Step(j, "replying",
       IF jobs[j].told # None THEN [jobs[j] EXCEPT !.place = "over", !.raised = None]
       ELSE [jobs[j] EXCEPT !.place = "over", !.raised = None, !.told = Told(jobs[j])])
  /\ UNCHANGED <<server, faults>>

\* The loop over HTTP/2 events ends with the connection too.  With a status in hand,
\* what has come of a file is taken for the file, and an empty body for an answer; half
\* of a JSON body does not parse.
CutH2c(j) ==
  /\ jobs[j].via = "h2c" /\ jobs[j].told = None
  /\ Step(j, "replying", [jobs[j] EXCEPT !.place = "over", !.raised = None, !.told = Told(jobs[j])])
  /\ UNCHANGED <<server, faults>>

-----------------------------------------------------------------------------
(* The process: gRPC is served first, then HTTP; HTTP is stopped first, when its     *)
(* requests are answered, then gRPC, which gives them five seconds.                 *)

Serve == up = "grpc" /\ up' = "both" /\ UNCHANGED <<jobs, store, bundle, holder, loop, faults>>

StopHttp ==
  /\ up = "both" /\ up' = "stopping"
  /\ \A j \in Ids \ Through("grpc") : jobs[j].place \in {"sending", "over"}
  /\ UNCHANGED <<jobs, store, bundle, holder, loop, faults>>

\* The process waits for the handlers that run; their clients hear no more.
GraceOver ==
  /\ up = "stopping" /\ up' = "down"
  /\ jobs' = [j \in Ids |->
       CASE jobs[j].place \in {"sending", "over"} -> jobs[j]
         [] jobs[j].place = "arrived" -> [Lost(jobs[j]) EXCEPT !.place = "over"]
         [] OTHER -> Lost(jobs[j])]
  /\ UNCHANGED <<store, bundle, holder, loop, faults>>

\* The call in the lock has got anywhere; start-up recovery finishes an import, takes
\* it back, or declares the collection invalid.
Recovered(s) ==
  IF s.state # "importing" THEN {s}
  ELSE {[s EXCEPT !.index = "fresh", !.exported = FALSE, !.state = "ready"]}
         \cup {[s EXCEPT !.state = state] : state \in {"ready", "purged", "importing"}}

Crash ==
  /\ Fault /\ up' = "grpc" /\ holder' = None /\ loop' = None
  /\ \E effect \in Effects :
       \E s \in IF holder = None THEN {store} ELSE After(jobs[holder].op, effect) :
         store' \in Recovered(s)
  /\ jobs' = [j \in Ids |-> IF jobs[j].place \in {"sending", "over"} THEN jobs[j]
                            ELSE [Lost(jobs[j]) EXCEPT !.place = "over", !.raised = None, !.killed = TRUE]]
  /\ UNCHANGED bundle

-----------------------------------------------------------------------------
Handling(j) ==
  \/ HttpRoute(j) \/ HttpUploadIndex(j) \/ HttpUploadBundle(j) \/ GrpcRoute(j)
  \/ Unlocked(j) \/ Enter(j) \/ Refuse(j) \/ RefuseLate(j) \/ Work(j) \/ Break(j)
  \/ HttpDownloadBundle(j) \/ GrpcDownloadBundle(j) \/ Receive(j)

Next ==
  \/ \E op \in Ops, scheme \in {None, "http"}, http2 \in BOOLEAN : Invoke(op, scheme, http2)
  \/ \E j \in Ids : Lose(j) \/ Arrive(j) \/ Handling(j) \/ CutH2c(j)
  \/ Serve \/ StopHttp \/ GraceOver \/ Crash

Spec == Init /\ [][Next]_vars

\* The server goes on with what has reached it.
FairSpec == Spec /\ \A j \in 1..MaxCalls : WF_vars(j \in Ids /\ Handling(j))

-----------------------------------------------------------------------------
(* Properties. *)

\* No more handlers run than there are workers; the event loop is held by an upload
\* that runs, the lock by the one call that is in it.
TypeOK ==
  /\ Cardinality(InService \cap Through("grpc")) <= GrpcWorkers
  /\ Cardinality(InService \ Through("grpc")) <= HttpThreads + 1
  /\ loop # None => loop \in InService /\ jobs[loop].op \in Uploads
  /\ At("locked") = IF holder = None THEN {} ELSE {holder}
  /\ up \in {"grpc", "both", "stopping", "down"}

\* What the engine may have done of a call that is answered as refused.
MayHaveDone(job) ==
  {"none"} \cup (IF job.op = "insert" THEN {"part"} ELSE {})
           \cup (IF job.op = "drop_collection" THEN {"done"} ELSE {})
           \cup (IF job.op = "download_collection_bundle" /\ job.via = "grpc" THEN {"done"} ELSE {})

\* A client that is told that its call is done can rely on it, over any transport, with
\* connections that break, exceptions at any write, crashes and calls that were given up
\* still running; and one that is told that its call was refused can rely on nothing
\* having been done, with three exceptions.  A refused insert may have made the index
\* stale and the export outdated (and have rows in its connection's open transaction); a
\* drop refused as "not found" has been done; and a gRPC bundle download refused as "not
\* found" is recorded as an export.  (Told of a fault, or nothing, it knows neither.)
AnswersAreTrue ==
  \A j \in Ids :
    /\ jobs[j].told = "ok" => jobs[j].effect = "done"
    /\ jobs[j].told = "refused" => jobs[j].effect \in MayHaveDone(jobs[j])

\* Every request that has reached the server ends, and takes its temporary file with
\* it unless the process dies: a handler waits for the lock on its worker, or on the
\* event loop, and the one in the lock needs neither.
RequestsAnswered ==
  \A n \in 1..MaxCalls :
    n \in At("arrived") ~>
      n \in Ids /\ jobs[n].place = "over" /\ (jobs[n].tmp => jobs[n].killed)

=============================================================================
