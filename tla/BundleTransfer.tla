--------------------------- MODULE BundleTransfer ---------------------------
(***************************************************************************)
(* Concurrent bundle downloads: download_bundle of the HTTP server and     *)
(* DownloadCollectionBundle of the gRPC server.  The engine writes every   *)
(* bundle of a collection to one path, .export.tmp/<name>.hypervec-bundle, *)
(* under the collection's write lock; the request's thread opens, reads    *)
(* and unlinks that path after the engine has let the lock go.             *)
(*                                                                         *)
(* The collection's data is a number that grows with every change.  Every  *)
(* bundle differs from every other one, if only in exported_at, so a       *)
(* bundle stands for its checksum too.  That the index is fresh when an    *)
(* export is accepted, and what an import checks, is in CollectionEngine.  *)
(***************************************************************************)
EXTENDS Integers, FiniteSets

CONSTANTS
  Requests,   \* threads that serve downloads
  None,       \* nobody, nothing, no such file
  MaxData, MaxBundles, MaxCrashes  \* bounds

ASSUME TransferAssumption ==
  /\ None \notin Requests /\ None \notin Nat
  /\ {MaxData, MaxBundles, MaxCrashes} \subseteq Nat

VARIABLES
  data,        \* the collection's current rows and index
  purged,      \* data_state = "purged"
  exported,    \* the data that the record says is exported
  bundleFile,  \* the bundle at the fixed path
  holder,      \* the thread in the collection's write lock
  at,          \* where each request is
  local,       \* its local variables
  received,    \* history: data that left the server's disk for a client
  made, crashes

vars == <<data, purged, exported, bundleFile, holder, at, local, received, made, crashes>>
record == <<data, purged, exported>>

Protocols == {"http", "grpc"}
Bundles   == [no : 1..MaxBundles, data : 0..MaxData]

\* since is a history variable: the data when the request came in.
NewLocal(protocol) ==
  [protocol |-> protocol, since |-> data, built |-> None, claim |-> None, content |-> None]

Init ==
  /\ data = 0 /\ purged = FALSE /\ exported = None
  /\ bundleFile = None /\ holder = None
  /\ at = [r \in Requests |-> "idle"]
  /\ local = [r \in Requests |-> None]
  /\ received = {} /\ made = 0 /\ crashes = 0

Goto(r, here, there) == at[r] = here /\ at' = [at EXCEPT ![r] = there]

\* Mutant: the export does not wait for the lock.
LockTaken == TRUE

LockFree == holder = None

-----------------------------------------------------------------------------
(* The rest of the server, each operation whole under the write lock.       *)

\* An insert and a flush, or an import, which ends the purged state.
Change ==
  /\ LockFree /\ data < MaxData
  /\ data' = data + 1 /\ purged' \in {FALSE, purged}
  /\ UNCHANGED <<exported, bundleFile, holder, at, local, received, made, crashes>>

\* Mutant: .export.tmp is not swept.
PurgeUnswept ==
  /\ LockFree /\ data < MaxData /\ exported = data
  /\ data' = data + 1 /\ purged' = TRUE /\ exported' = None
  /\ UNCHANGED <<bundleFile, holder, at, local, received, made, crashes>>

\* With require_exported, the default.
Purge ==
  /\ LockFree /\ data < MaxData /\ exported = data
  /\ data' = data + 1 /\ purged' = TRUE /\ exported' = None
  /\ bundleFile' = None
  /\ UNCHANGED <<holder, at, local, received, made, crashes>>

Crash ==
  /\ crashes < MaxCrashes /\ crashes' = crashes + 1
  /\ holder' = None
  /\ at' = [r \in Requests |-> "idle"] /\ local' = [r \in Requests |-> None]
  /\ UNCHANGED <<record, bundleFile, received, made>>

-----------------------------------------------------------------------------
(* A download: export_collection_bundle in the lock ... *)

Request(r, protocol) ==
  /\ Goto(r, "idle", "export")
  /\ local' = [local EXCEPT ![r] = NewLocal(protocol)]
  /\ UNCHANGED <<record, bundleFile, holder, received, made, crashes>>

ExportRefused(r) ==
  /\ LockFree /\ purged
  /\ Goto(r, "export", "idle")
  /\ UNCHANGED <<record, bundleFile, holder, local, received, made, crashes>>

ExportBuild(r) ==
  /\ LockFree /\ ~purged /\ made < MaxBundles
  /\ Goto(r, "export", "replace")
  /\ holder' = r /\ made' = made + 1
  /\ local' = [local EXCEPT ![r].built = [no |-> made + 1, data |-> data]]
  /\ UNCHANGED <<record, bundleFile, received, crashes>>

ExportReplace(r) ==
  /\ Goto(r, "replace", "record")
  /\ bundleFile' = local[r].built
  /\ UNCHANGED <<record, holder, local, received, made, crashes>>

\* stat and checksum of the file, the record, and out of the lock.
ExportRecord(r) ==
  /\ bundleFile # None
  /\ Goto(r, "record", "open")
  /\ local' = [local EXCEPT ![r].claim = bundleFile]
  /\ exported' = data /\ holder' = None
  /\ UNCHANGED <<data, purged, bundleFile, received, made, crashes>>

\* Another request has unlinked the file: stat raises.
ExportFails(r) ==
  /\ bundleFile = None
  /\ Goto(r, "record", "idle")
  /\ holder' = None
  /\ UNCHANGED <<record, bundleFile, local, received, made, crashes>>

(* ... and the rest outside it. *)

Open(r) ==
  /\ bundleFile # None
  /\ Goto(r, "open", "unlink")
  /\ local' = [local EXCEPT ![r].content = bundleFile]
  /\ received' = received \cup {bundleFile.data}
  /\ UNCHANGED <<record, bundleFile, holder, made, crashes>>

\* Only the gRPC handler unlinks in a finally clause.
OpenFails(r) ==
  /\ bundleFile = None
  /\ Goto(r, "open", IF local[r].protocol = "grpc" THEN "unlink" ELSE "idle")
  /\ UNCHANGED <<record, bundleFile, holder, local, received, made, crashes>>

\* Mutant: only the gRPC handler cleans up.
UnlinkInGrpc(r) ==
  /\ Goto(r, "unlink", IF local[r].content # None THEN "respond" ELSE "idle")
  /\ bundleFile' = IF local[r].protocol = "grpc" THEN None ELSE bundleFile
  /\ UNCHANGED <<record, holder, local, received, made, crashes>>

Unlink(r) ==
  /\ Goto(r, "unlink", IF local[r].content # None THEN "respond" ELSE "idle")
  /\ bundleFile' = None
  /\ UNCHANGED <<record, holder, local, received, made, crashes>>

Respond(r) ==
  /\ Goto(r, "respond", "idle")
  /\ UNCHANGED <<record, bundleFile, holder, local, received, made, crashes>>

RequestStep(r) ==
  \/ \E protocol \in Protocols : Request(r, protocol)
  \/ ExportRefused(r) \/ ExportBuild(r) \/ ExportReplace(r)
  \/ ExportRecord(r) \/ ExportFails(r)
  \/ Open(r) \/ OpenFails(r) \/ Unlink(r) \/ Respond(r)

Next == Change \/ Purge \/ Crash \/ \E r \in Requests : RequestStep(r)

Spec == Init /\ [][Next]_vars

-----------------------------------------------------------------------------
(* Properties. *)

Opt(S) == S \cup {None}

Holding == {"replace", "record"}

\* The types, and that a request is in the lock exactly while it exports.
TypeOK ==
  /\ data \in 0..MaxData /\ purged \in BOOLEAN /\ exported \in Opt(0..MaxData)
  /\ bundleFile \in Opt(Bundles) /\ holder \in Opt(Requests)
  /\ at \in [Requests -> Holding \cup {"idle", "export", "open", "unlink", "respond"}]
  /\ local \in [Requests -> Opt([protocol : Protocols, since : 0..MaxData,
                    built : Opt(Bundles), claim : Opt(Bundles), content : Opt(Bundles)])]
  /\ received \subseteq 0..MaxData /\ made \in 0..MaxBundles /\ crashes \in 0..MaxCrashes
  /\ \A r \in Requests : holder = r <=> at[r] \in Holding

Responding(r) == at[r] = "respond"

\* Whatever the other requests and a purge do to the shared path, a response
\* carries the collection as it was at some moment after the request came in,
\* never a bundle left there before.
DownloadIsRecent ==
  \A r \in Requests : Responding(r) => local[r].content.data >= local[r].since

\* docs/collection_bundle.md: the X-Hypervec-Bundle-Checksum of a response is
\* the checksum of the bundle in its body.
DeliveredAsClaimed ==
  \A r \in Requests : Responding(r) => local[r].content = local[r].claim

\* However downloads overlap, once none is in progress the collection's
\* directory holds no bundle: a request whose file was taken away, or was
\* replaced, leaves nothing for another to clean up.
NoResidue ==
  crashes = 0 /\ (\A r \in Requests : at[r] = "idle") => bundleFile = None

\* No bundle outlives a purge on the server, a crashed download's included.
PurgeLeavesNoBundle == purged => bundleFile = None

\* purge_collection_data(require_exported=True) deletes only data that some
\* request has at least read from disk to send.
PurgeAfterDownload == [][exported # None /\ exported' = None => exported \in received]_<<exported>>

=============================================================================
