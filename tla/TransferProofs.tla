--------------------------- MODULE TransferProofs ---------------------------
(***************************************************************************)
(* Proofs about BundleTransfer, for any set of requests and all bounds:    *)
(* what is delivered is recent, nothing is left behind, and no bundle      *)
(* survives a purge.                                                       *)
(***************************************************************************)
EXTENDS BundleTransfer, TLAPS

LocalRecord ==
  [protocol : Protocols, since : 0..MaxData,
   built : Opt(Bundles), claim : Opt(Bundles), content : Opt(Bundles)]

\* Whoever exports has bundled the data there is, and a file that is found later is
\* not older than that.
Recent(r) ==
  /\ at[r] # "idle" => local[r] \in LocalRecord /\ local[r].since <= data
  /\ at[r] = "replace" => local[r].built \in Bundles /\ local[r].built.data = data
  /\ at[r] = "record" /\ bundleFile # None => bundleFile.data = data
  /\ at[r] = "open" /\ bundleFile # None => bundleFile.data >= local[r].since
  /\ at[r] \in {"unlink", "respond"} /\ local[r].content # None =>
       local[r].content.data >= local[r].since
  /\ at[r] \in Holding \cup {"export", "open"} => local[r].content = None
  /\ at[r] = "respond" => local[r].content # None

\* The file has somebody to unlink it; a purge finds nobody exporting.
Minded ==
  /\ crashes = 0 /\ bundleFile # None => \E r \in Requests : at[r] \in {"record", "open", "unlink"}
  /\ \A r \in Requests : at[r] \in Holding => ~purged
  /\ purged => bundleFile = None

TransferInv == TypeOK /\ Minded /\ \A r \in Requests : Recent(r)

-----------------------------------------------------------------------------
\* What the assumption says, in one fact.
LEMMA NoneApart ==
  None \notin Requests /\ None \notin Nat /\ MaxData \in Nat /\ MaxBundles \in Nat /\ MaxCrashes \in Nat
BY TransferAssumption


\* The initial state has the invariant.
LEMMA InitTransfer == Init => TransferInv
<1> SUFFICES ASSUME Init PROVE TransferInv
  OBVIOUS
<1>1. TypeOK
  <2>1. purged \in BOOLEAN
    BY Zenon DEF Init
  <2>2. QED
    BY <2>1, NoneApart DEF Init, TypeOK, Opt, Holding
<1>2. Minded
  BY DEF Init, Minded, Holding
<1>3. \A r \in Requests : Recent(r)
  BY DEF Init, Recent, Holding
<1>4. QED
  BY <1>1, <1>2, <1>3 DEF TransferInv

\* The rest of the server.
LEMMA OthersStep ==
  ASSUME TransferInv, Change \/ Purge \/ Crash
  PROVE  TransferInv'
<1> USE NoneApart DEF TransferInv
<1>1. CASE Change
  <2>0. purged' \in BOOLEAN /\ (purged' => purged) /\ data' \in 0..MaxData
    <3>1. purged' \in {FALSE, purged} /\ purged \in BOOLEAN
      BY <1>1 DEF Change, TypeOK
    <3>2. purged' \in BOOLEAN /\ (purged' => purged)
      <4>1. CASE purged' = FALSE
        BY <4>1
      <4>2. CASE purged' = purged
        BY <3>1, <4>2
      <4>3. QED
        BY <3>1, <4>1, <4>2
    <3>3. data' \in 0..MaxData
      BY <1>1 DEF Change, TypeOK
    <3>4. QED
      BY <3>2, <3>3
  <2>1. TypeOK'
    BY <1>1, <2>0 DEF Change, TypeOK, Opt, Holding, LockFree
  <2>2. \A r \in Requests : at[r] \notin Holding
    BY <1>1 DEF Change, LockFree, TypeOK
  <2>3. Minded'
    BY <1>1, <2>0, <2>2 DEF Change, Minded, Holding
  <2>4. \A r \in Requests : Recent(r)'
    <3> SUFFICES ASSUME NEW r \in Requests PROVE Recent(r)'
      OBVIOUS
    <3>1. Recent(r) /\ data \in Nat /\ data' = data + 1 /\ UNCHANGED <<at, local, bundleFile>>
      BY <1>1 DEF Change, TypeOK
    <3>2. local[r] \in LocalRecord => local[r].since \in Nat
      BY DEF LocalRecord
    <3>3. QED
      BY <2>2, <3>1, <3>2 DEF Recent, Holding
  <2>5. QED
    BY <2>1, <2>3, <2>4
<1>2. CASE Purge
  <2>1. TypeOK'
    BY <1>2 DEF Purge, TypeOK, Opt, Holding, LockFree
  <2>2. \A r \in Requests : at[r] \notin Holding
    BY <1>2 DEF Purge, LockFree, TypeOK
  <2>3. Minded'
    BY <1>2, <2>2 DEF Purge, Minded, Holding
  <2>4. \A r \in Requests : Recent(r)'
    <3> SUFFICES ASSUME NEW r \in Requests PROVE Recent(r)'
      OBVIOUS
    <3>1. Recent(r) /\ data \in Nat /\ data' = data + 1 /\ UNCHANGED <<at, local>> /\ bundleFile' = None
      BY <1>2 DEF Purge, TypeOK
    <3>2. local[r] \in LocalRecord => local[r].since \in Nat
      BY DEF LocalRecord
    <3>3. QED
      BY <2>2, <3>1, <3>2 DEF Recent, Holding
  <2>5. QED
    BY <2>1, <2>3, <2>4
<1>3. CASE Crash
  <2>1. TypeOK'
    BY <1>3 DEF Crash, record, TypeOK, Opt, Holding
  <2>2. Minded'
    BY <1>3 DEF Crash, record, Minded, Holding, TypeOK
  <2>3. \A r \in Requests : Recent(r)'
    BY <1>3 DEF Crash, Recent, Holding
  <2>4. QED
    BY <2>1, <2>2, <2>3
<1>4. QED
  BY <1>1, <1>2, <1>3

\* A request's own step: what it makes of the file and of its locals, and that the
\* other requests' files stay recent.
LEMMA RequestTypes ==
  ASSUME TransferInv, NEW r \in Requests, RequestStep(r)
  PROVE  TypeOK'
<1> USE NoneApart DEF TransferInv, TypeOK, record, Goto, Holding
<1>1. ASSUME NEW protocol \in Protocols, Request(r, protocol) PROVE TypeOK'
  BY <1>1 DEF Request, NewLocal, Opt
<1>2. CASE ExportRefused(r)
  BY <1>2 DEF ExportRefused
<1>3. CASE ExportBuild(r)
  <2>1. [no |-> made + 1, data |-> data] \in Bundles
    BY <1>3 DEF ExportBuild, Bundles
  <2>2. local[r] \in LocalRecord
    BY <1>3 DEF ExportBuild, Recent
  <2>3. QED
    BY <1>3, <2>1, <2>2 DEF ExportBuild, LockFree, LocalRecord, Opt
<1>4. CASE ExportReplace(r)
  BY <1>4 DEF ExportReplace, Recent, LocalRecord, Opt
<1>5. CASE ExportRecord(r)
  BY <1>5 DEF ExportRecord, Recent, LocalRecord, Opt
<1>6. CASE ExportFails(r)
  BY <1>6 DEF ExportFails, Opt
<1>7. CASE Open(r)
  <2>1. local[r] \in LocalRecord /\ bundleFile \in Bundles
    BY <1>7 DEF Open, Recent, Opt
  <2>2. bundleFile.data \in 0..MaxData
    BY <2>1 DEF Bundles
  <2>3. QED
    BY <1>7, <2>1, <2>2 DEF Open, LocalRecord, Opt
<1>8. CASE OpenFails(r)
  BY <1>8 DEF OpenFails
<1>9. CASE Unlink(r)
  BY <1>9 DEF Unlink, Opt
<1>10. CASE Respond(r)
  BY <1>10 DEF Respond
<1>11. QED
  BY <1>1, <1>2, <1>3, <1>4, <1>5, <1>6, <1>7, <1>8, <1>9, <1>10 DEF RequestStep

LEMMA RequestMinds ==
  ASSUME TransferInv, NEW r \in Requests, RequestStep(r)
  PROVE  Minded'
<1> USE NoneApart DEF TransferInv, Minded, record, Goto, Holding
<1>0. at \in [Requests -> Holding \cup {"idle", "export", "open", "unlink", "respond"}]
  BY DEF TypeOK
<1>1. ASSUME NEW protocol \in Protocols, Request(r, protocol) PROVE Minded'
  BY <1>0, <1>1 DEF Request
<1>2. CASE ExportRefused(r)
  BY <1>0, <1>2 DEF ExportRefused
<1>3. CASE ExportBuild(r)
  BY <1>0, <1>3 DEF ExportBuild
<1>4. CASE ExportReplace(r)
  BY <1>0, <1>4 DEF ExportReplace
<1>5. CASE ExportRecord(r)
  BY <1>0, <1>5 DEF ExportRecord
<1>6. CASE ExportFails(r)
  BY <1>0, <1>6 DEF ExportFails
<1>7. CASE Open(r)
  BY <1>0, <1>7 DEF Open
<1>8. CASE OpenFails(r)
  BY <1>0, <1>8 DEF OpenFails
<1>9. CASE Unlink(r)
  BY <1>0, <1>9 DEF Unlink
<1>10. CASE Respond(r)
  BY <1>0, <1>10 DEF Respond
<1>11. QED
  BY <1>1, <1>2, <1>3, <1>4, <1>5, <1>6, <1>7, <1>8, <1>9, <1>10 DEF RequestStep

LEMMA RequestRecent ==
  ASSUME TransferInv, NEW r \in Requests, RequestStep(r), NEW q \in Requests
  PROVE  Recent(q)'
<1> USE NoneApart DEF TransferInv, record, Goto, Holding
<1>0. /\ at \in [Requests -> Holding \cup {"idle", "export", "open", "unlink", "respond"}]
      /\ local \in [Requests -> Opt(LocalRecord)]
      /\ data \in Nat /\ Recent(q) /\ Recent(r)
      /\ \A p \in Requests : holder = p <=> at[p] \in Holding
      /\ local[q] \in LocalRecord => local[q].since \in Nat
  BY DEF TypeOK, LocalRecord, Opt
<1>1. ASSUME NEW protocol \in Protocols, Request(r, protocol) PROVE Recent(q)'
    <2>1. NewLocal(protocol) \in LocalRecord /\ NewLocal(protocol).since <= data
        /\ NewLocal(protocol).content = None
    BY <1>0 DEF NewLocal, LocalRecord, Opt, TypeOK
  <2>2. CASE q = r
    BY <1>0, <1>1, <2>1, <2>2 DEF Request, Recent
  <2>3. CASE q # r
    BY <1>0, <1>1, <2>3 DEF Request, Recent
  <2>4. QED
    BY <2>2, <2>3
<1>2. CASE ExportRefused(r)
  BY <1>0, <1>2 DEF ExportRefused, Recent
<1>3. CASE ExportBuild(r)
  <2>1. CASE q = r
    <3>1. [no |-> made + 1, data |-> data] \in Bundles
      BY <1>3 DEF ExportBuild, Bundles, TypeOK
    <3>2. local'[q] = [local[q] EXCEPT !.built = [no |-> made + 1, data |-> data]]
          /\ at[q] = "export" /\ at'[q] = "replace" /\ data' = data
      BY <1>0, <1>3, <2>1 DEF ExportBuild
    <3>3. local[q] \in LocalRecord /\ local[q].since <= data /\ local[q].content = None
      BY <1>0, <3>2 DEF Recent
    <3>4. local'[q] \in LocalRecord /\ local'[q].since = local[q].since
          /\ local'[q].content = None /\ local'[q].built = [no |-> made + 1, data |-> data]
      BY <3>1, <3>2, <3>3 DEF LocalRecord, Opt
    <3>5. QED
      BY <3>1, <3>2, <3>3, <3>4 DEF Recent
  <2>2. CASE q # r
    BY <1>0, <1>3, <2>2 DEF ExportBuild, Recent
  <2>3. QED
    BY <2>1, <2>2
<1>4. CASE ExportReplace(r)
  BY <1>0, <1>4 DEF ExportReplace, Recent
<1>5. CASE ExportRecord(r)
  <2>1. CASE q = r
    <3>1. local'[q] = [local[q] EXCEPT !.claim = bundleFile] /\ bundleFile \in Bundles
          /\ at[q] = "record" /\ at'[q] = "open" /\ UNCHANGED <<data, bundleFile>>
      BY <1>0, <1>5, <2>1 DEF ExportRecord, TypeOK, Opt
    <3>2. local[q] \in LocalRecord /\ local[q].since <= data /\ local[q].content = None
          /\ bundleFile.data = data
      BY <1>0, <1>5, <3>1 DEF Recent, ExportRecord
    <3>3. local'[q] \in LocalRecord /\ local'[q].since = local[q].since
          /\ local'[q].content = None
      BY <3>1, <3>2 DEF LocalRecord, Opt
    <3>4. QED
      BY <1>0, <3>1, <3>2, <3>3 DEF Recent
  <2>2. CASE q # r
    BY <1>0, <1>5, <2>2 DEF ExportRecord, Recent
  <2>3. QED
    BY <2>1, <2>2
<1>6. CASE ExportFails(r)
  BY <1>0, <1>6 DEF ExportFails, Recent
<1>7. CASE Open(r)
  <2>1. CASE q = r
    <3>1. local'[q] = [local[q] EXCEPT !.content = bundleFile] /\ bundleFile \in Bundles
          /\ at[q] = "open" /\ at'[q] = "unlink" /\ data' = data
      BY <1>0, <1>7, <2>1 DEF Open, TypeOK, Opt
    <3>2. local[q] \in LocalRecord /\ local[q].since <= data /\ bundleFile.data >= local[q].since
      BY <1>0, <1>7, <3>1 DEF Recent, Open
    <3>3. local'[q] \in LocalRecord /\ local'[q].since = local[q].since
          /\ local'[q].content = bundleFile
      BY <3>1, <3>2 DEF LocalRecord, Opt
    <3>4. QED
      BY <3>1, <3>2, <3>3 DEF Recent
  <2>2. CASE q # r
    BY <1>0, <1>7, <2>2 DEF Open, Recent
  <2>3. QED
    BY <2>1, <2>2
<1>8. CASE OpenFails(r)
  BY <1>0, <1>8 DEF OpenFails, Recent
<1>9. CASE Unlink(r)
  BY <1>0, <1>9 DEF Unlink, Recent
<1>10. CASE Respond(r)
  BY <1>0, <1>10 DEF Respond, Recent
<1>11. QED
  BY <1>1, <1>2, <1>3, <1>4, <1>5, <1>6, <1>7, <1>8, <1>9, <1>10 DEF RequestStep

LEMMA TransferStep == TransferInv /\ [Next]_vars => TransferInv'
<1> SUFFICES ASSUME TransferInv, [Next]_vars PROVE TransferInv'
  OBVIOUS
<1>1. CASE UNCHANGED vars
  BY <1>1 DEF vars, TransferInv, TypeOK, Minded, Recent, Holding
<1>2. CASE Change \/ Purge \/ Crash
  BY <1>2, OthersStep
<1>3. ASSUME NEW r \in Requests, RequestStep(r) PROVE TransferInv'
  BY <1>3, RequestTypes, RequestMinds, RequestRecent DEF TransferInv
<1>4. QED
  BY <1>1, <1>2, <1>3 DEF Next

\* Every state is typed, unless something crashed each bundle on the server
\* has a download that will unlink it, and what a download has read is as recent as its request.
THEOREM TransferInvariance == Spec => []TransferInv
BY InitTransfer, TransferStep, PTL DEF Spec

-----------------------------------------------------------------------------

\* Requests, the lock and the path stay of their kinds: for any number of downloads,
\* purges and crashes.
THEOREM TransferTyped == Spec => []TypeOK
<1>1. TransferInv => TypeOK
  BY DEF TransferInv
<1>2. QED
  BY <1>1, TransferInvariance, PTL

\* Every response carries the collection as it was at some moment after its request
\* came in, whatever other downloads and purges do to the one path.
THEOREM DownloadsRecent == Spec => []DownloadIsRecent
<1>1. TransferInv => DownloadIsRecent
  BY DEF TransferInv, Recent, DownloadIsRecent, Responding
<1>2. QED
  BY <1>1, TransferInvariance, PTL

\* Without a crash the last download to end has taken the file with it.
THEOREM NothingLeftBehind == Spec => []NoResidue
<1>1. TransferInv => NoResidue
  BY DEF TransferInv, Minded, NoResidue
<1>2. QED
  BY <1>1, TransferInvariance, PTL

\* While the collection is purged there is no bundle of it on the server.
THEOREM PurgedWithoutBundle == Spec => []PurgeLeavesNoBundle
<1>1. TransferInv => PurgeLeavesNoBundle
  BY DEF TransferInv, Minded, PurgeLeavesNoBundle
<1>2. QED
  BY <1>1, TransferInvariance, PTL

=============================================================================
