-------------------------------- MODULE Dagon --------------------------------
(***************************************************************************)
(* The package manager (dagon/src): users publish packages to a registry   *)
(* and change, resolve and lock the dependencies of their projects.  A     *)
(* command is a sequence of file operations or requests; commands of       *)
(* several users interleave, and one may be killed between any two.        *)
(*                                                                         *)
(* A registry has an index file per package and archives.  A file being    *)
(* written is torn until the write ends.  An archive's content is the user *)
(* who packed it, which also stands for its checksum.  A project has a     *)
(* manifest (Rlyeh.toml) and a lock file (Rlyeh.lock).                     *)
(***************************************************************************)
EXTENDS Integers, FiniteSets

CONSTANTS Users,          \* one project directory each
          PackageOf,      \* the package in a user's directory
          FirstManifests, \* user -> manifest, or no file: no project yet
          Registries,     \* what was published before: package -> entries
          Additions,      \* what add is asked for: <<name, requirement, dev>>
          RegistryKinds,  \* "file", "http"
          Patches,        \* what a user changes the patch version of a manifest to
          MaxCommands,    \* commands of all users together
          MaxHalts        \* commands killed

VARIABLES registryKind, pkgIndex, \* package -> index file
          archive,                \* <<package, version>> -> content
          manifest, lockFile,     \* user -> file
          command,                \* user -> what runs, with its locals
          begun, halted,          \* counters
          raced,                  \* history: packages two read-modify-writes of whose index overlapped
          contested,              \* history: <<package, version>>s two publishes of which overlapped
          listed,                 \* history: <<package, version>>s a whole index has listed
          shrunk,                 \* history: packages whose index was rewritten without one of them
          untidy                  \* history: users a command of whom was killed

histories == <<raced, contested, listed, shrunk, untidy>>
pkgVars == <<registryKind, pkgIndex, archive, manifest, lockFile, command, begun, halted, histories>>

-----------------------------------------------------------------------------
(* Versions <<major, minor, patch>> and requirements. *)

Earlier(v, w) ==
  \/ v[1] < w[1]
  \/ v[1] = w[1] /\ v[2] < w[2]
  \/ v[1] = w[1] /\ v[2] = w[2] /\ v[3] < w[3]
(* The first version a caret does not take; 0.0.0 is taken alone.          *)
CompatibleEnd(v) ==
  IF v[1] > 0 THEN {<<v[1] + 1, 0, 0>>}
  ELSE IF v[2] > 0 THEN {<<0, v[2] + 1, 0>>}
  ELSE IF v[3] > 0 THEN {<<0, 0, v[3] + 1>>} ELSE {}

Requires(op, v) == [op |-> op, v |-> v]
AnyVersion == Requires("*", <<0, 0, 0>>)
Matches(req, v) ==
  CASE req.op = "*" -> TRUE
    [] req.op = "=" -> v = req.v
    [] req.op = ">=" -> ~Earlier(v, req.v)
    [] req.op = ">" -> Earlier(req.v, v)
    [] req.op = "<=" -> ~Earlier(req.v, v)
    [] req.op = "<" -> Earlier(v, req.v)
    [] req.op = "^" ->
         IF req.v = <<0, 0, 0>> THEN v = req.v
         ELSE ~Earlier(v, req.v) /\ \A end \in CompatibleEnd(req.v) : Earlier(v, end)

(* to_ranges: what the solver is given, ends that include their version or *)
(* do not.                                                                 *)
Including(v) == {[v |-> v, bound |-> "included"]}
Excluding(v) == {[v |-> v, bound |-> "excluded"]}
ToRanges(req) ==
  CASE req.op = "*" -> [low |-> {}, high |-> {}]
    [] req.op = "=" -> [low |-> Including(req.v), high |-> Including(req.v)]
    [] req.op = ">=" -> [low |-> Including(req.v), high |-> {}]
    [] req.op = ">" -> [low |-> Excluding(req.v), high |-> {}]
    [] req.op = "<=" -> [low |-> {}, high |-> Including(req.v)]
    [] req.op = "<" -> [low |-> {}, high |-> Excluding(req.v)]
    [] req.op = "^" ->
         [low |-> Including(req.v),
          high |-> IF CompatibleEnd(req.v) = {} THEN Including(req.v)
                   ELSE UNION {Excluding(end) : end \in CompatibleEnd(req.v)}]
AboveAll(ends, v) == \A end \in ends : Earlier(end.v, v) \/ (end.bound = "included" /\ end.v = v)
BelowAll(ends, v) == \A end \in ends : Earlier(v, end.v) \/ (end.bound = "included" /\ end.v = v)
InRange(range, v) == AboveAll(range.low, v) /\ BelowAll(range.high, v)

-----------------------------------------------------------------------------
(* Files. *)

NoFile == [is |-> "absent"]
TornFile == [is |-> "torn"]
IndexFile(entries) == [is |-> "whole", entries |-> entries]
IndexEntry(v, deps, content) == [v |-> v, deps |-> deps, sum |-> content]
EntriesOf(file) == IF file.is = "whole" THEN file.entries ELSE {}
HasVersion(file, v) == \E e \in EntriesOf(file) : e.v = v
(* upsert: an entry of the version is replaced.                            *)
Upsert(entries, entry) == {e \in entries : e.v # entry.v} \cup {entry}

ManifestFile(version, normal, dev, build) ==
  [is |-> "whole", version |-> version, normal |-> normal, dev |-> dev, build |-> build]
(* root_deps: build dependencies over normal ones, no dev dependencies.    *)
RootDeps(m) ==
  [d \in DOMAIN m.build \cup DOMAIN m.normal |-> IF d \in DOMAIN m.build THEN m.build[d] ELSE m.normal[d]]

(* What the code can hold: dependency tables, manifests and index entries  *)
(* that were parsed.                                                       *)
Packages == UNION {DOMAIN published : published \in Registries}
Versions == Nat \X Nat \X Nat
Requirements == [op : {"*", "=", ">=", ">", "<=", "<", "^"}, v : Versions]
IsDeps(d) == \A name \in DOMAIN d : name \in Packages /\ d[name] \in Requirements
IsEntry(e) == e.v \in Versions /\ IsDeps(e.deps)
IsManifest(m) ==
  /\ m.is = "whole" /\ m = ManifestFile(m.version, m.normal, m.dev, m.build)
  /\ m.version \in Versions /\ IsDeps(m.normal) /\ IsDeps(m.dev) /\ IsDeps(m.build)

ASSUME PackagesAssumption ==
  /\ DOMAIN PackageOf = Users /\ \A u \in Users : PackageOf[u] \in Packages
  /\ DOMAIN FirstManifests = Users
  /\ \A u \in Users : FirstManifests[u] = NoFile \/ IsManifest(FirstManifests[u])
  /\ \A published \in Registries :
       /\ DOMAIN published = Packages
       /\ \A p \in Packages : \A e \in published[p] : IsEntry(e) /\ e.sum = "registry"
  /\ \A add \in Additions : add[1] \in Packages /\ add[2] \in Requirements /\ add[3] \in BOOLEAN
  /\ Patches \subseteq Nat /\ MaxCommands \in Nat /\ MaxHalts \in Nat

Putting(d, k, v) == [x \in DOMAIN d \cup {k} |-> IF x = k THEN v ELSE d[x]]
Dropping(d, k) == [x \in DOMAIN d \ {k} |-> d[x]]
AddDependency(m, name, req, dev) ==
  IF dev THEN [m EXCEPT !.dev = Putting(@, name, req)] ELSE [m EXCEPT !.normal = Putting(@, name, req)]
RemoveDependency(m, name, dev) ==
  IF dev THEN [m EXCEPT !.dev = Dropping(@, name)] ELSE [m EXCEPT !.normal = Dropping(@, name)]
DependencyTable(m, dev) == IF dev THEN m.dev ELSE m.normal

NoCommand == [at |-> "idle"]
CommandAt(u, at) == command[u].at = at
Proceeds(u, at) == command' = [command EXCEPT ![u].at = at]
Ends(u) == command' = [command EXCEPT ![u] = NoCommand]
Begins(u, record) ==
  /\ CommandAt(u, "idle")
  /\ manifest[u].is = "whole"
  /\ begun < MaxCommands
  /\ command' = [command EXCEPT ![u] = record]
  /\ begun' = begun + 1

-----------------------------------------------------------------------------
(* publish: cmd_publish, then RegistryClient::publish. *)

Publishing(u, p) ==
  PackageOf[u] = p /\ command[u].at \in {"check", "upload", "uploading", "merge", "index", "indexing"}
(* Between the read of the index it writes back and the write's end.       *)
HoldsIndex(u, p) ==
  /\ Publishing(u, p)
  /\ command[u].at \in {"index", "indexing"} \/ (registryKind = "http" /\ CommandAt(u, "upload"))
TakesIndex(u) ==
  raced' = raced \cup {p \in {PackageOf[u]} : \E other \in Users \ {u} : HoldsIndex(other, p)}
WritesIndex(u, file) ==
  LET p == PackageOf[u]
      lists == {<<p, e.v>> : e \in EntriesOf(file)} IN
  /\ pkgIndex' = [pkgIndex EXCEPT ![p] = file]
  /\ listed' = listed \cup lists
  /\ shrunk' = IF file.is = "whole" /\ \E pv \in listed : pv[1] = p /\ pv \notin lists
               THEN shrunk \cup {p} ELSE shrunk

Publish(u) ==
  /\ Begins(u, [at |-> "check", version |-> manifest[u].version, deps |-> manifest[u].normal])
  /\ contested' = contested \cup
       {<<PackageOf[w], command[w].version>> :
          w \in {w \in Users \ {u} : Publishing(w, PackageOf[u]) /\ command[w].version = manifest[u].version}}
  /\ UNCHANGED <<registryKind, pkgIndex, archive, manifest, lockFile, halted, raced, listed, shrunk, untidy>>
(* mutant: a published version may be published again *)
RefusesTorn(file, v) == file.is = "torn"
(* The index is read: a version it has already is refused.                 *)
RefusesPublish(file, v) == file.is = "torn" \/ HasVersion(file, v)
CheckVersion(u) ==
  LET file == pkgIndex[PackageOf[u]]
      c == command[u]
  IN /\ CommandAt(u, "check")
     /\ \/ (RefusesPublish(file, c.version) \/ registryKind = "http") /\ Ends(u) /\ UNCHANGED raced
        \/ /\ ~RefusesPublish(file, c.version)
           /\ command' = [command EXCEPT ![u] =
                [at |-> "upload", version |-> c.version,
                 entries |-> Upsert(EntriesOf(file), IndexEntry(c.version, c.deps, u))]]
           /\ IF registryKind = "http" THEN TakesIndex(u) ELSE UNCHANGED raced
     /\ UNCHANGED <<registryKind, pkgIndex, archive, manifest, lockFile, begun, halted, contested, listed, shrunk, untidy>>
Uploads(u, content) == archive' = Putting(archive, <<PackageOf[u], command[u].version>>, content)
(* fs::write of the archive: created empty, then written; another write    *)
(* that ended meanwhile may leave its tail behind this one.                *)
UploadArchive(u) ==
  /\ registryKind = "file" /\ CommandAt(u, "upload")
  /\ Uploads(u, "torn")
  /\ Proceeds(u, "uploading")
  /\ UNCHANGED <<registryKind, pkgIndex, manifest, lockFile, begun, halted, histories>>
ArchiveUploaded(u) ==
  /\ CommandAt(u, "uploading")
  /\ \/ Uploads(u, u)
     \/ archive[<<PackageOf[u], command[u].version>>] # "torn" /\ Uploads(u, "torn")
  /\ Proceeds(u, "merge")
  /\ UNCHANGED <<registryKind, pkgIndex, manifest, lockFile, begun, halted, histories>>
(* The index is read again, and this version's entry put into it.          *)
MergeIndex(u) ==
  LET file == pkgIndex[PackageOf[u]]
      mine == CHOOSE e \in command[u].entries : e.v = command[u].version IN
  /\ CommandAt(u, "merge")
  /\ IF file.is = "torn" THEN Ends(u) /\ UNCHANGED raced
     ELSE /\ command' = [command EXCEPT ![u] =
               [at |-> "index", version |-> command[u].version, entries |-> Upsert(EntriesOf(file), mine)]]
          /\ TakesIndex(u)
  /\ UNCHANGED <<registryKind, pkgIndex, archive, manifest, lockFile, begun, halted, contested, listed, shrunk, untidy>>
WriteIndex(u) ==
  /\ registryKind = "file" /\ CommandAt(u, "index")
  /\ WritesIndex(u, TornFile)
  /\ Proceeds(u, "indexing")
  /\ UNCHANGED <<registryKind, archive, manifest, lockFile, begun, halted, raced, contested, untidy>>
IndexWritten(u) ==
  /\ CommandAt(u, "indexing")
  /\ \/ WritesIndex(u, IndexFile(command[u].entries))
     \/ pkgIndex[PackageOf[u]].is # "torn" /\ WritesIndex(u, TornFile)
  /\ Ends(u)
  /\ UNCHANGED <<registryKind, archive, manifest, lockFile, begun, halted, raced, contested, untidy>>
(* Over HTTP: two PUTs; a request or its answer may be lost.               *)
PutArchive(u) ==
  /\ registryKind = "http" /\ CommandAt(u, "upload")
  /\ \/ Uploads(u, u) /\ Proceeds(u, "index")
     \/ (Uploads(u, u) \/ UNCHANGED archive) /\ Ends(u)
  /\ UNCHANGED <<registryKind, pkgIndex, manifest, lockFile, begun, halted, histories>>
PutIndex(u) ==
  /\ registryKind = "http" /\ CommandAt(u, "index")
  /\ WritesIndex(u, IndexFile(command[u].entries)) \/ UNCHANGED <<pkgIndex, listed, shrunk>>
  /\ Ends(u)
  /\ UNCHANGED <<registryKind, archive, manifest, lockFile, begun, halted, raced, contested, untidy>>

(* download: the entry's archive, with the entry's checksum.               *)
Downloads(p, v) ==
  \E e \in EntriesOf(pkgIndex[p]) :
    /\ e.v = v
    /\ <<p, v>> \in DOMAIN archive /\ archive[<<p, v>>] = e.sum

-----------------------------------------------------------------------------
(* new, add, remove, update: change the manifest in memory, resolve, write the  *)
(* lock file, then the manifest.                                           *)

Fetching(kind, changed, original, queue, graph) ==
  [at |-> "fetch", kind |-> kind, m |-> changed, original |-> original, queue |-> queue, graph |-> graph]
Resolving(kind, changed, original) == Fetching(kind, changed, original, DOMAIN RootDeps(changed), <<>>)
BeginAdd(u) ==
  /\ \E add \in Additions :
       Begins(u, Resolving("add", AddDependency(manifest[u], add[1], add[2], add[3]), manifest[u]))
  /\ UNCHANGED <<registryKind, pkgIndex, archive, manifest, lockFile, halted, histories>>
(* What a failed remove writes back is the manifest already changed.       *)
BeginRemove(u) ==
  /\ manifest[u].is = "whole"
  /\ \E dev \in BOOLEAN : \E name \in DOMAIN DependencyTable(manifest[u], dev) :
       LET changed == RemoveDependency(manifest[u], name, dev) IN
       Begins(u, Resolving("remove", changed, changed))
  /\ UNCHANGED <<registryKind, pkgIndex, archive, manifest, lockFile, halted, histories>>
BeginUpdate(u) ==
  /\ Begins(u, Resolving("update", manifest[u], manifest[u]))
  /\ UNCHANGED <<registryKind, pkgIndex, archive, manifest, lockFile, halted, histories>>

Saving(u, m) ==
  /\ command' = [command EXCEPT ![u] = [at |-> "saving", m |-> m]]
  /\ manifest' = [manifest EXCEPT ![u] = TornFile]
(* new, init: only where there is no manifest, be it a torn one.           *)
NewManifest == ManifestFile(<<0, 1, 0>>, <<>>, <<>>, <<>>)
NewProject(u) ==
  /\ CommandAt(u, "idle")
  /\ manifest[u].is = "absent"
  /\ begun < MaxCommands
  /\ begun' = begun + 1
  /\ Saving(u, NewManifest)
  /\ UNCHANGED <<registryKind, pkgIndex, archive, lockFile, halted, histories>>

(* mutant: add, too, remembers the changed manifest *)
WrittenBackChanged(c) == c.m
WrittenBack(c) == c.original
(* A failed update has nothing to write back.                              *)
FailsResolve(u) ==
  IF command[u].kind = "update" THEN Ends(u) /\ UNCHANGED manifest
  ELSE Saving(u, WrittenBack(command[u]))

(* from_registry: the index of one package more; the packages its versions *)
(* depend on are fetched next.                                             *)
FetchIndex(u) ==
  /\ CommandAt(u, "fetch")
  /\ \E p \in command[u].queue :
       LET entries == EntriesOf(pkgIndex[p])
           c == command[u]
           needed == UNION {DOMAIN e.deps : e \in entries}
           unknown == (c.queue \cup needed) \ ({p, PackageOf[u]} \cup DOMAIN c.graph) IN
       \/ (entries = {} \/ registryKind = "http") /\ FailsResolve(u)
       \/ /\ entries # {}
          /\ command' = [command EXCEPT ![u] =
               Fetching(c.kind, c.m, c.original, unknown, Putting(c.graph, p, entries))]
          /\ UNCHANGED manifest
  /\ UNCHANGED <<registryKind, pkgIndex, archive, lockFile, begun, halted, histories>>

(* pubgrub, a library: some choice of versions, closed under dependencies, *)
(* without a package nobody needs; none when there is none.                *)
DepsOf(graph, p, v) == (CHOOSE e \in graph[p] : e.v = v).deps
Meets(name, req, u, root, chosen) ==
  IF name = PackageOf[u] THEN InRange(ToRanges(req), root)
  ELSE name \in DOMAIN chosen /\ InRange(ToRanges(req), chosen[name])
ClosedUnder(u, m, graph, chosen) ==
  /\ \A d \in DOMAIN RootDeps(m) : Meets(d, RootDeps(m)[d], u, m.version, chosen)
  /\ \A p \in DOMAIN chosen :
       LET deps == DepsOf(graph, p, chosen[p]) IN
       \A d \in DOMAIN deps : Meets(d, deps[d], u, m.version, chosen)
Selections(graph, names) ==
  {chosen \in [names -> {e.v : e \in UNION {graph[p] : p \in names}}] :
     \A p \in names : \E e \in graph[p] : e.v = chosen[p]}
Resolutions(u, m, graph) ==
  {chosen \in UNION {Selections(graph, names) : names \in SUBSET (DOMAIN graph \ {PackageOf[u]})} :
     /\ ClosedUnder(u, m, graph, chosen)
     /\ \A fewer \in SUBSET DOMAIN chosen \ {DOMAIN chosen} :
          ~ClosedUnder(u, m, graph, [p \in fewer |-> chosen[p]])}
(* from_resolution: the versions chosen, with their requirements.          *)
LockOf(m, graph, chosen) ==
  [is |-> "whole", root |-> m.version, chosen |-> chosen,
   deps |-> [p \in DOMAIN chosen |-> DepsOf(graph, p, chosen[p])]]
ResolveGraph(u) ==
  LET c == command[u]
      resolutions == Resolutions(u, c.m, c.graph) IN
  /\ CommandAt(u, "fetch") /\ c.queue = {}
  /\ \/ resolutions = {} /\ FailsResolve(u) /\ UNCHANGED lockFile
     \/ \E chosen \in resolutions :
          /\ command' = [command EXCEPT ![u] =
               [at |-> "locking", kind |-> c.kind, m |-> c.m, locked |-> LockOf(c.m, c.graph, chosen)]]
          /\ lockFile' = [lockFile EXCEPT ![u] = TornFile]
          /\ UNCHANGED manifest
  /\ UNCHANGED <<registryKind, pkgIndex, archive, begun, halted, histories>>
LockWritten(u) ==
  /\ CommandAt(u, "locking")
  /\ lockFile' = [lockFile EXCEPT ![u] = command[u].locked]
  /\ IF command[u].kind = "update" THEN Ends(u) ELSE Proceeds(u, "save")
  /\ UNCHANGED <<registryKind, pkgIndex, archive, manifest, begun, halted, histories>>
SaveManifest(u) ==
  /\ CommandAt(u, "save")
  /\ Saving(u, command[u].m)
  /\ UNCHANGED <<registryKind, pkgIndex, archive, lockFile, begun, halted, histories>>
ManifestSaved(u) ==
  /\ CommandAt(u, "saving")
  /\ manifest' = [manifest EXCEPT ![u] = command[u].m]
  /\ Ends(u)
  /\ UNCHANGED <<registryKind, pkgIndex, archive, lockFile, begun, halted, histories>>

-----------------------------------------------------------------------------
(* The environment: the user edits the version, or the process dies.       *)
EditVersion(u) ==
  /\ Begins(u, NoCommand)
  /\ \E patch \in Patches \ {manifest[u].version[3]} :
       manifest' = [manifest EXCEPT ![u].version = <<@[1], @[2], patch>>]
  /\ UNCHANGED <<registryKind, pkgIndex, archive, lockFile, halted, histories>>
Halt(u) ==
  /\ ~CommandAt(u, "idle") /\ halted < MaxHalts
  /\ halted' = halted + 1
  /\ untidy' = untidy \cup {u}
  /\ Ends(u)
  /\ UNCHANGED <<registryKind, pkgIndex, archive, manifest, lockFile, begun, raced, contested, listed, shrunk>>

PackagesInit ==
  /\ registryKind \in RegistryKinds
  /\ \E published \in Registries :
       /\ pkgIndex = [p \in DOMAIN published |-> IF published[p] = {} THEN NoFile ELSE IndexFile(published[p])]
       /\ listed = UNION {{<<p, e.v>> : e \in published[p]} : p \in DOMAIN published}
       /\ archive = [pv \in listed |-> "registry"]
  /\ manifest = FirstManifests
  /\ lockFile = [u \in Users |-> NoFile]
  /\ command = [u \in Users |-> NoCommand]
  /\ begun = 0 /\ halted = 0
  /\ raced = {} /\ contested = {} /\ shrunk = {} /\ untidy = {}
PackagesNext == \E u \in Users :
  \/ Publish(u) \/ CheckVersion(u) \/ UploadArchive(u) \/ ArchiveUploaded(u)
  \/ MergeIndex(u) \/ WriteIndex(u) \/ IndexWritten(u) \/ PutArchive(u) \/ PutIndex(u)
  \/ NewProject(u) \/ BeginAdd(u) \/ BeginRemove(u) \/ BeginUpdate(u) \/ FetchIndex(u) \/ ResolveGraph(u)
  \/ LockWritten(u) \/ SaveManifest(u) \/ ManifestSaved(u)
  \/ EditVersion(u) \/ Halt(u)
PackagesSpec == PackagesInit /\ [][PackagesNext]_pkgVars

-----------------------------------------------------------------------------
(* The registry, whatever publishes overlap and die (registry.rs): an      *)
(* index loses an entry only where two read-modify-writes overlapped, is   *)
(* left unreadable only by those or by a publisher that died, and lists    *)
(* only what can be downloaded: every entry's archive is there with the    *)
(* entry's checksum, but for a version two users published at once and a   *)
(* package that lost an entry.                                             *)
PublishedStays ==
  /\ shrunk \subseteq raced
  /\ \A p \in DOMAIN pkgIndex :
       pkgIndex[p].is = "torn" =>
         \/ p \in raced
         \/ \E u \in Users : PackageOf[u] = p /\ (CommandAt(u, "indexing") \/ u \in untidy)
IndexedIsStored ==
  \A p \in DOMAIN pkgIndex : \A e \in EntriesOf(pkgIndex[p]) :
    \/ <<p, e.v>> \in contested \/ p \in shrunk
    \/ Downloads(p, e.v)
RegistryWhole == PublishedStays /\ IndexedIsStored

(* When no command of a user runs and none was killed, the lock file (once *)
(* written) answers every requirement of the manifest and of the packages  *)
(* it locks, as VersionReq::matches reads a requirement (commands.rs).     *)
LockMeets(u, name, req) ==
  IF name = PackageOf[u] THEN Matches(req, lockFile[u].root)
  ELSE name \in DOMAIN lockFile[u].chosen /\ Matches(req, lockFile[u].chosen[name])
LockCoversManifest ==
  \A u \in Users :
    CommandAt(u, "idle") /\ u \notin untidy /\ lockFile[u].is = "whole" =>
      /\ \A d \in DOMAIN RootDeps(manifest[u]) : LockMeets(u, d, RootDeps(manifest[u])[d])
      /\ \A p \in DOMAIN lockFile[u].deps :
           \A d \in DOMAIN lockFile[u].deps[p] : LockMeets(u, d, lockFile[u].deps[p][d])
=============================================================================
