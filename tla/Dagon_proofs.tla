---------------------------- MODULE Dagon_proofs ----------------------------
(***************************************************************************)
(* Proofs about the package manager, for any users, packages, registries   *)
(* and requirements.                                                       *)
(*                                                                         *)
(* Ranges: what to_ranges gives the solver takes the versions that         *)
(* VersionReq::matches takes, operator by operator.                        *)
(*                                                                         *)
(* Registry: RegistryInv follows a publish from the read of the index to   *)
(* the write.  Who holds an index no other publish holds writes back all   *)
(* that was ever listed (HoldersInv, ListedInv); a version is published    *)
(* where it never was, but by two at once (SlotsInv); so the archive of an *)
(* entry is not written again once the entry is listed (ArchiveInv).       *)
(*                                                                         *)
(* Lock: LockInv says which manifest the lock file answers at each step of *)
(* a command: the one on disk, then the one about to be saved.             *)
(***************************************************************************)
EXTENDS Dagon, TLAPS

-----------------------------------------------------------------------------
(* Versions and ranges. *)

LEMMA EarlierTotal ==
  ASSUME NEW v \in Versions, NEW w \in Versions
  PROVE  ~Earlier(v, w) <=> Earlier(w, v) \/ v = w
<1>1. /\ v = <<v[1], v[2], v[3]>> /\ v[1] \in Nat /\ v[2] \in Nat /\ v[3] \in Nat
      /\ w = <<w[1], w[2], w[3]>> /\ w[1] \in Nat /\ w[2] \in Nat /\ w[3] \in Nat
  BY DEF Versions
<1>2. v = w <=> v[1] = w[1] /\ v[2] = w[2] /\ v[3] = w[3]
  BY <1>1
<1> QED
  BY <1>1, <1>2 DEF Earlier

LEMMA RangeEnds ==
  ASSUME NEW w
  PROVE  /\ \A end \in Including(w) : end.v = w /\ end.bound = "included"
         /\ \A end \in Excluding(w) : end.v = w /\ end.bound = "excluded"
         /\ Including(w) # {} /\ Excluding(w) # {}
BY DEF Including, Excluding

LEMMA InRangeEnds ==
  ASSUME NEW w, NEW v
  PROVE  /\ AboveAll(Including(w), v) <=> Earlier(w, v) \/ w = v
         /\ BelowAll(Including(w), v) <=> Earlier(v, w) \/ w = v
         /\ AboveAll(Excluding(w), v) <=> Earlier(w, v)
         /\ BelowAll(Excluding(w), v) <=> Earlier(v, w)
         /\ AboveAll({}, v) /\ BelowAll({}, v)
BY RangeEnds DEF AboveAll, BelowAll

(* The ranges the solver is given take exactly the versions that            *)
(* VersionReq::matches takes.                                               *)
THEOREM RangesMatch ==
  ASSUME NEW req \in Requirements, NEW v \in Versions
  PROVE  InRange(ToRanges(req), v) <=> Matches(req, v)
<1>0. req.v \in Versions /\ req.op \in {"*", "=", ">=", ">", "<=", "<", "^"}
  BY DEF Requirements
<1>1. CASE req.op = "*"
  <2>1. ToRanges(req) = [low |-> {}, high |-> {}] /\ (Matches(req, v) <=> TRUE)
    BY <1>1, Zenon DEF ToRanges, Matches
  <2> QED
    BY <2>1, InRangeEnds DEF InRange
<1>2. CASE req.op = "="
  <2>1. ToRanges(req) = [low |-> Including(req.v), high |-> Including(req.v)] /\ (Matches(req, v) <=> v = req.v)
    BY <1>2, Zenon DEF ToRanges, Matches
  <2> QED
    BY <2>1, <1>0, InRangeEnds, EarlierTotal DEF InRange
<1>3. CASE req.op = ">="
  <2>1. ToRanges(req) = [low |-> Including(req.v), high |-> {}] /\ (Matches(req, v) <=> ~Earlier(v, req.v))
    BY <1>3, Zenon DEF ToRanges, Matches
  <2> QED
    BY <2>1, <1>0, InRangeEnds, EarlierTotal DEF InRange
<1>4. CASE req.op = ">"
  <2>1. ToRanges(req) = [low |-> Excluding(req.v), high |-> {}] /\ (Matches(req, v) <=> Earlier(req.v, v))
    BY <1>4, Zenon DEF ToRanges, Matches
  <2> QED
    BY <2>1, <1>0, InRangeEnds, EarlierTotal DEF InRange
<1>5. CASE req.op = "<="
  <2>1. ToRanges(req) = [low |-> {}, high |-> Including(req.v)] /\ (Matches(req, v) <=> ~Earlier(req.v, v))
    BY <1>5, Zenon DEF ToRanges, Matches
  <2> QED
    BY <2>1, <1>0, InRangeEnds, EarlierTotal DEF InRange
<1>6. CASE req.op = "<"
  <2>1. ToRanges(req) = [low |-> {}, high |-> Excluding(req.v)] /\ (Matches(req, v) <=> Earlier(v, req.v))
    BY <1>6, Zenon DEF ToRanges, Matches
  <2> QED
    BY <2>1, <1>0, InRangeEnds, EarlierTotal DEF InRange
<1>7. CASE req.op = "^"
  <2> DEFINE ends == CompatibleEnd(req.v)
  <2>1. CASE req.v = <<0, 0, 0>>
    <3>1. ends = {}
      BY <2>1 DEF CompatibleEnd
    <3>2. ToRanges(req) = [low |-> Including(req.v), high |-> Including(req.v)] /\ (Matches(req, v) <=> v = req.v)
      BY <1>7, <2>1, <3>1, Zenon DEF ToRanges, Matches
    <3> QED
      BY <1>0, <3>2, InRangeEnds, EarlierTotal DEF InRange
  <2>2. CASE req.v # <<0, 0, 0>>
    <3>0. req.v[1] > 0 \/ req.v[2] > 0 \/ req.v[3] > 0
      <4>1. req.v = <<req.v[1], req.v[2], req.v[3]>> /\ req.v[1] \in Nat /\ req.v[2] \in Nat /\ req.v[3] \in Nat
        BY <1>0 DEF Versions
      <4>2. ~(req.v[1] = 0 /\ req.v[2] = 0 /\ req.v[3] = 0)
        BY <4>1, <2>2
      <4> QED
        BY <4>1, <4>2
    <3>1. ends # {}
      BY <3>0 DEF CompatibleEnd
    <3>2. ToRanges(req) = [low |-> Including(req.v), high |-> UNION {Excluding(end) : end \in ends}]
      BY <1>7, <3>1, Zenon DEF ToRanges
    <3>3. Matches(req, v) <=> ~Earlier(v, req.v) /\ \A end \in ends : Earlier(v, end)
      BY <1>7, <2>2, Zenon DEF Matches
    <3>4. BelowAll(UNION {Excluding(end) : end \in ends}, v) <=> \A end \in ends : Earlier(v, end)
      BY RangeEnds DEF BelowAll
    <3>5. AboveAll(Including(req.v), v) <=> ~Earlier(v, req.v)
      BY <1>0, InRangeEnds, EarlierTotal
    <3> QED
      BY <3>2, <3>3, <3>4, <3>5 DEF InRange
  <2> QED
    BY <2>1, <2>2
<1> QED
  BY <1>0, <1>1, <1>2, <1>3, <1>4, <1>5, <1>6, <1>7

LEMMA PuttingFacts ==
  ASSUME NEW d, NEW k, NEW v
  PROVE  /\ DOMAIN Putting(d, k, v) = DOMAIN d \cup {k}
         /\ Putting(d, k, v)[k] = v
         /\ \A x \in DOMAIN d \ {k} : Putting(d, k, v)[x] = d[x]
BY DEF Putting

LEMMA RootDepsFacts ==
  ASSUME NEW m
  PROVE  /\ DOMAIN RootDeps(m) = DOMAIN m.build \cup DOMAIN m.normal
         /\ \A x \in DOMAIN m.build : RootDeps(m)[x] = m.build[x]
         /\ \A x \in DOMAIN m.normal \ DOMAIN m.build : RootDeps(m)[x] = m.normal[x]
BY DEF RootDeps

LEMMA EmptyDeps == DOMAIN <<>> = {} /\ IsDeps(<<>>)
BY DEF IsDeps

-----------------------------------------------------------------------------
Past == {"upload", "uploading", "merge", "index", "indexing"}
PublishSteps == Past \cup {"check"}

Lists(entries, v) == \E e \in entries : e.v = v
IsEntries(entries, v) == (\A e \in entries : IsEntry(e)) /\ Lists(entries, v)

(* What a command keeps at each of its steps. *)
CommandShape(c) ==
  \/ c = NoCommand
  \/ /\ c.at = "check" /\ c = [at |-> "check", version |-> c.version, deps |-> c.deps]
     /\ c.version \in Versions /\ IsDeps(c.deps)
  \/ /\ c.at \in Past /\ c = [at |-> c.at, version |-> c.version, entries |-> c.entries]
     /\ c.version \in Versions /\ IsEntries(c.entries, c.version)
  \/ /\ c.at = "fetch"
     /\ c = [at |-> "fetch", kind |-> c.kind, m |-> c.m, original |-> c.original,
              queue |-> c.queue, graph |-> c.graph]
     /\ IsManifest(c.m) /\ IsManifest(c.original) /\ c.queue \subseteq Packages
     /\ \A p \in DOMAIN c.graph : \A e \in c.graph[p] : IsEntry(e)
  \/ /\ c.at \in {"locking", "save"} /\ c = [at |-> c.at, kind |-> c.kind, m |-> c.m, locked |-> c.locked]
     /\ IsManifest(c.m)
  \/ /\ c.at = "saving" /\ c = [at |-> "saving", m |-> c.m]
     /\ IsManifest(c.m)

IndexShape(file) ==
  \/ file \in {NoFile, TornFile}
  \/ file.is = "whole" /\ file = IndexFile(file.entries) /\ \A e \in file.entries : IsEntry(e)

TypeInv ==
  /\ DOMAIN pkgIndex = Packages /\ \A p \in Packages : IndexShape(pkgIndex[p])
  /\ DOMAIN manifest = Users
  /\ \A u \in Users : manifest[u] \in {NoFile, TornFile} \/ IsManifest(manifest[u])
  /\ DOMAIN lockFile = Users
  /\ DOMAIN command = Users /\ \A u \in Users : CommandShape(command[u])

-----------------------------------------------------------------------------
Slot(u) == <<PackageOf[u], command[u].version>>
IsPast(u) == command[u].at \in Past
Holds(u) == command[u].at \in {"index", "indexing"} \/ (registryKind = "http" /\ command[u].at = "upload")
Stored(p, e) ==
  \/ <<p, e.v>> \in contested \/ p \in shrunk
  \/ <<p, e.v>> \in DOMAIN archive /\ archive[<<p, e.v>>] = e.sum

(* A package whose index two publishes hold at once is raced; unless it is, *)
(* who holds the index writes back all that was ever listed.                *)
HoldersInv ==
  /\ \A u, w \in Users :
       u # w /\ PackageOf[u] = PackageOf[w] /\ Holds(u) /\ Holds(w) => PackageOf[u] \in raced
  /\ \A u \in Users : Holds(u) /\ PackageOf[u] \notin raced =>
       \A pv \in listed : pv[1] = PackageOf[u] => Lists(command[u].entries, pv[2])
  /\ \A u \in Users : command[u].at = "indexing" /\ PackageOf[u] \notin raced =>
       pkgIndex[PackageOf[u]].is = "torn"
  /\ PublishedStays

(* An index lists what it has listed before, unless its package shrunk, and *)
(* what a publish has read of it was listed.                                *)
ListedInv ==
  /\ \A pv \in listed : pv = <<pv[1], pv[2]>>
  /\ \A p \in Packages : p \notin shrunk /\ pkgIndex[p].is # "torn" =>
       \A pv \in listed : pv[1] = p => Lists(EntriesOf(pkgIndex[p]), pv[2])
  /\ \A p \in Packages : \A e \in EntriesOf(pkgIndex[p]) : <<p, e.v>> \in listed
  /\ \A u \in Users : IsPast(u) => \A e \in command[u].entries :
       e.v = command[u].version \/ <<PackageOf[u], e.v>> \in listed

(* Two publishes of one version at the same time are contested; otherwise a *)
(* version is published where it was never listed.                          *)
SlotsInv ==
  /\ \A u, w \in Users :
       u # w /\ command[u].at \in PublishSteps /\ command[w].at \in PublishSteps /\ Slot(u) = Slot(w) =>
         Slot(u) \in contested
  /\ \A u \in Users : IsPast(u) =>
       Slot(u) \in contested \/ PackageOf[u] \in shrunk \/ Slot(u) \notin listed

(* Every entry listed, or about to be, has its archive: those that were     *)
(* read from the index, and once it is uploaded the one being published.    *)
ArchiveInv ==
  /\ \A p \in Packages : \A e \in EntriesOf(pkgIndex[p]) : Stored(p, e)
  /\ \A u \in Users : IsPast(u) => \A e \in command[u].entries :
       IF e.v = command[u].version THEN e.sum = u ELSE Stored(PackageOf[u], e)
  /\ \A u \in Users : command[u].at \in {"uploading", "merge", "index", "indexing"} =>
       \/ Slot(u) \in contested
       \/ /\ Slot(u) \in DOMAIN archive
          /\ archive[Slot(u)] = IF command[u].at = "uploading" THEN "torn" ELSE u

RegistryInv == HoldersInv /\ ListedInv /\ SlotsInv /\ ArchiveInv

(* The lock file has a version for every requirement of a manifest and of   *)
(* the packages it locks.                                                   *)
Covered(u, lock, name, req) ==
  IF name = PackageOf[u] THEN Matches(req, lock.root)
  ELSE name \in DOMAIN lock.chosen /\ Matches(req, lock.chosen[name])
Covers(u, lock, m) ==
  /\ \A d \in DOMAIN RootDeps(m) : Covered(u, lock, d, RootDeps(m)[d])
  /\ \A p \in DOMAIN lock.deps : \A d \in DOMAIN lock.deps[p] : Covered(u, lock, d, lock.deps[p][d])

(* The manifest the lock file answers at each step of a command. *)
LockedFor(u) ==
  IF command[u].at \in {"save", "saving"} THEN command[u].m ELSE manifest[u]

TidyLock(u) ==
  /\ manifest[u] = TornFile => command[u].at = "saving"
  /\ command[u].at # "locking" /\ lockFile[u].is = "whole" => Covers(u, lockFile[u], LockedFor(u))
  /\ command[u].at \in {"locking", "save"} => manifest[u].is = "whole"
  /\ command[u].at = "locking" => Covers(u, command[u].locked, command[u].m)
  /\ command[u].at = "locking" /\ command[u].kind = "update" => command[u].m = manifest[u]
  /\ command[u].at = "fetch" => IsManifest(manifest[u])
  /\ command[u].at = "fetch" /\ command[u].kind = "update" => command[u].m = manifest[u]
  /\ command[u].at = "fetch" /\ command[u].kind # "update" /\ lockFile[u].is = "whole" =>
       Covers(u, lockFile[u], command[u].original)
LockOk(u) ==
  /\ manifest[u] = NoFile => lockFile[u] = NoFile
  /\ command[u].at \in {"fetch", "locking"} => manifest[u] # NoFile
  /\ u \notin untidy => TidyLock(u)
LockInv == \A u \in Users : LockOk(u)

-----------------------------------------------------------------------------
LEMMA DepsPut ==
  ASSUME NEW d, IsDeps(d), NEW name \in Packages, NEW req \in Requirements
  PROVE  IsDeps(Putting(d, name, req))
<1> DEFINE e == Putting(d, name, req)
<1>1. \A x \in DOMAIN e : x \in Packages /\ e[x] \in Requirements
  <2> SUFFICES ASSUME NEW x \in DOMAIN e PROVE x \in Packages /\ e[x] \in Requirements
    OBVIOUS
  <2>1. CASE x = name
    BY <2>1 DEF Putting
  <2>2. CASE x # name
    BY <2>2 DEF Putting, IsDeps
  <2> QED
    BY <2>1, <2>2
<1> QED
  BY <1>1 DEF IsDeps

LEMMA DepsDrop ==
  ASSUME NEW d, IsDeps(d), NEW name
  PROVE  IsDeps(Dropping(d, name))
BY DEF IsDeps, Dropping

LEMMA ManifestParts ==
  ASSUME NEW version \in Versions, NEW normal, NEW dev, NEW build,
         IsDeps(normal), IsDeps(dev), IsDeps(build)
  PROVE  IsManifest(ManifestFile(version, normal, dev, build))
BY DEF IsManifest, ManifestFile

LEMMA AddedManifest ==
  ASSUME NEW m, IsManifest(m), NEW name \in Packages, NEW req \in Requirements, NEW dev \in BOOLEAN
  PROVE  IsManifest(AddDependency(m, name, req, dev))
<1>1. m = ManifestFile(m.version, m.normal, m.dev, m.build) /\ m.version \in Versions
      /\ IsDeps(m.normal) /\ IsDeps(m.dev) /\ IsDeps(m.build)
  BY DEF IsManifest
<1>2. CASE dev
  <2>1. AddDependency(m, name, req, dev) = ManifestFile(m.version, m.normal, Putting(m.dev, name, req), m.build)
    BY <1>1, <1>2 DEF AddDependency, ManifestFile
  <2> QED
    BY <1>1, <2>1, DepsPut, ManifestParts
<1>3. CASE ~dev
  <2>1. AddDependency(m, name, req, dev) = ManifestFile(m.version, Putting(m.normal, name, req), m.dev, m.build)
    BY <1>1, <1>3 DEF AddDependency, ManifestFile
  <2> QED
    BY <1>1, <2>1, DepsPut, ManifestParts
<1> QED
  BY <1>2, <1>3

(* A remove drops a requirement or, of a build dependency too, none. *)
LEMMA RemovedManifest ==
  ASSUME NEW m, IsManifest(m), NEW name, NEW dev \in BOOLEAN
  PROVE  LET n == RemoveDependency(m, name, dev) IN
         /\ IsManifest(n)
         /\ \A d \in DOMAIN RootDeps(n) : d \in DOMAIN RootDeps(m) /\ RootDeps(n)[d] = RootDeps(m)[d]
<1> DEFINE n == RemoveDependency(m, name, dev)
<1>r. ASSUME n.build = m.build, DOMAIN n.normal \subseteq DOMAIN m.normal,
             \A x \in DOMAIN n.normal : n.normal[x] = m.normal[x]
      PROVE  \A d \in DOMAIN RootDeps(n) : d \in DOMAIN RootDeps(m) /\ RootDeps(n)[d] = RootDeps(m)[d]
  <2> HIDE DEF n
  <2> QED
    BY <1>r DEF RootDeps
<1>1. m = ManifestFile(m.version, m.normal, m.dev, m.build) /\ m.version \in Versions
      /\ IsDeps(m.normal) /\ IsDeps(m.dev) /\ IsDeps(m.build)
  BY DEF IsManifest
<1>2. CASE dev
  <2>1. n = ManifestFile(m.version, m.normal, Dropping(m.dev, name), m.build)
    BY <1>1, <1>2 DEF RemoveDependency, ManifestFile
  <2>2. n.build = m.build /\ n.normal = m.normal
    BY <2>1 DEF ManifestFile
  <2> QED
    BY <1>1, <2>1, <2>2, <1>r, DepsDrop, ManifestParts
<1>3. CASE ~dev
  <2>1. n = ManifestFile(m.version, Dropping(m.normal, name), m.dev, m.build)
    BY <1>1, <1>3 DEF RemoveDependency, ManifestFile
  <2>2. n.build = m.build /\ n.normal = Dropping(m.normal, name)
    BY <2>1 DEF ManifestFile
  <2>3. DOMAIN n.normal = DOMAIN m.normal \ {name} /\ \A x \in DOMAIN n.normal : n.normal[x] = m.normal[x]
    BY <2>2 DEF Dropping
  <2> QED
    BY <1>1, <2>1, <2>2, <2>3, <1>r, DepsDrop, ManifestParts
<1> QED
  BY <1>2, <1>3

LEMMA NewManifestShape == IsManifest(NewManifest) /\ DOMAIN RootDeps(NewManifest) = {}
<1>1. <<0, 1, 0>> \in Versions
  BY DEF Versions
<1>2. NewManifest.build = <<>> /\ NewManifest.normal = <<>>
  BY DEF NewManifest, ManifestFile
<1> QED
  BY <1>1, <1>2, EmptyDeps, ManifestParts, RootDepsFacts DEF NewManifest

LEMMA RootRequirements ==
  ASSUME NEW m, IsManifest(m)
  PROVE  \A d \in DOMAIN RootDeps(m) : d \in Packages /\ RootDeps(m)[d] \in Requirements
BY RootDepsFacts DEF IsManifest, IsDeps

-----------------------------------------------------------------------------
LEMMA FileKinds ==
  /\ NoFile.is = "absent" /\ TornFile.is = "torn" /\ NoFile # TornFile
  /\ EntriesOf(NoFile) = {} /\ EntriesOf(TornFile) = {}
  /\ \A entries : IndexFile(entries).is = "whole" /\ EntriesOf(IndexFile(entries)) = entries
  /\ \A m : IsManifest(m) => m.is = "whole" /\ m # NoFile /\ m # TornFile
BY DEF NoFile, TornFile, IndexFile, EntriesOf, IsManifest

LEMMA IndexEntries ==
  ASSUME NEW file, IndexShape(file)
  PROVE  (\A e \in EntriesOf(file) : IsEntry(e)) /\ file.is \in {"absent", "torn", "whole"}
BY FileKinds DEF IndexShape, EntriesOf

LEMMA ShapeByStep ==
  ASSUME NEW c, CommandShape(c)
  PROVE  /\ c.at \in {"idle", "check", "fetch", "locking", "save", "saving"} \cup Past
         /\ c.at = "idle" => c = NoCommand
         /\ c.at = "check" => c.version \in Versions /\ IsDeps(c.deps)
         /\ c.at \in Past => /\ c = [at |-> c.at, version |-> c.version, entries |-> c.entries]
                            /\ c.version \in Versions /\ IsEntries(c.entries, c.version)
         /\ c.at = "fetch" => /\ c = [at |-> "fetch", kind |-> c.kind, m |-> c.m, original |-> c.original,
                                       queue |-> c.queue, graph |-> c.graph]
                              /\ IsManifest(c.m) /\ IsManifest(c.original) /\ c.queue \subseteq Packages
                              /\ \A p \in DOMAIN c.graph : \A e \in c.graph[p] : IsEntry(e)
         /\ c.at \in {"locking", "save"} =>
              c = [at |-> c.at, kind |-> c.kind, m |-> c.m, locked |-> c.locked] /\ IsManifest(c.m)
         /\ c.at = "saving" => c = [at |-> "saving", m |-> c.m] /\ IsManifest(c.m)
BY DEF CommandShape, NoCommand, Past

(* Going on to the next step of a publish, or from the lock to the manifest. *)
LEMMA NextPast ==
  ASSUME NEW c, CommandShape(c), c.at \in Past, NEW to \in Past
  PROVE  LET d == [c EXCEPT !.at = to] IN
         CommandShape(d) /\ d.at = to /\ d.version = c.version /\ d.entries = c.entries
<1>1. c = [at |-> c.at, version |-> c.version, entries |-> c.entries]
      /\ c.version \in Versions /\ IsEntries(c.entries, c.version)
  BY ShapeByStep
<1>2. [c EXCEPT !.at = to] = [at |-> to, version |-> c.version, entries |-> c.entries]
  BY <1>1
<1> QED
  BY <1>1, <1>2 DEF CommandShape

LEMMA NextSave ==
  ASSUME NEW c, CommandShape(c), c.at = "locking"
  PROVE  LET d == [c EXCEPT !.at = "save"] IN
         CommandShape(d) /\ d.at = "save" /\ d.m = c.m /\ d.kind = c.kind
<1>1. c = [at |-> c.at, kind |-> c.kind, m |-> c.m, locked |-> c.locked] /\ IsManifest(c.m)
  BY ShapeByStep
<1>2. [c EXCEPT !.at = "save"] = [at |-> "save", kind |-> c.kind, m |-> c.m, locked |-> c.locked]
  BY <1>1
<1> QED
  BY <1>1, <1>2 DEF CommandShape

LEMMA CommandStep ==
  ASSUME TypeInv, NEW u \in Users, NEW c, command' = [command EXCEPT ![u] = c]
  PROVE  /\ DOMAIN command' = Users /\ command'[u] = c
         /\ \A w \in Users \ {u} : command'[w] = command[w]
         /\ CommandShape(c) => \A w \in Users : CommandShape(command'[w])
BY DEF TypeInv

LEMMA IdleShape == CommandShape(NoCommand) /\ NoCommand.at = "idle"
BY DEF CommandShape, NoCommand

-----------------------------------------------------------------------------
LEMMA InitType == PackagesInit => TypeInv
<1> SUFFICES ASSUME PackagesInit PROVE TypeInv
  OBVIOUS
<1>1. PICK published \in Registries :
        pkgIndex = [p \in DOMAIN published |-> IF published[p] = {} THEN NoFile ELSE IndexFile(published[p])]
  BY DEF PackagesInit
<1>2. DOMAIN published = Packages /\ \A p \in Packages : \A e \in published[p] : IsEntry(e)
  BY PackagesAssumption
<1>3. \A p \in Packages : IndexShape(pkgIndex[p])
  <2> SUFFICES ASSUME NEW p \in Packages PROVE IndexShape(pkgIndex[p])
    OBVIOUS
  <2>1. CASE published[p] = {}
    BY <1>1, <1>2, <2>1 DEF IndexShape
  <2>2. CASE published[p] # {}
    <3>1. pkgIndex[p] = IndexFile(published[p]) /\ IndexFile(published[p]).entries = published[p]
          /\ IndexFile(published[p]).is = "whole"
      BY <1>1, <1>2, <2>2 DEF IndexFile
    <3> QED
      BY <1>2, <3>1 DEF IndexShape
  <2> QED
    BY <2>1, <2>2
<1> QED
  BY <1>1, <1>2, <1>3, PackagesAssumption, IdleShape DEF PackagesInit, TypeInv

(* Only the index of u's own package and u's own command change. *)
LEMMA TypeByParts ==
  ASSUME TypeInv, NEW u \in Users, NEW c, command' = [command EXCEPT ![u] = c], CommandShape(c),
         pkgIndex' = pkgIndex \/ (\E file : IndexShape(file) /\ pkgIndex' = [pkgIndex EXCEPT ![PackageOf[u]] = file]),
         manifest' = manifest
           \/ (\E m : (m \in {NoFile, TornFile} \/ IsManifest(m)) /\ manifest' = [manifest EXCEPT ![u] = m]),
         lockFile' = lockFile \/ (\E lock : lockFile' = [lockFile EXCEPT ![u] = lock])
  PROVE  TypeInv'
<1>1. DOMAIN command' = Users /\ \A w \in Users : CommandShape(command'[w])
  BY CommandStep
<1>2. DOMAIN pkgIndex' = Packages /\ \A p \in Packages : IndexShape(pkgIndex'[p])
  BY DEF TypeInv
<1>3. DOMAIN manifest' = Users /\ \A w \in Users : manifest'[w] \in {NoFile, TornFile} \/ IsManifest(manifest'[w])
  BY DEF TypeInv
<1>4. DOMAIN lockFile' = Users
  BY DEF TypeInv
<1> QED
  BY <1>1, <1>2, <1>3, <1>4 DEF TypeInv

LEMMA ShapeNow ==
  ASSUME TypeInv, NEW u \in Users
  PROVE  /\ CommandShape(command[u]) /\ PackageOf[u] \in Packages /\ IndexShape(pkgIndex[PackageOf[u]])
         /\ manifest[u].is = "whole" => IsManifest(manifest[u])
BY PackagesAssumption, FileKinds DEF TypeInv

LEMMA UpsertEntries ==
  ASSUME NEW file, IndexShape(file), NEW mine, IsEntry(mine)
  PROVE  IsEntries(Upsert(EntriesOf(file), mine), mine.v)
BY IndexEntries DEF Upsert, IsEntries, Lists

LEMMA PublishType ==
  ASSUME TypeInv, NEW u \in Users,
         \/ Publish(u) \/ CheckVersion(u) \/ UploadArchive(u) \/ ArchiveUploaded(u) \/ MergeIndex(u)
         \/ WriteIndex(u) \/ IndexWritten(u) \/ PutArchive(u) \/ PutIndex(u) \/ Halt(u)
  PROVE  TypeInv'
<1> USE ShapeNow
<1>d. ASSUME command' = [command EXCEPT ![u] = NoCommand], UNCHANGED <<pkgIndex, manifest, lockFile>>
      PROVE  TypeInv'
  BY <1>d, IdleShape, TypeByParts
<1>n. ASSUME NEW to \in Past, Proceeds(u, to), command[u].at \in Past, UNCHANGED <<manifest, lockFile>>,
             pkgIndex' = pkgIndex \/ (\E file : IndexShape(file) /\ pkgIndex' = [pkgIndex EXCEPT ![PackageOf[u]] = file])
      PROVE  TypeInv'
  <2>1. command' = [command EXCEPT ![u] = [command[u] EXCEPT !.at = to]]
    BY <1>n DEF Proceeds, TypeInv
  <2> QED
    BY <1>n, <2>1, NextPast, TypeByParts
<1>f. IndexShape(TornFile) /\ (command[u].at \in Past => IndexShape(IndexFile(command[u].entries)))
  BY ShapeByStep DEF IndexShape, IndexFile, IsEntries
<1>1. CASE Publish(u)
  <2> DEFINE c == [at |-> "check", version |-> manifest[u].version, deps |-> manifest[u].normal]
  <2>1. command' = [command EXCEPT ![u] = c] /\ IsManifest(manifest[u])
    BY <1>1 DEF Publish, Begins
  <2>2. CommandShape(c)
    BY <2>1 DEF CommandShape, IsManifest
  <2> QED
    BY <1>1, <2>1, <2>2, TypeByParts DEF Publish
<1>2. CASE CheckVersion(u)
  <2>1. command[u].at = "check"
    BY <1>2 DEF CheckVersion, CommandAt
  <2> DEFINE mine == IndexEntry(command[u].version, command[u].deps, u)
             c == [at |-> "upload", version |-> command[u].version,
                   entries |-> Upsert(EntriesOf(pkgIndex[PackageOf[u]]), mine)]
  <2>2. IsEntry(mine) /\ mine.v = command[u].version
    BY <2>1, ShapeByStep DEF IsEntry, IndexEntry
  <2>3. CommandShape(c)
    <3>1. IsEntries(c.entries, command[u].version)
      BY <2>2, UpsertEntries
    <3> QED
      BY <2>1, <3>1, ShapeByStep DEF CommandShape, Past
  <2>4. UNCHANGED <<pkgIndex, manifest, lockFile>>
        /\ (command' = [command EXCEPT ![u] = NoCommand] \/ command' = [command EXCEPT ![u] = c])
    BY <1>2 DEF CheckVersion, Ends
  <2> HIDE DEF c
  <2> QED
    BY <1>d, <2>3, <2>4, TypeByParts
<1>3. CASE UploadArchive(u)
  BY <1>3, <1>n DEF UploadArchive, CommandAt, Past
<1>4. CASE ArchiveUploaded(u)
  BY <1>4, <1>n DEF ArchiveUploaded, CommandAt, Past
<1>5. CASE MergeIndex(u)
  <2>1. command[u].at = "merge" /\ command[u].at \in Past
    BY <1>5 DEF MergeIndex, CommandAt, Past
  <2> DEFINE mine == CHOOSE e \in command[u].entries : e.v = command[u].version
             es == Upsert(EntriesOf(pkgIndex[PackageOf[u]]), mine)
             c == [at |-> "index", version |-> command[u].version, entries |-> es]
  <2>2. UNCHANGED <<pkgIndex, manifest, lockFile>>
        /\ \/ command' = [command EXCEPT ![u] = NoCommand]
           \/ command' = [command EXCEPT ![u] = c]
    BY <1>5 DEF MergeIndex, Ends
  <2>4. CommandShape(c)
    <3>1. mine \in command[u].entries /\ mine.v = command[u].version /\ IsEntry(mine)
      BY <2>1, ShapeByStep DEF IsEntries, Lists
    <3>2. IsEntries(es, command[u].version)
      BY <3>1, UpsertEntries
    <3> HIDE DEF es
    <3> QED
      BY <2>1, <3>2, ShapeByStep DEF CommandShape, Past
  <2> HIDE DEF c, es
  <2> QED
    BY <1>d, <2>2, <2>4, TypeByParts
<1>6. CASE WriteIndex(u)
  BY <1>6, <1>n, <1>f DEF WriteIndex, WritesIndex, CommandAt, Past
<1>7. CASE IndexWritten(u)
  BY <1>7, <1>f, IdleShape, TypeByParts DEF IndexWritten, WritesIndex, CommandAt, Past, Ends
<1>8. CASE PutArchive(u)
  BY <1>8, <1>n, <1>d DEF PutArchive, CommandAt, Past, Ends
<1>9. CASE PutIndex(u)
  BY <1>9, <1>f, IdleShape, TypeByParts DEF PutIndex, WritesIndex, CommandAt, Past, Ends
<1>10. CASE Halt(u)
  BY <1>10, <1>d DEF Halt, Ends
<1> QED
  BY <1>1, <1>2, <1>3, <1>4, <1>5, <1>6, <1>7, <1>8, <1>9, <1>10

LEMMA EditedManifest ==
  ASSUME NEW m, IsManifest(m), NEW patch \in Nat
  PROVE  LET n == [m EXCEPT !.version = <<m.version[1], m.version[2], patch>>] IN
         IsManifest(n) /\ n.normal = m.normal /\ n.build = m.build
<1>1. m = ManifestFile(m.version, m.normal, m.dev, m.build) /\ m.version \in Versions
      /\ IsDeps(m.normal) /\ IsDeps(m.dev) /\ IsDeps(m.build)
  BY DEF IsManifest
<1> DEFINE v == <<m.version[1], m.version[2], patch>>
<1>2. v \in Versions
  BY <1>1 DEF Versions
<1>3. [m EXCEPT !.version = v] = ManifestFile(v, m.normal, m.dev, m.build)
  <2> HIDE DEF v
  <2> QED
    BY <1>1 DEF ManifestFile
<1> HIDE DEF v
<1> QED
  BY <1>1, <1>2, <1>3, ManifestParts DEF ManifestFile, v

LEMMA BeginsFetch ==
  ASSUME TypeInv, NEW u \in Users, NEW kind, NEW m, NEW original, IsManifest(m), IsManifest(original),
         Begins(u, Resolving(kind, m, original)), UNCHANGED <<pkgIndex, manifest, lockFile>>
  PROVE  TypeInv'
<1>1. DOMAIN RootDeps(m) \subseteq Packages
  BY RootRequirements
<1>2. CommandShape(Resolving(kind, m, original))
  BY <1>1, EmptyDeps DEF CommandShape, Resolving, Fetching
<1> QED
  BY <1>2, TypeByParts DEF Begins

LEMMA SavingType ==
  ASSUME TypeInv, NEW u \in Users, NEW m, IsManifest(m), Saving(u, m), UNCHANGED <<pkgIndex, lockFile>>
  PROVE  TypeInv'
<1>1. CommandShape([at |-> "saving", m |-> m])
  BY DEF CommandShape
<1> QED
  BY <1>1, TypeByParts DEF Saving

LEMMA FailsResolveType ==
  ASSUME TypeInv, NEW u \in Users, command[u].at = "fetch", FailsResolve(u), UNCHANGED <<pkgIndex, lockFile>>
  PROVE  TypeInv'
<1>1. IsManifest(command[u].original)
  BY ShapeNow, ShapeByStep
<1> QED
  BY <1>1, SavingType, IdleShape, TypeByParts DEF FailsResolve, WrittenBack, Ends

LEMMA FetchType ==
  ASSUME TypeInv, NEW u \in Users, FetchIndex(u)
  PROVE  TypeInv'
<1>1. CommandAt(u, "fetch") /\ UNCHANGED <<pkgIndex, lockFile>>
  BY DEF FetchIndex
<1>2. CASE FailsResolve(u)
  BY <1>1, <1>2, FailsResolveType DEF CommandAt
<1>3. CASE ~FailsResolve(u)
  <2> DEFINE c == command[u]
             es(p) == EntriesOf(pkgIndex[p])
             graph(p) == Putting(c.graph, p, es(p))
             queue(p) == (c.queue \cup UNION {DOMAIN e.deps : e \in es(p)}) \ ({p, PackageOf[u]} \cup DOMAIN c.graph)
             d(p) == Fetching(c.kind, c.m, c.original, queue(p), graph(p))
  <2>1. /\ IsManifest(c.m) /\ IsManifest(c.original) /\ c.queue \subseteq Packages
        /\ \A p \in DOMAIN c.graph : \A e \in c.graph[p] : IsEntry(e)
    BY <1>1, ShapeNow, ShapeByStep DEF CommandAt
  <2>2. PICK p \in c.queue : command' = [command EXCEPT ![u] = d(p)] /\ UNCHANGED manifest
    BY <1>3, Zenon DEF FetchIndex
  <2>4. \A e \in es(p) : IsEntry(e)
    BY <2>1, IndexEntries DEF TypeInv
  <2>5. queue(p) \subseteq Packages
    BY <2>1, <2>4 DEF IsEntry, IsDeps
  <2>6. \A q \in DOMAIN graph(p) : \A e \in graph(p)[q] : IsEntry(e)
    BY <2>1, <2>4 DEF Putting
  <2>7. CommandShape(d(p))
    <3> HIDE DEF graph, queue
    <3> QED
      BY <2>1, <2>5, <2>6 DEF CommandShape, Fetching
  <2> HIDE DEF d
  <2> QED
    BY <1>1, <2>2, <2>7, TypeByParts
<1> QED
  BY <1>2, <1>3

LEMMA ManifestType ==
  ASSUME TypeInv, NEW u \in Users,
         \/ NewProject(u) \/ BeginAdd(u) \/ BeginRemove(u) \/ BeginUpdate(u) \/ FetchIndex(u) \/ ResolveGraph(u)
         \/ LockWritten(u) \/ SaveManifest(u) \/ ManifestSaved(u) \/ EditVersion(u)
  PROVE  TypeInv'
<1> USE ShapeNow
<1>1. CASE NewProject(u)
  BY <1>1, NewManifestShape, SavingType DEF NewProject
<1>2. CASE BeginAdd(u)
  <2>1. PICK add \in Additions :
          Begins(u, Resolving("add", AddDependency(manifest[u], add[1], add[2], add[3]), manifest[u]))
    BY <1>2 DEF BeginAdd
  <2>2. IsManifest(manifest[u])
    BY <2>1 DEF Begins
  <2>3. IsManifest(AddDependency(manifest[u], add[1], add[2], add[3]))
    BY <2>2, AddedManifest, PackagesAssumption
  <2> QED
    BY <1>2, <2>1, <2>2, <2>3, BeginsFetch DEF BeginAdd
<1>3. CASE BeginRemove(u)
  <2>1. PICK dev \in BOOLEAN : \E name \in DOMAIN DependencyTable(manifest[u], dev) :
          Begins(u, Resolving("remove", RemoveDependency(manifest[u], name, dev), RemoveDependency(manifest[u], name, dev)))
    BY <1>3 DEF BeginRemove
  <2> PICK name \in DOMAIN DependencyTable(manifest[u], dev) :
          Begins(u, Resolving("remove", RemoveDependency(manifest[u], name, dev), RemoveDependency(manifest[u], name, dev)))
    BY <2>1
  <2>2. IsManifest(RemoveDependency(manifest[u], name, dev))
    BY <1>3, RemovedManifest DEF BeginRemove
  <2> QED
    BY <1>3, <2>2, BeginsFetch DEF BeginRemove
<1>4. CASE BeginUpdate(u)
  BY <1>4, BeginsFetch DEF BeginUpdate, Begins
<1>5. CASE FetchIndex(u)
  BY <1>5, FetchType
<1>6. CASE ResolveGraph(u)
  <2>1. command[u].at = "fetch" /\ IsManifest(command[u].m) /\ UNCHANGED pkgIndex
    BY <1>6, ShapeByStep DEF ResolveGraph, CommandAt
  <2>2. CASE FailsResolve(u) /\ UNCHANGED lockFile
    BY <2>1, <2>2, FailsResolveType
  <2>3. ASSUME NEW lock, command' = [command EXCEPT ![u] =
                 [at |-> "locking", kind |-> command[u].kind, m |-> command[u].m, locked |-> lock]],
               lockFile' = [lockFile EXCEPT ![u] = TornFile], UNCHANGED manifest
        PROVE  TypeInv'
    <3>1. CommandShape([at |-> "locking", kind |-> command[u].kind, m |-> command[u].m, locked |-> lock])
      BY <2>1 DEF CommandShape
    <3> QED
      BY <2>1, <2>3, <3>1, TypeByParts
  <2> QED
    BY <1>6, <2>2, <2>3 DEF ResolveGraph
<1>7. CASE LockWritten(u)
  <2>1. CASE Ends(u)
    BY <1>7, <2>1, IdleShape, TypeByParts DEF LockWritten, Ends
  <2>2. CASE Proceeds(u, "save")
    <3>1. command' = [command EXCEPT ![u] = [command[u] EXCEPT !.at = "save"]]
      BY <2>2 DEF Proceeds, TypeInv
    <3>2. CommandShape([command[u] EXCEPT !.at = "save"])
      BY <1>7, NextSave DEF LockWritten, CommandAt
    <3> QED
      BY <1>7, <3>1, <3>2, TypeByParts DEF LockWritten
  <2> QED
    BY <1>7, <2>1, <2>2 DEF LockWritten
<1>8. CASE SaveManifest(u)
  BY <1>8, SavingType, ShapeByStep DEF SaveManifest, CommandAt
<1>9. CASE ManifestSaved(u)
  BY <1>9, IdleShape, TypeByParts, ShapeByStep DEF ManifestSaved, CommandAt, Ends
<1>10. CASE EditVersion(u)
  <2>1. IsManifest(manifest[u])
    BY <1>10 DEF EditVersion, Begins
  <2>2. PICK patch \in Patches : manifest' = [manifest EXCEPT ![u] =
          [manifest[u] EXCEPT !.version = <<manifest[u].version[1], manifest[u].version[2], patch>>]]
    BY <1>10 DEF EditVersion, TypeInv
  <2>3. IsManifest([manifest[u] EXCEPT !.version = <<manifest[u].version[1], manifest[u].version[2], patch>>])
    BY <2>1, EditedManifest, PackagesAssumption
  <2> QED
    BY <1>10, <2>2, <2>3, IdleShape, TypeByParts DEF EditVersion, Begins
<1> QED
  BY <1>1, <1>2, <1>3, <1>4, <1>5, <1>6, <1>7, <1>8, <1>9, <1>10

LEMMA TypeStep == TypeInv /\ [PackagesNext]_pkgVars => TypeInv'
<1>1. TypeInv /\ UNCHANGED pkgVars => TypeInv'
  BY DEF TypeInv, pkgVars
<1> QED
  BY <1>1, PublishType, ManifestType DEF PackagesNext

-----------------------------------------------------------------------------
LEMMA PublishedSame ==
  ASSUME NEW u \in Users, NEW w \in Users
  PROVE  /\ Publishing(w, PackageOf[u]) <=> PackageOf[w] = PackageOf[u] /\ command[w].at \in PublishSteps
         /\ HoldsIndex(w, PackageOf[u]) <=> PackageOf[w] = PackageOf[u] /\ Holds(w)
BY DEF Publishing, HoldsIndex, Holds, PublishSteps, Past, CommandAt

LEMMA InitRegistry == PackagesInit => RegistryInv
<1> SUFFICES ASSUME PackagesInit PROVE RegistryInv
  OBVIOUS
<1>1. PICK published \in Registries :
        /\ pkgIndex = [p \in DOMAIN published |-> IF published[p] = {} THEN NoFile ELSE IndexFile(published[p])]
        /\ listed = UNION {{<<p, e.v>> : e \in published[p]} : p \in DOMAIN published}
        /\ archive = [pv \in listed |-> "registry"]
  BY DEF PackagesInit
<1>2. DOMAIN published = Packages /\ \A p \in Packages : \A e \in published[p] : e.sum = "registry"
  BY PackagesAssumption
<1>3. \A p \in Packages : EntriesOf(pkgIndex[p]) = published[p] /\ pkgIndex[p].is # "torn"
  BY <1>1, <1>2, FileKinds
<1>4. \A u \in Users : command[u].at = "idle"
  BY IdleShape DEF PackagesInit
<1>5. raced = {} /\ shrunk = {} /\ DOMAIN pkgIndex = Packages
  BY <1>1, <1>2 DEF PackagesInit
<1>6. \A p \in Packages : \A e \in published[p] : <<p, e.v>> \in listed
  BY <1>1, <1>2
<1>7. \A pv \in listed : \E p \in Packages : \E e \in published[p] : pv = <<p, e.v>>
  BY <1>1, <1>2
<1>8. HoldersInv
  BY <1>3, <1>4, <1>5 DEF HoldersInv, Holds, PublishedStays
<1>9. ListedInv
  <2>1. \A pv \in listed : pv = <<pv[1], pv[2]>>
    BY <1>7
  <2>2. \A p \in Packages : \A pv \in listed : pv[1] = p => Lists(EntriesOf(pkgIndex[p]), pv[2])
    BY <1>3, <1>7 DEF Lists
  <2> QED
    BY <1>3, <1>4, <1>6, <2>1, <2>2 DEF ListedInv, IsPast, Past
<1>10. SlotsInv
  BY <1>4 DEF SlotsInv, IsPast, Past, PublishSteps
<1>11. ArchiveInv
  <2>1. \A p \in Packages : \A e \in EntriesOf(pkgIndex[p]) : Stored(p, e)
    BY <1>1, <1>2, <1>3, <1>6 DEF Stored
  <2> QED
    BY <1>4, <2>1 DEF ArchiveInv, IsPast, Past
<1> QED
  BY <1>8, <1>9, <1>10, <1>11 DEF RegistryInv

(* Commands that end, or that are no publish. *)
LEMMA DropKeeps ==
  ASSUME TypeInv, RegistryInv,
         UNCHANGED <<registryKind, pkgIndex, archive, raced, contested, listed, shrunk>>,
         untidy \subseteq untidy',
         \A w \in Users : \/ command'[w] = command[w]
                          \/ /\ command'[w].at \notin PublishSteps
                             /\ command[w].at = "indexing" => w \in untidy'
  PROVE  RegistryInv'
<1>1. \A w \in Users : command'[w].at \in PublishSteps => command'[w] = command[w]
  OBVIOUS
<1>2. HoldersInv'
  <2>1. \A w \in Users : Holds(w)' => Holds(w) /\ command'[w] = command[w]
    BY <1>1 DEF Holds, PublishSteps, Past
  <2>2. PublishedStays'
    BY DEF RegistryInv, HoldersInv, PublishedStays, CommandAt
  <2> QED
    BY <1>1, <2>1, <2>2 DEF RegistryInv, HoldersInv, PublishSteps, Past
<1>3. ListedInv'
  BY <1>1 DEF RegistryInv, ListedInv, IsPast, PublishSteps
<1>4. SlotsInv'
  BY <1>1 DEF RegistryInv, SlotsInv, IsPast, Slot, PublishSteps
<1>5. ArchiveInv'
  <2>1. \A p : \A e : Stored(p, e)' <=> Stored(p, e)
    BY DEF Stored
  <2> QED
    BY <1>1, <2>1 DEF RegistryInv, ArchiveInv, IsPast, Slot, PublishSteps, Past
<1> QED
  BY <1>2, <1>3, <1>4, <1>5 DEF RegistryInv

LEMMA PublishKeeps ==
  ASSUME TypeInv, RegistryInv, NEW u \in Users, Publish(u)
  PROVE  RegistryInv'
<1>1. /\ command[u].at = "idle" /\ command'[u].at = "check" /\ command'[u].version = manifest[u].version
      /\ \A w \in Users \ {u} : command'[w] = command[w]
  BY DEF Publish, Begins, CommandAt, TypeInv
<1>2. UNCHANGED <<registryKind, pkgIndex, archive, raced, listed, shrunk, untidy>>
  BY DEF Publish
<1>3. /\ contested \subseteq contested'
      /\ \A w \in Users \ {u} :
           PackageOf[w] = PackageOf[u] /\ command[w].at \in PublishSteps /\ command[w].version = manifest[u].version
             => Slot(w) \in contested'
  BY PublishedSame DEF Publish, Slot
<1>4. \A w \in Users : command'[w].at \in Past => command'[w] = command[w] /\ w # u
  BY <1>1 DEF Past
<1>5. HoldersInv'
  <2>1. \A w \in Users : Holds(w)' => Holds(w) /\ command'[w] = command[w]
    BY <1>2, <1>4 DEF Holds, Past
  <2>2. PublishedStays'
    BY <1>1, <1>2 DEF RegistryInv, HoldersInv, PublishedStays, CommandAt
  <2> QED
    BY <1>2, <1>4, <2>1, <2>2 DEF RegistryInv, HoldersInv, Past
<1>6. ListedInv'
  BY <1>2, <1>4 DEF RegistryInv, ListedInv, IsPast
<1>7. SlotsInv'
  <2>1. \A v, w \in Users :
          v # w /\ command'[v].at \in PublishSteps /\ command'[w].at \in PublishSteps /\ Slot(v)' = Slot(w)' =>
            Slot(v)' \in contested'
    BY <1>1, <1>3 DEF RegistryInv, SlotsInv, Slot
  <2> QED
    BY <1>2, <1>3, <1>4, <2>1 DEF RegistryInv, SlotsInv, IsPast, Slot
<1>8. ArchiveInv'
  <2>1. \A p : \A e : Stored(p, e) => Stored(p, e)'
    BY <1>2, <1>3 DEF Stored
  <2> QED
    BY <1>2, <1>3, <1>4, <2>1 DEF RegistryInv, ArchiveInv, IsPast, Slot, Past
<1> QED
  BY <1>5, <1>6, <1>7, <1>8 DEF RegistryInv

-----------------------------------------------------------------------------
(* An upload touches no archive but that of the version being published.    *)
LEMMA UploadKeeps ==
  ASSUME TypeInv, RegistryInv, NEW u \in Users, NEW x, IsPast(u),
         archive' = Putting(archive, Slot(u), x),
         UNCHANGED <<registryKind, pkgIndex, histories>>,
         \A w \in Users \ {u} : command'[w] = command[w],
         command[u].at # "indexing",
         \/ command'[u].at \notin PublishSteps
         \/ /\ command'[u].at \in Past \ {"indexing"}
            /\ command'[u].version = command[u].version /\ command'[u].entries = command[u].entries
            /\ Holds(u)' => Holds(u)
            /\ command'[u].at = "uploading" => x = "torn"
            /\ command'[u].at \in {"merge", "index"} => x = u \/ Slot(u) \in contested
  PROVE  RegistryInv'
<1> USE DEF histories
<1>1. \A w \in Users : command'[w].at \in PublishSteps =>
        /\ Slot(w)' = Slot(w) /\ command[w].at \in PublishSteps
        /\ IsPast(w)' => IsPast(w) /\ command'[w].entries = command[w].entries
                         /\ command'[w].version = command[w].version
  BY DEF Slot, IsPast, PublishSteps
<1>2. \A w \in Users : IsPast(w)' => command'[w].at \in PublishSteps
  BY DEF IsPast, PublishSteps
<1>3. \A w \in Users : Holds(w)' => Holds(w) /\ IsPast(w)'
  BY DEF Holds, IsPast, Past, PublishSteps
<1>4. /\ \A pv \in DOMAIN archive \ {Slot(u)} : pv \in DOMAIN archive' /\ archive'[pv] = archive[pv]
      /\ Slot(u) \in DOMAIN archive' /\ archive'[Slot(u)] = x
  BY DEF Putting
<1>5. HoldersInv'
  <2>1. \A w \in Users : command'[w].at = "indexing" <=> command[w].at = "indexing"
    BY DEF PublishSteps, Past
  <2>2. PublishedStays'
    BY <2>1 DEF RegistryInv, HoldersInv, PublishedStays, CommandAt
  <2> QED
    BY <1>1, <1>2, <1>3, <2>1, <2>2 DEF RegistryInv, HoldersInv
<1>6. ListedInv'
  BY <1>1, <1>2 DEF RegistryInv, ListedInv
<1>7. SlotsInv'
  BY <1>1, <1>2 DEF RegistryInv, SlotsInv
<1>8. ArchiveInv'
  <2>1. ASSUME NEW p, NEW e, <<p, e.v>> \in listed, Stored(p, e)
        PROVE  Stored(p, e)'
    <3>1. CASE <<p, e.v>> = Slot(u)
      BY <2>1, <3>1 DEF Stored, Slot, RegistryInv, SlotsInv
    <3>2. CASE <<p, e.v>> # Slot(u)
      BY <1>4, <2>1, <3>2 DEF Stored
    <3> QED
      BY <3>1, <3>2
  <2>2. \A p \in Packages : \A e \in EntriesOf(pkgIndex'[p]) : Stored(p, e)'
    BY <2>1 DEF RegistryInv, ArchiveInv, ListedInv
  <2>3. ASSUME NEW w \in Users, IsPast(w)'
        PROVE  \A e \in command'[w].entries :
                 IF e.v = command'[w].version THEN e.sum = w ELSE Stored(PackageOf[w], e)'
    <3> SUFFICES ASSUME NEW e \in command'[w].entries
                 PROVE  IF e.v = command'[w].version THEN e.sum = w ELSE Stored(PackageOf[w], e)'
      OBVIOUS
    <3>1. IsPast(w) /\ e \in command[w].entries /\ command'[w].version = command[w].version
      BY <1>1, <1>2, <2>3
    <3>2. e.v # command[w].version => <<PackageOf[w], e.v>> \in listed /\ Stored(PackageOf[w], e)
      BY <3>1 DEF RegistryInv, ArchiveInv, ListedInv
    <3>3. e.v = command[w].version => e.sum = w
      BY <3>1 DEF RegistryInv, ArchiveInv
    <3> QED
      BY <2>1, <3>1, <3>2, <3>3
  <2>4. ASSUME NEW w \in Users, command'[w].at \in {"uploading", "merge", "index", "indexing"}
        PROVE  \/ Slot(w)' \in contested
               \/ /\ Slot(w)' \in DOMAIN archive'
                  /\ archive'[Slot(w)'] = IF command'[w].at = "uploading" THEN "torn" ELSE w
    <3>1. CASE w = u
      BY <1>1, <1>4, <2>4, <3>1 DEF PublishSteps, Past
    <3>2. CASE w # u /\ Slot(w) = Slot(u)
      BY <2>4, <3>2 DEF RegistryInv, SlotsInv, Slot, PublishSteps, Past, IsPast
    <3>3. CASE w # u /\ Slot(w) # Slot(u)
      BY <1>4, <2>4, <3>3 DEF RegistryInv, ArchiveInv, Slot
    <3> QED
      BY <3>1, <3>2, <3>3
  <2> QED
    BY <2>2, <2>3, <2>4 DEF ArchiveInv
<1> QED
  BY <1>5, <1>6, <1>7, <1>8 DEF RegistryInv

LEMMA UpsertFacts ==
  ASSUME NEW entries, NEW mine
  PROVE  /\ \A e \in Upsert(entries, mine) : e = mine \/ (e \in entries /\ e.v # mine.v)
         /\ \A v : Lists(entries, v) => Lists(Upsert(entries, mine), v)
BY DEF Upsert, Lists

(* The index is read and put together with the entry being published.       *)
LEMMA TakeKeeps ==
  ASSUME TypeInv, RegistryInv, NEW u \in Users, NEW mine,
         UNCHANGED <<registryKind, pkgIndex, archive, contested, listed, shrunk, untidy>>,
         \A w \in Users \ {u} : command'[w] = command[w],
         mine.v = command[u].version, mine.sum = u,
         pkgIndex[PackageOf[u]].is # "torn",
         command'[u].version = command[u].version,
         command'[u].entries = Upsert(EntriesOf(pkgIndex[PackageOf[u]]), mine),
         \/ /\ command[u].at = "check" /\ command'[u].at = "upload"
            /\ ~HasVersion(pkgIndex[PackageOf[u]], command[u].version)
            /\ IF registryKind = "http" THEN TakesIndex(u) ELSE UNCHANGED raced
         \/ /\ command[u].at = "merge" /\ command'[u].at = "index"
            /\ TakesIndex(u)
  PROVE  RegistryInv'
<1> DEFINE file == pkgIndex[PackageOf[u]]
<1>0. PackageOf[u] \in Packages
  BY ShapeNow
<1>1. \A w \in Users : Slot(w)' = Slot(w) /\ command'[w].version = command[w].version
                       /\ (command'[w].at \in PublishSteps <=> command[w].at \in PublishSteps)
  BY DEF Slot, PublishSteps, Past
<1>2. raced \subseteq raced'
      /\ (Holds(u)' => \A w \in Users \ {u} : PackageOf[w] = PackageOf[u] /\ Holds(w) => PackageOf[u] \in raced')
  BY PublishedSame DEF TakesIndex, Holds
<1>3. command[u].at # "indexing" /\ command'[u].at # "indexing"
  OBVIOUS
<1>4. HoldersInv'
  <2>1. \A w \in Users \ {u} : Holds(w)' <=> Holds(w)
    BY DEF Holds
  <2>2. \A v, w \in Users :
          v # w /\ PackageOf[v] = PackageOf[w] /\ Holds(v)' /\ Holds(w)' => PackageOf[v] \in raced'
    BY <1>2, <2>1 DEF RegistryInv, HoldersInv
  <2>3. ASSUME NEW w \in Users, Holds(w)', PackageOf[w] \notin raced'
        PROVE  \A pv \in listed : pv[1] = PackageOf[w] => Lists(command'[w].entries, pv[2])
    <3>1. CASE w = u
      <4>1. PackageOf[u] \notin shrunk
        BY <1>2, <2>3, <3>1 DEF RegistryInv, HoldersInv, PublishedStays
      <4>2. \A pv \in listed : pv[1] = PackageOf[u] => Lists(EntriesOf(file), pv[2])
        BY <1>0, <4>1 DEF RegistryInv, ListedInv
      <4> QED
        BY <3>1, <4>2, UpsertFacts
    <3>2. CASE w # u
      BY <1>2, <2>1, <2>3, <3>2 DEF RegistryInv, HoldersInv
    <3> QED
      BY <3>1, <3>2
  <2>4. PublishedStays'
    BY <1>2, <1>3 DEF RegistryInv, HoldersInv, PublishedStays, CommandAt
  <2> QED
    BY <1>2, <1>3, <2>2, <2>3, <2>4 DEF RegistryInv, HoldersInv
<1>5. ListedInv'
  <2>1. ASSUME NEW w \in Users, IsPast(w)'
        PROVE  \A e \in command'[w].entries : e.v = command'[w].version \/ <<PackageOf[w], e.v>> \in listed
    <3>1. CASE w = u
      BY <1>0, <3>1, UpsertFacts DEF RegistryInv, ListedInv
    <3>2. CASE w # u
      BY <2>1, <3>2 DEF RegistryInv, ListedInv, IsPast
    <3> QED
      BY <3>1, <3>2
  <2> QED
    BY <2>1 DEF RegistryInv, ListedInv
<1>6. SlotsInv'
  <2>1. ASSUME NEW w \in Users, IsPast(w)'
        PROVE  Slot(w) \in contested \/ PackageOf[w] \in shrunk \/ Slot(w) \notin listed
    <3>1. CASE IsPast(w)
      BY <3>1 DEF RegistryInv, SlotsInv
    <3>2. CASE ~IsPast(w)
      <4>1. w = u /\ command[u].at = "check"
        BY <2>1, <3>2 DEF IsPast, Past
      <4>2. ~Lists(EntriesOf(file), command[u].version)
        BY <4>1 DEF HasVersion, Lists
      <4>3. Slot(u) \in listed /\ PackageOf[u] \notin shrunk => Lists(EntriesOf(file), Slot(u)[2])
        BY <1>0 DEF RegistryInv, ListedInv, Slot
      <4> QED
        BY <4>1, <4>2, <4>3 DEF Slot
    <3> QED
      BY <3>1, <3>2
  <2> QED
    BY <1>1, <2>1 DEF RegistryInv, SlotsInv
<1>7. ArchiveInv'
  <2>1. \A p : \A e : Stored(p, e)' <=> Stored(p, e)
    BY DEF Stored
  <2>2. ASSUME NEW w \in Users, IsPast(w)'
        PROVE  \A e \in command'[w].entries :
                 IF e.v = command'[w].version THEN e.sum = w ELSE Stored(PackageOf[w], e)'
    <3>1. CASE w = u
      BY <1>0, <2>1, <3>1, UpsertFacts DEF RegistryInv, ArchiveInv
    <3>2. CASE w # u
      BY <2>1, <2>2, <3>2 DEF RegistryInv, ArchiveInv, IsPast
    <3> QED
      BY <3>1, <3>2
  <2>3. ASSUME NEW w \in Users, command'[w].at \in {"uploading", "merge", "index", "indexing"}
        PROVE  \/ Slot(w) \in contested
               \/ /\ Slot(w) \in DOMAIN archive
                  /\ archive[Slot(w)] = IF command'[w].at = "uploading" THEN "torn" ELSE w
    BY <2>3 DEF RegistryInv, ArchiveInv
  <2> QED
    BY <1>1, <2>1, <2>2, <2>3 DEF RegistryInv, ArchiveInv
<1> QED
  BY <1>4, <1>5, <1>6, <1>7 DEF RegistryInv

(* The index is written: torn first, or what the publish holds of it.       *)
LEMMA WriteKeeps ==
  ASSUME TypeInv, RegistryInv, NEW u \in Users, NEW file, Holds(u), command[u].at # "upload",
         WritesIndex(u, file), file = TornFile \/ file = IndexFile(command[u].entries),
         UNCHANGED <<registryKind, archive, raced, contested, untidy>>,
         \A w \in Users \ {u} : command'[w] = command[w],
         \/ /\ command'[u].at = "indexing" /\ file = TornFile
            /\ command'[u].version = command[u].version /\ command'[u].entries = command[u].entries
         \/ /\ command'[u].at \notin PublishSteps
            /\ file = TornFile => PackageOf[u] \in raced
  PROVE  RegistryInv'
<1> DEFINE p == PackageOf[u]
           lists == {<<p, e.v>> : e \in EntriesOf(file)}
<1>0. p \in Packages /\ IsPast(u) /\ command[u].at \in {"index", "indexing"}
  BY ShapeNow DEF Holds, IsPast, Past
<1>1. \A w \in Users : command'[w].at \in PublishSteps =>
        /\ Slot(w)' = Slot(w) /\ command[w].at \in PublishSteps
        /\ IsPast(w)' => IsPast(w) /\ command'[w].entries = command[w].entries
                         /\ command'[w].version = command[w].version
  BY <1>0 DEF Slot, IsPast, PublishSteps
<1>2. \A w \in Users : IsPast(w)' => command'[w].at \in PublishSteps
  BY DEF IsPast, PublishSteps
<1>3. \A w \in Users : Holds(w)' => Holds(w) /\ IsPast(w)'
  BY DEF Holds, IsPast, Past, PublishSteps
<1>4. /\ pkgIndex' = [pkgIndex EXCEPT ![p] = file] /\ listed' = listed \cup lists
      /\ shrunk' = IF file.is = "whole" /\ \E pv \in listed : pv[1] = p /\ pv \notin lists
                   THEN shrunk \cup {p} ELSE shrunk
  BY DEF WritesIndex
<1>5. /\ file = TornFile => lists = {} /\ file.is = "torn"
      /\ file # TornFile => EntriesOf(file) = command[u].entries /\ file.is = "whole"
  BY FileKinds
<1>6. pkgIndex'[p] = file /\ DOMAIN pkgIndex' = Packages /\ \A q \in Packages \ {p} : pkgIndex'[q] = pkgIndex[q]
  BY <1>0, <1>4 DEF TypeInv
<1>7. \A pv \in listed' \ listed : \E e \in EntriesOf(file) : pv = <<p, e.v>>
  BY <1>4
<1>8. shrunk \subseteq shrunk' /\ listed \subseteq listed' /\ \A q \in shrunk' \ shrunk : q = p
  BY <1>4
<1> HIDE DEF p
<1>p. p = PackageOf[u]
  BY DEF p
<1>10. HoldersInv'
  <2>1. ASSUME NEW w \in Users, Holds(w)', PackageOf[w] \notin raced
        PROVE  \A pv \in listed' : pv[1] = PackageOf[w] => Lists(command'[w].entries, pv[2])
    <3>1. \A pv \in listed : pv[1] = PackageOf[w] => Lists(command'[w].entries, pv[2])
      BY <1>1, <1>2, <1>3, <2>1 DEF RegistryInv, HoldersInv
    <3>2. PackageOf[w] = p => listed' = listed
      <4>1. PackageOf[w] = p => w = u
        BY <1>3, <1>p, <2>1 DEF RegistryInv, HoldersInv
      <4>2. w = u => file = TornFile
        BY <2>1 DEF Holds, PublishSteps, Past
      <4> QED
        BY <1>4, <1>5, <4>1, <4>2
    <3> QED
      BY <1>7, <3>1, <3>2
  <2>2. ASSUME NEW w \in Users, command'[w].at = "indexing", PackageOf[w] \notin raced
        PROVE  pkgIndex'[PackageOf[w]].is = "torn"
    <3>1. CASE w = u
      BY <1>5, <1>6, <1>p, <2>2, <3>1 DEF PublishSteps, Past
    <3>2. CASE w # u
      <4>1. PackageOf[w] # p
        BY <1>p, <2>2, <3>2 DEF RegistryInv, HoldersInv, Holds
      <4>2. PackageOf[w] \in Packages
        BY ShapeNow
      <4> QED
        BY <1>6, <2>2, <3>2, <4>1, <4>2 DEF RegistryInv, HoldersInv
    <3> QED
      BY <3>1, <3>2
  <2>3. shrunk' \subseteq raced
    <3>1. p \in shrunk' \ shrunk => p \in raced
      <4> SUFFICES ASSUME p \in shrunk' \ shrunk, p \notin raced PROVE FALSE
        OBVIOUS
      <4>1. PICK pv \in listed : pv[1] = p /\ pv \notin lists /\ file.is = "whole"
        BY <1>4
      <4>2. Lists(command[u].entries, pv[2]) /\ pv = <<pv[1], pv[2]>>
        BY <1>p, <4>1 DEF RegistryInv, HoldersInv, ListedInv
      <4>3. EntriesOf(file) = command[u].entries
        BY <1>5, <4>1
      <4> QED
        BY <4>1, <4>2, <4>3 DEF Lists
    <3> QED
      BY <1>8, <3>1 DEF RegistryInv, HoldersInv, PublishedStays
  <2>4. ASSUME NEW q \in Packages, pkgIndex'[q].is = "torn"
        PROVE  q \in raced \/ \E w \in Users : PackageOf[w] = q /\ (command'[w].at = "indexing" \/ w \in untidy)
    <3>1. CASE q = p
      <4>1. file = TornFile
        BY <1>5, <1>6, <2>4, <3>1
      <4> QED
        BY <1>p, <3>1, <4>1
    <3>2. CASE q # p
      BY <1>6, <1>p, <2>4, <3>2 DEF RegistryInv, HoldersInv, PublishedStays, CommandAt, TypeInv
    <3> QED
      BY <3>1, <3>2
  <2>5. PublishedStays'
    BY <1>6, <2>3, <2>4 DEF PublishedStays, CommandAt
  <2>6. \A v, w \in Users :
          v # w /\ PackageOf[v] = PackageOf[w] /\ Holds(v)' /\ Holds(w)' => PackageOf[v] \in raced
    BY <1>3 DEF RegistryInv, HoldersInv
  <2> QED
    BY <2>1, <2>2, <2>5, <2>6 DEF HoldersInv
<1>11. ListedInv'
  <2>1. \A pv \in listed' : pv = <<pv[1], pv[2]>>
    BY <1>7 DEF RegistryInv, ListedInv
  <2>2. ASSUME NEW q \in Packages, q \notin shrunk', pkgIndex'[q].is # "torn", NEW pv \in listed', pv[1] = q
        PROVE  Lists(EntriesOf(pkgIndex'[q]), pv[2])
    <3>1. CASE q = p
      <4>1. pv \in lists
        BY <1>4, <1>5, <1>6, <2>2, <3>1
      <4> QED
        BY <1>6, <3>1, <4>1 DEF Lists
    <3>2. CASE q # p
      BY <1>6, <1>7, <1>8, <2>2, <3>2 DEF RegistryInv, ListedInv
    <3> QED
      BY <3>1, <3>2
  <2>3. ASSUME NEW q \in Packages, NEW e \in EntriesOf(pkgIndex'[q])
        PROVE  <<q, e.v>> \in listed'
    BY <1>4, <1>6, <1>8 DEF RegistryInv, ListedInv
  <2> QED
    BY <1>1, <1>2, <1>8, <2>1, <2>2, <2>3 DEF RegistryInv, ListedInv
<1>12. SlotsInv'
  <2>1. ASSUME NEW w \in Users, IsPast(w)'
        PROVE  Slot(w) \in contested \/ PackageOf[w] \in shrunk' \/ Slot(w) \notin listed'
    <3> SUFFICES ASSUME Slot(w) \in listed', Slot(w) \notin listed
                 PROVE  Slot(w) \in contested \/ PackageOf[w] \in shrunk
      BY <1>1, <1>2, <1>8, <2>1 DEF RegistryInv, SlotsInv
    <3>1. PICK e \in EntriesOf(file) : Slot(w) = <<p, e.v>>
      BY <1>7
    <3>2. file # TornFile /\ e \in command[u].entries
      BY <1>5, <3>1, FileKinds
    <3>3. w # u
      BY <2>1, <3>2 DEF IsPast, PublishSteps
    <3>4. e.v = command[u].version => Slot(w) = Slot(u)
      BY <1>p, <3>1 DEF Slot
    <3>5. e.v # command[u].version => <<p, e.v>> \in listed
      BY <1>0, <1>p, <3>2 DEF RegistryInv, ListedInv
    <3> QED
      BY <1>0, <1>1, <1>2, <2>1, <3>1, <3>3, <3>4, <3>5 DEF RegistryInv, SlotsInv, IsPast, PublishSteps
  <2> QED
    BY <1>1, <1>2, <2>1 DEF RegistryInv, SlotsInv
<1>13. ArchiveInv'
  <2>1. \A q : \A e : Stored(q, e) => Stored(q, e)'
    BY <1>8 DEF Stored
  <2>2. ASSUME NEW q \in Packages, NEW e \in EntriesOf(pkgIndex'[q])
        PROVE  Stored(q, e)'
    <3>1. CASE q = p
      <4>1. e \in command[u].entries
        BY <1>5, <1>6, <3>1, FileKinds
      <4>2. CASE e.v = command[u].version
        BY <1>0, <1>p, <3>1, <4>1, <4>2 DEF RegistryInv, ArchiveInv, Stored, Slot
      <4>3. CASE e.v # command[u].version
        BY <1>0, <1>p, <2>1, <3>1, <4>1, <4>3 DEF RegistryInv, ArchiveInv
      <4> QED
        BY <4>2, <4>3
    <3>2. CASE q # p
      BY <1>6, <2>1, <2>2, <3>2 DEF RegistryInv, ArchiveInv
    <3> QED
      BY <3>1, <3>2
  <2>3. ASSUME NEW w \in Users, IsPast(w)'
        PROVE  \A e \in command'[w].entries :
                 IF e.v = command'[w].version THEN e.sum = w ELSE Stored(PackageOf[w], e)'
    BY <1>1, <1>2, <2>1, <2>3 DEF RegistryInv, ArchiveInv
  <2>4. ASSUME NEW w \in Users, command'[w].at \in {"uploading", "merge", "index", "indexing"}
        PROVE  \/ Slot(w)' \in contested
               \/ /\ Slot(w)' \in DOMAIN archive
                  /\ archive[Slot(w)'] = IF command'[w].at = "uploading" THEN "torn" ELSE w
    <3>1. Slot(w)' = Slot(w)
      BY <1>1, <2>4 DEF PublishSteps, Past
    <3>2. CASE w = u
      BY <1>0, <2>4, <3>1, <3>2 DEF RegistryInv, ArchiveInv, PublishSteps, Past
    <3>3. CASE w # u
      BY <2>4, <3>1, <3>3 DEF RegistryInv, ArchiveInv
    <3> QED
      BY <3>2, <3>3
  <2> QED
    BY <2>2, <2>3, <2>4 DEF ArchiveInv
<1> QED
  BY <1>10, <1>11, <1>12, <1>13 DEF RegistryInv

LEMMA RegistryStep ==
  ASSUME TypeInv, RegistryInv, [PackagesNext]_pkgVars
  PROVE  RegistryInv'
<1> USE DEF histories
<1>0. CASE UNCHANGED pkgVars
  BY <1>0, DropKeeps DEF pkgVars
<1> SUFFICES ASSUME NEW u \in Users,
       \/ Publish(u) \/ CheckVersion(u) \/ UploadArchive(u) \/ ArchiveUploaded(u)
       \/ MergeIndex(u) \/ WriteIndex(u) \/ IndexWritten(u) \/ PutArchive(u) \/ PutIndex(u)
       \/ NewProject(u) \/ BeginAdd(u) \/ BeginRemove(u) \/ BeginUpdate(u) \/ FetchIndex(u) \/ ResolveGraph(u)
       \/ LockWritten(u) \/ SaveManifest(u) \/ ManifestSaved(u)
       \/ EditVersion(u) \/ Halt(u)
             PROVE  RegistryInv'
  BY <1>0 DEF PackagesNext
<1>d. ASSUME NEW c, command' = [command EXCEPT ![u] = c], c.at \notin PublishSteps,
             command[u].at # "indexing" \/ u \in untidy',
             UNCHANGED <<registryKind, pkgIndex, archive, raced, contested, listed, shrunk>>,
             untidy \subseteq untidy'
      PROVE  RegistryInv'
  <2>1. \A w \in Users \ {u} : command'[w] = command[w]
    BY <1>d, CommandStep
  <2>2. command'[u] = c
    BY <1>d, CommandStep
  <2> QED
    BY <1>d, <2>1, <2>2, DropKeeps
<1>e. NoCommand.at \notin PublishSteps
  BY IdleShape DEF PublishSteps, Past
<1>s. CommandShape(command[u])
  BY ShapeNow
<1>p. ASSUME NEW to, Proceeds(u, to), command[u].at \in Past, to \in Past
      PROVE  /\ command'[u].at = to /\ command'[u].version = command[u].version
             /\ command'[u].entries = command[u].entries
             /\ \A w \in Users \ {u} : command'[w] = command[w]
  <2>1. command' = [command EXCEPT ![u] = [command[u] EXCEPT !.at = to]]
    BY <1>p DEF Proceeds, TypeInv
  <2> QED
    <3>1. command'[u] = [command[u] EXCEPT !.at = to] /\ \A w \in Users \ {u} : command'[w] = command[w]
      BY <2>1, CommandStep
    <3>2. LET d == [command[u] EXCEPT !.at = to] IN
          d.at = to /\ d.version = command[u].version /\ d.entries = command[u].entries
      BY <1>p, <1>s, NextPast
    <3> QED
      BY <3>1, <3>2
<1>f. ASSUME Saving(u, command[u].m) \/ (\E m : Saving(u, m)), command[u].at # "indexing",
             UNCHANGED <<registryKind, pkgIndex, archive, histories>>
      PROVE  RegistryInv'
  <2>1. PICK m : command' = [command EXCEPT ![u] = [at |-> "saving", m |-> m]]
    BY <1>f DEF Saving
  <2>2. [at |-> "saving", m |-> m].at \notin PublishSteps
    BY DEF PublishSteps, Past
  <2> QED
    BY <1>d, <1>f, <2>1, <2>2
<1>g. ASSUME FailsResolve(u), command[u].at = "fetch", UNCHANGED <<registryKind, pkgIndex, archive, histories>>
      PROVE  RegistryInv'
  BY <1>d, <1>e, <1>f, <1>g DEF FailsResolve, Ends
<1>b. ASSUME NEW c, Begins(u, c), c.at \notin PublishSteps, UNCHANGED <<registryKind, pkgIndex, archive, histories>>
      PROVE  RegistryInv'
  BY <1>b, <1>d DEF Begins, CommandAt
<1>1. CASE Publish(u)
  BY <1>1, PublishKeeps
<1>2. CASE CheckVersion(u)
  <2>1. command[u].at = "check" /\ UNCHANGED <<registryKind, pkgIndex, archive, contested, listed, shrunk, untidy>>
    BY <1>2 DEF CheckVersion, CommandAt
  <2>2. CASE Ends(u) /\ UNCHANGED raced
    BY <1>d, <1>e, <2>1, <2>2 DEF Ends
  <2>3. CASE ~(Ends(u) /\ UNCHANGED raced)
    <3> DEFINE mine == IndexEntry(command[u].version, command[u].deps, u)
               es == Upsert(EntriesOf(pkgIndex[PackageOf[u]]), mine)
               c == [at |-> "upload", version |-> command[u].version, entries |-> es]
    <3>1. /\ ~RefusesPublish(pkgIndex[PackageOf[u]], command[u].version)
          /\ command' = [command EXCEPT ![u] = c]
          /\ IF registryKind = "http" THEN TakesIndex(u) ELSE UNCHANGED raced
      BY <1>2, <2>3 DEF CheckVersion
    <3>2. mine.v = command[u].version /\ mine.sum = u
      BY DEF IndexEntry
    <3> HIDE DEF mine
    <3>3. command'[u].at = "upload" /\ command'[u].version = command[u].version /\ command'[u].entries = es
          /\ \A w \in Users \ {u} : command'[w] = command[w]
      BY <3>1, CommandStep
    <3>4. pkgIndex[PackageOf[u]].is # "torn" /\ ~HasVersion(pkgIndex[PackageOf[u]], command[u].version)
      BY <3>1 DEF RefusesPublish
    <3> QED
      BY <2>1, <3>1, <3>2, <3>3, <3>4, TakeKeeps
  <2> QED
    BY <2>2, <2>3
<1>3. CASE UploadArchive(u)
  <2>1. command[u].at = "upload" /\ IsPast(u) /\ registryKind = "file"
    BY <1>3 DEF UploadArchive, CommandAt, IsPast, Past
  <2>2. command'[u].at = "uploading" /\ command'[u].version = command[u].version
        /\ command'[u].entries = command[u].entries /\ \A w \in Users \ {u} : command'[w] = command[w]
    BY <1>3, <1>p, <2>1 DEF UploadArchive, Past
  <2> QED
    BY <1>3, <2>1, <2>2, UploadKeeps DEF UploadArchive, Uploads, Slot, Holds, Past
<1>4. CASE ArchiveUploaded(u)
  <2>1. command[u].at = "uploading" /\ IsPast(u)
    BY <1>4 DEF ArchiveUploaded, CommandAt, IsPast, Past
  <2>2. command'[u].at = "merge" /\ command'[u].version = command[u].version
        /\ command'[u].entries = command[u].entries /\ \A w \in Users \ {u} : command'[w] = command[w]
    BY <1>4, <1>p, <2>1 DEF ArchiveUploaded, Past
  <2>3. archive[Slot(u)] # "torn" => Slot(u) \in contested
    BY <2>1 DEF RegistryInv, ArchiveInv
  <2>4. PICK x : archive' = Putting(archive, Slot(u), x) /\ (x = u \/ Slot(u) \in contested)
    BY <1>4, <2>3 DEF ArchiveUploaded, Uploads, Slot
  <2> QED
    BY <1>4, <2>1, <2>2, <2>4, UploadKeeps DEF ArchiveUploaded, Holds, Past
<1>5. CASE MergeIndex(u)
  <2>1. command[u].at = "merge" /\ IsPast(u)
        /\ UNCHANGED <<registryKind, pkgIndex, archive, contested, listed, shrunk, untidy>>
    BY <1>5 DEF MergeIndex, CommandAt, IsPast, Past
  <2>2. CASE pkgIndex[PackageOf[u]].is = "torn"
    BY <1>5, <1>d, <1>e, <2>1, <2>2 DEF MergeIndex, Ends
  <2>3. CASE pkgIndex[PackageOf[u]].is # "torn"
    <3> DEFINE mine == CHOOSE e \in command[u].entries : e.v = command[u].version
               es == Upsert(EntriesOf(pkgIndex[PackageOf[u]]), mine)
               c == [at |-> "index", version |-> command[u].version, entries |-> es]
    <3>1. command' = [command EXCEPT ![u] = c] /\ TakesIndex(u)
      BY <1>5, <2>3 DEF MergeIndex
    <3>2. mine \in command[u].entries /\ mine.v = command[u].version
      BY <1>s, <2>1, ShapeByStep DEF IsEntries, Lists, IsPast
    <3> HIDE DEF mine
    <3>3. mine.sum = u
      BY <2>1, <3>2 DEF RegistryInv, ArchiveInv
    <3>4. command'[u].at = "index" /\ command'[u].version = command[u].version /\ command'[u].entries = es
          /\ \A w \in Users \ {u} : command'[w] = command[w]
      BY <3>1, CommandStep
    <3> QED
      BY <2>1, <2>3, <3>1, <3>2, <3>3, <3>4, TakeKeeps
  <2> QED
    BY <2>2, <2>3
<1>6. CASE WriteIndex(u)
  <2>1. command[u].at = "index" /\ Holds(u)
    BY <1>6 DEF WriteIndex, CommandAt, Holds
  <2>2. command'[u].at = "indexing" /\ command'[u].version = command[u].version
        /\ command'[u].entries = command[u].entries /\ \A w \in Users \ {u} : command'[w] = command[w]
    BY <1>6, <1>p, <2>1 DEF WriteIndex, Past
  <2> QED
    BY <1>6, <2>1, <2>2, WriteKeeps DEF WriteIndex
<1>7. CASE IndexWritten(u)
  <2>1. command[u].at = "indexing" /\ Holds(u)
    BY <1>7 DEF IndexWritten, CommandAt, Holds
  <2>2. command'[u].at \notin PublishSteps /\ \A w \in Users \ {u} : command'[w] = command[w]
    BY <1>7, <1>e, CommandStep DEF IndexWritten, Ends
  <2>3. pkgIndex[PackageOf[u]].is # "torn" => PackageOf[u] \in raced
    BY <2>1 DEF RegistryInv, HoldersInv
  <2>4. IndexFile(command[u].entries) # TornFile
    BY FileKinds
  <2> QED
    BY <1>7, <2>1, <2>2, <2>3, <2>4, WriteKeeps DEF IndexWritten
<1>8. CASE PutArchive(u)
  <2>1. command[u].at = "upload" /\ IsPast(u) /\ registryKind = "http" /\ Holds(u)
    BY <1>8 DEF PutArchive, CommandAt, IsPast, Past, Holds
  <2>2. CASE Uploads(u, u) /\ Proceeds(u, "index")
    <3>1. command'[u].at = "index" /\ command'[u].version = command[u].version
          /\ command'[u].entries = command[u].entries /\ \A w \in Users \ {u} : command'[w] = command[w]
      BY <1>p, <2>1, <2>2 DEF Past
    <3> QED
      BY <1>8, <2>1, <2>2, <3>1, UploadKeeps DEF PutArchive, Uploads, Slot, Past
  <2>3. CASE Uploads(u, u) /\ Ends(u)
    <3>1. command'[u].at \notin PublishSteps /\ \A w \in Users \ {u} : command'[w] = command[w]
      BY <1>e, <2>3, CommandStep DEF Ends
    <3> QED
      BY <1>8, <2>1, <2>3, <3>1, UploadKeeps DEF PutArchive, Uploads, Slot
  <2>4. CASE UNCHANGED archive /\ Ends(u)
    BY <1>8, <1>d, <1>e, <2>1, <2>4 DEF PutArchive, Ends
  <2> QED
    BY <1>8, <2>2, <2>3, <2>4 DEF PutArchive
<1>9. CASE PutIndex(u)
  <2>1. command[u].at = "index" /\ Holds(u)
    BY <1>9 DEF PutIndex, CommandAt, Holds
  <2>2. CASE WritesIndex(u, IndexFile(command[u].entries))
    <3>1. command'[u].at \notin PublishSteps /\ \A w \in Users \ {u} : command'[w] = command[w]
      BY <1>9, <1>e, CommandStep DEF PutIndex, Ends
    <3>2. IndexFile(command[u].entries) # TornFile
      BY FileKinds
    <3> QED
      BY <1>9, <2>1, <2>2, <3>1, <3>2, WriteKeeps DEF PutIndex
  <2>3. CASE UNCHANGED <<pkgIndex, listed, shrunk>>
    BY <1>9, <1>d, <1>e, <2>1, <2>3 DEF PutIndex, Ends
  <2> QED
    BY <1>9, <2>2, <2>3 DEF PutIndex
<1>10. CASE NewProject(u)
  BY <1>10, <1>f DEF NewProject, CommandAt
<1>11. CASE BeginAdd(u) \/ BeginRemove(u) \/ BeginUpdate(u)
  <2>1. \A kind, m, original : Resolving(kind, m, original).at \notin PublishSteps
    BY DEF Resolving, Fetching, PublishSteps, Past
  <2>2. UNCHANGED <<registryKind, pkgIndex, archive, histories>>
    BY <1>11 DEF BeginAdd, BeginRemove, BeginUpdate
  <2>3. \E kind, m, original : Begins(u, Resolving(kind, m, original))
    BY <1>11, Zenon DEF BeginAdd, BeginRemove, BeginUpdate
  <2> QED
    BY <1>b, <2>1, <2>2, <2>3
<1>12. CASE FetchIndex(u)
  <2>1. command[u].at = "fetch" /\ UNCHANGED <<registryKind, pkgIndex, archive, histories>>
    BY <1>12 DEF FetchIndex, CommandAt
  <2>2. FailsResolve(u) \/ \E kind, m, original, queue, graph :
          command' = [command EXCEPT ![u] = Fetching(kind, m, original, queue, graph)]
    <3>1. CASE FailsResolve(u)
      BY <3>1
    <3>2. CASE ~FailsResolve(u)
      <4> DEFINE c == command[u]
                 unknown(p) == (c.queue \cup UNION {DOMAIN e.deps : e \in EntriesOf(pkgIndex[p])})
                               \ ({p, PackageOf[u]} \cup DOMAIN c.graph)
                 known(p) == Putting(c.graph, p, EntriesOf(pkgIndex[p]))
      <4>1. PICK p \in c.queue :
              command' = [command EXCEPT ![u] = Fetching(c.kind, c.m, c.original, unknown(p), known(p))]
        BY <1>12, <3>2, Zenon DEF FetchIndex
      <4> SUFFICES \E kind, m, original, queue, graph :
                     command' = [command EXCEPT ![u] = Fetching(kind, m, original, queue, graph)]
        OBVIOUS
      <4> WITNESS c.kind, c.m, c.original, unknown(p), known(p)
      <4> QED
        BY <4>1
    <3> QED
      BY <3>1, <3>2
  <2>3. \A kind, m, original, queue, graph : Fetching(kind, m, original, queue, graph).at \notin PublishSteps
    BY DEF Fetching, PublishSteps, Past
  <2> QED
    BY <1>d, <1>g, <2>1, <2>2, <2>3
<1>13. CASE ResolveGraph(u)
  <2>1. command[u].at = "fetch" /\ UNCHANGED <<registryKind, pkgIndex, archive, histories>>
    BY <1>13 DEF ResolveGraph, CommandAt
  <2>2. FailsResolve(u) \/ \E kind, m, locked :
          command' = [command EXCEPT ![u] = [at |-> "locking", kind |-> kind, m |-> m, locked |-> locked]]
    <3>1. CASE FailsResolve(u)
      BY <3>1
    <3>2. CASE ~FailsResolve(u)
      <4>1. PICK chosen : command' = [command EXCEPT ![u] =
              [at |-> "locking", kind |-> command[u].kind, m |-> command[u].m,
               locked |-> LockOf(command[u].m, command[u].graph, chosen)]]
        BY <1>13, <3>2 DEF ResolveGraph
      <4> QED
        BY <4>1, Zenon
    <3> QED
      BY <3>1, <3>2
  <2>3. \A kind, m, locked : [at |-> "locking", kind |-> kind, m |-> m, locked |-> locked].at \notin PublishSteps
    BY DEF PublishSteps, Past
  <2> QED
    BY <1>d, <1>g, <2>1, <2>2, <2>3
<1>14. CASE LockWritten(u)
  <2>1. command[u].at = "locking" /\ UNCHANGED <<registryKind, pkgIndex, archive, histories>>
    BY <1>14 DEF LockWritten, CommandAt
  <2>2. CASE Ends(u)
    BY <1>d, <1>e, <2>1, <2>2 DEF Ends
  <2>3. CASE Proceeds(u, "save")
    <3>1. command' = [command EXCEPT ![u] = [command[u] EXCEPT !.at = "save"]]
      BY <2>3 DEF Proceeds, TypeInv
    <3>2. [command[u] EXCEPT !.at = "save"].at \notin PublishSteps
      BY <1>s, <2>1, NextSave DEF PublishSteps, Past
    <3> QED
      BY <1>d, <2>1, <3>1, <3>2
  <2> QED
    BY <1>14, <2>2, <2>3 DEF LockWritten
<1>15. CASE SaveManifest(u)
  BY <1>15, <1>f DEF SaveManifest, CommandAt
<1>16. CASE ManifestSaved(u)
  BY <1>16, <1>d, <1>e DEF ManifestSaved, CommandAt, Ends
<1>17. CASE EditVersion(u)
  BY <1>17, <1>b, <1>e DEF EditVersion
<1>18. CASE Halt(u)
  BY <1>18, <1>d, <1>e DEF Halt, Ends
<1> QED
  BY <1>1, <1>2, <1>3, <1>4, <1>5, <1>6, <1>7, <1>8, <1>9, <1>10, <1>11, <1>12, <1>13, <1>14, <1>15,
     <1>16, <1>17, <1>18

LEMMA RegistryInvariant == PackagesSpec => [](TypeInv /\ RegistryInv)
<1>1. PackagesInit => TypeInv /\ RegistryInv
  BY InitType, InitRegistry
<1>2. TypeInv /\ RegistryInv /\ [PackagesNext]_pkgVars => (TypeInv /\ RegistryInv)'
  BY TypeStep, RegistryStep
<1> QED
  BY <1>1, <1>2, PTL DEF PackagesSpec

(* Whatever publishes overlap and die: an index loses an entry only to two  *)
(* publishes that overlapped, is left torn only by those or by one that     *)
(* died, and lists only what can be downloaded.                             *)
THEOREM RegistryStaysWhole == PackagesSpec => []RegistryWhole
<1>1. TypeInv /\ RegistryInv => RegistryWhole
  BY DEF TypeInv, RegistryInv, HoldersInv, ArchiveInv, Stored, RegistryWhole, IndexedIsStored, Downloads
<1> QED
  BY <1>1, RegistryInvariant, PTL

-----------------------------------------------------------------------------
(* What the solver answers covers the manifest it was asked for. *)
LEMMA ResolutionCovers ==
  ASSUME NEW u \in Users, NEW m, IsManifest(m), NEW graph,
         \A p \in DOMAIN graph : \A e \in graph[p] : IsEntry(e),
         NEW chosen \in Resolutions(u, m, graph)
  PROVE  Covers(u, LockOf(m, graph, chosen), m)
<1>1. ClosedUnder(u, m, graph, chosen)
      /\ \E names \in SUBSET (DOMAIN graph \ {PackageOf[u]}) : chosen \in Selections(graph, names)
  BY Zenon DEF Resolutions
<1>2. PICK names \in SUBSET (DOMAIN graph \ {PackageOf[u]}) : chosen \in Selections(graph, names)
  BY <1>1
<1>3. DOMAIN chosen = names /\ \A p \in names : \E e \in graph[p] : e.v = chosen[p]
  BY <1>2 DEF Selections
<1>4. \A p \in DOMAIN chosen : chosen[p] \in Versions /\ IsDeps(DepsOf(graph, p, chosen[p]))
  <2> SUFFICES ASSUME NEW p \in DOMAIN chosen
               PROVE  chosen[p] \in Versions /\ IsDeps(DepsOf(graph, p, chosen[p]))
    OBVIOUS
  <2>1. \E e \in graph[p] : e.v = chosen[p]
    BY <1>3
  <2> DEFINE picked == CHOOSE e \in graph[p] : e.v = chosen[p]
  <2>2. picked \in graph[p] /\ picked.v = chosen[p]
    BY <2>1
  <2>3. IsEntry(picked)
    BY <1>2, <1>3, <2>2
  <2> QED
    BY <2>2, <2>3 DEF IsEntry, DepsOf
<1> DEFINE lock == LockOf(m, graph, chosen)
<1>5. lock.root = m.version /\ lock.chosen = chosen /\ DOMAIN lock.deps = DOMAIN chosen
      /\ \A p \in DOMAIN chosen : lock.deps[p] = DepsOf(graph, p, chosen[p])
  BY DEF LockOf
<1> HIDE DEF lock
<1>6. m.version \in Versions
  BY DEF IsManifest
<1>7. ASSUME NEW name, NEW req \in Requirements, Meets(name, req, u, m.version, chosen)
      PROVE  Covered(u, lock, name, req)
  BY <1>4, <1>5, <1>6, <1>7, RangesMatch DEF Meets, Covered
<1>8. \A d \in DOMAIN RootDeps(m) : Covered(u, lock, d, RootDeps(m)[d])
  BY <1>1, <1>7, RootRequirements DEF ClosedUnder
<1>9. ASSUME NEW p \in DOMAIN lock.deps, NEW d \in DOMAIN lock.deps[p]
      PROVE  Covered(u, lock, d, lock.deps[p][d])
  <2>1. lock.deps[p] = DepsOf(graph, p, chosen[p]) /\ p \in DOMAIN chosen
    BY <1>5
  <2>2. lock.deps[p][d] \in Requirements
    BY <1>4, <2>1 DEF IsDeps
  <2>3. Meets(d, lock.deps[p][d], u, m.version, chosen)
    BY <1>1, <1>9, <2>1 DEF ClosedUnder
  <2> QED
    BY <2>2, <2>3, <1>7
<1>10. Covers(u, lock, m)
  BY <1>8, <1>9 DEF Covers
<1> QED
  BY <1>10 DEF lock

(* Fewer requirements, or the same, are covered by the same lock file. *)
LEMMA CoversFewer ==
  ASSUME NEW u, NEW lock, NEW m, NEW n, Covers(u, lock, m),
         \A d \in DOMAIN RootDeps(n) : d \in DOMAIN RootDeps(m) /\ RootDeps(n)[d] = RootDeps(m)[d]
  PROVE  Covers(u, lock, n)
BY DEF Covers

LEMMA OthersLock ==
  ASSUME NEW w \in Users, LockOk(w), command'[w] = command[w], manifest'[w] = manifest[w],
         lockFile'[w] = lockFile[w], untidy \subseteq untidy'
  PROVE  LockOk(w)'
BY DEF LockOk, TidyLock, LockedFor, Covers, Covered

LEMMA InitLock == PackagesInit => LockInv
<1> SUFFICES ASSUME PackagesInit, NEW u \in Users PROVE LockOk(u)
  BY DEF LockInv
<1>1. command[u].at = "idle" /\ lockFile[u] = NoFile
  BY IdleShape DEF PackagesInit
<1>2. manifest[u] = NoFile \/ IsManifest(manifest[u])
  BY PackagesAssumption DEF PackagesInit
<1> QED
  BY <1>1, <1>2, FileKinds DEF LockOk, TidyLock

(* The steps of a command that leave the manifest and the lock file alone: *)
(* those of a publish, and the end of one that asks for nothing.           *)
LEMMA LeaveLock ==
  ASSUME TypeInv, LockInv, NEW u \in Users, UNCHANGED <<manifest, lockFile, untidy>>,
         command[u].at \notin {"locking", "save", "saving"},
         command'[u].at \notin {"fetch", "locking", "save", "saving"}
  PROVE  LockOk(u)'
<1>1. LockOk(u)
  BY DEF LockInv
<1>2. CASE u \in untidy
  BY <1>1, <1>2 DEF LockOk
<1>3. CASE u \notin untidy
  <2>1. TidyLock(u) /\ LockedFor(u) = manifest[u] /\ LockedFor(u)' = manifest[u]
    BY <1>1, <1>3 DEF LockOk, LockedFor
  <2>2. lockFile[u].is = "whole" => Covers(u, lockFile[u], manifest[u])'
    BY <2>1 DEF TidyLock, Covers, Covered
  <2>3. TidyLock(u)'
    BY <2>1, <2>2 DEF TidyLock
  <2> QED
    BY <1>1, <2>3 DEF LockOk
<1> QED
  BY <1>2, <1>3

(* A command begins to resolve: the manifest it would write back is the one *)
(* on disk, or one with fewer requirements.                                 *)
LEMMA BeginLock ==
  ASSUME TypeInv, LockInv, NEW u \in Users, UNCHANGED <<manifest, lockFile, untidy>>,
         command[u].at = "idle", manifest[u].is = "whole",
         command'[u].at = "fetch", command'[u].kind = "update" => command'[u].m = manifest[u],
         \A d \in DOMAIN RootDeps(command'[u].original) :
           d \in DOMAIN RootDeps(manifest[u])
           /\ RootDeps(command'[u].original)[d] = RootDeps(manifest[u])[d]
  PROVE  LockOk(u)'
<1>1. LockOk(u) /\ IsManifest(manifest[u]) /\ manifest[u] # NoFile /\ manifest[u] # TornFile
  BY ShapeNow, FileKinds DEF LockInv
<1>2. CASE u \in untidy
  BY <1>1, <1>2 DEF LockOk
<1>3. CASE u \notin untidy
  <2>1. TidyLock(u) /\ LockedFor(u) = manifest[u] /\ LockedFor(u)' = manifest[u]
    BY <1>1, <1>3 DEF LockOk, LockedFor
  <2>2. lockFile[u].is = "whole" => Covers(u, lockFile[u], manifest[u])'
    BY <2>1 DEF TidyLock, Covers, Covered
  <2>3. lockFile[u].is = "whole" => Covers(u, lockFile[u], command'[u].original)
    BY <2>1, CoversFewer DEF TidyLock
  <2>4. TidyLock(u)'
    BY <1>1, <2>1, <2>2, <2>3 DEF TidyLock, Covers, Covered
  <2> QED
    BY <1>1, <2>4 DEF LockOk
<1> QED
  BY <1>2, <1>3

LEMMA FetchLock ==
  ASSUME TypeInv, LockInv, NEW u \in Users, UNCHANGED <<manifest, lockFile, untidy>>,
         command[u].at = "fetch", command'[u].at = "fetch", command'[u].kind = command[u].kind,
         command'[u].m = command[u].m, command'[u].original = command[u].original
  PROVE  LockOk(u)'
<1>1. LockOk(u)
  BY DEF LockInv
<1> QED
  BY <1>1 DEF LockOk, TidyLock, LockedFor, Covers, Covered

(* The manifest is about to be written, new or written back: the lock file  *)
(* answers it already.                                                      *)
LEMMA SavingLock ==
  ASSUME TypeInv, NEW u \in Users, UNCHANGED <<lockFile, untidy>>, NEW m, Saving(u, m),
         u \notin untidy /\ lockFile[u].is = "whole" => Covers(u, lockFile[u], m)
  PROVE  LockOk(u)'
<1>1. manifest'[u] = TornFile /\ command'[u] = [at |-> "saving", m |-> m]
  BY DEF Saving, TypeInv
<1>2. LockedFor(u)' = m
  BY <1>1 DEF LockedFor
<1>3. manifest'[u] # NoFile
  BY <1>1, FileKinds
<1>4. u \notin untidy => TidyLock(u)'
  <2>1. u \notin untidy /\ lockFile'[u].is = "whole" => Covers(u, lockFile'[u], LockedFor(u)')
    BY <1>2
  <2>2. command'[u].at = "saving"
    BY <1>1
  <2> QED
    BY <2>1, <2>2 DEF TidyLock, Covers, Covered
<1> QED
  BY <1>1, <1>3, <1>4 DEF LockOk

(* A failed resolve writes back the manifest the command found. *)
LEMMA FailLock ==
  ASSUME TypeInv, LockInv, NEW u \in Users, command[u].at = "fetch", FailsResolve(u),
         UNCHANGED <<lockFile, untidy>>
  PROVE  LockOk(u)'
<1>1. LockOk(u)
  BY DEF LockInv
<1>2. CASE command[u].kind = "update"
  <2>1. command'[u] = NoCommand /\ manifest' = manifest
    BY <1>2, CommandStep DEF FailsResolve, Ends
  <2> QED
    BY <2>1, IdleShape, LeaveLock
<1>3. CASE command[u].kind # "update"
  <2>1. Saving(u, command[u].original)
    BY <1>3 DEF FailsResolve, WrittenBack
  <2> QED
    BY <1>1, <1>3, <2>1, SavingLock DEF LockOk, TidyLock
<1> QED
  BY <1>2, <1>3

(* The lock file is being written. *)
LEMMA LockingLock ==
  ASSUME TypeInv, LockInv, NEW u \in Users, UNCHANGED <<manifest, untidy>>,
         command[u].at = "fetch", NEW locked, lockFile'[u] = TornFile,
         command'[u] = [at |-> "locking", kind |-> command[u].kind, m |-> command[u].m, locked |-> locked],
         Covers(u, locked, command[u].m)
  PROVE  LockOk(u)'
<1>1. LockOk(u)
  BY DEF LockInv
<1>2. command'[u].at = "locking" /\ command'[u].kind = command[u].kind /\ command'[u].m = command[u].m
      /\ command'[u].locked = locked
  OBVIOUS
<1>3. Covers(u, command'[u].locked, command'[u].m)
  BY <1>2
<1>4. u \notin untidy => manifest[u].is = "whole"
  BY <1>1 DEF LockOk, TidyLock, IsManifest
<1>5. u \notin untidy => TidyLock(u)'
  BY <1>1, <1>2, <1>3, <1>4, FileKinds DEF LockOk, TidyLock, Covers, Covered
<1> QED
  BY <1>1, <1>2, <1>5 DEF LockOk

(* It is written: an update is done, an add or a remove goes on to save. *)
LEMMA LockedLock ==
  ASSUME TypeInv, LockInv, NEW u \in Users, LockWritten(u)
  PROVE  LockOk(u)'
<1>1. LockOk(u) /\ command[u].at = "locking"
  BY DEF LockInv, LockWritten, CommandAt
<1>2. UNCHANGED <<manifest, untidy>> /\ lockFile'[u] = command[u].locked /\ manifest[u] # NoFile
  BY <1>1 DEF LockWritten, TypeInv, histories, LockOk
<1>s. command[u].kind # "update" => command'[u].at = "save" /\ command'[u].m = command[u].m
  <2> SUFFICES ASSUME command[u].kind # "update"
               PROVE  command'[u].at = "save" /\ command'[u].m = command[u].m
    OBVIOUS
  <2>1. command' = [command EXCEPT ![u] = [command[u] EXCEPT !.at = "save"]]
    BY DEF LockWritten, Proceeds, TypeInv
  <2>2. command'[u] = [command[u] EXCEPT !.at = "save"]
    BY <2>1, CommandStep
  <2>3. CommandShape(command[u])
    BY ShapeNow
  <2> QED
    BY <1>1, <2>2, <2>3, NextSave
<1>3. CASE u \in untidy
  <2>1. command'[u].at \in {"idle", "save"}
    BY <1>s, CommandStep, IdleShape DEF LockWritten, Ends
  <2> QED
    BY <1>2, <1>3, <2>1 DEF LockOk
<1>4. CASE u \notin untidy
  <2>0. TidyLock(u) /\ manifest[u].is = "whole" /\ manifest[u] # TornFile /\ Covers(u, lockFile'[u], command[u].m)
    BY <1>1, <1>2, <1>4, FileKinds DEF LockOk, TidyLock
  <2>1. CASE command[u].kind = "update"
    <3>1. command'[u] = NoCommand
      BY <2>1, CommandStep DEF LockWritten, Ends
    <3>2. LockedFor(u)' = manifest[u] /\ command[u].m = manifest[u]
      BY <1>1, <1>2, <2>0, <2>1, <3>1, IdleShape DEF LockedFor, TidyLock
    <3>3. Covers(u, lockFile'[u], LockedFor(u)')
      BY <2>0, <3>2
    <3>4. TidyLock(u)'
      BY <1>2, <2>0, <3>1, <3>3, IdleShape DEF TidyLock, Covers, Covered
    <3> QED
      BY <1>2, <3>1, <3>4, IdleShape DEF LockOk
  <2>2. CASE command[u].kind # "update"
    <3>1. command'[u].at = "save" /\ command'[u].m = command[u].m
      BY <1>s, <2>2
    <3>2. LockedFor(u)' = command[u].m
      BY <3>1 DEF LockedFor
    <3>3. Covers(u, lockFile'[u], LockedFor(u)')
      BY <2>0, <3>2
    <3>4. TidyLock(u)'
      BY <1>2, <2>0, <3>1, <3>3 DEF TidyLock, Covers, Covered
    <3> QED
      BY <1>2, <3>1, <3>4 DEF LockOk
  <2> QED
    BY <2>1, <2>2
<1> QED
  BY <1>3, <1>4

(* The manifest is written, or its version edited where nothing runs. *)
LEMMA SavedLock ==
  ASSUME TypeInv, LockInv, NEW u \in Users, ManifestSaved(u)
  PROVE  LockOk(u)'
<1>1. LockOk(u) /\ command[u].at = "saving" /\ IsManifest(command[u].m)
  BY ShapeNow, ShapeByStep DEF LockInv, ManifestSaved, CommandAt
<1>2. manifest'[u] = command[u].m /\ command'[u] = NoCommand /\ UNCHANGED <<lockFile, untidy>>
  BY CommandStep DEF ManifestSaved, Ends, TypeInv, histories
<1>3. LockedFor(u)' = command[u].m /\ LockedFor(u) = command[u].m
  BY <1>1, <1>2, IdleShape DEF LockedFor
<1>4. u \notin untidy => TidyLock(u)'
  BY <1>1, <1>2, <1>3, IdleShape, FileKinds DEF LockOk, TidyLock, Covers, Covered
<1> QED
  BY <1>1, <1>2, <1>4, IdleShape, FileKinds DEF LockOk

LEMMA EditLock ==
  ASSUME TypeInv, LockInv, NEW u \in Users, EditVersion(u)
  PROVE  LockOk(u)'
<1>1. LockOk(u) /\ command[u].at = "idle" /\ IsManifest(manifest[u])
  BY ShapeNow DEF LockInv, EditVersion, Begins, CommandAt
<1>2. PICK patch \in Patches :
        manifest' = [manifest EXCEPT ![u].version = <<manifest[u].version[1], manifest[u].version[2], patch>>]
  BY Zenon DEF EditVersion
<1> DEFINE n == [manifest[u] EXCEPT !.version = <<manifest[u].version[1], manifest[u].version[2], patch>>]
<1>3. manifest'[u] = n
  BY <1>2 DEF TypeInv
<1>4. IsManifest(n) /\ n.normal = manifest[u].normal /\ n.build = manifest[u].build
  BY <1>1, EditedManifest, PackagesAssumption
<1> HIDE DEF n
<1>5. RootDeps(manifest'[u]) = RootDeps(manifest[u])
  BY <1>3, <1>4 DEF RootDeps
<1>6. command'[u] = NoCommand /\ UNCHANGED <<lockFile, untidy>>
  BY CommandStep DEF EditVersion, Begins, histories
<1>7. LockedFor(u) = manifest[u] /\ LockedFor(u)' = manifest'[u]
  BY <1>1, <1>6, IdleShape DEF LockedFor
<1>8. u \notin untidy => TidyLock(u)'
  BY <1>1, <1>3, <1>4, <1>5, <1>6, <1>7, IdleShape, FileKinds DEF LockOk, TidyLock, Covers, Covered
<1> QED
  BY <1>3, <1>4, <1>6, <1>8, IdleShape, FileKinds DEF LockOk

(* The steps of a publish: neither the manifest nor the lock file changes. *)
LEMMA PublishLock ==
  ASSUME TypeInv, LockInv, NEW u \in Users,
         \/ Publish(u) \/ CheckVersion(u) \/ UploadArchive(u) \/ ArchiveUploaded(u) \/ MergeIndex(u)
         \/ WriteIndex(u) \/ IndexWritten(u) \/ PutArchive(u) \/ PutIndex(u)
  PROVE  /\ LockOk(u)' /\ UNCHANGED <<manifest, lockFile, untidy>>
         /\ \A w \in Users \ {u} : command'[w] = command[w]
<1> USE DEF histories
<1> DEFINE Others == \A w \in Users \ {u} : command'[w] = command[w]
<1>c. UNCHANGED <<manifest, lockFile, untidy>> /\ command[u].at \in PublishSteps \cup {"idle"}
  BY DEF Publish, CheckVersion, UploadArchive, ArchiveUploaded, MergeIndex, WriteIndex, IndexWritten,
         PutArchive, PutIndex, Begins, CommandAt, PublishSteps, Past
<1>e. ASSUME Ends(u) PROVE command'[u].at = "idle" /\ Others
  BY <1>e, CommandStep, IdleShape DEF Ends
<1>p. ASSUME NEW to \in Past, Proceeds(u, to), command[u].at \in Past PROVE command'[u].at = to /\ Others
  <2>1. command' = [command EXCEPT ![u] = [command[u] EXCEPT !.at = to]]
    BY <1>p DEF Proceeds, TypeInv
  <2>2. command'[u] = [command[u] EXCEPT !.at = to] /\ Others
    BY <2>1, CommandStep
  <2>3. CommandShape(command[u])
    BY ShapeNow
  <2> QED
    BY <1>p, <2>2, <2>3, NextPast
<1>s. ASSUME NEW c, command' = [command EXCEPT ![u] = c], c.at \in PublishSteps
      PROVE  command'[u].at \in PublishSteps /\ Others
  BY <1>s, CommandStep
<1>g. command'[u].at \in PublishSteps \cup {"idle"} /\ Others
  <2> HIDE DEF Others
  <2>1. CASE Publish(u)
    <3> DEFINE c == [at |-> "check", version |-> manifest[u].version, deps |-> manifest[u].normal]
    <3>1. command' = [command EXCEPT ![u] = c]
      BY <2>1 DEF Publish, Begins
    <3>2. c.at \in PublishSteps
      BY DEF PublishSteps
    <3> QED
      BY <1>s, <3>1, <3>2
  <2>2. CASE CheckVersion(u)
    <3> DEFINE c == [at |-> "upload", version |-> command[u].version,
                     entries |-> Upsert(EntriesOf(pkgIndex[PackageOf[u]]),
                                        IndexEntry(command[u].version, command[u].deps, u))]
    <3>1. Ends(u) \/ command' = [command EXCEPT ![u] = c]
      BY <2>2 DEF CheckVersion
    <3>2. c.at \in PublishSteps
      BY DEF PublishSteps, Past
    <3> QED
      BY <1>e, <1>s, <3>1, <3>2
  <2>3. CASE UploadArchive(u)
    BY <2>3, <1>p DEF UploadArchive, CommandAt, Past, PublishSteps
  <2>4. CASE ArchiveUploaded(u)
    BY <2>4, <1>p DEF ArchiveUploaded, CommandAt, Past, PublishSteps
  <2>5. CASE MergeIndex(u)
    <3> DEFINE mine == CHOOSE e \in command[u].entries : e.v = command[u].version
               c == [at |-> "index", version |-> command[u].version,
                     entries |-> Upsert(EntriesOf(pkgIndex[PackageOf[u]]), mine)]
    <3>1. Ends(u) \/ command' = [command EXCEPT ![u] = c]
      BY <2>5 DEF MergeIndex
    <3>2. c.at \in PublishSteps
      BY DEF PublishSteps, Past
    <3> QED
      BY <1>e, <1>s, <3>1, <3>2
  <2>6. CASE WriteIndex(u)
    BY <2>6, <1>p DEF WriteIndex, CommandAt, Past, PublishSteps
  <2>7. CASE IndexWritten(u)
    BY <2>7, <1>e DEF IndexWritten
  <2>8. CASE PutArchive(u)
    BY <2>8, <1>e, <1>p DEF PutArchive, CommandAt, Past, PublishSteps
  <2>9. CASE PutIndex(u)
    BY <2>9, <1>e DEF PutIndex
  <2> QED
    BY <2>1, <2>2, <2>3, <2>4, <2>5, <2>6, <2>7, <2>8, <2>9
<1>l. LockOk(u)'
  <2>1. /\ command[u].at \notin {"locking", "save", "saving"}
        /\ command'[u].at \notin {"fetch", "locking", "save", "saving"}
    BY <1>c, <1>g DEF PublishSteps, Past
  <2> QED
    BY <1>c, <2>1, LeaveLock
<1> QED
  BY <1>c, <1>g, <1>l

(* The steps of new, add, remove and update, of an edit and of a kill. *)
LEMMA ChangeLock ==
  ASSUME TypeInv, LockInv, NEW u \in Users,
         \/ NewProject(u) \/ BeginAdd(u) \/ BeginRemove(u) \/ BeginUpdate(u) \/ FetchIndex(u)
         \/ ResolveGraph(u) \/ LockWritten(u) \/ SaveManifest(u) \/ ManifestSaved(u)
         \/ EditVersion(u) \/ Halt(u)
  PROVE  LockOk(u)'
<1> USE DEF histories
<1>0. LockOk(u) /\ CommandShape(command[u]) /\ (manifest[u].is = "whole" => IsManifest(manifest[u]))
  BY ShapeNow DEF LockInv
<1>r. ASSUME NEW kind, NEW m, NEW original, Begins(u, Resolving(kind, m, original)),
             UNCHANGED <<manifest, lockFile, untidy>>, kind = "update" => m = manifest[u],
             \A d \in DOMAIN RootDeps(original) :
               d \in DOMAIN RootDeps(manifest[u]) /\ RootDeps(original)[d] = RootDeps(manifest[u])[d]
      PROVE  LockOk(u)'
  <2>1. command[u].at = "idle" /\ manifest[u].is = "whole"
        /\ command' = [command EXCEPT ![u] = Resolving(kind, m, original)]
    BY <1>r DEF Begins, CommandAt
  <2>2. command'[u] = Resolving(kind, m, original)
    BY <2>1, CommandStep
  <2>3. command'[u].at = "fetch" /\ command'[u].kind = kind /\ command'[u].m = m /\ command'[u].original = original
    BY <2>2 DEF Resolving, Fetching
  <2> QED
    BY <1>r, <2>1, <2>3, BeginLock
<1>1. CASE NewProject(u)
  <2>1. manifest[u].is = "absent" /\ Saving(u, NewManifest) /\ UNCHANGED <<lockFile, untidy>>
    BY <1>1 DEF NewProject
  <2>2. lockFile[u] = NoFile
    BY <1>0, <2>1, FileKinds DEF TypeInv, LockOk
  <2> QED
    BY <2>1, <2>2, FileKinds, SavingLock
<1>2. CASE BeginAdd(u)
  <2>1. PICK add \in Additions :
          Begins(u, Resolving("add", AddDependency(manifest[u], add[1], add[2], add[3]), manifest[u]))
    BY <1>2 DEF BeginAdd
  <2>2. UNCHANGED <<manifest, lockFile, untidy>>
    BY <1>2 DEF BeginAdd
  <2> DEFINE m == AddDependency(manifest[u], add[1], add[2], add[3])
  <2> HIDE DEF m
  <2>3. Begins(u, Resolving("add", m, manifest[u]))
    BY <2>1 DEF m
  <2> QED
    BY <1>r, <2>2, <2>3
<1>3. CASE BeginRemove(u)
  <2>d. PICK dev \in BOOLEAN : \E name :
          LET changed == RemoveDependency(manifest[u], name, dev) IN Begins(u, Resolving("remove", changed, changed))
    BY <1>3 DEF BeginRemove
  <2>1. PICK name :
          LET changed == RemoveDependency(manifest[u], name, dev) IN Begins(u, Resolving("remove", changed, changed))
    BY <2>d
  <2>2. UNCHANGED <<manifest, lockFile, untidy>> /\ IsManifest(manifest[u])
    BY <1>0, <1>3 DEF BeginRemove
  <2> DEFINE n == RemoveDependency(manifest[u], name, dev)
  <2>3. \A d \in DOMAIN RootDeps(n) :
          d \in DOMAIN RootDeps(manifest[u]) /\ RootDeps(n)[d] = RootDeps(manifest[u])[d]
    BY <2>2, RemovedManifest
  <2>4. Begins(u, Resolving("remove", n, n))
    BY <2>1
  <2> HIDE DEF n
  <2> QED
    BY <1>r, <2>2, <2>3, <2>4
<1>4. CASE BeginUpdate(u)
  BY <1>4, <1>r DEF BeginUpdate
<1>5. CASE FetchIndex(u)
  <2>1. command[u].at = "fetch" /\ UNCHANGED <<lockFile, untidy>>
    BY <1>5 DEF FetchIndex, CommandAt
  <2>2. CASE FailsResolve(u)
    BY <2>1, <2>2, FailLock
  <2>3. CASE ~FailsResolve(u)
    <3> DEFINE c == command[u]
               unknown(p) == (c.queue \cup UNION {DOMAIN e.deps : e \in EntriesOf(pkgIndex[p])})
                             \ ({p, PackageOf[u]} \cup DOMAIN c.graph)
               known(p) == Putting(c.graph, p, EntriesOf(pkgIndex[p]))
    <3>1. PICK p \in c.queue :
            /\ command' = [command EXCEPT ![u] = Fetching(c.kind, c.m, c.original, unknown(p), known(p))]
            /\ UNCHANGED manifest
      BY <1>5, <2>3, Zenon DEF FetchIndex
    <3>2. command'[u] = Fetching(c.kind, c.m, c.original, unknown(p), known(p))
      BY <3>1, CommandStep
    <3> HIDE DEF unknown, known
    <3>3. command'[u].at = "fetch" /\ command'[u].kind = c.kind /\ command'[u].m = c.m
          /\ command'[u].original = c.original
      BY <3>2 DEF Fetching
    <3> QED
      BY <2>1, <3>1, <3>3, FetchLock
  <2> QED
    BY <2>2, <2>3
<1>6. CASE ResolveGraph(u)
  <2>1. command[u].at = "fetch" /\ UNCHANGED untidy
    BY <1>6 DEF ResolveGraph, CommandAt
  <2>2. CASE FailsResolve(u) /\ UNCHANGED lockFile
    BY <2>1, <2>2, FailLock
  <2>3. CASE ~(FailsResolve(u) /\ UNCHANGED lockFile)
    <3> DEFINE c == command[u]
    <3>1. PICK chosen \in Resolutions(u, c.m, c.graph) :
            /\ command' = [command EXCEPT ![u] =
                 [at |-> "locking", kind |-> c.kind, m |-> c.m, locked |-> LockOf(c.m, c.graph, chosen)]]
            /\ lockFile' = [lockFile EXCEPT ![u] = TornFile]
            /\ UNCHANGED manifest
      BY <1>6, <2>3 DEF ResolveGraph
    <3>2. IsManifest(c.m) /\ \A p \in DOMAIN c.graph : \A e \in c.graph[p] : IsEntry(e)
      BY <1>0, <2>1, ShapeByStep
    <3>3. Covers(u, LockOf(c.m, c.graph, chosen), c.m)
      BY <3>2, ResolutionCovers
    <3> DEFINE locked == LockOf(c.m, c.graph, chosen)
    <3>4. /\ command'[u] = [at |-> "locking", kind |-> c.kind, m |-> c.m, locked |-> locked]
          /\ lockFile'[u] = TornFile
      BY <3>1, CommandStep DEF TypeInv
    <3> HIDE DEF locked
    <3> QED
      BY <2>1, <3>1, <3>3, <3>4, LockingLock DEF locked
  <2> QED
    BY <2>2, <2>3
<1>7. CASE LockWritten(u)
  BY <1>7, LockedLock
<1>8. CASE SaveManifest(u)
  <2>1. command[u].at = "save" /\ Saving(u, command[u].m) /\ UNCHANGED <<lockFile, untidy>>
    BY <1>8 DEF SaveManifest, CommandAt
  <2>2. u \notin untidy /\ lockFile[u].is = "whole" => Covers(u, lockFile[u], command[u].m)
    BY <1>0, <2>1 DEF LockOk, TidyLock, LockedFor
  <2> QED
    BY <2>1, <2>2, SavingLock
<1>9. CASE ManifestSaved(u)
  BY <1>9, SavedLock
<1>10. CASE EditVersion(u)
  BY <1>10, EditLock
<1>11. CASE Halt(u)
  <2>1. command'[u] = NoCommand /\ u \in untidy' /\ UNCHANGED <<manifest, lockFile>>
    BY <1>11, CommandStep DEF Halt, Ends
  <2> QED
    BY <1>0, <2>1, IdleShape DEF LockOk
<1> QED
  BY <1>1, <1>2, <1>3, <1>4, <1>5, <1>6, <1>7, <1>8, <1>9, <1>10, <1>11

(* They are steps of u: the files and the command of everyone else stay. *)
LEMMA ChangeIsOwn ==
  ASSUME TypeInv, NEW u \in Users,
         \/ NewProject(u) \/ BeginAdd(u) \/ BeginRemove(u) \/ BeginUpdate(u) \/ FetchIndex(u)
         \/ ResolveGraph(u) \/ LockWritten(u) \/ SaveManifest(u) \/ ManifestSaved(u)
         \/ EditVersion(u) \/ Halt(u)
  PROVE  /\ untidy \subseteq untidy'
         /\ \A w \in Users \ {u} : command'[w] = command[w] /\ manifest'[w] = manifest[w] /\ lockFile'[w] = lockFile[w]
<1> SUFFICES ASSUME NEW w \in Users \ {u}
             PROVE  untidy \subseteq untidy' /\ command'[w] = command[w] /\ manifest'[w] = manifest[w]
                    /\ lockFile'[w] = lockFile[w]
  <2>1. untidy \subseteq untidy'
    BY DEF NewProject, BeginAdd, BeginRemove, BeginUpdate, FetchIndex, ResolveGraph, LockWritten, SaveManifest,
           ManifestSaved, EditVersion, Halt, histories
  <2> QED
    BY <2>1
<1> USE DEF histories
<1>1. CASE NewProject(u)
  BY <1>1 DEF NewProject, Saving, TypeInv
<1>2. CASE BeginAdd(u)
  BY <1>2 DEF BeginAdd, Begins, TypeInv
<1>3. CASE BeginRemove(u)
  BY <1>3 DEF BeginRemove, Begins, TypeInv
<1>4. CASE BeginUpdate(u)
  BY <1>4 DEF BeginUpdate, Begins, TypeInv
<1>f. ASSUME FailsResolve(u) PROVE command'[w] = command[w] /\ manifest'[w] = manifest[w]
  BY <1>f DEF FailsResolve, Saving, Ends, TypeInv
<1>5. CASE FetchIndex(u)
  BY <1>5, <1>f DEF FetchIndex, TypeInv
<1>6. CASE ResolveGraph(u)
  BY <1>6, <1>f DEF ResolveGraph, TypeInv
<1>7. CASE LockWritten(u)
  BY <1>7 DEF LockWritten, Ends, Proceeds, TypeInv
<1>8. CASE SaveManifest(u)
  BY <1>8 DEF SaveManifest, Saving, TypeInv
<1>9. CASE ManifestSaved(u)
  BY <1>9 DEF ManifestSaved, Ends, TypeInv
<1>10. CASE EditVersion(u)
  BY <1>10 DEF EditVersion, Begins, TypeInv
<1>11. CASE Halt(u)
  BY <1>11 DEF Halt, Ends, TypeInv
<1> QED
  BY <1>1, <1>2, <1>3, <1>4, <1>5, <1>6, <1>7, <1>8, <1>9, <1>10, <1>11

LEMMA LockStep ==
  ASSUME TypeInv, LockInv, [PackagesNext]_pkgVars
  PROVE  LockInv'
<1>0. CASE UNCHANGED pkgVars
  BY <1>0 DEF pkgVars, histories, LockInv, LockOk, TidyLock, LockedFor, Covers, Covered
<1>1. ASSUME NEW u \in Users, LockOk(u)', untidy \subseteq untidy',
             \A w \in Users \ {u} : command'[w] = command[w] /\ manifest'[w] = manifest[w] /\ lockFile'[w] = lockFile[w]
      PROVE  LockInv'
  BY <1>1, OthersLock DEF LockInv
<1>2. ASSUME NEW u \in Users,
             \/ Publish(u) \/ CheckVersion(u) \/ UploadArchive(u) \/ ArchiveUploaded(u) \/ MergeIndex(u)
             \/ WriteIndex(u) \/ IndexWritten(u) \/ PutArchive(u) \/ PutIndex(u)
      PROVE  LockInv'
  BY <1>1, <1>2, PublishLock
<1>3. ASSUME NEW u \in Users,
             \/ NewProject(u) \/ BeginAdd(u) \/ BeginRemove(u) \/ BeginUpdate(u) \/ FetchIndex(u)
             \/ ResolveGraph(u) \/ LockWritten(u) \/ SaveManifest(u) \/ ManifestSaved(u)
             \/ EditVersion(u) \/ Halt(u)
      PROVE  LockInv'
  BY <1>1, <1>3, ChangeLock, ChangeIsOwn
<1> QED
  BY <1>0, <1>2, <1>3 DEF PackagesNext

LEMMA LockInvariant == PackagesSpec => [](TypeInv /\ LockInv)
<1>1. PackagesInit => TypeInv /\ LockInv
  BY InitType, InitLock
<1>2. TypeInv /\ LockInv /\ [PackagesNext]_pkgVars => (TypeInv /\ LockInv)'
  BY TypeStep, LockStep
<1> QED
  BY <1>1, <1>2, PTL DEF PackagesSpec

(* Where nothing runs and nothing was killed, a lock file answers every     *)
(* requirement of the manifest it stands beside, and of what it locks: a    *)
(* resolve that fails puts back the manifest the lock file was made for.    *)
THEOREM LockAnswersManifest == PackagesSpec => []LockCoversManifest
<1>1. TypeInv /\ LockInv => LockCoversManifest
  BY DEF LockInv, LockOk, TidyLock, LockedFor, Covers, Covered, LockCoversManifest, LockMeets, CommandAt
<1> QED
  BY <1>1, LockInvariant, PTL
=============================================================================
