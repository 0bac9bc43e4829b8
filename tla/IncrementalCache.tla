--------------------------- MODULE IncrementalCache ---------------------------
(***************************************************************************)
(* The incremental build cache (rlyeh-driver: incremental/cache.rs and     *)
(* IncrementalDriver::compile_to_llvm): every build opens                  *)
(* .rlyeh_cache/index.json, answers from artifacts/<hash>.ll when the      *)
(* index lists the file with the hash of its source, and otherwise         *)
(* compiles, writes the artifact in place, replaces the index through a    *)
(* temporary file and removes the artifacts its own index does not list.   *)
(* Builds are operating-system processes: several share the directory      *)
(* without a lock, and each may be killed between any two file operations, *)
(* or inside a write, which leaves the file cut short.                     *)
(*                                                                         *)
(* A hash is its source (sha-256 collisions are left out), an index is the *)
(* set of <<file, source>> it lists, an artifact is the version of the     *)
(* toolchain that wrote it.  MaxBuilds bounds the builds, MaxKills the     *)
(* builds that are killed.                                                 *)
(***************************************************************************)
EXTENDS Naturals, FiniteSets

CONSTANTS Builders, Files, Sources, MaxBuilds, MaxKills

ASSUME CacheAssumption ==
  /\ Builders # {} /\ Files # {} /\ Sources # {}
  /\ MaxBuilds \in Nat /\ MaxKills \in Nat

VARIABLES index, tmp, artifact,     \* the directory .rlyeh_cache
          at, job, mem,             \* each build: its next step, what it builds, its index in memory
          outcome,                  \* how the last build of each builder ended
          built,                    \* history: the <<file, source>> stored to the end since the last wipe
          rewritten,                \* history: sources whose artifact was rewritten while the index listed it
          solo,                     \* history: no two builds have run at the same time
          builds, kills

disk == <<index, tmp, artifact>>
history == <<built, rewritten, solo, builds, kills>>
cVars == <<disk, at, job, mem, outcome, history>>

NoJob == <<>>
Jobs == [file : Files, source : Sources, force : BOOLEAN]

(* What a file can hold: nothing (the file is missing), the beginning of a *)
(* write, or all of it.  "old" is an index or an artifact of a toolchain   *)
(* with another CACHE_VERSION.                                             *)
Missing == [is |-> "missing", lists |-> {}]
Cut     == [is |-> "cut", lists |-> {}]
Old     == [is |-> "old", lists |-> Files \X Sources]
Index(entries) == [is |-> "new", lists |-> entries]

Key(b) == <<job[b].file, job[b].source>>

CacheInit ==
  /\ \/ index = Missing /\ artifact = [s \in Sources |-> "missing"]
     \/ index = Old /\ artifact = [s \in Sources |-> "old"]
  /\ tmp = Missing
  /\ at = [b \in Builders |-> "idle"]
  /\ job = [b \in Builders |-> NoJob]
  /\ mem = [b \in Builders |-> {}]
  /\ outcome = [b \in Builders |-> "none"]
  /\ built = {} /\ rewritten = {} /\ solo = TRUE
  /\ builds = 0 /\ kills = 0

-----------------------------------------------------------------------------
Step(b, from, to) == at[b] = from /\ at' = [at EXCEPT ![b] = to]

Finish(b, from, how) ==
  /\ Step(b, from, "idle")
  /\ outcome' = [outcome EXCEPT ![b] = how]
  /\ mem' = [mem EXCEPT ![b] = {}]

StartBuild(b) ==
  /\ builds < MaxBuilds
  /\ Step(b, "idle", "open")
  /\ \E j \in Jobs : job' = [job EXCEPT ![b] = j]
  /\ outcome' = [outcome EXCEPT ![b] = "none"]
  /\ solo' = (solo /\ \A c \in Builders : at[c] = "idle")
  /\ builds' = builds + 1
  /\ UNCHANGED <<disk, mem, built, rewritten, kills>>

(* IncrementalCache::open: an index of another version makes the whole     *)
(* directory void; one that does not parse is taken for an empty one.      *)
Loaded(text) == IF text.is = "new" THEN text.lists ELSE {}

AfterOpen(b) == IF job[b].force THEN "compile" ELSE "lookup"

(* mutant: the version of the index is not compared *)
OpenAnyVersion(b) ==
  /\ Step(b, "open", AfterOpen(b))
  /\ mem' = [mem EXCEPT ![b] = index.lists]
  /\ UNCHANGED <<disk, job, outcome, history>>

OpenCache(b) ==
  /\ Step(b, "open", IF index.is = "old" THEN "wipe" ELSE AfterOpen(b))
  /\ mem' = [mem EXCEPT ![b] = Loaded(index)]
  /\ UNCHANGED <<disk, job, outcome, history>>

(* remove_dir_all, file by file in whatever order the directory gives.     *)
Wipe(b) ==
  /\ at[b] = "wipe"
  /\ \/ /\ index # Missing /\ index' = Missing
        /\ UNCHANGED <<tmp, artifact>>
     \/ /\ tmp # Missing /\ tmp' = Missing
        /\ UNCHANGED <<index, artifact>>
     \/ \E s \in Sources :
          /\ artifact[s] # "missing"
          /\ artifact' = [artifact EXCEPT ![s] = "missing"]
          /\ UNCHANGED <<index, tmp>>
  /\ UNCHANGED <<at, job, mem, outcome, history>>

Wiped(b) ==
  /\ Step(b, "wipe", AfterOpen(b))
  /\ index = Missing /\ tmp = Missing
  /\ \A s \in Sources : artifact[s] = "missing"
  /\ built' = {}
  /\ UNCHANGED <<disk, job, mem, outcome, rewritten, solo, builds, kills>>

(* mutant: an artifact with the hash of the source is a hit, listed or not *)
LookupByArtifact(b) ==
  /\ Step(b, "lookup", IF artifact[job[b].source] # "missing" THEN "read" ELSE "compile")
  /\ UNCHANGED <<disk, job, mem, outcome, history>>

(* lookup_llvm: is_file, then read_to_string.                              *)
LookupLlvm(b) ==
  /\ LET listed == Key(b) \in mem[b] /\ artifact[job[b].source] # "missing"
     IN  Step(b, "lookup", IF listed THEN "read" ELSE "compile")
  /\ UNCHANGED <<disk, job, mem, outcome, history>>

ReadArtifact(b) ==
  /\ Finish(b, "read", IF artifact[job[b].source] = "missing"
                       THEN "error" ELSE artifact[job[b].source])
  /\ UNCHANGED <<disk, job, history>>

(* The full pipeline; a source with errors leaves the cache as it was.     *)
Compile(b) ==
  /\ \/ Step(b, "compile", "write") /\ UNCHANGED <<mem, outcome>>
     \/ Finish(b, "compile", "rejected")
  /\ UNCHANGED <<disk, job, history>>

(* A file operation of store_llvm fails when another process is removing   *)
(* the directory it works in; rename also when the temporary file is gone. *)
StoreFails(b) ==
  /\ \/ /\ at[b] \in {"write", "save"}
        /\ \E c \in Builders \ {b} : at[c] = "wipe"
     \/ at[b] = "rename" /\ tmp = Missing
  /\ Finish(b, at[b], "error")
  /\ UNCHANGED <<disk, job, history>>

(* store_llvm writes the artifact in place: the file is truncated first.   *)
BeginWrite(b) ==
  /\ Step(b, "write", "writing")
  /\ artifact' = [artifact EXCEPT ![job[b].source] = "cut"]
  /\ rewritten' = IF \E f \in Files : <<f, job[b].source>> \in index.lists
                  THEN rewritten \cup {job[b].source} ELSE rewritten
  /\ UNCHANGED <<index, tmp, job, mem, outcome, built, solo, builds, kills>>

EndWrite(b) ==
  /\ Step(b, "writing", "save")
  /\ artifact' = [artifact EXCEPT ![job[b].source] = "new"]
  /\ mem' = [mem EXCEPT ![b] = @ \cup {Key(b)}]
  /\ UNCHANGED <<index, tmp, job, outcome, history>>

(* mutant: the index is written in place *)
BeginSaveInPlace(b) ==
  /\ Step(b, "save", "saving")
  /\ tmp' = Cut /\ index' = Cut
  /\ UNCHANGED <<artifact, job, mem, outcome, history>>

(* save_index: the temporary file has one name for all processes.          *)
BeginSave(b) ==
  /\ Step(b, "save", "saving")
  /\ tmp' = Cut
  /\ UNCHANGED <<index, artifact, job, mem, outcome, history>>

EndSave(b) ==
  /\ Step(b, "saving", "rename")
  /\ tmp' = IF tmp = Missing THEN tmp ELSE Index(mem[b])
  /\ UNCHANGED <<index, artifact, job, mem, outcome, history>>

Rename(b) ==
  /\ tmp # Missing
  /\ Step(b, "rename", "clean")
  /\ index' = tmp
  /\ tmp' = Missing
  /\ built' = built \cup {Key(b)}
  /\ UNCHANGED <<artifact, job, mem, outcome, rewritten, solo, builds, kills>>

(* mutant: only the versions of the file just built are kept *)
StaleForFile(b) == {s \in Sources : artifact[s] # "missing" /\ <<job[b].file, s>> \notin mem[b]}

(* clean_stale, file by file; its errors are ignored.                      *)
Stale(b) == {s \in Sources : artifact[s] # "missing" /\ \A f \in Files : <<f, s>> \notin mem[b]}

Clean(b) ==
  /\ at[b] = "clean"
  /\ \/ \E s \in Stale(b) :
          /\ UNCHANGED <<at, mem, outcome>>
          /\ artifact' = [artifact EXCEPT ![s] = "missing"]
     \/ Stale(b) = {} /\ Finish(b, "clean", "new") /\ UNCHANGED artifact
  /\ UNCHANGED <<index, tmp, job, history>>

(* The process is killed; what it wrote stays, cut short inside a write.   *)
Kill(b) ==
  /\ kills < MaxKills
  /\ at[b] # "idle"
  /\ Finish(b, at[b], "killed")
  /\ kills' = kills + 1
  /\ UNCHANGED <<disk, job, built, rewritten, solo, builds>>

CacheNext ==
  \E b \in Builders :
     \/ StartBuild(b) \/ OpenCache(b) \/ Wipe(b) \/ Wiped(b) \/ LookupLlvm(b) \/ ReadArtifact(b)
     \/ Compile(b) \/ StoreFails(b) \/ BeginWrite(b) \/ EndWrite(b)
     \/ BeginSave(b) \/ EndSave(b) \/ Rename(b) \/ Clean(b) \/ Kill(b)

CacheSpec == CacheInit /\ [][CacheNext]_cVars

-----------------------------------------------------------------------------
(* No build is answered with what a toolchain of another CACHE_VERSION     *)
(* generated, whatever other builds do and wherever a wipe was cut short.  *)
NeverOldIr == \A b \in Builders : outcome[b] # "old"

(* A build is answered with an artifact that was cut short only when its   *)
(* file was rewritten while the index listed it (a --force build or a      *)
(* second file with the same text): while builds do not overlap, a kill    *)
(* inside a first build never gets half an artifact into the index.        *)
CutOnlyByRewrite ==
  solo => \A b \in Builders : outcome[b] = "cut" => job[b].source \in rewritten

(* While builds do not overlap, no sequence of kills leaves a directory    *)
(* that makes a later build fail with a file error, or an index that no    *)
(* longer parses.                                                          *)
NeverInterrupts == solo => index # Cut /\ \A b \in Builders : outcome[b] # "error"

(* While builds do not overlap, what a build stored is found by every      *)
(* later one: neither the builds of other sources and files nor a kill     *)
(* take it from the index or its artifact from the directory.              *)
StoredIsFound ==
  solo => \A e \in built : e \in index.lists /\ artifact[e[2]] # "missing"
=============================================================================
