----------------------- MODULE IncrementalCache_proofs -----------------------
(***************************************************************************)
(* The incremental cache for any number of builds, files and sources:      *)
(* no build is answered with the output of another toolchain, and while    *)
(* builds do not overlap the directory stays readable, keeps what was      *)
(* stored and hides an artifact that was cut short.                        *)
(*                                                                         *)
(* The invariant has three parts.  TypeInv types the variables.  AgeInv    *)
(* holds whoever runs: nothing lists an artifact of the old toolchain, and *)
(* an old index is still the only thing any build has seen.  SoloInv holds *)
(* while builds do not overlap: it ties the index in the memory of the one *)
(* that runs to the index on disk, step by step.                           *)
(***************************************************************************)
EXTENDS IncrementalCache, TLAPS

Entries == Files \X Sources
Texts == {Missing, Cut, Old} \cup {Index(entries) : entries \in SUBSET Entries}
Contents == {"missing", "cut", "old", "new"}
Steps == {"idle", "open", "wipe", "lookup", "read", "compile", "write", "writing",
          "save", "saving", "rename", "clean"}
Outcomes == Contents \cup {"none", "error", "rejected", "killed"}

TypeInv ==
  /\ index \in Texts /\ tmp \in Texts
  /\ artifact \in [Sources -> Contents]
  /\ at \in [Builders -> Steps]
  /\ job \in [Builders -> Jobs \cup {NoJob}]
  /\ \A b \in Builders : at[b] # "idle" => job[b] \in Jobs
  /\ mem \in [Builders -> SUBSET Entries]
  /\ outcome \in [Builders -> Outcomes]
  /\ built \subseteq Entries /\ rewritten \subseteq Sources
  /\ solo \in BOOLEAN

Lists(entries, s) == \E f \in Files : <<f, s>> \in entries

(* An old artifact is in no index but the old one, and an old index has     *)
(* been read only by builds that are about to wipe the directory.           *)
AgeInv ==
  /\ tmp # Old
  /\ \A s \in Sources : artifact[s] = "old" =>
       /\ index # Old => ~Lists(index.lists, s)
       /\ ~Lists(tmp.lists, s)
       /\ \A b \in Builders : ~Lists(mem[b], s)
  /\ \A b \in Builders : at[b] = "read" => Key(b) \in mem[b]
  /\ index = Old =>
       /\ \A b \in Builders : at[b] \in {"idle", "open", "wipe"}
       /\ \A s \in Sources : artifact[s] \in {"missing", "old"}
       /\ built = {}
  /\ NeverOldIr

(* What a build that runs alone knows at each of its steps. *)
Alone(b) ==
  /\ at[b] \in {"lookup", "read", "compile", "write", "writing", "clean"} => mem[b] = index.lists
  /\ at[b] \in {"save", "saving", "rename"} => mem[b] = index.lists \cup {Key(b)}
  /\ at[b] \in {"save", "saving", "rename"} => artifact[job[b].source] = "new"
  /\ at[b] = "saving" => tmp = Cut
  /\ at[b] = "rename" => tmp = Index(mem[b])
  /\ at[b] = "read" => Key(b) \in index.lists /\ artifact[job[b].source] # "missing"
  /\ at[b] = "wipe" => built = {} /\ mem[b] = {}

OneRuns == \A b, c \in Builders : at[b] # "idle" /\ at[c] # "idle" => b = c

(* The directory between two steps: the index parses, lists all that was    *)
(* stored, and what it lists and was cut short was cut by a second write.   *)
Readable ==
  /\ index # Cut
  /\ \A e \in built : e \in index.lists /\ artifact[e[2]] # "missing"
  /\ \A s \in Sources : artifact[s] = "cut" /\ Lists(index.lists, s) => s \in rewritten

Answers ==
  \A b \in Builders :
    outcome[b] # "error" /\ (outcome[b] = "cut" => job[b].source \in rewritten)

Undisturbed == OneRuns /\ (\A b \in Builders : Alone(b)) /\ Readable /\ Answers

SoloInv == solo => Undisturbed

CacheInv == TypeInv /\ AgeInv /\ SoloInv

-----------------------------------------------------------------------------
LEMMA TextFacts ==
  /\ Missing.is = "missing" /\ Cut.is = "cut" /\ Old.is = "old"
  /\ Missing.lists = {} /\ Cut.lists = {} /\ Old.lists = Entries
  /\ \A entries : Index(entries).is = "new" /\ Index(entries).lists = entries
  /\ \A entries : Index(entries) \notin {Missing, Cut, Old}
  /\ Missing # Cut /\ Missing # Old /\ Cut # Old
  /\ \A text \in Texts : text.lists \subseteq Entries /\ (text.is = "old" <=> text = Old)
  /\ \A text \in Texts : text # Old => Loaded(text) = text.lists
BY DEF Missing, Cut, Old, Index, Entries, Texts, Loaded

LEMMA TextMembers ==
  /\ Missing \in Texts /\ Cut \in Texts /\ Old \in Texts
  /\ \A entries \in SUBSET Entries : Index(entries) \in Texts
BY DEF Texts

LEMMA EntryParts ==
  \A e \in Entries : e[1] \in Files /\ e[2] \in Sources /\ e = <<e[1], e[2]>>
BY DEF Entries

LEMMA KeyType ==
  ASSUME TypeInv, NEW b \in Builders, at[b] # "idle"
  PROVE  job[b] \in Jobs /\ job[b].file \in Files /\ job[b].source \in Sources
         /\ Key(b) \in Entries /\ AfterOpen(b) \in {"lookup", "compile"}
         /\ job[b].force \in BOOLEAN
BY DEF TypeInv, Jobs, Key, Entries, AfterOpen

LEMMA InitType == CacheInit => TypeInv
BY TextMembers DEF CacheInit, TypeInv, Steps, Outcomes, Contents

LEMMA StepType ==
  ASSUME TypeInv, NEW b \in Builders, NEW from, NEW to \in Steps, Step(b, from, to)
  PROVE  at' \in [Builders -> Steps]
BY DEF TypeInv, Step

LEMMA FinishType ==
  ASSUME TypeInv, NEW b \in Builders, NEW from, NEW how \in Outcomes, Finish(b, from, how)
  PROVE  /\ at' \in [Builders -> Steps] /\ outcome' \in [Builders -> Outcomes]
         /\ mem' \in [Builders -> SUBSET Entries]
         /\ \A c \in Builders : at'[c] # "idle" => at[c] # "idle"
BY DEF TypeInv, Step, Finish, Steps

LEMMA TypeStep ==
  ASSUME TypeInv, [CacheNext]_cVars
  PROVE  TypeInv'
<1> USE DEF TypeInv, disk, history
<1>0. CASE UNCHANGED cVars
  BY <1>0 DEF cVars
<1> SUFFICES ASSUME NEW b \in Builders,
                    \/ StartBuild(b) \/ OpenCache(b) \/ Wipe(b) \/ Wiped(b) \/ LookupLlvm(b) \/ ReadArtifact(b)
                    \/ Compile(b) \/ StoreFails(b) \/ BeginWrite(b) \/ EndWrite(b)
                    \/ BeginSave(b) \/ EndSave(b) \/ Rename(b) \/ Clean(b) \/ Kill(b)
             PROVE  TypeInv'
  BY <1>0 DEF CacheNext
<1>1. CASE StartBuild(b)
  BY <1>1 DEF StartBuild, Step, Steps, Outcomes
<1>2. CASE OpenCache(b)
  BY <1>2, KeyType, TextFacts DEF OpenCache, Step, Steps, Loaded
<1>3. CASE Wipe(b)
  BY <1>3, TextMembers DEF Wipe, Contents
<1>4. CASE Wiped(b)
  BY <1>4, KeyType DEF Wiped, Step, Steps
<1>5. CASE LookupLlvm(b)
  BY <1>5 DEF LookupLlvm, Step, Steps
<1>6. CASE ReadArtifact(b)
  <2>1. at[b] # "idle"
    BY <1>6 DEF ReadArtifact, Finish, Step
  <2> QED
    BY <1>6, <2>1, KeyType, FinishType DEF ReadArtifact, Outcomes, Contents
<1>7. CASE Compile(b)
  BY <1>7, FinishType DEF Compile, Step, Steps, Outcomes
<1>8. CASE StoreFails(b)
  BY <1>8, FinishType DEF StoreFails, Outcomes
<1>9. CASE BeginWrite(b)
  BY <1>9, KeyType DEF BeginWrite, Step, Steps, Contents
<1>10. CASE EndWrite(b)
  BY <1>10, KeyType DEF EndWrite, Step, Steps, Contents
<1>11. CASE BeginSave(b)
  BY <1>11, TextMembers DEF BeginSave, Step, Steps
<1>12. CASE EndSave(b)
  BY <1>12, TextMembers DEF EndSave, Step, Steps
<1>13. CASE Rename(b)
  BY <1>13, TextMembers, KeyType DEF Rename, Step, Steps
<1>14. CASE Clean(b)
  BY <1>14, FinishType DEF Clean, Stale, Contents, Outcomes
<1>15. CASE Kill(b)
  BY <1>15, FinishType DEF Kill, Outcomes
<1> QED
  BY <1>1, <1>2, <1>3, <1>4, <1>5, <1>6, <1>7, <1>8, <1>9, <1>10, <1>11, <1>12, <1>13, <1>14, <1>15

-----------------------------------------------------------------------------
LEMMA InitAge == CacheInit => AgeInv
BY ZenonT(40), TextFacts DEF CacheInit, AgeInv, Lists, NeverOldIr

(* The end of a build, whatever the reason. *)
LEMMA FinishAge ==
  ASSUME TypeInv, AgeInv, NEW b \in Builders, NEW from, NEW how, Finish(b, from, how),
         how # "old", UNCHANGED <<disk, job, built>>
  PROVE  AgeInv'
BY DEF AgeInv, NeverOldIr, Lists, Key, Finish, Step, TypeInv, disk

(* Files only disappear. *)
LEMMA RemovalAge ==
  ASSUME TypeInv, AgeInv, UNCHANGED <<at, job, mem, outcome, built>>,
         index' \in {index, Missing}, tmp' \in {tmp, Missing},
         \A s \in Sources : artifact'[s] \in {artifact[s], "missing"}
  PROVE  AgeInv'
BY TextFacts DEF AgeInv, NeverOldIr, Lists, Key

LEMMA AgeStep ==
  ASSUME TypeInv, AgeInv, [CacheNext]_cVars
  PROVE  AgeInv'
<1> USE DEF AgeInv, NeverOldIr, Lists, Key, disk, history
<1>0. CASE UNCHANGED cVars
  BY <1>0 DEF cVars
<1> SUFFICES ASSUME NEW b \in Builders,
                    \/ StartBuild(b) \/ OpenCache(b) \/ Wipe(b) \/ Wiped(b) \/ LookupLlvm(b) \/ ReadArtifact(b)
                    \/ Compile(b) \/ StoreFails(b) \/ BeginWrite(b) \/ EndWrite(b)
                    \/ BeginSave(b) \/ EndSave(b) \/ Rename(b) \/ Clean(b) \/ Kill(b)
             PROVE  AgeInv'
  BY <1>0 DEF CacheNext
<1>1. CASE StartBuild(b)
  BY <1>1 DEF StartBuild, Step, TypeInv
<1>2. CASE OpenCache(b)
  <2>1. CASE index = Old
    BY <1>2, <2>1, TextFacts DEF OpenCache, Step, TypeInv, Loaded
  <2>2. CASE index # Old
    <3>1. mem' = [mem EXCEPT ![b] = index.lists] /\ UNCHANGED <<index, tmp, artifact, job, outcome, built>>
      BY <1>2, <2>2, TextFacts DEF OpenCache, TypeInv
    <3>2. at[b] = "open" /\ at' = [at EXCEPT ![b] = AfterOpen(b)] /\ AfterOpen(b) \in {"lookup", "compile"}
      BY <1>2, <2>2, TextFacts, KeyType DEF OpenCache, Step, TypeInv
    <3> QED
      BY <2>2, <3>1, <3>2 DEF TypeInv
  <2> QED
    BY <2>1, <2>2
<1>3. CASE Wipe(b)
  <2>1. index' \in {index, Missing} /\ tmp' \in {tmp, Missing} /\ UNCHANGED <<at, job, mem, outcome, built>>
    BY <1>3 DEF Wipe
  <2>2. \A s \in Sources : artifact'[s] \in {artifact[s], "missing"}
    BY <1>3 DEF Wipe, TypeInv
  <2> QED
    BY <2>1, <2>2, RemovalAge
<1>4. CASE Wiped(b)
  BY <1>4, KeyType, TextFacts DEF Wiped, Step, TypeInv
<1>5. CASE LookupLlvm(b)
  BY ZenonT(40), <1>5, KeyType DEF LookupLlvm, Step, TypeInv
<1>6. CASE ReadArtifact(b)
  <2>1. at[b] = "read" /\ job[b].source \in Sources
    BY <1>6, KeyType DEF ReadArtifact, Finish, Step
  <2>2. artifact[job[b].source] # "old"
    BY <2>1, KeyType, TextFacts DEF TypeInv, Jobs
  <2> QED
    BY <1>6, <2>1, <2>2, FinishAge DEF ReadArtifact
<1>7. CASE Compile(b)
  <2>1. CASE Step(b, "compile", "write") /\ UNCHANGED <<mem, outcome>>
    BY <1>7, <2>1 DEF Compile, Step, TypeInv
  <2>2. CASE Finish(b, "compile", "rejected")
    BY <1>7, <2>2, FinishAge DEF Compile
  <2> QED
    BY <1>7, <2>1, <2>2 DEF Compile
<1>8. CASE StoreFails(b)
  BY <1>8, FinishAge DEF StoreFails
<1>9. CASE BeginWrite(b)
  BY ZenonT(40), <1>9, KeyType DEF BeginWrite, Step, TypeInv
<1>10. CASE EndWrite(b)
  BY ZenonT(40), <1>10, KeyType DEF EndWrite, Step, TypeInv
<1>11. CASE BeginSave(b)
  BY <1>11, TextFacts DEF BeginSave, Step, TypeInv
<1>12. CASE EndSave(b)
  BY ZenonT(40), <1>12, TextFacts DEF EndSave, Step, TypeInv
<1>13. CASE Rename(b)
  BY <1>13, TextFacts DEF Rename, Step, TypeInv
<1>14. CASE Clean(b)
  <2>1. CASE \E s \in Stale(b) : artifact' = [artifact EXCEPT ![s] = "missing"] /\ UNCHANGED <<at, mem, outcome>>
    BY ZenonT(40), <1>14, <2>1, RemovalAge DEF Clean, Stale, TypeInv
  <2>2. CASE Finish(b, "clean", "new") /\ UNCHANGED artifact
    BY <1>14, <2>2, FinishAge DEF Clean
  <2> QED
    BY <1>14, <2>1, <2>2 DEF Clean
<1>15. CASE Kill(b)
  BY <1>15, FinishAge DEF Kill
<1> QED
  BY <1>1, <1>2, <1>3, <1>4, <1>5, <1>6, <1>7, <1>8, <1>9, <1>10, <1>11, <1>12, <1>13, <1>14, <1>15

-----------------------------------------------------------------------------
Only(b) == \A c \in Builders \ {b} : at[c] = "idle"

LEMMA OnlyOne ==
  ASSUME TypeInv, Undisturbed, NEW b \in Builders, at[b] # "idle"
  PROVE  Only(b)
BY DEF Undisturbed, OneRuns, Only

(* The others stay idle, so the step of b is all there is to look at. *)
LEMMA OthersIdle ==
  ASSUME TypeInv, NEW b \in Builders, Only(b), \A c \in Builders \ {b} : at'[c] = at[c],
         Alone(b)', Readable', Answers'
  PROVE  Undisturbed'
<1>1. \A c \in Builders \ {b} : at'[c] = "idle"
  BY DEF Only
<1>2. \A c \in Builders \ {b} : Alone(c)'
  BY <1>1 DEF Alone
<1>3. OneRuns'
  BY <1>1 DEF OneRuns
<1> QED
  BY <1>2, <1>3 DEF Undisturbed

LEMMA FinishUndisturbed ==
  ASSUME TypeInv, Undisturbed, NEW b \in Builders, NEW from, NEW how, Finish(b, from, how), from # "idle",
         how # "error", how = "cut" => job[b].source \in rewritten,
         UNCHANGED <<disk, job, built, rewritten>>
  PROVE  Undisturbed'
<1>1. at[b] # "idle" /\ \A c \in Builders \ {b} : at'[c] = at[c]
  BY DEF Finish, Step, TypeInv
<1>2. Alone(b)'
  BY DEF Finish, Step, Alone, TypeInv
<1>3. Readable'
  BY DEF Undisturbed, Readable, disk
<1>4. Answers'
  BY DEF Undisturbed, Answers, Finish, TypeInv
<1> QED
  BY <1>1, <1>2, <1>3, <1>4, OnlyOne, OthersIdle

LEMMA StartUndisturbed ==
  ASSUME TypeInv, Undisturbed, NEW b \in Builders, StartBuild(b), \A c \in Builders : at[c] = "idle"
  PROVE  Undisturbed'
<1>1. Only(b) /\ \A c \in Builders \ {b} : at'[c] = at[c]
  BY DEF StartBuild, Step, Only, TypeInv
<1>2. Alone(b)'
  BY DEF StartBuild, Step, Alone, TypeInv
<1>3. Readable'
  BY DEF Undisturbed, Readable, StartBuild, disk
<1>4. Answers'
  BY DEF Undisturbed, Answers, StartBuild, TypeInv
<1> QED
  BY <1>1, <1>2, <1>3, <1>4, OthersIdle

LEMMA OpenUndisturbed ==
  ASSUME TypeInv, AgeInv, Undisturbed, NEW b \in Builders, OpenCache(b)
  PROVE  Undisturbed'
<1>1. at[b] # "idle" /\ \A c \in Builders \ {b} : at'[c] = at[c]
  BY DEF OpenCache, Step, TypeInv
<1>2. Alone(b)'
  <2>1. CASE index = Old
    BY <2>1, TextFacts DEF OpenCache, Step, Alone, TypeInv, AgeInv, Loaded, disk, history
  <2>2. CASE index # Old
    <3>1. mem'[b] = index.lists /\ at'[b] \in {"lookup", "compile"} /\ index' = index
      BY <1>1, <2>2, TextFacts, KeyType DEF OpenCache, Step, TypeInv, disk
    <3> QED
      BY <3>1 DEF Alone
  <2> QED
    BY <2>1, <2>2
<1>3. Readable'
  BY DEF Undisturbed, Readable, OpenCache, disk, history
<1>4. Answers'
  BY DEF Undisturbed, Answers, OpenCache, history
<1> QED
  BY <1>1, <1>2, <1>3, <1>4, OnlyOne, OthersIdle

LEMMA WipeUndisturbed ==
  ASSUME TypeInv, AgeInv, Undisturbed, NEW b \in Builders, Wipe(b) \/ Wiped(b)
  PROVE  Undisturbed'
<1>1. at[b] = "wipe" /\ \A c \in Builders \ {b} : at'[c] = at[c]
  BY DEF Wipe, Wiped, Step, TypeInv
<1>b. built = {} /\ built' = {} /\ mem[b] = {}
  BY <1>1 DEF Undisturbed, Alone, Wipe, Wiped, history
<1>2. Alone(b)'
  <2>1. CASE Wipe(b)
    BY <2>1, <1>b DEF Wipe, Alone
  <2>2. CASE Wiped(b)
    <3>1. mem'[b] = {} /\ at'[b] \in {"lookup", "compile"} /\ index'.lists = {}
      BY <2>2, <1>1, <1>b, KeyType, TextFacts DEF Wiped, Step, TypeInv, disk
    <3> QED
      BY <3>1 DEF Alone
  <2> QED
    BY <2>1, <2>2
<1>3. Readable'
  BY <1>b, TextFacts DEF Undisturbed, Readable, Wipe, Wiped, TypeInv, disk, history, Lists
<1>4. Answers'
  BY DEF Undisturbed, Answers, Wipe, Wiped, history
<1> QED
  BY <1>1, <1>2, <1>3, <1>4, OnlyOne, OthersIdle

LEMMA LookupUndisturbed ==
  ASSUME TypeInv, Undisturbed, NEW b \in Builders, LookupLlvm(b)
  PROVE  Undisturbed'
<1>1. at[b] = "lookup" /\ \A c \in Builders \ {b} : at'[c] = at[c]
  BY DEF LookupLlvm, Step, TypeInv
<1>2. Alone(b)'
  <2>1. mem[b] = index.lists /\ UNCHANGED <<index, artifact, job, mem>>
    BY <1>1 DEF Undisturbed, Alone, LookupLlvm, disk
  <2>2. \/ at'[b] = "read" /\ Key(b) \in mem[b] /\ artifact[job[b].source] # "missing"
        \/ at'[b] = "compile"
    BY DEF LookupLlvm, Step, TypeInv
  <2> QED
    BY <2>1, <2>2 DEF Alone, Key
<1>3. Readable'
  BY DEF Undisturbed, Readable, LookupLlvm, disk, history
<1>4. Answers'
  BY DEF Undisturbed, Answers, LookupLlvm, history
<1> QED
  BY <1>1, <1>2, <1>3, <1>4, OnlyOne, OthersIdle

LEMMA ReadUndisturbed ==
  ASSUME TypeInv, Undisturbed, NEW b \in Builders, ReadArtifact(b)
  PROVE  Undisturbed'
<1>1. at[b] = "read" /\ job[b].source \in Sources /\ job[b].file \in Files
  BY KeyType DEF ReadArtifact, Finish, Step
<1>2. Key(b) \in index.lists /\ artifact[job[b].source] # "missing"
  BY <1>1 DEF Undisturbed, Alone
<1>3. artifact[job[b].source] = "cut" => job[b].source \in rewritten
  BY <1>1, <1>2 DEF Undisturbed, Readable, Lists, Key
<1>4. artifact[job[b].source] # "error"
  BY <1>1 DEF TypeInv, Contents
<1> QED
  BY <1>1, <1>2, <1>3, <1>4, FinishUndisturbed DEF ReadArtifact, history

LEMMA CompileUndisturbed ==
  ASSUME TypeInv, Undisturbed, NEW b \in Builders, Compile(b)
  PROVE  Undisturbed'
<1>1. CASE Finish(b, "compile", "rejected")
  BY <1>1, FinishUndisturbed DEF Compile, history
<1>2. CASE Step(b, "compile", "write") /\ UNCHANGED <<mem, outcome>>
  <2>1. at[b] = "compile" /\ \A c \in Builders \ {b} : at'[c] = at[c]
    BY <1>2 DEF Step, TypeInv
  <2>2. Alone(b)'
    BY <1>2, <2>1 DEF Undisturbed, Alone, Compile, Step, TypeInv, disk
  <2>3. Readable' /\ Answers'
    BY <1>2 DEF Undisturbed, Readable, Answers, Compile, disk, history
  <2> QED
    BY <2>1, <2>2, <2>3, OnlyOne, OthersIdle
<1> QED
  BY <1>1, <1>2 DEF Compile

(* A build that runs alone never loses the file it renames. *)
LEMMA NoFailureAlone ==
  ASSUME TypeInv, Undisturbed, NEW b \in Builders
  PROVE  ~StoreFails(b)
<1> SUFFICES ASSUME StoreFails(b) PROVE FALSE
  OBVIOUS
<1>1. at[b] = "rename" => tmp # Missing
  BY TextFacts DEF Undisturbed, Alone
<1>2. at[b] # "idle"
  BY DEF StoreFails
<1> QED
  BY <1>1, <1>2, OnlyOne DEF StoreFails, Only

LEMMA WriteUndisturbed ==
  ASSUME TypeInv, Undisturbed, NEW b \in Builders, BeginWrite(b) \/ EndWrite(b)
  PROVE  Undisturbed'
<1>1. at[b] \in {"write", "writing"} /\ \A c \in Builders \ {b} : at'[c] = at[c]
  BY DEF BeginWrite, EndWrite, Step, TypeInv
<1>j. job[b].source \in Sources /\ mem[b] = index.lists /\ mem[b] \in SUBSET Entries
  BY <1>1, KeyType DEF Undisturbed, Alone, TypeInv
<1>2. Alone(b)'
  BY <1>1, <1>j DEF BeginWrite, EndWrite, Alone, Step, TypeInv, Key, history
<1>3. Readable'
  <2>1. index' = index /\ built' = built /\ built \subseteq Entries
    BY DEF BeginWrite, EndWrite, TypeInv, history
  <2>2. \A s \in Sources : artifact[s] # "missing" => artifact'[s] # "missing"
    BY <1>j DEF BeginWrite, EndWrite, TypeInv
  <2>3. \A s \in Sources : artifact'[s] = "cut" /\ Lists(index'.lists, s) => s \in rewritten'
    <3>1. CASE BeginWrite(b)
      BY <3>1, <1>j DEF Undisturbed, Readable, BeginWrite, Lists, TypeInv
    <3>2. CASE EndWrite(b)
      BY <3>2, <1>j DEF Undisturbed, Readable, EndWrite, Lists, TypeInv, history
    <3> QED
      BY <3>1, <3>2
  <2> QED
    BY <2>1, <2>2, <2>3, EntryParts DEF Undisturbed, Readable
<1>4. Answers'
  BY DEF Undisturbed, Answers, BeginWrite, EndWrite, history
<1> QED
  BY <1>1, <1>2, <1>3, <1>4, OnlyOne, OthersIdle

LEMMA SaveUndisturbed ==
  ASSUME TypeInv, Undisturbed, NEW b \in Builders, BeginSave(b) \/ EndSave(b)
  PROVE  Undisturbed'
<1>1. at[b] \in {"save", "saving"} /\ \A c \in Builders \ {b} : at'[c] = at[c]
  BY DEF BeginSave, EndSave, Step, TypeInv
<1>2. Alone(b)'
  BY <1>1, TextFacts DEF Undisturbed, BeginSave, EndSave, Alone, Step, TypeInv, Key
<1>3. Readable' /\ Answers'
  BY DEF Undisturbed, Readable, Answers, BeginSave, EndSave, history
<1> QED
  BY <1>1, <1>2, <1>3, OnlyOne, OthersIdle

LEMMA RenameUndisturbed ==
  ASSUME TypeInv, Undisturbed, NEW b \in Builders, Rename(b)
  PROVE  Undisturbed'
<1>1. at[b] = "rename" /\ at'[b] = "clean" /\ \A c \in Builders \ {b} : at'[c] = at[c]
  BY DEF Rename, Step, TypeInv
<1>2. job[b].source \in Sources /\ job[b].file \in Files
  BY <1>1, KeyType
<1>3. /\ mem[b] = index.lists \cup {Key(b)} /\ artifact[job[b].source] = "new"
      /\ index'.lists = mem[b] /\ index' # Cut
  BY <1>1, TextFacts DEF Undisturbed, Alone, Rename
<1>4. Alone(b)'
  BY <1>1, <1>3 DEF Alone, Rename
<1>5. Readable'
  <2>1. \A e \in built' : e \in index'.lists /\ artifact'[e[2]] # "missing"
    BY <1>3 DEF Undisturbed, Readable, Rename, Key
  <2>2. \A s \in Sources : artifact'[s] = "cut" /\ Lists(index'.lists, s) => s \in rewritten'
    BY <1>3 DEF Undisturbed, Readable, Rename, Key, Lists
  <2> QED
    BY <1>3, <2>1, <2>2 DEF Readable
<1>6. Answers'
  BY DEF Undisturbed, Answers, Rename
<1> QED
  BY <1>1, <1>4, <1>5, <1>6, OnlyOne, OthersIdle

LEMMA CleanUndisturbed ==
  ASSUME TypeInv, Undisturbed, NEW b \in Builders, Clean(b)
  PROVE  Undisturbed'
<1>1. CASE Finish(b, "clean", "new") /\ UNCHANGED artifact
  BY <1>1, FinishUndisturbed DEF Clean, disk, history
<1>2. ASSUME NEW s \in Stale(b), UNCHANGED <<at, mem, outcome>>,
             artifact' = [artifact EXCEPT ![s] = "missing"]
      PROVE  Undisturbed'
  <2>1. at[b] = "clean" /\ s \in Sources /\ mem[b] = index.lists /\ ~Lists(index.lists, s)
    BY <1>2 DEF Undisturbed, Alone, Clean, Stale, Lists
  <2>2. job[b].source \in Sources /\ job[b].file \in Files
    BY <2>1, KeyType
  <2>3. Alone(b)'
    BY <1>2, <2>1, <2>2 DEF Undisturbed, Alone, Clean, TypeInv
  <2>4. Readable'
    <3>1. index' = index /\ built' = built /\ built \subseteq Entries /\ rewritten' = rewritten
      BY DEF Clean, TypeInv, history
    <3>2. \A e \in built : artifact'[e[2]] # "missing"
      BY <1>2, <2>1, <3>1, EntryParts DEF Undisturbed, Readable, Lists, TypeInv
    <3>3. \A z \in Sources : artifact'[z] = "cut" => artifact[z] = "cut"
      BY <1>2, <2>1 DEF TypeInv
    <3> QED
      BY <3>1, <3>2, <3>3 DEF Undisturbed, Readable
  <2>5. Answers'
    BY <1>2 DEF Undisturbed, Answers, Clean, history
  <2> QED
    BY <1>2, <2>1, <2>3, <2>4, <2>5, OnlyOne, OthersIdle
<1> QED
  BY <1>1, <1>2 DEF Clean

-----------------------------------------------------------------------------
LEMMA InitSolo == CacheInit => SoloInv
BY TextFacts DEF CacheInit, SoloInv, Undisturbed, OneRuns, Alone, Readable, Answers, Lists

LEMMA SoloStep ==
  ASSUME TypeInv, AgeInv, SoloInv, [CacheNext]_cVars
  PROVE  SoloInv'
<1>0. CASE UNCHANGED cVars
  BY <1>0 DEF cVars, disk, history, SoloInv, Undisturbed, OneRuns, Alone, Readable, Answers, Key, Lists
<1>1. CASE CacheNext
  <2>1. PICK b \in Builders :
          \/ StartBuild(b) \/ OpenCache(b) \/ Wipe(b) \/ Wiped(b) \/ LookupLlvm(b) \/ ReadArtifact(b)
          \/ Compile(b) \/ StoreFails(b) \/ BeginWrite(b) \/ EndWrite(b)
          \/ BeginSave(b) \/ EndSave(b) \/ Rename(b) \/ Clean(b) \/ Kill(b)
    BY <1>1 DEF CacheNext
  <2>2. solo' => solo /\ (StartBuild(b) => \A c \in Builders : at[c] = "idle")
    BY <2>1 DEF StartBuild, OpenCache, Wipe, Wiped, LookupLlvm, ReadArtifact, Compile, StoreFails,
                BeginWrite, EndWrite, BeginSave, EndSave, Rename, Clean, Kill, history
  <2>3. Kill(b) /\ Undisturbed => Undisturbed'
    BY FinishUndisturbed DEF Kill
  <2>4. solo' => Undisturbed'
    BY <2>1, <2>2, <2>3, StartUndisturbed, OpenUndisturbed, WipeUndisturbed, LookupUndisturbed,
       ReadUndisturbed, CompileUndisturbed, NoFailureAlone, WriteUndisturbed, SaveUndisturbed,
       RenameUndisturbed, CleanUndisturbed DEF SoloInv
  <2> QED
    BY <2>4 DEF SoloInv
<1> QED
  BY <1>0, <1>1

LEMMA CacheInvariant == CacheSpec => []CacheInv
<1>1. CacheInit => CacheInv
  BY InitType, InitAge, InitSolo DEF CacheInv
<1>2. CacheInv /\ [CacheNext]_cVars => CacheInv'
  BY TypeStep, AgeStep, SoloStep DEF CacheInv
<1> QED
  BY <1>1, <1>2, PTL DEF CacheSpec

(* No build is answered with what a toolchain of another CACHE_VERSION     *)
(* generated, for any number of builds, kills, files and sources.          *)
THEOREM NoOldIr == CacheSpec => []NeverOldIr
<1>1. CacheInv => NeverOldIr
  BY DEF CacheInv, AgeInv
<1> QED
  BY <1>1, CacheInvariant, PTL

(* Without overlapping builds, only an artifact that was written a second   *)
(* time while the index listed it can be read cut short.                    *)
THEOREM CutByRewriteOnly == CacheSpec => []CutOnlyByRewrite
<1>1. CacheInv => CutOnlyByRewrite
  BY DEF CacheInv, SoloInv, Undisturbed, Answers, CutOnlyByRewrite
<1> QED
  BY <1>1, CacheInvariant, PTL

(* Without overlapping builds, no sequence of kills leaves a directory that *)
(* makes a later build fail with a file error, or an index that no longer   *)
(* parses.                                                                  *)
THEOREM KillsDoNotInterrupt == CacheSpec => []NeverInterrupts
<1>1. CacheInv => NeverInterrupts
  BY DEF CacheInv, SoloInv, Undisturbed, Answers, Readable, NeverInterrupts
<1> QED
  BY <1>1, CacheInvariant, PTL

(* Without overlapping builds, what a build stored is found by every later  *)
(* one.                                                                     *)
THEOREM StoredStays == CacheSpec => []StoredIsFound
<1>1. CacheInv => StoredIsFound
  BY DEF CacheInv, SoloInv, Undisturbed, Readable, StoredIsFound
<1> QED
  BY <1>1, CacheInvariant, PTL
=============================================================================
