-------------------------- MODULE ShardFilesProofs --------------------------
(***************************************************************************)
(* For any number of processes and shards, and however often they save,    *)
(* load, fail and crash: a load reads whole files only, and the clean-up   *)
(* of a load that no save overlapped leaves no temporary file behind.      *)
(***************************************************************************)
EXTENDS ShardFiles, TLAPS

File == [shard : Shards, save : Nat, whole : BOOLEAN]

PC == {"idle", "serialize", "write", "rename", "read", "list", "clean"}

Call == [pc : PC, shard : Shards, save : Nat, loaded : SUBSET File, todo : SUBSET File,
         quiet : Int, cleaned : Int]

TypeOK ==
    /\ file \in [Shards -> File \union {Missing}]
    /\ temp \subseteq File
    /\ proc \in [Processes -> Call]
    /\ saves \in Nat /\ failures \in Nat

-----------------------------------------------------------------------------
(* Why LoadedWhole holds: a save writes each of its files once, and no two *)
(* saves write the same file.                                              *)

\* Two saves under way have different numbers.
OwnSave ==
    \A p, q \in Processes :
       p # q /\ Saving(p) /\ Saving(q) => proc[p].save # proc[q].save

\* Numbers are given out in order.
SavesKnown ==
    /\ \A p \in Processes : proc[p].save <= saves
    /\ \A t \in temp : t.save <= saves

\* A save has left temporary files only for the shards it has come to.
NotAhead ==
    \A p \in Processes, t \in temp :
       Saving(p) /\ t.save = proc[p].save =>
          /\ t.shard <= proc[p].shard
          /\ proc[p].pc = "serialize" => t.shard < proc[p].shard

\* What is about to be renamed has been written.
WrittenFirst ==
    \A p \in Processes, t \in temp : proc[p].pc = "rename" /\ t \in TempOf(p) => t.whole

FilesWhole == \A s \in Shards : file[s] # Missing => file[s].whole

WholeInv == OwnSave /\ SavesKnown /\ NotAhead /\ WrittenFirst /\ FilesWhole /\ LoadedWhole

-----------------------------------------------------------------------------
(* Why OrphansRemoved holds: while `saves' is what it was at the start of  *)
(* a load that no save overlapped, nobody saves.                           *)

NobodySaves == \A q \in Processes : ~Saving(q)

QuietLoad ==
    \A p \in Processes :
       /\ proc[p].quiet <= saves /\ proc[p].cleaned <= saves
       /\ proc[p].quiet = saves =>
             NobodySaves /\ (proc[p].pc = "clean" => temp \subseteq proc[p].todo)
       /\ proc[p].cleaned = saves => NobodySaves /\ temp = {}

IInv == TypeOK /\ WholeInv /\ QuietLoad

-----------------------------------------------------------------------------
LEMMA IdleIsCall ==
  /\ Idle \in Call /\ Idle.pc = "idle" /\ Idle.save = 0 /\ Idle.loaded = {}
  /\ Idle.quiet = -1 /\ Idle.cleaned = -1
BY ShardsAssumption DEF Idle, Call, PC, Shards, File

LEMMA InitIInv == Init => IInv
<1> SUFFICES ASSUME Init PROVE IInv BY Zenon
<1>1. \A p \in Processes : proc[p] = Idle BY Zenon DEF Init
<1>2. TypeOK BY Zenon, <1>1, IdleIsCall DEF Init, TypeOK
<1>3. WholeInv
  BY <1>1 DEF Init, WholeInv, OwnSave, SavesKnown, NotAhead, WrittenFirst, FilesWhole,
              LoadedWhole, Saving, Idle
<1>4. QuietLoad BY <1>1 DEF Init, QuietLoad, Idle
<1> QED BY Zenon, <1>2, <1>3, <1>4 DEF IInv

\* Where the loop over the shards goes.
LEMMA ShardLoop ==
  ASSUME NEW p \in Processes, NEW r \in Call, NEW first \in PC, NEW after \in PC,
         TypeOK, NextShard(p, first, after, r)
  PROVE  /\ proc' \in [Processes -> Call]
         /\ \A q \in Processes : q # p => proc'[q] = proc[q]
         /\ proc'[p].save = r.save /\ proc'[p].loaded = r.loaded /\ proc'[p].todo = r.todo
         /\ proc'[p].quiet = r.quiet /\ proc'[p].cleaned = r.cleaned
         /\ \/ proc'[p].pc = first /\ proc'[p].shard = r.shard + 1
            \/ proc'[p].pc = after /\ proc'[p].shard = 0
<1>1. 0 \in Shards /\ (r.shard + 1 < N => r.shard + 1 \in Shards) /\ r.shard \in Int
  BY ShardsAssumption DEF Shards, Call
<1> QED BY Zenon, <1>1 DEF NextShard, TypeOK, Call

\* A step of p leaves the calls of the others alone.
Others(p) == \A q \in Processes : q # p => proc'[q] = proc[q]

LEMMA NextIInv == IInv /\ [Next]_vars => IInv'
<1> SUFFICES ASSUME IInv, [Next]_vars PROVE IInv' BY Zenon
<1> USE DEF IInv
<1>ty. TypeOK /\ 0 \in Shards /\ N \in Nat /\ Shards \subseteq Nat
  BY ShardsAssumption DEF Shards
<1>st. CASE UNCHANGED vars
  BY Zenon, <1>st DEF vars, TypeOK, WholeInv, OwnSave, SavesKnown, NotAhead, WrittenFirst, FilesWhole,
               LoadedWhole, QuietLoad, NobodySaves, Saving, TempOf
<1>n. ASSUME NEW p \in Processes,
             \/ StartSave(p) \/ CreateTemp(p) \/ WriteTemp(p) \/ Rename(p) \/ SaveFails(p)
             \/ StartLoad(p) \/ ReadShard(p) \/ ReadFails(p) \/ ListTempFiles(p)
             \/ RemoveTemp(p) \/ CleanupEnds(p) \/ Crash(p)
      PROVE  IInv'
  <2>p. proc[p] \in Call BY Zenon, <1>ty DEF TypeOK
  <2>1. CASE StartSave(p)
    <3> DEFINE r == [Idle EXCEPT !.pc = "serialize", !.save = saves + 1]
    <3>n. saves + 1 \in Nat BY <1>ty DEF TypeOK
    <3>r. r \in Call BY Zenon, <3>n, IdleIsCall DEF Call, PC
    <3>f. /\ r.pc = "serialize" /\ r.save = saves + 1 /\ r.loaded = {}
          /\ r.quiet = -1 /\ r.cleaned = -1
      BY Zenon, IdleIsCall DEF Call
    <3>0. proc' = [proc EXCEPT ![p] = r] \/ proc' = [proc EXCEPT ![p] = Idle]
      BY Zenon, <2>1 DEF StartSave
    <3> HIDE DEF r
    <3>1. /\ proc' \in [Processes -> Call] /\ Others(p)
          /\ proc'[p].pc \in {"serialize", "idle"} /\ proc'[p].loaded = {}
          /\ proc'[p].save <= saves + 1 /\ proc'[p].quiet = -1 /\ proc'[p].cleaned = -1
          /\ proc'[p].pc = "serialize" => proc'[p].save = saves + 1
      BY <3>0, <3>r, <3>f, IdleIsCall, <1>ty DEF TypeOK, Others
    <3>2. file' = file /\ temp' = temp /\ saves' = saves + 1 /\ failures' \in Nat
      BY <2>1, <1>ty DEF StartSave, Fail, TypeOK
    <3>3. TypeOK' BY <3>1, <3>2 DEF TypeOK
    <3>4. WholeInv'
      BY <3>1, <3>2, <1>ty
         DEF WholeInv, OwnSave, SavesKnown, NotAhead, WrittenFirst, FilesWhole, LoadedWhole,
             Saving, TempOf, TypeOK, File, Call, Others
    <3>5. QuietLoad' BY <3>1, <3>2, <1>ty DEF QuietLoad, TypeOK, Call, Others
    <3> QED BY Zenon, <3>3, <3>4, <3>5
  <2>2. CASE CreateTemp(p)
    <3> DEFINE new == [shard |-> proc[p].shard, save |-> proc[p].save, whole |-> FALSE]
    <3>1. /\ proc' \in [Processes -> Call] /\ Others(p) /\ proc[p].pc = "serialize"
          /\ proc'[p] = [proc[p] EXCEPT !.pc = "write"]
      BY Zenon, <2>2, <1>ty, <2>p DEF CreateTemp, TypeOK, Call, PC, Others
    <3>2. file' = file /\ temp' = temp \union {new} /\ UNCHANGED <<saves, failures>>
      BY Zenon, <2>2 DEF CreateTemp
    <3>3. new \in File BY Zenon, <2>p DEF Call, File
    <3>4. TypeOK' BY Zenon, <3>1, <3>2, <3>3, <1>ty DEF TypeOK
    <3>5. WholeInv'
      <4>1. OwnSave' /\ SavesKnown' /\ FilesWhole' /\ LoadedWhole'
        BY <3>1, <3>2, <2>p DEF WholeInv, OwnSave, SavesKnown, FilesWhole, LoadedWhole, Saving, Call, Others
      <4>2. NotAhead'
        BY <3>1, <3>2, <3>3, <2>p, <1>ty
           DEF WholeInv, OwnSave, NotAhead, Saving, Call, File, TypeOK, Others
      <4>3. ASSUME NEW q \in Processes, NEW t \in temp', proc'[q].pc = "rename", t \in TempOf(q)'
            PROVE  t.whole
        <5>1. q # p /\ proc'[q] = proc[q] BY Zenon, <4>3, <3>1, <2>p DEF Call, Others
        <5>2. proc[q].save # proc[p].save
          BY Zenon, <5>1, <4>3, <3>1 DEF WholeInv, OwnSave, Saving
        <5>3. t # new BY <5>1, <5>2, <4>3 DEF TempOf
        <5> QED BY Zenon, <5>1, <5>3, <4>3, <3>2 DEF WholeInv, WrittenFirst, TempOf
      <4> QED BY Zenon, <4>1, <4>2, <4>3 DEF WholeInv, WrittenFirst
    <3>6. Saving(p) BY Zenon, <3>1 DEF Saving
    <3>7. QuietLoad'
      BY <3>1, <3>2, <3>6, <1>ty, <2>p DEF QuietLoad, NobodySaves, TypeOK, Call, Others
    <3> QED BY Zenon, <3>4, <3>5, <3>7
  <2>3. CASE WriteTemp(p)
    <3> DEFINE img(t) == [t EXCEPT !.whole = t.whole \/ t \in TempOf(p)]
    <3>1. /\ proc' \in [Processes -> Call] /\ Others(p) /\ proc[p].pc = "write"
          /\ proc'[p].pc = "rename" /\ proc'[p].save = proc[p].save
          /\ proc'[p].shard = proc[p].shard /\ proc'[p].loaded = proc[p].loaded
          /\ proc'[p].todo = proc[p].todo
          /\ proc'[p].quiet = proc[p].quiet /\ proc'[p].cleaned = proc[p].cleaned
      BY Zenon, <2>3, <1>ty, <2>p DEF WriteTemp, TypeOK, Call, PC, Others
    <3>2. file' = file /\ temp' = {img(t) : t \in temp} /\ UNCHANGED <<saves, failures>>
      BY Zenon, <2>3 DEF WriteTemp
    <3>3. \A t \in temp : /\ img(t) \in File
                          /\ img(t).shard = t.shard /\ img(t).save = t.save
                          /\ t.whole => img(t).whole
                          /\ t \in TempOf(p) => img(t).whole
      BY <1>ty, Zenon DEF TypeOK, File
    <3> HIDE DEF img
    <3>4. TypeOK' BY <3>1, <3>2, <3>3, <1>ty DEF TypeOK
    <3>5. WholeInv'
      <4>1. OwnSave' /\ FilesWhole' /\ LoadedWhole'
        BY <3>1, <3>2 DEF WholeInv, OwnSave, FilesWhole, LoadedWhole, Saving, Others
      <4>2. SavesKnown' BY <3>1, <3>2, <3>3 DEF WholeInv, SavesKnown, Others
      <4>3. NotAhead' BY <3>1, <3>2, <3>3 DEF WholeInv, NotAhead, Saving, Others
      <4>4. WrittenFirst' BY <3>1, <3>2, <3>3 DEF WholeInv, WrittenFirst, TempOf, Others
      <4> QED BY Zenon, <4>1, <4>2, <4>3, <4>4 DEF WholeInv
    <3>6. Saving(p) BY Zenon, <3>1 DEF Saving
    <3>7. QuietLoad'
      BY <3>1, <3>2, <3>6, <1>ty, <2>p DEF QuietLoad, NobodySaves, Others
    <3> QED BY Zenon, <3>4, <3>5, <3>7
  <2>4. CASE Rename(p)
    <3>0. NextShard(p, "serialize", "idle", proc[p]) BY Zenon, <2>4 DEF Rename, RenameAt
    <3>1. /\ proc' \in [Processes -> Call] /\ Others(p) /\ proc[p].pc = "rename"
          /\ proc'[p].save = proc[p].save /\ proc'[p].loaded = proc[p].loaded
          /\ proc'[p].todo = proc[p].todo
          /\ proc'[p].quiet = proc[p].quiet /\ proc'[p].cleaned = proc[p].cleaned
          /\ \/ proc'[p].pc = "serialize" /\ proc'[p].shard = proc[p].shard + 1
             \/ proc'[p].pc = "idle"
      BY <2>4, <3>0, <1>ty, <2>p, ShardLoop DEF Rename, RenameAt, PC, Others
    <3>2. temp' = temp \ TempOf(p) /\ UNCHANGED <<saves, failures>>
      BY Zenon, <2>4 DEF Rename, RenameAt
    <3>3. \/ file' = file
          \/ \E t \in TempOf(p) : file' = [file EXCEPT ![proc[p].shard] = t]
      BY Zenon, <2>4 DEF Rename, RenameAt
    <3>4. \A t \in TempOf(p) : t \in temp /\ t \in File /\ t.whole
      BY Zenon, <3>1, <1>ty DEF TypeOK, TempOf, WholeInv, WrittenFirst
    <3>5. file' \in [Shards -> File \union {Missing}] /\ FilesWhole'
      BY Zenon, <3>3, <3>4, <1>ty DEF TypeOK, WholeInv, FilesWhole
    <3>6. TypeOK' BY Zenon, <3>1, <3>2, <3>5, <1>ty DEF TypeOK
    <3>7. WholeInv'
      <4>1. OwnSave' /\ SavesKnown' /\ LoadedWhole'
        BY <3>1, <3>2 DEF WholeInv, OwnSave, SavesKnown, LoadedWhole, Saving, Others
      <4>2. NotAhead'
        <5>1. proc[p].shard \in Nat /\ \A t \in temp : t \in File /\ t.shard \in Nat
          BY Zenon, <1>ty, <2>p DEF TypeOK, File, Call, Shards
        <5> QED BY <5>1, <3>1, <3>2 DEF WholeInv, NotAhead, Saving, Others
      <4>3. WrittenFirst' BY <3>1, <3>2 DEF WholeInv, WrittenFirst, TempOf, Others
      <4> QED BY Zenon, <4>1, <4>2, <4>3, <3>5 DEF WholeInv
    <3>8. Saving(p) BY Zenon, <3>1 DEF Saving
    <3>9. QuietLoad' BY <3>1, <3>2, <3>8 DEF QuietLoad, NobodySaves, Others
    <3> QED BY Zenon, <3>6, <3>7, <3>9
  <2>5. CASE SaveFails(p)
    <3>0. NextShard(p, "serialize", "idle", proc[p]) BY Zenon, <2>5 DEF SaveFails
    <3>1. /\ proc' \in [Processes -> Call] /\ Others(p) /\ Saving(p)
          /\ proc'[p].save = proc[p].save /\ proc'[p].loaded = proc[p].loaded
          /\ proc'[p].todo = proc[p].todo
          /\ proc'[p].quiet = proc[p].quiet /\ proc'[p].cleaned = proc[p].cleaned
          /\ \/ proc'[p].pc = "serialize" /\ proc'[p].shard = proc[p].shard + 1
             \/ proc'[p].pc = "idle"
      <4>1. /\ proc[p] \in Call /\ Saving(p) /\ TypeOK
            /\ "serialize" \in PC /\ "idle" \in PC
        BY <2>5, <1>ty, <2>p DEF SaveFails, PC
      <4> QED BY <3>0, <4>1, ShardLoop DEF Others
    <3>2. UNCHANGED <<file, temp, saves>> /\ failures' \in Nat
      BY <2>5, <1>ty DEF SaveFails, Fail, TypeOK
    <3>3. TypeOK' BY Zenon, <3>1, <3>2, <1>ty DEF TypeOK
    <3>4. WholeInv'
      <4>1. OwnSave' /\ SavesKnown' /\ FilesWhole' /\ LoadedWhole'
        BY <3>1, <3>2 DEF WholeInv, OwnSave, SavesKnown, FilesWhole, LoadedWhole, Saving, Others
      <4>2. NotAhead'
        <5>1. proc[p].shard \in Nat /\ \A t \in temp : t \in File /\ t.shard \in Nat
          BY Zenon, <1>ty, <2>p DEF TypeOK, File, Call, Shards
        <5> QED BY <5>1, <3>1, <3>2 DEF WholeInv, NotAhead, Saving, Others
      <4>3. WrittenFirst' BY <3>1, <3>2 DEF WholeInv, WrittenFirst, TempOf, Others
      <4> QED BY Zenon, <4>1, <4>2, <4>3 DEF WholeInv
    <3>5. QuietLoad' BY <3>1, <3>2 DEF QuietLoad, NobodySaves, Others
    <3> QED BY Zenon, <3>3, <3>4, <3>5
  <2>6. CASE StartLoad(p)
    <3> DEFINE quiet == IF \E q \in Processes : Saving(q) THEN -1 ELSE saves
               r == [Idle EXCEPT !.pc = "read", !.quiet = quiet]
    <3>r. quiet \in Int /\ quiet <= saves /\ (quiet = saves => NobodySaves)
      BY <1>ty DEF TypeOK, NobodySaves
    <3> HIDE DEF quiet
    <3>1. r \in Call BY Zenon, IdleIsCall, <3>r, <1>ty DEF Call, PC
    <3>2. /\ r.pc = "read" /\ r.save = 0 /\ r.loaded = {} /\ r.quiet = quiet /\ r.cleaned = -1
      BY Zenon, IdleIsCall DEF Call
    <3>3. proc' = [proc EXCEPT ![p] = r] /\ proc[p].pc = "idle" BY Zenon, <2>6 DEF StartLoad, quiet
    <3> HIDE DEF r
    <3>4. /\ proc' \in [Processes -> Call] /\ Others(p)
          /\ proc'[p].pc = "read" /\ proc'[p].save = 0 /\ proc'[p].loaded = {}
          /\ proc'[p].quiet = quiet /\ proc'[p].cleaned = -1
      BY Zenon, <3>1, <3>2, <3>3, <1>ty DEF TypeOK, Others
    <3>5. UNCHANGED <<file, temp, saves, failures>> BY Zenon, <2>6 DEF StartLoad
    <3>6. TypeOK' BY Zenon, <3>4, <3>5, <1>ty DEF TypeOK
    <3>7. WholeInv'
      BY <3>4, <3>5, <1>ty
         DEF WholeInv, OwnSave, SavesKnown, NotAhead, WrittenFirst, FilesWhole, LoadedWhole,
             Saving, TempOf, TypeOK, Others
    <3>8. NobodySaves => NobodySaves' BY Zenon, <3>4 DEF NobodySaves, Saving, Others
    <3>9. QuietLoad' BY <3>4, <3>5, <3>r, <3>8, <1>ty DEF QuietLoad, Others, TypeOK
    <3> QED BY Zenon, <3>6, <3>7, <3>9
  <2>7. CASE ReadShard(p)
    <3> DEFINE read == {file[proc[p].shard]} \ {Missing}
               r == [proc[p] EXCEPT !.loaded = proc[p].loaded \union read]
    <3>r. read \subseteq File /\ \A t \in read : t.whole
      BY Zenon, <1>ty, <2>p DEF TypeOK, Call, WholeInv, FilesWhole
    <3>n. NextShard(p, "read", "list", r) BY Zenon, <2>7 DEF ReadShard
    <3> HIDE DEF read
    <3>1. /\ r \in Call /\ r.save = proc[p].save /\ r.todo = proc[p].todo
          /\ r.quiet = proc[p].quiet /\ r.cleaned = proc[p].cleaned
          /\ r.loaded = proc[p].loaded \union read
      BY Zenon, <3>r, <2>p DEF Call
    <3> HIDE DEF r
    <3>2. /\ proc' \in [Processes -> Call] /\ Others(p) /\ proc[p].pc = "read"
          /\ proc'[p].save = proc[p].save /\ proc'[p].todo = proc[p].todo
          /\ proc'[p].loaded = proc[p].loaded \union read
          /\ proc'[p].quiet = proc[p].quiet /\ proc'[p].cleaned = proc[p].cleaned
          /\ proc'[p].pc \in {"read", "list"}
      BY <2>7, <3>n, <3>1, <1>ty, ShardLoop DEF ReadShard, PC, Others
    <3>3. UNCHANGED <<file, temp, saves, failures>> BY Zenon, <2>7 DEF ReadShard
    <3>4. TypeOK' BY Zenon, <3>2, <3>3, <1>ty DEF TypeOK
    <3>5. WholeInv'
      BY <3>2, <3>3, <3>r
         DEF WholeInv, OwnSave, SavesKnown, NotAhead, WrittenFirst, FilesWhole, LoadedWhole,
             Saving, TempOf, Others
    <3>6. QuietLoad' BY <3>2, <3>3 DEF QuietLoad, NobodySaves, Saving, Others
    <3> QED BY Zenon, <3>4, <3>5, <3>6
  <2>8. CASE ReadFails(p)
    <3>n. NextShard(p, "read", "list", proc[p]) BY Zenon, <2>8 DEF ReadFails
    <3>1. /\ proc' \in [Processes -> Call] /\ Others(p) /\ proc[p].pc = "read"
          /\ proc'[p].save = proc[p].save /\ proc'[p].todo = proc[p].todo
          /\ proc'[p].loaded = proc[p].loaded
          /\ proc'[p].quiet = proc[p].quiet /\ proc'[p].cleaned = proc[p].cleaned
          /\ proc'[p].pc \in {"read", "list"}
      BY <2>8, <3>n, <1>ty, <2>p, ShardLoop DEF ReadFails, PC, Others
    <3>2. UNCHANGED <<file, temp, saves>> /\ failures' \in Nat
      BY <2>8, <1>ty DEF ReadFails, Fail, TypeOK
    <3>3. TypeOK' BY Zenon, <3>1, <3>2, <1>ty DEF TypeOK
    <3>4. WholeInv'
      BY <3>1, <3>2
         DEF WholeInv, OwnSave, SavesKnown, NotAhead, WrittenFirst, FilesWhole, LoadedWhole,
             Saving, TempOf, Others
    <3>5. QuietLoad' BY <3>1, <3>2 DEF QuietLoad, NobodySaves, Saving, Others
    <3> QED BY Zenon, <3>3, <3>4, <3>5
  <2>9. CASE ListTempFiles(p)
    <3> DEFINE r == [Idle EXCEPT !.loaded = proc[p].loaded]
    <3>r. r \in Call BY Zenon, IdleIsCall, <2>p DEF Call
    <3>f. /\ r.pc = "idle" /\ r.save = 0 /\ r.loaded = proc[p].loaded
          /\ r.quiet = -1 /\ r.cleaned = -1
      BY Zenon, IdleIsCall DEF Call
    <3>0. \/ proc' = [proc EXCEPT ![p].pc = "clean", ![p].todo = temp]
          \/ proc' = [proc EXCEPT ![p] = r]
      BY Zenon, <2>9 DEF ListTempFiles
    <3> HIDE DEF r
    <3>1. /\ proc' \in [Processes -> Call] /\ Others(p)
          /\ proc'[p].pc \in {"clean", "idle"} /\ proc'[p].loaded = proc[p].loaded
          /\ \/ /\ proc'[p].todo = temp /\ proc'[p].save = proc[p].save
                /\ proc'[p].quiet = proc[p].quiet /\ proc'[p].cleaned = proc[p].cleaned
             \/ proc'[p].save = 0 /\ proc'[p].quiet = -1 /\ proc'[p].cleaned = -1
      <4>1. CASE proc' = [proc EXCEPT ![p].pc = "clean", ![p].todo = temp]
        BY Zenon, <4>1, <1>ty, <2>p DEF TypeOK, Call, PC, Others
      <4>2. CASE proc' = [proc EXCEPT ![p] = r]
        BY Zenon, <4>2, <3>r, <3>f, <1>ty DEF TypeOK, Others
      <4> QED BY Zenon, <3>0, <4>1, <4>2
    <3>2. UNCHANGED <<file, temp, saves>> /\ failures' \in Nat /\ proc[p].pc = "list"
      BY <2>9, <1>ty DEF ListTempFiles, Fail, TypeOK
    <3>3. TypeOK' BY Zenon, <3>1, <3>2, <1>ty DEF TypeOK
    <3>4. WholeInv'
      BY <3>1, <3>2, <1>ty
         DEF WholeInv, OwnSave, SavesKnown, NotAhead, WrittenFirst, FilesWhole, LoadedWhole,
             Saving, TempOf, Others, TypeOK
    <3>5. NobodySaves => NobodySaves' BY Zenon, <3>1 DEF NobodySaves, Saving, Others
    <3>6. QuietLoad' BY <3>1, <3>2, <3>5, <1>ty DEF QuietLoad, Others, TypeOK
    <3> QED BY Zenon, <3>3, <3>4, <3>6
  <2>10. CASE RemoveTemp(p)
    <3>0. PICK t \in proc[p].todo \union temp :
            \/ /\ temp' = {u \in temp : ~SameName(t, u)}
               /\ proc' = [proc EXCEPT ![p].todo = {u \in proc[p].todo : ~SameName(t, u)}]
               /\ UNCHANGED failures
            \/ /\ Fail
               /\ proc' = [proc EXCEPT ![p].todo = {u \in proc[p].todo : ~SameName(t, u)},
                                       ![p].quiet = -1]
               /\ UNCHANGED temp
      BY Zenon, <2>10, <1>ty DEF RemoveTemp, TypeOK
    <3>1. /\ proc' \in [Processes -> Call] /\ Others(p)
          /\ proc'[p].pc = proc[p].pc /\ proc'[p].loaded = proc[p].loaded
          /\ proc'[p].shard = proc[p].shard
          /\ proc'[p].save = proc[p].save /\ proc'[p].cleaned = proc[p].cleaned
          /\ \/ /\ proc'[p].quiet = proc[p].quiet
                /\ proc'[p].todo = {u \in proc[p].todo : ~SameName(t, u)}
                /\ temp' = {u \in temp : ~SameName(t, u)}
             \/ proc'[p].quiet = -1
      BY <3>0, <1>ty, <2>p DEF TypeOK, Call, Others
    <3>2. temp' \subseteq temp /\ UNCHANGED <<file, saves>> /\ failures' \in Nat
      BY <2>10, <3>0, <1>ty DEF RemoveTemp, Fail, TypeOK
    <3>3. TypeOK' BY Zenon, <3>1, <3>2, <1>ty DEF TypeOK
    <3>4. WholeInv'
      BY <3>1, <3>2
         DEF WholeInv, OwnSave, SavesKnown, NotAhead, WrittenFirst, FilesWhole, LoadedWhole,
             Saving, TempOf, Others
    <3>5. NobodySaves => NobodySaves' BY Zenon, <3>1 DEF NobodySaves, Saving, Others
    <3>6. QuietLoad' BY <3>1, <3>2, <3>5, <1>ty DEF QuietLoad, Others, TypeOK
    <3> QED BY Zenon, <3>3, <3>4, <3>6
  <2>11. CASE CleanupEnds(p)
    <3> DEFINE r == [Idle EXCEPT !.loaded = proc[p].loaded, !.cleaned = proc[p].quiet]
    <3>r. r \in Call BY Zenon, IdleIsCall, <2>p DEF Call
    <3>f. /\ r.pc = "idle" /\ r.save = 0 /\ r.loaded = proc[p].loaded
          /\ r.quiet = -1 /\ r.cleaned = proc[p].quiet
      BY Zenon, IdleIsCall DEF Call
    <3>0. proc' = [proc EXCEPT ![p] = r] BY Zenon, <2>11 DEF CleanupEnds
    <3> HIDE DEF r
    <3>1. /\ proc' \in [Processes -> Call] /\ Others(p)
          /\ proc'[p].pc = "idle" /\ proc'[p].save = 0 /\ proc'[p].loaded = proc[p].loaded
          /\ proc'[p].quiet = -1 /\ proc'[p].cleaned = proc[p].quiet
      BY Zenon, <3>0, <3>r, <3>f, <1>ty DEF TypeOK, Others
    <3>2. /\ proc[p].pc = "clean" /\ proc[p].todo = {}
          /\ UNCHANGED <<file, temp, saves, failures>>
      BY Zenon, <2>11 DEF CleanupEnds
    <3>3. TypeOK' BY Zenon, <3>1, <3>2, <1>ty DEF TypeOK
    <3>4. WholeInv'
      BY <3>1, <3>2, <1>ty
         DEF WholeInv, OwnSave, SavesKnown, NotAhead, WrittenFirst, FilesWhole, LoadedWhole,
             Saving, TempOf, Others, TypeOK
    <3>5. NobodySaves => NobodySaves' BY Zenon, <3>1 DEF NobodySaves, Saving, Others
    <3>6. QuietLoad' BY <3>1, <3>2, <3>5, <1>ty DEF QuietLoad, Others, TypeOK
    <3> QED BY Zenon, <3>3, <3>4, <3>6
  <2>12. CASE Crash(p)
    <3>1. /\ proc' \in [Processes -> Call] /\ Others(p)
          /\ proc'[p].pc = "idle" /\ proc'[p].save = 0 /\ proc'[p].loaded = {}
          /\ proc'[p].quiet = -1 /\ proc'[p].cleaned = -1
      BY Zenon, <2>12, IdleIsCall, <1>ty DEF Crash, TypeOK, Others
    <3>2. UNCHANGED <<file, temp, saves>> /\ failures' \in Nat
      BY <2>12, <1>ty DEF Crash, Fail, TypeOK
    <3>3. TypeOK' BY Zenon, <3>1, <3>2, <1>ty DEF TypeOK
    <3>4. WholeInv'
      BY <3>1, <3>2, <1>ty
         DEF WholeInv, OwnSave, SavesKnown, NotAhead, WrittenFirst, FilesWhole, LoadedWhole,
             Saving, TempOf, Others, TypeOK
    <3>5. NobodySaves => NobodySaves' BY Zenon, <3>1 DEF NobodySaves, Saving, Others
    <3>6. QuietLoad' BY <3>1, <3>2, <3>5, <1>ty DEF QuietLoad, Others, TypeOK
    <3> QED BY Zenon, <3>3, <3>4, <3>6
  <2> QED
    BY Zenon, <1>n, <2>1, <2>2, <2>3, <2>4, <2>5, <2>6, <2>7, <2>8, <2>9, <2>10, <2>11, <2>12
<1> QED BY Zenon, <1>st, <1>n DEF Next

LEMMA Inductive == Spec => []IInv
BY InitIInv, NextIInv, PTL DEF Spec

\* load_shards() only ever reads files write_shard_file() wrote to their end, and
\* after a load that no save overlapped cleanup_temp_files() has removed every
\* temporary file: for any number of processes and shards, any crashes and failures.
THEOREM FilesAlwaysSound == Spec => []FilesSound
<1>1. IInv => FilesSound
  BY Zenon DEF IInv, WholeInv, QuietLoad, FilesSound, OrphansRemoved
<1> QED BY <1>1, Inductive, PTL
=============================================================================
