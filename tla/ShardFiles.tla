----------------------------- MODULE ShardFiles -----------------------------
(***************************************************************************)
(* Persistence of the LRU shards (pingora-lru persistence.rs): save_shards *)
(* and save_shards_async write each shard to a temporary file and rename   *)
(* it; load_shards reads each shard and then removes the temporary files.  *)
(*                                                                         *)
(* Several processes share the directory, as an old server that saves on   *)
(* its way out and the new one that loads do.  A process may crash between *)
(* any two system calls and start again; what it wrote stays (the code     *)
(* never calls fsync, and a crash of the machine is not modelled).  The    *)
(* payload of a shard is the number of the save that serialized it.        *)
(***************************************************************************)
EXTENDS Integers, FiniteSets

CONSTANTS
    Processes,
    N,           \* shards
    MaxSaves,    \* bound on the saves, over all processes
    MaxFailures, \* bound on failed system calls and crashes
    Missing      \* no such file

ASSUME ShardsAssumption == N \in Nat \ {0}

VARIABLES
    file,        \* shard -> what `file_name.{shard}' holds, or Missing
    temp,        \* the temporary files: [shard, save, whole]
    proc,        \* process -> the call it is in
    saves,       \* how many saves were begun
    failures

vars == <<file, temp, proc, saves, failures>>

Shards == 0..(N - 1)

\* shard: the loop variable; save: the save's number; loaded: the payloads read;
\* todo: the directory entries still to visit; quiet: `saves' at the start of a load
\* no save overlapped, else -1; cleaned: that number once the load ended.
Idle == [pc |-> "idle", shard |-> 0, save |-> 0, loaded |-> {}, todo |-> {},
         quiet |-> -1, cleaned |-> -1]

Init ==
    /\ file = [s \in Shards |-> Missing]
    /\ temp = {}
    /\ proc = [p \in Processes |-> Idle]
    /\ saves = 0 /\ failures = 0

Saving(p) == proc[p].pc \in {"serialize", "write", "rename"}

\* The temporary file of the shard process p is at (the random suffix of its name is
\* taken to be fresh), while the name is there.
TempOf(p) == {t \in temp : t.save = proc[p].save /\ t.shard = proc[p].shard}

Fail == failures < MaxFailures /\ failures' = failures + 1

\* The loop goes on with the next shard at `first', or leaves to `after'.
NextShard(p, first, after, r) ==
    proc' = [proc EXCEPT ![p] = IF r.shard + 1 < N THEN [r EXCEPT !.shard = @ + 1, !.pc = first]
                                ELSE [r EXCEPT !.shard = 0, !.pc = after]]

-----------------------------------------------------------------------------
(* save_shards, save_shards_async and write_shard_file.                    *)

\* create_dir_all.
StartSave(p) ==
    /\ proc[p].pc = "idle" /\ saves < MaxSaves
    /\ saves' = saves + 1
    /\ \/ proc' = [proc EXCEPT ![p] = [Idle EXCEPT !.pc = "serialize", !.save = saves + 1]] /\ UNCHANGED failures
       \/ Fail /\ proc' = [proc EXCEPT ![p] = Idle]
    /\ UNCHANGED <<file, temp>>

\* serialize_shard, then File::create.
CreateTemp(p) ==
    /\ proc[p].pc = "serialize"
    /\ temp' = temp \union {[shard |-> proc[p].shard, save |-> proc[p].save, whole |-> FALSE]}
    /\ proc' = [proc EXCEPT ![p].pc = "write"]
    /\ UNCHANGED <<file, saves, failures>>

\* write_all and flush, on a handle that stays good when the name is removed.
WriteTemp(p) ==
    /\ proc[p].pc = "write"
    /\ temp' = {[t EXCEPT !.whole = @ \/ t \in TempOf(p)] : t \in temp}
    /\ proc' = [proc EXCEPT ![p].pc = "rename"]
    /\ UNCHANGED <<file, saves, failures>>

\* rename replaces the shard's file in one step, and fails when the temporary file's
\* name is gone.
RenameAt(p, pcs) ==
    /\ proc[p].pc \in pcs
    /\ file' = IF TempOf(p) = {} THEN file
               ELSE [file EXCEPT ![proc[p].shard] = CHOOSE t \in TempOf(p) : TRUE]
    /\ temp' = temp \ TempOf(p)
    /\ NextShard(p, "serialize", "idle", proc[p])
    /\ UNCHANGED <<saves, failures>>

\* A save that may rename the file before its payload is written.
Rename_Early(p) == RenameAt(p, {"write", "rename"})

Rename(p) == RenameAt(p, {"rename"})

\* A shard that fails is counted and skipped; its temporary file stays.
SaveFails(p) ==
    /\ Saving(p) /\ Fail
    /\ NextShard(p, "serialize", "idle", proc[p])
    /\ UNCHANGED <<file, temp, saves>>

-----------------------------------------------------------------------------
(* load_shards and cleanup_temp_files.                                     *)

StartLoad(p) ==
    /\ proc[p].pc = "idle"
    /\ proc' = [proc EXCEPT ![p] =
         [Idle EXCEPT !.pc = "read", !.quiet = IF \E q \in Processes : Saving(q) THEN -1 ELSE saves]]
    /\ UNCHANGED <<file, temp, saves, failures>>

\* read_shard_file: the file opened is read to its end whatever is renamed over its
\* name meanwhile.  A missing file is an empty shard.
ReadShard(p) ==
    /\ proc[p].pc = "read"
    /\ NextShard(p, "read", "list",
         [proc[p] EXCEPT !.loaded = @ \union ({file[proc[p].shard]} \ {Missing})])
    /\ UNCHANGED <<file, temp, saves, failures>>

\* The open, the read or deserialize_shard fails, and the shard is skipped.
ReadFails(p) ==
    /\ proc[p].pc = "read" /\ file[proc[p].shard] # Missing /\ Fail
    /\ NextShard(p, "read", "list", proc[p])
    /\ UNCHANGED <<file, temp, saves>>

\* read_dir; when it fails nothing is removed.
ListTempFiles(p) ==
    /\ proc[p].pc = "list"
    /\ \/ proc' = [proc EXCEPT ![p].pc = "clean", ![p].todo = temp] /\ UNCHANGED failures
       \/ Fail /\ proc' = [proc EXCEPT ![p] = [Idle EXCEPT !.loaded = proc[p].loaded]]
    /\ UNCHANGED <<file, temp, saves>>

SameName(t, u) == t.shard = u.shard /\ t.save = u.save

\* remove_file on one `.tmp' entry, whoever wrote it; a file created since the listing
\* began may be met too.  An entry that fails is counted, and the walk goes on.
RemoveTemp(p) ==
    /\ proc[p].pc = "clean"
    /\ \E t \in proc[p].todo \union temp :
          \/ /\ temp' = {u \in temp : ~SameName(t, u)}
             /\ proc' = [proc EXCEPT ![p].todo = {u \in @ : ~SameName(t, u)}]
             /\ UNCHANGED failures
          \/ /\ Fail
             /\ proc' = [proc EXCEPT ![p].todo = {u \in @ : ~SameName(t, u)}, ![p].quiet = -1]
             /\ UNCHANGED temp
    /\ UNCHANGED <<file, saves>>

CleanupEnds(p) ==
    /\ proc[p].pc = "clean" /\ proc[p].todo = {}
    /\ proc' = [proc EXCEPT ![p] = [Idle EXCEPT !.loaded = proc[p].loaded, !.cleaned = proc[p].quiet]]
    /\ UNCHANGED <<file, temp, saves, failures>>

Crash(p) ==
    /\ proc[p].pc # "idle" /\ Fail
    /\ proc' = [proc EXCEPT ![p] = Idle]
    /\ UNCHANGED <<file, temp, saves>>

Next ==
    \E p \in Processes :
       \/ StartSave(p) \/ CreateTemp(p) \/ WriteTemp(p) \/ Rename(p) \/ SaveFails(p)
       \/ StartLoad(p) \/ ReadShard(p) \/ ReadFails(p) \/ ListTempFiles(p)
       \/ RemoveTemp(p) \/ CleanupEnds(p) \/ Crash(p)

Spec == Init /\ [][Next]_vars

-----------------------------------------------------------------------------
\* What load_shards reads was written to its end, whatever crashed or failed on the
\* way and however the saves and loads of several processes overlap.
LoadedWhole == \A p \in Processes : \A t \in proc[p].loaded : t.whole

\* The files crashed and failed saves left behind are gone after a load that no save
\* overlapped and whose clean-up met no error, until the next save begins.
OrphansRemoved == \A p \in Processes : proc[p].cleaned = saves => temp = {}

\* What a restart finds: whole files, and no left-overs after its clean-up.
FilesSound == LoadedWhole /\ OrphansRemoved

\* Refuted: the clean-up is for `orphaned' files.  A load removes the temporary file
\* of a save that is under way in another process, whose rename then fails.
RunningSaveKept == \A p \in Processes : proc[p].pc = "rename" => TempOf(p) # {}
=============================================================================
