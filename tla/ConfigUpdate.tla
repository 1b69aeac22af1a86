----------------------------- MODULE ConfigUpdate -----------------------------
(* Updating the dependencies of a writable BaseConfig: jobs are queued, then   *)
(* ExecuteUpdateJobs uploads their files, writes the config file, and if       *)
(* anything is raised, tries to undo the uploads, the last one first.          *)
EXTENDS Integers, Sequences, TLC

CONSTANTS
  Platform,   \* the platforms of the dependency
  Object,     \* remote paths, each named by the hash of the file that goes there
  MaxJobs,    \* bound: jobs queued at a time
  MaxRuns     \* bound: calls of ExecuteUpdateJobs

Nothing == "nothing"    \* no object at a remote path
Torn    == [f \in Platform |-> "torn"]   \* the config file emptied and not written
\* What the config may have for a platform besides a hash: no dependency to have it in, no
\* such platform, a download path alone.
Unnamed == "unnamed"
Absent  == "absent"
Hashless == "hashless"
NonePath == "None"      \* the backup path after a rollback cleared it

VARIABLES
  disk,      \* the config file: the hash of each platform, or torn
  data,      \* _config_data
  pending,   \* _pending_uploads
  store,     \* the content at each remote path: an earlier one, or that of a job
  backup,    \* the content at each backup path
  step, item,  \* the step of ExecuteUpdateJobs and the upload it is at
  force,
  runs,
  before,    \* the store and the config file when the run began
  behind,    \* the objects that the rollback of the run does not undo, or did not reach
  hit,       \* the run was interrupted as it wrote the config file, or right after
  tangled    \* the uploads of the run do not each have a backup path of their own

vars == <<disk, data, pending, store, backup, step, item, force, runs, before, behind, hit,
          tangled>>

Earlier == "earlier"
Upload_(o) == [to |-> o, updated |-> FALSE, backed_up |-> FALSE, backup |-> o]
IsDirty == disk # data

Init == /\ \/ \E h \in Object : disk = [f \in Platform |-> h]
           \/ \E h \in Object, f \in Platform :
                disk = [g \in Platform |-> IF g = f THEN h ELSE Absent]
           \/ disk = [f \in Platform |-> Unnamed]
        /\ data = disk /\ pending = <<>>
        /\ store \in [Object -> {Nothing, Earlier}]
        /\ backup = [o \in Object \cup {NonePath} |-> Nothing]
        /\ step = "idle" /\ item = 0 /\ force = FALSE /\ runs = 0
        /\ before = <<store, disk>> /\ behind = {} /\ hit = FALSE /\ tangled = FALSE

Edit == /\ step = "idle" /\ Len(pending) < MaxJobs /\ disk # Torn
        /\ UNCHANGED <<disk, pending, store, backup, step, item, force, runs, before, behind, hit,
                       tangled>>

\* Nothing of the dependency may be there yet.
AddNewDependency == /\ \A f \in Platform : data[f] = Unnamed
                    /\ data' = [f \in Platform |-> Absent] /\ Edit

\* It makes the platform if there is none; where there is, only the path is another.
SetDownloadPath == \E f \in Platform : data[f] = Absent /\ data' = [data EXCEPT ![f] = Hashless] /\ Edit

\* _SetPlatformData: the platform must have something.
Set(f, o) == data[f] \notin {Unnamed, Absent} /\ data' = [data EXCEPT ![f] = o]

\* AddCloudStorageDependencyUpdateJob with execute_job=False.
AddJob == /\ step = "idle" /\ Len(pending) < MaxJobs /\ disk # Torn
          /\ \E f \in Platform, o \in Object :
               /\ Set(f, o)
               /\ pending' = Append(pending, Upload_(o))
          /\ UNCHANGED <<disk, store, backup, step, item, force, runs, before, behind, hit,
                         tangled>>

\* Each upload has a backup path of its own: with force, no two go to one place, and
\* none is left from a run before, with its object still there or None for its backup.
Separate(forced) ==
  /\ \A i \in DOMAIN pending : ~pending[i].backed_up /\ ~pending[i].updated
  /\ forced => \A i, j \in DOMAIN pending : i # j => pending[i].to # pending[j].to

\* A clean config is left as it is, and so is a dirty one without uploads, though the
\* answer for it is True.
Execute == /\ step = "idle" /\ runs < MaxRuns /\ disk # Torn /\ IsDirty
           /\ runs' = runs + 1 /\ force' \in BOOLEAN
           /\ tangled' = ~Separate(force') /\ behind' = {} /\ hit' = FALSE
           /\ before' = <<store, disk>>
           /\ IF pending = <<>> THEN step' = "done" /\ item' = 0
                               ELSE step' = "exists" /\ item' = 1
           /\ UNCHANGED <<disk, data, pending, store, backup>>

Item   == pending[item]
Mark(f, v) == pending' = [pending EXCEPT ![item][f] = v]
Undo   == step' = "rollback" /\ item' = Len(pending)
Keep   == UNCHANGED <<disk, data, force, runs, before, tangled>>

\* As if what is there already were what was to be uploaded (a mutant).
ExistsAlready ==
  /\ step = "exists"
  /\ \/ store[Item.to] = Nothing /\ step' = "insert" /\ UNCHANGED item
     \/ /\ store[Item.to] # Nothing
        /\ IF item < Len(pending) THEN item' = item + 1 /\ UNCHANGED step
                                  ELSE step' = "write" /\ UNCHANGED item
  /\ UNCHANGED <<pending, store, backup, behind, hit>> /\ Keep

\* Upload: an object in the way is a conflict, or with force, backed up first.  What is
\* reported to have failed, or interrupted, may have been done all the same.
Exists ==
  /\ step = "exists"
  /\ \/ /\ store[Item.to] = Nothing
        /\ step' = "insert" /\ UNCHANGED <<pending, item, backup>>
     \/ /\ store[Item.to] # Nothing /\ force
        /\ backup' = [backup EXCEPT ![Item.backup] = store[Item.to]]
        /\ \/ Mark("backed_up", TRUE) /\ step' = "insert" /\ UNCHANGED item
           \/ Undo /\ UNCHANGED pending
     \/ Undo /\ UNCHANGED <<pending, backup>>
  /\ UNCHANGED <<store, behind, hit>> /\ Keep

\* Of an object that is there though its insertion failed the rollback knows nothing,
\* unless there was one to be backed up.
Insert ==
  /\ step = "insert"
  /\ \/ /\ store' = [store EXCEPT ![Item.to] = Item.to] /\ Mark("updated", TRUE)
        /\ IF item < Len(pending) THEN step' = "exists" /\ item' = item + 1
                                  ELSE step' = "write" /\ item' = item
        /\ UNCHANGED behind
     \/ Undo /\ UNCHANGED <<store, pending, behind>>
     \/ /\ store' = [store EXCEPT ![Item.to] = Item.to]
        /\ behind' = IF Item.backed_up \/ Item.updated THEN behind ELSE behind \cup {Item.to}
        /\ Undo /\ UNCHANGED pending
  /\ UNCHANGED <<backup, hit>> /\ Keep

\* _WriteConfigToFile empties the file before it writes, and an interrupt may come after
\* it: the uploads are undone then, the file is not.
Write ==
  /\ step = "write"
  /\ \/ disk' = data /\ pending' = <<>> /\ step' = "done" /\ item' = 0 /\ UNCHANGED hit
     \/ Undo /\ UNCHANGED <<disk, pending, hit>>
     \/ Undo /\ disk' \in {Torn, data} /\ hit' = TRUE /\ UNCHANGED pending
  /\ UNCHANGED <<data, store, backup, force, runs, before, behind, tangled>>

Restored == IF Item.backed_up THEN [store EXCEPT ![Item.to] = backup[Item.backup]]
            ELSE IF Item.updated THEN [store EXCEPT ![Item.to] = Nothing]
            ELSE store

\* The items in reverse order.  One that raises, its object restored or not, ends the
\* rollback.
Restorable == Item.backed_up => backup[Item.backup] # Nothing
Rollback ==
  /\ step = "rollback"
  /\ \/ /\ Restorable /\ store' = Restored
        /\ pending' = [pending EXCEPT ![item].updated = FALSE,
                                      ![item].backup = IF Item.backed_up THEN NonePath ELSE @]
        /\ IF item > 1 THEN item' = item - 1 /\ UNCHANGED step
                       ELSE item' = 0 /\ step' = "undone"
        /\ UNCHANGED behind
     \/ /\ Item.backed_up \/ Item.updated
        /\ UNCHANGED store \/ (Restorable /\ store' = Restored)
        /\ step' = "undone" /\ item' = 0
        /\ behind' = behind \cup {pending[i].to : i \in 1 .. item}
        /\ UNCHANGED pending
  /\ UNCHANGED <<backup, hit>> /\ Keep

\* The caller has the answer, True or what was raised.
Answer == /\ step \in {"done", "undone"} /\ step' = "idle" /\ force' = FALSE
          /\ UNCHANGED <<disk, data, pending, store, backup, item, runs, before, behind, hit,
                         tangled>>

Next == \/ AddNewDependency \/ SetDownloadPath \/ AddJob
        \/ Execute \/ Exists \/ Insert \/ Write \/ Rollback \/ Answer

Spec == Init /\ [][Next]_vars
-------------------------------------------------------------------------------
\* "or neither if either update fails" (base_config.py 226): after a failed run the
\* config file, at least, is as it was.  It is not when its writing, which empties it,
\* was hit, or an interrupt came right after: the rollback undoes the uploads only.
NeitherIfEitherFails == step = "undone" => disk = before[2]

\* "Write all config changes to the config_path" (base_config.py 272).
WritesAllChanges == step = "done" => disk = data

\* "All or none of the following cloud storage related fields must be included in each
\* platform dictionary" (base_config.py 63): in the file that is written as well.
FieldsAreComplete == \A f \in Platform : disk[f] # Hashless

\* After a run that answers True every platform it changed has its file in the store.
\* After one that fails the config file is as it was, unless its writing was hit; and
\* so is each object, whatever was in the way, with or without force, but for one whose
\* insertion was reported to have failed and those that a rollback did not reach: they
\* may have the new file, and what it replaced is then at its backup path, so nothing
\* that was in cloud storage is lost.  A run whose uploads share a backup path, or are
\* left from a run before, is outside of this.
AllOrNothing ==
  /\ step = "done" => \A f \in Platform :
       disk[f] \in Object => disk[f] = before[2][f] \/ store[disk[f]] = disk[f]
  /\ step = "undone" /\ ~tangled =>
       /\ disk = before[2] \/ hit
       /\ \A o \in Object : store[o] # before[1][o] =>
            o \in behind /\ store[o] = o /\ before[1][o] \in {Nothing, backup[o]}
===============================================================================
