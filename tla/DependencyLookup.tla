---------------------------- MODULE DependencyLookup ----------------------------
(* What a DependencyManager makes of its configs, given in decreasing order of  *)
(* precedence, and how it looks a dependency up: FetchPathWithVersion,          *)
(* LocalPath and PrefetchPaths, while files of local paths come and go.         *)
EXTENDS Integers, Sequences, SequencesExt

CONSTANTS
  Retries,      \* cloud_storage_retries of PrefetchPaths
  MaxConfigs,   \* bound: configs given
  MaxLookups    \* bound: lookups of one manager

VARIABLES
  made,      \* "loading" | "ready" | "raised": the constructor
  lookup,    \* _lookup_dict, flattened to pairs of dependency and platform
  given,     \* the configs read so far, until the manager is there
  files,     \* the local paths that exist
  stays,     \* those that have existed since the call began
  op, plat,  \* the call and the platform it asks for, an unconfigured one or not
  at, left,  \* its step, and the dependencies it has still to see
  found,     \* what GetLocalPath answered
  fetched, attempts,   \* dependencies found by a prefetch, and its downloads of the one it is at
  missing, skipped,
  answer,    \* what the call gives its caller
  lookups

vars == <<made, lookup, given, files, stays, op, plat, at, left, found, fetched, attempts, missing,
          skipped, answer, lookups>>

Path  == {"x", "y"}
Plat  == {"linux", "other"}
Pair  == {<<"d", "linux">>, <<"d", "default">>, <<"e", "linux">>}
Dep   == {"d", "e"}
None  == "None"

\* A DependencyInfo: its local paths in order, each a priority group of its own as
\* IterDependencyInfo makes them, and its cloud storage info, if any.
Absent     == [local |-> <<>>, remote |-> "absent"]
Info(l, r) == [local |-> l, remote |-> r]
Entry      == [local : {<<>>, <<"x">>, <<"y", "x">>}, remote : {"none", "some"}]
\* Config files, of one dependency for its platform and by default, and of another;
\* a config may have a download path whose hash is missing.
Config == {c \in [Pair -> Entry \cup {Absent}] :
             c[<<"e", "linux">>] \in {Absent, Info(<<>>, "some")}}
Hashless(c) == [c EXCEPT ![<<"d", "linux">>] = Info(<<>>, "broken")]

LookupInit ==
  /\ made = "loading" /\ lookup = [k \in Pair |-> Absent] /\ given = <<>>
  /\ files \in SUBSET Path /\ stays = {} /\ op = "none" /\ plat = "linux" /\ at = "idle"
  /\ left = {} /\ found = None /\ fetched = {} /\ attempts = 0 /\ missing = {} /\ skipped = {}
  /\ answer = None /\ lookups = 0

KeepCall == UNCHANGED <<files, stays, op, plat, at, left, found, fetched, attempts, missing, skipped,
                        answer, lookups>>

\* LocalPathInfo.Update: paths not there yet go to the end.
Extended(old, new) == old \o SelectSeq(new, LAMBDA p : ~Contains(old, p))

\* As if a later config came before the earlier ones (a mutant).
MergedInFront(old, new) ==
  IF old = Absent THEN new ELSE IF new = Absent THEN old
  ELSE Info(Extended(new.local, old.local),
            IF new.remote = "some" THEN "some" ELSE old.remote)
\* DependencyInfo.Update.
Merged(old, new) ==
  IF old = Absent THEN new ELSE IF new = Absent THEN old
  ELSE Info(Extended(old.local, new.local),
            IF new.remote = "some" THEN "some" ELSE old.remote)
Conflict(old, new) == old.remote = "some" /\ new.remote = "some"

\* One config of the list, the platforms of each dependency in turn; raising ends the
\* constructor, with a config that is of another type, of half a cloud storage entry,
\* or has cloud storage data where an earlier one has it.
UpdateDependencies ==
  /\ made = "loading" /\ Len(given) < MaxConfigs
  /\ \E c \in Config, broken \in BOOLEAN, supported \in BOOLEAN :
       LET entries == IF broken THEN Hashless(c) ELSE c
           refused == \/ ~supported
                      \/ \E k \in Pair : entries[k].remote = "broken"
                                         \/ Conflict(lookup[k], entries[k])
       IN IF refused THEN made' = "raised" /\ lookup' = [k \in Pair |-> Absent] /\ given' = <<>>
          ELSE /\ lookup' = [k \in Pair |-> Merged(lookup[k], entries[k])]
               /\ given' = Append(given, entries) /\ UNCHANGED made
  /\ KeepCall

Ready == /\ made = "loading" /\ made' = "ready" /\ given' = <<>>
         /\ UNCHANGED lookup /\ KeepCall

\* _GetDependencyInfo: the platform's, or the default, or neither.
GetDependencyInfo(d) ==
  LET Of(p) == IF <<d, p>> \in Pair THEN lookup[<<d, p>>] ELSE Absent
  IN IF Of(plat) # Absent THEN Of(plat) ELSE Of("default")

\* GetLocalPath: the first group that has a file.
Existing(info) == SelectSeq(info.local, LAMBDA p : p \in files)
GetLocalPath(info) == IF Existing(info) = <<>> THEN None ELSE Head(Existing(info))

KeepMade == UNCHANGED <<made, lookup, given>>

Ask == /\ made = "ready" /\ at = "idle" /\ lookups < MaxLookups /\ lookups' = lookups + 1
       /\ op' \in {"fetch", "local", "prefetch"} /\ plat' \in Plat
       /\ \E d \in Dep : left' = IF op' = "prefetch" THEN {k[1] : k \in {k \in Pair : lookup[k] # Absent}}
                                 ELSE {d}
       /\ at' = "look" /\ stays' = files
       /\ fetched' = {} /\ missing' = {} /\ skipped' = {} /\ answer' = None
       /\ found' = None /\ attempts' = 0
       /\ UNCHANGED files /\ KeepMade

Done(a) == at' = "idle" /\ answer' = a /\ left' = {} /\ found' = None /\ attempts' = 0
KeepAll == UNCHANGED <<files, stays, op, plat, lookups>> /\ KeepMade

\* FetchPathWithVersion and LocalPath look twice: GetLocalPath sees a file, and then
\* its path must exist; another one is not sought when it does not.
Look(d) ==
  /\ at = "look" /\ op # "prefetch" /\ d \in left
  /\ IF GetDependencyInfo(d) = Absent THEN Done("NoPathFound")
     ELSE /\ found' = GetLocalPath(GetDependencyInfo(d)) /\ at' = "exists"
          /\ UNCHANGED <<left, answer, attempts>>
  /\ UNCHANGED <<fetched, missing, skipped>> /\ KeepAll

\* GetLocalPath asks for the age of a file it has found, which may be gone by then.
Vanishes(d) ==
  /\ at = "look" /\ d \in left
  /\ LET path == GetLocalPath(GetDependencyInfo(d)) IN
     path # None /\ files' = files \ {path} /\ stays' = stays \ {path}
  /\ Done("raised") /\ UNCHANGED <<fetched, missing, skipped, op, plat, lookups>> /\ KeepMade

Exists ==
  /\ at = "exists"
  /\ IF found \in files THEN Done(found)
     ELSE IF op = "local" THEN Done("NoPathFound")
     ELSE at' = "remote" /\ UNCHANGED <<left, found, answer, attempts>>
  /\ UNCHANGED <<fetched, missing, skipped>> /\ KeepAll

\* GetRemotePath: CloudStorage has what happens in it.  A failure of the download is
\* raised; without cloud storage there is no path.
Remote(d) ==
  /\ at = "remote" /\ d \in left
  /\ IF GetDependencyInfo(d).remote = "some"
       THEN \/ Done("remote") \/ Done("raised") \/ Done("NoPathFound")
       ELSE Done("NoPathFound")
  /\ UNCHANGED <<fetched, missing, skipped>> /\ KeepAll

\* PrefetchPaths, one dependency: the loop over the attempts ends with its first.
\* A path that GetLocalPath answers is not looked at again; only a CloudStorageError is
\* caught.
Prefetch(d) ==
  /\ at = "look" /\ op = "prefetch" /\ d \in left
  /\ LET info == GetDependencyInfo(d) IN
     \/ /\ info = Absent /\ skipped' = skipped \cup {d}
        /\ UNCHANGED <<fetched, missing, attempts>>
     \/ /\ info # Absent /\ GetLocalPath(info) # None
        /\ fetched' = fetched \cup {d} /\ UNCHANGED <<skipped, missing, attempts>>
     \/ /\ info # Absent /\ GetLocalPath(info) = None /\ attempts' = 1
        /\ \/ info.remote = "some" /\ fetched' = fetched \cup {d} /\ UNCHANGED missing
           \/ missing' = missing \cup {d} /\ UNCHANGED fetched
        /\ UNCHANGED skipped
  /\ left' = left \ {d} /\ UNCHANGED <<at, found, answer>> /\ KeepAll

PrefetchRaises(d) ==
  /\ at = "look" /\ op = "prefetch" /\ d \in left
  /\ LET info == GetDependencyInfo(d) IN info.remote = "some" /\ GetLocalPath(info) = None
  /\ Done("raised") /\ UNCHANGED <<fetched, missing, skipped>> /\ KeepAll

PrefetchEnds == /\ at = "look" /\ op = "prefetch" /\ left = {}
                /\ Done(IF missing # {} THEN "NoPathFound" ELSE "paths")
                /\ UNCHANGED <<fetched, missing, skipped>> /\ KeepAll

\* A file of a local path is made or removed by someone else.
Disk == /\ made = "ready" /\ at # "idle"
        /\ \E p \in Path : files' = IF p \in files THEN files \ {p} ELSE files \cup {p}
        /\ stays' = stays \cap files'
        /\ UNCHANGED <<op, plat, at, left, found, fetched, attempts, missing, skipped, answer, lookups>>
        /\ KeepMade

Next == \/ UpdateDependencies \/ Ready \/ Ask \/ Exists \/ PrefetchEnds \/ Disk
        \/ \E d \in Dep : Look(d) \/ Vanishes(d) \/ Remote(d) \/ Prefetch(d) \/ PrefetchRaises(d)
-------------------------------------------------------------------------------
\* "will first look in those from config1, then those from config2, and finally those
\* from config3" (manager.py 33): a path is before another in the lookup just when the
\* first config that names it names it first, or comes first.
RankIn(p, k) == CHOOSE r \in 1 .. 10 * MaxConfigs + 10 :
  \/ /\ \A i \in DOMAIN given : ~Contains(given[i][k].local, p) /\ r = 1
  \/ \E i \in DOMAIN given, j \in 1 .. 2 :
       /\ j \in DOMAIN given[i][k].local /\ given[i][k].local[j] = p /\ r = 10 * i + j
       /\ \A h \in 1 .. (i - 1) : ~Contains(given[h][k].local, p)
PrecedenceIsKept ==
  made = "loading" => \A k \in Pair :
    LET l == lookup[k].local IN
    /\ {l[i] : i \in DOMAIN l} =
         UNION {{given[n][k].local[i] : i \in DOMAIN given[n][k].local} : n \in DOMAIN given}
    /\ \A i, j \in DOMAIN l : i < j => RankIn(l[i], k) < RankIn(l[j], k)

\* No path is answered, and nothing is downloaded, for want of a file that was there all
\* along at a place of higher precedence; a prefetch that raises names all that it lacks
\* and has tried the rest.
BestIsAnswered ==
  /\ at = "exists" /\ op # "prefetch" => \A d \in left :
       LET l == GetDependencyInfo(d).local IN
       \A i \in DOMAIN l : l[i] \in stays =>
         /\ found # None
         /\ found # l[i] => \E j \in 1 .. (i - 1) : l[j] = found
  /\ op = "prefetch" /\ at = "idle" /\ answer # "raised" =>
       /\ (answer = "NoPathFound") <=> (missing # {})
       /\ \A k \in Pair : lookup[k] # Absent => k[1] \in fetched \cup missing \cup skipped
       /\ \A d \in Dep : d \in missing => \A i \in DOMAIN GetDependencyInfo(d).local :
            GetDependencyInfo(d).local[i] \notin stays

LookupIsTrue == PrecedenceIsKept /\ BestIsAnswered

\* "If a local copy of the executable cannot be found" (manager.py 150): LocalPath raises
\* only without any copy that is there from beginning to end.
RaisedWithoutCopy ==
  (op = "local" /\ at = "exists" /\ found \notin files) => \A d \in left :
    \A i \in DOMAIN GetDependencyInfo(d).local : GetDependencyInfo(d).local[i] \notin stays

\* cloud_storage_retries of PrefetchPaths (manager.py 160): a dependency is given up after
\* that many more attempts.
RetriesAreMade == missing # {} /\ at # "idle" => attempts = Retries + 1
===============================================================================
