----------------------------- MODULE SharedPrefs -----------------------------
(* The preferences file of an app, edited from the host: an object that loads  *)
(* the file, changes it in memory and commits it, beside an app that has its   *)
(* own copy in memory and writes the file whenever it likes.  The calls are    *)
(* those of DeviceCall without retries of their own: what they ask of the      *)
(* device raises only after its own.                                           *)
EXTENDS DeviceCall

CONSTANTS Key, Val      \* preferences and their values

VARIABLES
  file,        \* contents of the file at the path in use
  twin,        \* there is a file at the other path
  visible,     \* the shell user may see the path: adbd runs as root
  app,         \* the app: running, its copy, older than the last write of ours
  loaded, xml, changed,     \* the object: _xml is not None, its contents, _changed
  saved,       \* its contents when they last agreed with the file
  ours         \* ghost: what became of the file a Commit wrote: "no", "written",
               \* "undercut" by the running app, then "committed" or "lost" once the
               \* call is back, "changed" once an app started anew has written

prefsVars == <<file, twin, visible, app, loaded, xml, changed, saved, ours>>
object    == <<loaded, xml, changed, saved>>

Prefs  == UNION {[S -> Val] : S \in SUBSET Key}
Empty  == [k \in {} |-> 0]
NoFile == [k \in {"no file"} |-> 0]
Torn   == [k \in {"torn"} |-> 0]
With(p, k, v) == [j \in DOMAIN p \cup {k} |-> IF j = k THEN v ELSE p[j]]
Without(p, k) == [j \in DOMAIN p \ {k} |-> p[j]]

PrefsInit == /\ file \in {NoFile} \cup Prefs /\ twin \in BOOLEAN /\ visible \in BOOLEAN
             /\ app = [on |-> FALSE, copy |-> Empty, old |-> FALSE]
             /\ loaded = FALSE /\ xml = Empty /\ changed = FALSE /\ saved = Empty
             /\ ours = "no"
-------------------------------------------------------------------------------
Load == \* FileExists, which does not ask as root
  /\ pc = "Load"
  /\ \/ file # NoFile /\ visible /\ Goto("ReadFile") /\ UNCHANGED object
     \/ /\ file = NoFile \/ ~visible
        /\ loaded' = FALSE /\ xml' = Empty /\ changed' = FALSE /\ saved' = Empty
        /\ Return
     \/ End("raised") /\ UNCHANGED object
  /\ UNCHANGED <<file, twin, visible, app, ours>>

ReadFile ==
  /\ pc = "ReadFile"
  /\ \/ /\ file \in Prefs
        /\ loaded' = TRUE /\ xml' = file /\ changed' = FALSE /\ saved' = file
        /\ Return
     \/ End("raised") /\ UNCHANGED object
  /\ UNCHANGED <<file, twin, visible, app, ours>>

Edited(p) == /\ xml' = p /\ Return
             /\ UNCHANGED <<saved, file, twin, visible, app, ours>>

\* _SetPrefValue: changed only by another value than the one it had.
SetPrefValue ==
  /\ pc = "SetPrefValue"
  /\ changed' = (changed \/ arg.key \notin DOMAIN xml \/ xml[arg.key] # arg.val)
  /\ loaded' = TRUE
  /\ Edited(With(xml, arg.key, arg.val))

Remove ==
  /\ pc = "Remove"
  /\ arg.key \in DOMAIN xml
  /\ UNCHANGED <<loaded, changed>>
  /\ Edited(Without(xml, arg.key))
KeyError ==
  /\ pc = "Remove" /\ arg.key \notin DOMAIN xml
  /\ End("raised") /\ UNCHANGED prefsVars

Clear ==
  /\ pc = "Clear"
  /\ LET c == loaded /\ DOMAIN xml # {}
     IN  changed' = (changed \/ c) /\ loaded' = (loaded /\ ~c)
  /\ Edited(Empty)
-------------------------------------------------------------------------------
(* Commit                                                                      *)

Host(next) == \/ UNCHANGED prefsVars /\ Goto(next)
              \/ UNCHANGED prefsVars /\ End("raised")

\* mkdir first; nothing at all without a change.
Commit ==
  /\ pc = "Commit"
  /\ IF changed \/ arg.force THEN Goto("WriteFile") \/ End("raised") ELSE Return
  /\ UNCHANGED prefsVars

WriteFile ==
  /\ pc = "WriteFile"
  /\ app' = [app EXCEPT !.old = app.on]
  /\ \/ file' = xml /\ ours' = "written" /\ Goto("SecurityContext")
     \/ file' \in {file, Torn, xml} /\ ours' = "no" /\ End("raised")
  /\ UNCHANGED <<twin, visible, object>>

\* GetSecurityContextForPackage and ChangeSecurityContext.
SecurityContext == pc = "SecurityContext" /\ Host("RemoveTwin")

RemoveTwin ==
  /\ pc = "RemoveTwin"
  /\ \/ twin' = FALSE /\ Goto("KillAll")
     \/ twin' \in {twin, FALSE} /\ End("raised")
  /\ UNCHANGED <<file, visible, app, object, ours>>

Committed == IF ours = "written" THEN "committed" ELSE "lost"

\* As if the app were left running (a mutant).
KillNone ==
  /\ pc = "KillAll"
  /\ changed' = FALSE /\ saved' = xml /\ ours' = Committed /\ Return
  /\ UNCHANGED <<app, file, twin, visible, loaded, xml>>

KillAll ==
  /\ pc = "KillAll"
  /\ \/ /\ app' = [on |-> FALSE, copy |-> Empty, old |-> FALSE]
        /\ changed' = FALSE /\ saved' = xml /\ ours' = Committed /\ Return
     \/ /\ app' \in {app, [on |-> FALSE, copy |-> Empty, old |-> FALSE]}
        /\ UNCHANGED <<changed, saved, ours>> /\ End("raised")
  /\ UNCHANGED <<file, twin, visible, loaded, xml>>
-------------------------------------------------------------------------------
(* The app                                                                     *)

AppStart ==
  /\ op \in {"none", "Commit"} /\ "Commit" \in script /\ ~app.on
  /\ file # Torn
  /\ app' = [on |-> TRUE, copy |-> IF file = NoFile THEN Empty ELSE file, old |-> FALSE]
  /\ UNCHANGED <<callVars, file, twin, visible, object, ours>>

AfterWrite == CASE ours = "written" -> "undercut"
                [] ours \in {"committed", "lost"} -> "changed"
                [] OTHER -> ours

\* apply() of the app writes what it has in memory, with one preference set.
AppWrite ==
  /\ app.on /\ op \in {"none", "Commit"}
  /\ \E k \in Key, v \in Val : file' = With(app.copy, k, v)
  /\ app' = [app EXCEPT !.copy = file']
  /\ ours' = AfterWrite
  /\ UNCHANGED <<callVars, twin, visible, object>>

PrefsArgs == \/ Call("Load", <<>>)
             \/ \E k \in Key, v \in Val : Call("SetPrefValue", [key |-> k, val |-> v])
             \/ \E k \in Key : Call("Remove", [key |-> k])
             \/ Call("Clear", <<>>)
             \/ \E f \in BOOLEAN : Call("Commit", [force |-> f])

PrefsNext == \/ PrefsArgs /\ UNCHANGED prefsVars
             \/ Load \/ ReadFile \/ SetPrefValue \/ Remove \/ KeyError \/ Clear
             \/ Commit \/ WriteFile \/ SecurityContext \/ RemoveTwin \/ KillAll
             \/ AppStart \/ AppWrite
-------------------------------------------------------------------------------
(* Properties                                                                  *)

\* After a Commit that wrote and returned, no process of the app works with preferences
\* older than it, which it could still write back, and no other file of the app says
\* something else at the other path; and the file has the contents of the object until
\* an app started anew changes it, unless the app that was running wrote it between
\* WriteFile and KillAll: that Commit returns too, and what it wrote is lost.
CommitSticks ==
  /\ ours \in {"committed", "lost", "changed"} => ~app.old /\ ~twin
  /\ ours = "committed" /\ visible => file = saved

\* "Save the current set of preferences to the device." (shared_prefs.py 282)
CommitSaves == ours \in {"committed", "lost"} /\ visible => file = saved

\* "True if properties have changed and a commit would be needed."
\* (shared_prefs.py 251)
ChangedMeansCommit == Idle /\ xml # saved => changed
===============================================================================
