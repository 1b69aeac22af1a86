------------------------------- MODULE WebView -------------------------------
(* Using a package as the WebView provider for the length of a block           *)
(* (tools/webview_app.py): the fallback logic off, the user's own version of   *)
(* the package out of the way, the version to test in its place, as a system   *)
(* app or beside it, and everything given back in the opposite order.          *)
EXTENDS DeviceCall, Sequences

VARIABLES
  sdk,       \* "M", "N", "O" (Oreo and Pie) or "Q"
  fallback,  \* the service's fallback logic is enabled
  provider,  \* "pkg", "other", or "null" for none
  sysVer,    \* the system's version of pkg: "none", "stub", "test", "gone"
  userVer,   \* the user's version: its files, the base first; <<"test">> for the one to test
  shipped,   \* the package that is to be tested is the expected one
  failed,    \* the steps of the call whose command has failed
  found      \* how the call found the device

webVars == <<sdk, fallback, provider, sysVer, userVer, shipped, failed, found>>
Device  == [fallback |-> fallback, provider |-> provider, sysVer |-> sysVer, userVer |-> userVer]

Reports     == sdk \in {"O", "Q"}    \* dumpsys webviewupdate
HasFallback == sdk \in {"N", "O"}    \* {enable,disable}-redundant-packages
Chooses     == sdk # "M"             \* set-webview-implementation

Installed(s, u) == s \in {"stub", "test"} \/ u # <<>>
Valid(s, u)     == {"other"} \cup IF Installed(s, u) THEN {"pkg"} ELSE {}

WebInit == /\ sdk \in {"M", "N", "O", "Q"} /\ fallback \in BOOLEAN
           /\ sysVer \in {"none", "stub"} /\ userVer \in {<<>>, <<"base">>, <<"base", "split">>}
           /\ provider \in Valid(sysVer, userVer) \cup {"null"}
           /\ shipped \in BOOLEAN
           /\ failed = {} /\ found = Device

\* The service chooses anew when a package comes or goes.
Repackage(s, u) == sysVer' = s /\ userVer' = u /\ provider' \in Valid(s, u)
SameDevice == UNCHANGED <<fallback, provider, sysVer, userVer>>
Packages   == UNCHANGED fallback
Quiet      == UNCHANGED <<sdk, shipped, found>>

\* A command that works leads to the step l; one that fails leaves the contexts
\* that have been entered, from the step out on.
Fails(out)               == failed' = failed \cup {pc} /\ GotoWith(out, [loc EXCEPT !.raised = TRUE])
Refused(out)             == UNCHANGED failed /\ GotoWith(out, [loc EXCEPT !.raised = TRUE])
Do(Effect, Same, l, out) == \/ Effect /\ Goto(l) /\ UNCHANGED failed
                            \/ (Effect \/ Same) /\ Fails(out)
------------------------------------------------------------------------------
\* The name of the package, then GetWebViewUpdateServiceDump: what it does not show
\* is not known.
UseWebViewProvider ==
  /\ pc = "UseWebViewProvider"
  /\ \/ /\ shipped
        /\ GotoWith("FallbackOff", [raised |-> FALSE, pulled |-> <<>>, how |-> "none",
             logic |-> Reports /\ fallback, provider |-> IF Reports THEN provider ELSE "null"])
     \/ End("raised")
  /\ SameDevice /\ UNCHANGED failed /\ Quiet

\* SetWebViewFallbackLogic; in Nougat the service may choose anew.
SetFallback(on) ==
  /\ fallback' = IF HasFallback THEN on ELSE fallback
  /\ provider' \in IF sdk = "N" THEN Valid(sysVer, userVer) ELSE {provider}
  /\ UNCHANGED <<sysVer, userVer>>

\* It is outside of the try block.
FallbackOff ==
  /\ pc = "FallbackOff"
  /\ Do(SetFallback(FALSE), SameDevice, "PullUser", "over")
  /\ Quiet

\* _UninstallNonSystemApp: the files of the user's version are copied, then removed;
\* only then do its own try block and its finally clause begin.
PullUser ==
  /\ pc = "PullUser"
  /\ \/ Goto(IF userVer = <<>> THEN "FindPaths" ELSE "UninstallUser") /\ UNCHANGED failed
     \/ Fails("RestoreProvider")
  /\ SameDevice /\ Quiet
UninstallUser ==
  /\ pc = "UninstallUser"
  /\ \/ /\ Repackage(sysVer, <<>>)
        /\ GotoWith("FindPaths", [loc EXCEPT !.pulled = userVer]) /\ UNCHANGED failed
     \/ (Repackage(sysVer, <<>>) \/ UNCHANGED <<provider, sysVer, userVer>>)
        /\ Fails("RestoreProvider")
  /\ Packages /\ Quiet

\* A system app is replaced, any other is installed beside nothing.
FindPaths ==
  /\ pc = "FindPaths"
  /\ \/ Goto(IF sysVer \in {"stub", "test"} THEN "ReplaceSystemApp" ELSE "InstallApp") /\ UNCHANGED failed
     \/ Fails("Reinstall")
  /\ SameDevice /\ Quiet

\* ReplaceSystemApp undoes what it did when its entry fails, or it cannot any more.
ReplaceSystemApp ==
  /\ pc = "ReplaceSystemApp"
  /\ \/ Repackage("test", userVer) /\ UNCHANGED failed
        /\ GotoWith("SetProvider", [loc EXCEPT !.how = "replaced"])
     \/ \E s \in {sysVer, "gone"} : Repackage(s, userVer) /\ Fails("Reinstall")
  /\ Packages /\ Quiet

\* _InstallApp installs before its try block.
InstallApp ==
  /\ pc = "InstallApp"
  /\ \/ Repackage(sysVer, <<"test">>) /\ UNCHANGED failed
        /\ GotoWith("SetProvider", [loc EXCEPT !.how = "installed"])
     \/ (Repackage(sysVer, <<"test">>) \/ UNCHANGED <<provider, sysVer, userVer>>)
        /\ Fails("Reinstall")
  /\ Packages /\ Quiet

\* SetWebViewImplementation asks for an installed package; the service may refuse it.
Choose(p, l, out) ==
  IF p \in Valid(sysVer, userVer) THEN Do(provider' = p, UNCHANGED provider, l, out)
  ELSE UNCHANGED provider /\ Refused(out)
SetProvider ==
  /\ pc = "SetProvider"
  /\ IF Chooses THEN Choose("pkg", "body", "LeaveApp")
     ELSE Goto("body") /\ UNCHANGED <<provider, failed>>
  /\ UNCHANGED <<fallback, sysVer, userVer>> /\ Quiet

\* The command that is run with the provider, which may raise.
Body ==
  /\ pc = "body"
  /\ \E r \in BOOLEAN : GotoWith("LeaveApp", [loc EXCEPT !.raised = r])
  /\ SameDevice /\ UNCHANGED failed /\ Quiet

\* The end of ReplaceSystemApp or of _InstallApp.
LeaveApp ==
  /\ pc = "LeaveApp"
  /\ IF loc.how = "replaced"
     THEN \/ Repackage(found.sysVer, userVer) /\ Goto("Reinstall") /\ UNCHANGED failed
          \/ \E s \in {found.sysVer, "test", "gone"} : Repackage(s, userVer) /\ Fails("Reinstall")
     ELSE Do(Repackage(sysVer, <<>>), UNCHANGED <<provider, sysVer, userVer>>,
             "Reinstall", "Reinstall")
  /\ Packages /\ Quiet

\* The copies are installed one by one, the last first; the package manager takes no
\* split that comes without its base.
Reinstall ==
  /\ pc = "Reinstall"
  /\ IF loc.pulled = <<>>
     THEN Goto("RestoreProvider") /\ UNCHANGED <<provider, sysVer, userVer, failed>>
     ELSE LET f == loc.pulled[Len(loc.pulled)]
              left == SubSeq(loc.pulled, 1, Len(loc.pulled) - 1)
          IN  IF f = "split"
              THEN UNCHANGED <<provider, sysVer, userVer>> /\ Refused("RestoreProvider")
              ELSE \/ /\ Repackage(sysVer, <<f>>) /\ UNCHANGED failed
                      /\ GotoWith("Reinstall", [loc EXCEPT !.pulled = left])
                   \/ /\ Repackage(sysVer, <<f>>) \/ UNCHANGED <<provider, sysVer, userVer>>
                      /\ Fails("RestoreProvider")
  /\ Packages /\ Quiet

\* The finally clause: the first provider if it was known and is not in use, ...
RestoreProvider ==
  /\ pc = "RestoreProvider"
  /\ IF loc.provider = "null" \/ loc.provider = provider
     THEN /\ UNCHANGED provider
          /\ \/ Goto("RestoreFallback") /\ UNCHANGED failed
             \/ loc.provider # "null" /\ Fails("over")
     ELSE Choose(loc.provider, "RestoreFallback", "over")
  /\ UNCHANGED <<fallback, sysVer, userVer>> /\ Quiet

\* As if it were left off after an exception (a mutant).
RestoreQuietly ==
  /\ pc = "RestoreFallback"
  /\ IF loc.logic /\ ~loc.raised THEN Do(SetFallback(TRUE), SameDevice, "over", "over")
     ELSE Goto("over") /\ SameDevice /\ UNCHANGED failed
  /\ Quiet

\* ... then the fallback logic, if it was known to be enabled.
RestoreFallback ==
  /\ pc = "RestoreFallback"
  /\ IF loc.logic THEN Do(SetFallback(TRUE), SameDevice, "over", "over")
     ELSE Goto("over") /\ SameDevice /\ UNCHANGED failed
  /\ Quiet

Over ==
  /\ pc = "over"
  /\ End(IF loc.raised THEN "raised" ELSE "ok")
  /\ UNCHANGED webVars

WebCall == /\ Call("UseWebViewProvider", <<>>)
           /\ failed' = {} /\ found' = Device
           /\ UNCHANGED <<sdk, shipped>> /\ SameDevice

WebNext == \/ WebCall \/ UseWebViewProvider \/ FallbackOff \/ PullUser \/ UninstallUser
           \/ FindPaths \/ ReplaceSystemApp \/ InstallApp \/ SetProvider \/ Body \/ LeaveApp
           \/ Reinstall \/ RestoreProvider \/ RestoreFallback \/ Over
------------------------------------------------------------------------------
(* Properties                                                                  *)

NotKnown == IF found.provider = "null" THEN {"pkg", "other"} ELSE {}
Left(harmless) == Idle /\ last.op = "UseWebViewProvider" /\ failed \subseteq harmless

\* Whatever fails between the entry and the exit of the contexts, these excepted: the
\* package is as it was, and where the service reports them its fallback logic and
\* its provider, if it had one, are, too.
GivenBack ==
  Left({"PullUser", "FindPaths", "SetProvider"}) /\ Len(found.userVer) < 2 =>
     /\ sysVer = found.sysVer /\ userVer = found.userVer
     /\ Reports => fallback = found.fallback /\ provider \in {found.provider} \cup NotKnown

\* A context that cannot be left does not keep the one around it from being left.
OuterContextLeaves ==
  Left({"PullUser", "FindPaths", "SetProvider", "LeaveApp"}) /\ found.userVer = <<"base">> =>
     userVer = found.userVer

\* "Make package un-installed while in scope." (webview_app.py 129)
UserVersionComesBack == Left({}) => userVer = found.userVer
==============================================================================
