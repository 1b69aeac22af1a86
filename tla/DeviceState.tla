----------------------------- MODULE DeviceState -----------------------------
(* What DeviceUtils knows of a device beside its packages and files: whether  *)
(* commands need su, the properties read by one getprop, and the token that   *)
(* tells whether a cache dumped by an earlier session is still the last word. *)
EXTENDS DeviceCall

CONSTANTS
  Prop, Val,   \* properties and the values they may be given
  Late         \* properties that have their value only at the end of the boot

ASSUME PropAssumption == Late \subseteq Prop /\ Val # {} /\ "" \notin Val

VARIABLES
  boot,       \* the device: "off", "booting", "up"
  root,       \* adbd runs as root
  prop,       \* the values of the properties once booted
  devToken,   \* the content of /data/local/tmp/cache_token
  suCache,    \* _cache['needs_su']: "yes", "no" or "unknown"
  propCache,  \* _cache['getprop'], "" where it has nothing
  token,      \* _cache['token'], 0 for None
  prevToken,  \* _cache['prev_token']
  dumpToken,  \* the token in the last dump, 0 for none
  doubt       \* a call raised since the caches were last cleared

deviceVars == <<boot, root, prop, devToken>>
knownVars  == <<suCache, propCache, token, prevToken>>
stateVars  == <<deviceVars, knownVars, dumpToken, doubt>>

Token == 1..5
StateTypeOK == /\ boot \in {"off", "booting", "up"} /\ root \in BOOLEAN
               /\ prop \in [Prop -> Val \cup {""}]
               /\ propCache \in [Prop -> Val \cup {""}]
               /\ suCache \in {"yes", "no", "unknown"}
               /\ {devToken, token, prevToken, dumpToken} \subseteq Token \cup {0}
               /\ doubt \in BOOLEAN

Built == CHOOSE v \in Val : TRUE      \* the value a property boots with

StateInit == /\ boot = "up" /\ root = FALSE
             /\ prop = [p \in Prop |-> Built]
             /\ devToken = 0 /\ suCache = "unknown"
             /\ propCache = [p \in Prop |-> ""]
             /\ token = 0 /\ prevToken = 0 /\ dumpToken = 0 /\ doubt = FALSE

\* ClearCache, for the state this module has.
ClearState == /\ suCache' = "unknown"
              /\ propCache' = [p \in Prop |-> ""]
              /\ token' = 0 /\ prevToken' = 0

\* What getprop prints now.
Shown(p) == IF boot # "up" /\ p \in Late THEN "" ELSE prop[p]

\* A uuid: none that anybody still remembers.
NewToken == CHOOSE t \in Token : t \notin {devToken, token, prevToken, dumpToken}

\* _EnsureCacheInitialized and then Then: one script reads the old token,
\* leaves a fresh one and prints all properties; it may raise anywhere.
EnsureCacheInitialized(Then) ==
  \/ token # 0 /\ UNCHANGED stateVars /\ Then
  \/ /\ token = 0 /\ boot # "off"
     /\ devToken' = NewToken /\ token' = NewToken /\ prevToken' = devToken
     /\ propCache' = [p \in Prop |-> Shown(p)]
     /\ UNCHANGED <<boot, root, prop, suCache, dumpToken, doubt>>
     /\ Then
  \/ /\ token = 0
     /\ devToken' \in IF boot = "off" THEN {devToken} ELSE {devToken, NewToken}
     /\ UNCHANGED <<boot, root, prop, knownVars, dumpToken, doubt>>
     /\ Raise
------------------------------------------------------------------------------
\* GetProp from the cache, or by a getprop of its own.
GetPropCached ==
  /\ pc = "GetPropCached"
  /\ EnsureCacheInitialized(Return)

GetProp ==
  /\ pc = "GetProp"
  /\ \/ /\ boot # "off"
        /\ propCache' = [propCache EXCEPT ![arg.p] = Shown(arg.p)]
        /\ UNCHANGED <<deviceVars, suCache, token, prevToken, dumpToken, doubt>>
        /\ Return
     \/ UNCHANGED stateVars /\ Raise

\* As if SetProp left the cache alone (a mutant).
SetPropOnly ==
  /\ pc = "SetProp"
  /\ \/ /\ boot # "off"
        /\ prop' = [prop EXCEPT ![arg.p] = arg.v]
        /\ (UNCHANGED doubt /\ Return) \/ (doubt' = TRUE /\ Raise)
     \/ UNCHANGED <<prop, doubt>> /\ Raise
  /\ UNCHANGED <<boot, root, devToken, knownVars, dumpToken>>

\* SetProp drops what was cached of the property once the command is done.
SetProp ==
  /\ pc = "SetProp"
  /\ \/ /\ boot # "off"
        /\ prop' = [prop EXCEPT ![arg.p] = arg.v]
        /\ \/ /\ propCache' = [propCache EXCEPT ![arg.p] = ""]
              /\ UNCHANGED doubt /\ Return
           \/ UNCHANGED propCache /\ doubt' = TRUE /\ Raise
     \/ UNCHANGED <<prop, propCache, doubt>> /\ Raise
  /\ UNCHANGED <<boot, root, devToken, suCache, token, prevToken, dumpToken>>

\* NeedsSU: a command that fails is taken for "su is not needed", one that
\* failed for another reason too.
NeedsSU ==
  /\ pc = "NeedsSU"
  /\ \/ suCache # "unknown" /\ UNCHANGED <<suCache, doubt>> /\ Return
     \/ /\ suCache = "unknown" /\ boot # "off"
        /\ \/ suCache' = (IF root THEN "no" ELSE "yes") /\ UNCHANGED doubt
           \/ suCache' = "no" /\ doubt' = TRUE
        /\ Return
     \/ suCache = "unknown" /\ UNCHANGED <<suCache, doubt>> /\ Raise
  /\ UNCHANGED <<deviceVars, propCache, token, prevToken, dumpToken>>

\* EnableRoot forgets needs_su before it restarts adbd, then waits for root.
EnableRoot ==
  /\ pc = "EnableRoot"
  /\ suCache' = "unknown"
  /\ \/ boot # "off" /\ root' = TRUE /\ (Goto("HasRoot") \/ Raise)
     \/ UNCHANGED root /\ Raise
  /\ UNCHANGED <<boot, prop, devToken, propCache, token, prevToken, dumpToken, doubt>>

HasRoot ==
  /\ pc = "HasRoot"
  /\ (root /\ boot # "off" /\ Return) \/ Raise
  /\ UNCHANGED stateVars

\* adb reboot: adbd comes back without root and the properties as built.
Restarted(Same) ==
  \/ /\ boot' = "off" /\ root' = FALSE
     /\ prop' = [p \in Prop |-> IF p \in Late THEN "" ELSE Built]
  \/ Same /\ UNCHANGED <<boot, root, prop>>

\* Reboot waits until the device is gone, which it may be for too short a time
\* to be seen, then until it is back.
DeviceOffline ==
  /\ pc = "DeviceOffline"
  /\ IF boot = "off" THEN Goto("WaitUntilFullyBooted") ELSE Raise
  /\ UNCHANGED stateVars

\* GetExternalStoragePath, of sd_card_ready, fills the cache as soon as adb
\* finds the device.
WaitUntilFullyBooted ==
  /\ pc = "WaitUntilFullyBooted"
  /\ boot # "off"
  /\ EnsureCacheInitialized(Goto("BootCompleted"))

BootCompleted ==
  /\ pc = "BootCompleted"
  /\ (boot = "up" /\ Return) \/ Raise
  /\ UNCHANGED stateVars

\* The device boots in its own time; properties that are set late are set then.
Boot ==
  /\ boot # "up"
  /\ boot' = IF boot = "off" THEN "booting" ELSE "up"
  /\ prop' = [p \in Prop |-> IF boot = "booting" /\ p \in Late
                             THEN Built ELSE prop[p]]
  /\ UNCHANGED <<root, devToken, knownVars, dumpToken, doubt, callVars>>

StateCall == \/ \E p \in Prop : Call("GetProp", [p |-> p])
             \/ Call("GetPropCached", <<>>)
             \/ \E p \in Prop \ Late, v \in Val : Call("SetProp", [p |-> p, v |-> v])
             \/ Call("NeedsSU", <<>>) \/ Call("EnableRoot", <<>>)

StateStep == \/ GetPropCached \/ GetProp \/ SetProp \/ NeedsSU \/ EnableRoot
             \/ HasRoot \/ DeviceOffline \/ WaitUntilFullyBooted \/ BootCompleted
==============================================================================
