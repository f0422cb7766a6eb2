----------------------------- MODULE HAPDurableStore -----------------------------
(***************************************************************************)
(* What the rest of the ADK expects of the platform's key-value store: a   *)
(* call changes the keys it names, one at a time, to nothing but what it   *)
(* was asked for, and each change takes effect at once or not at all, also *)
(* when power is lost; what was made durable stays.  store is what Get     *)
(* reports, stable the contents a power loss can leave.                    *)
(***************************************************************************)
EXTENDS HAPKeyValueStore

CONSTANTS Files, Values

VARIABLES
    store, stable,
    call                \* the files it names (none: no call), the value or "none"

storeVars == <<store, stable, call>>
NoCall == [files |-> {}, value |-> "none"]
Calls == [files : SUBSET Files, value : Values \cup {"none"}]

SInit ==
    /\ store \in KVSDomain(Files, Values)
    /\ stable = {store}
    /\ call = NoCall

SCall ==
    /\ call = NoCall
    /\ call' \in Calls
    /\ UNCHANGED <<store, stable>>

\* A change reaches the medium now or later.
SChange(f) ==
    /\ f \in call.files
    /\ store' = IF call.value = "none" THEN KVSRemove(store, f) ELSE KVSSet(store, f, call.value)
    /\ stable' = stable \cup {store'}
    /\ UNCHANGED call

SSync ==
    /\ stable' = {store}
    /\ UNCHANGED <<store, call>>

SReturn ==
    /\ call' = NoCall
    /\ stable' \in {stable, {store}}
    /\ UNCHANGED store

SPowerLoss ==
    /\ store' \in stable
    /\ stable' = {store'}
    /\ call' = NoCall

SNext == SCall \/ (\E f \in Files : SChange(f)) \/ SSync \/ SReturn \/ SPowerLoss

SSpec == SInit /\ [][SNext]_storeVars
==================================================================================
