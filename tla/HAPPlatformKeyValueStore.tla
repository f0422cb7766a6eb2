------------------------- MODULE HAPPlatformKeyValueStore -------------------------
(***************************************************************************)
(* The POSIX key-value store: one file per key, named after its domain and *)
(* key, written to a temporary file, synchronised and renamed.  A system   *)
(* call can fail, the process can be killed and power can be lost between  *)
(* any two of them.  The medium has any of the directories since the last  *)
(* successful fsync of it (dirs); a file that was never synchronised may   *)
(* come back torn.                                                         *)
(***************************************************************************)
EXTENDS HAPKeyValueStore, Naturals

CONSTANTS
    Files,                  \* the names in use: a domain and a key each
    Values,
    MaxFaults,              \* failing system calls, kills and power losses per behaviour
    FileSyncFails           \* whether fsync of the temporary file is among them

ASSUME StoreAssumption ==
    MaxFaults \in Nat /\ FileSyncFails \in BOOLEAN /\ "none" \notin Values

Domains == {f[1] : f \in Files}
Absent == [data |-> "none", whole |-> TRUE]
Whole(v) == [data |-> v, whole |-> TRUE]
Torn(v) == [data |-> v, whole |-> FALSE]     \* some of v, or v not yet synchronised
Entries == {Absent} \cup {Whole(v) : v \in Values} \cup {Torn(v) : v \in Values}
Idle == [kind |-> "idle"]

VARIABLES
    dir,          \* the directory the process sees: file and temporary file of each key
    dirs,         \* the directories a power loss may leave
    op,           \* the operation under way
    privileged,   \* whether the process may open a read-only file for writing
    promised,     \* what the caller may find under a key
    faults, refused

kvsVars == <<dir, dirs, op, privileged, promised, faults, refused>>

Directories == [file : [Files -> Entries], tmp : [Files -> Entries]]
Contents(d) == [f \in {f \in Files : d.file[f] # Absent} |-> d.file[f].data]
EmptyDirectory == [file |-> [f \in Files |-> Absent], tmp |-> [f \in Files |-> Absent]]

KVSInit ==
    /\ dir = EmptyDirectory
    /\ dirs = {dir}
    /\ op = Idle
    /\ privileged \in BOOLEAN
    /\ promised = [f \in Files |-> {Absent}]
    /\ faults = 0
    /\ refused = FALSE

-----------------------------------------------------------------------------
\* HAPPlatformKeyValueStoreGet: valid with the file's bytes, or not found.
KVSGet(d, f) == d.file[f]

\* fsync of the directory.
Synced == dirs' = {dir'}
Unsynced == dirs' = dirs \cup {dir'}

Fault == faults < MaxFaults /\ faults' = faults + 1

\* HAPPlatformFileManagerWriteFile, one system call after the other.
CallSet(f, v) ==
    /\ op = Idle
    /\ op' = [kind |-> "set", file |-> f, value |-> v, step |-> "open"]
    /\ promised' = [promised EXCEPT ![f] = @ \cup {Whole(v)}]
    /\ UNCHANGED <<dir, dirs, privileged, faults, refused>>

SetStep(step) == op.kind = "set" /\ op.step = step
Continue(step) == op' = [op EXCEPT !.step = step]

\* The error paths return kHAPError_Unknown and leave the temporary file.
FailSet(step) ==
    /\ SetStep(step)
    /\ Fault
    /\ op' = Idle
    /\ UNCHANGED <<dir, dirs, privileged, promised, refused>>

\* The temporary file is created read-only, an old one is truncated.
CanOpen(f) == dir.tmp[f] = Absent \/ privileged

\* Faulty: without O_TRUNC
OpenTemporaryFaulty ==
    /\ SetStep("open")
    /\ CanOpen(op.file)
    /\ dir' = [dir EXCEPT !.tmp[op.file] = IF @ = Absent THEN Torn(op.value) ELSE @]
    /\ Unsynced
    /\ Continue("write")
    /\ UNCHANGED <<privileged, promised, faults, refused>>

OpenTemporary ==
    /\ SetStep("open")
    /\ IF CanOpen(op.file)
       THEN /\ dir' = [dir EXCEPT !.tmp[op.file] = Torn(op.value)]
            /\ Unsynced
            /\ Continue("write")
            /\ UNCHANGED refused
       ELSE /\ op' = Idle
            /\ refused' = TRUE
            /\ UNCHANGED <<dir, dirs>>
    /\ UNCHANGED <<privileged, promised, faults>>

\* A write that ends early removes a file of that name in the working directory,
\* which is another one.
WriteTemporary ==
    /\ SetStep("write")
    /\ Continue("fsync")
    /\ UNCHANGED <<dir, dirs, privileged, promised, faults, refused>>

Flush(d, f) == IF d.tmp[f] = Torn(op.value) THEN [d EXCEPT !.tmp[f] = Whole(op.value)] ELSE d

\* Faulty: the temporary file is not synchronised
SyncTemporaryFaulty ==
    /\ SetStep("fsync")
    /\ Continue("directory")
    /\ UNCHANGED <<dir, dirs, privileged, promised, faults, refused>>

SyncTemporary ==
    /\ SetStep("fsync")
    /\ \/ dir' = Flush(dir, op.file) /\ dirs' = {Flush(d, op.file) : d \in dirs} /\ UNCHANGED faults
       \/ FileSyncFails /\ Fault /\ UNCHANGED <<dir, dirs>>    \* logged and ignored
    /\ Continue("directory")
    /\ UNCHANGED <<privileged, promised, refused>>

SyncDirectory ==
    /\ SetStep("directory")
    /\ UNCHANGED dir
    /\ Synced
    /\ Continue("rename")
    /\ UNCHANGED <<privileged, promised, faults, refused>>

Rename ==
    /\ SetStep("rename")
    /\ dir' = [dir EXCEPT !.file[op.file] = dir.tmp[op.file], !.tmp[op.file] = Absent]
    /\ Unsynced
    /\ Continue("renamed")
    /\ UNCHANGED <<privileged, promised, faults, refused>>

SyncRenamed ==
    /\ SetStep("renamed")
    /\ UNCHANGED dir
    /\ Synced
    /\ promised' = [promised EXCEPT ![op.file] = {Whole(op.value)}]
    /\ op' = Idle
    /\ UNCHANGED <<privileged, faults, refused>>

\* HAPPlatformFileManagerRemoveFile: unlink, then an fsync of the directory whose
\* failure is only logged.
Removing == op.kind = "remove"

Unlink(f) ==
    /\ Removing
    /\ op.unlinked = {}
    /\ f \in op.todo
    /\ dir' = [dir EXCEPT !.file[f] = Absent]
    /\ Unsynced
    /\ op' = [op EXCEPT !.todo = @ \ {f}, !.unlinked = {f}]
    /\ UNCHANGED <<privileged, promised, faults, refused>>

SyncUnlinked(f) ==
    /\ Removing
    /\ op.unlinked = {f}
    /\ UNCHANGED dir
    /\ \/ Synced /\ promised' = [promised EXCEPT ![f] = {Absent}] /\ UNCHANGED faults
       \/ UNCHANGED <<dirs, promised>> /\ Fault
    /\ op' = [op EXCEPT !.unlinked = {}]
    /\ UNCHANGED <<privileged, refused>>

EndRemove ==
    /\ Removing
    /\ op.unlinked = {}
    /\ \/ op.todo = {} /\ UNCHANGED faults
       \/ op.todo # {} /\ Fault                     \* unlink fails
    /\ op' = Idle
    /\ UNCHANGED <<dir, dirs, privileged, promised, refused>>

CallRemove(f) ==
    /\ op = Idle
    /\ op' = [kind |-> "remove", of |-> {f}, todo |-> {f} \cap DOMAIN Contents(dir),
              unlinked |-> {}]
    /\ promised' = [promised EXCEPT ![f] = @ \cup {Absent}]
    /\ UNCHANGED <<dir, dirs, privileged, faults, refused>>

\* HAPPlatformKeyValueStorePurgeDomain removes what HAPPlatformKeyValueStoreEnumerate
\* finds: names of the domain that are nothing but a domain and a key.
Enumerated(d, domain) == {f \in DOMAIN Contents(d) : f[1] = domain}

CallPurge(domain) ==
    /\ op = Idle
    /\ op' = [kind |-> "remove", of |-> {f \in Files : f[1] = domain}, todo |-> Enumerated(dir, domain),
              unlinked |-> {}]
    /\ promised' = [f \in Files |-> IF f[1] = domain THEN promised[f] \cup {Absent} ELSE promised[f]]
    /\ UNCHANGED <<dir, dirs, privileged, faults, refused>>

\* The process is killed: the directory stays.
Kill ==
    /\ op # Idle
    /\ Fault
    /\ op' = Idle
    /\ UNCHANGED <<dir, dirs, privileged, promised, refused>>

\* Power is lost: one of the directories since the last fsync is found.
PowerLoss ==
    /\ dirs # {dir} \/ op # Idle
    /\ Fault
    /\ \E d \in dirs : dir' = d /\ dirs' = {d}
    /\ op' = Idle
    /\ UNCHANGED <<privileged, promised, refused>>

KVSNext ==
    \/ \E f \in Files, v \in Values : CallSet(f, v)
    \/ \E f \in Files : CallRemove(f)
    \/ \E domain \in Domains : CallPurge(domain)
    \/ \E step \in {"open", "write", "directory", "rename", "renamed"} : FailSet(step)
    \/ OpenTemporary \/ WriteTemporary \/ SyncTemporary \/ SyncDirectory \/ Rename \/ SyncRenamed
    \/ \E f \in Files : Unlink(f) \/ SyncUnlinked(f)
    \/ EndRemove
    \/ Kill \/ PowerLoss

KVSSpec == KVSInit /\ [][KVSNext]_kvsVars
-----------------------------------------------------------------------------
\* No directory that a power loss can leave has a torn file under a key's name:
\* the temporary file is synchronised before it is renamed.
FilesAreWhole == \A d \in dirs \cup {dir}, f \in Files : d.file[f].whole

\* What a caller was told holds through kills and power losses: after a Set that
\* returned kHAPError_None only the new value is found, after a failed or cut off
\* one the old or the new value, and a purge touches its own domain only.
PromisesAreKept == \A d \in dirs \cup {dir}, f \in Files : KVSGet(d, f) \in promised[f]

\* A Set that no system call failed is refused only to a process that may not write
\* to the read-only temporary file which an earlier Set left.
LeftoversAreOverwritten == refused => ~privileged

\* The store is the one that the other modules use: a call changes nothing but its own
\* keys, one by one, to the value it brings, whatever earlier calls left behind.
Call ==
    CASE op.kind = "set" -> [files |-> {op.file}, value |-> op.value]
      [] op.kind = "remove" -> [files |-> op.of, value |-> "none"]
      [] OTHER -> [files |-> {}, value |-> "none"]
Store == INSTANCE HAPDurableStore WITH
    store <- Contents(dir), stable <- {Contents(d) : d \in dirs}, call <- Call
StoreIsDurable == Store!SSpec

\* What the files hold is what the callers were promised, whole, and stays writable.
FilesAreKept == FilesAreWhole /\ PromisesAreKept /\ LeftoversAreOverwritten
==================================================================================
