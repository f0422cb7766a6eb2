# HomeKit ADK: TLA+ models, checks and proofs

This directory models the core of the HomeKit Accessory Development Kit under
`src/Sources/CHomeKitADK`: the C library that lets an accessory be paired, verified and
controlled over IP and Bluetooth LE. Paths below are relative to that directory.

## The system

The library runs on one thread. A platform run loop calls it back for TCP streams, GATT
reads and writes, timers; a callback runs to its end before the next one. What interleaves is
therefore callbacks: several IP sessions, one BLE session, timers, and power losses between
any two writes to the key-value store.

| Part | State it keeps | Operations | Interacts with |
|---|---|---|---|
| Accessory server (`HAPAccessoryServer.c`, `+Reset.c`) | state, LTSK, configuration number, firmware version, callback timer | create, start, stop, clean-up, reset, firmware update | store, both transports, application callbacks |
| Key-value store (`HAPPlatformKeyValueStore.c`, `HAPPlatformFileManager.c`) | a file per key | get, set, remove, enumerate, purge | everything that persists |
| Pairing list (`HAPPairing.c`, `HAPPairingPairings.c`) | the Pairings domain of the store; per session a request state | Add, Remove, List (write, read) | sessions, resume cache, clean-up |
| Pair Setup (`HAPPairingPairSetup.c`) | one owner session, attempts counter, SRP state | M1 to M6 | setup info, pairing list |
| Pair Verify (`HAPPairingPairVerify.c`) | per session: state, method, error, pairing key | M1 to M4, Resume M1, M2 | pairing list, resume cache, session |
| Resume cache (`HAPPairingBLESessionCache.c`) | LRU array in memory | fetch (and delete), save, invalidate | Pair Verify, Remove Pairing, clean-up |
| Session (`HAPSession.c`) | `hap` (active, pairing key, nonces), procedure states | create, release, invalidate, secured and admin checks, encrypt, decrypt | the transports |
| IP server (`HAPIPAccessoryServer.c`) | session descriptors, buffers, event tables, timed writes, five timers | accept, read, write, close, serve requests, send events, collect garbage | sessions, TCP streams, application |
| IP protocol (`HAPIPAccessoryProtocol.c`, `HAPIPCharacteristic.c`, `HAPIPAccessory.c`, `util_http_reader.c`) | HTTP reader, position in the attribute database | parse requests, write responses in chunks | IP server, characteristics |
| BLE link (`HAPBLEPeripheralManager.c`, `HAPBLEProcedure.c`, `HAPBLESession.c`, `HAPBLETransaction.c`, `HAPBLEPDU.c`) | connection, one full procedure and fallback procedures, fragments, subscriptions, timers | connect, GATT write and read, indicate, time out, terminate | session, characteristics |
| Advertising (`HAPBLEAccessoryServer*.c`, `HAPBLECharacteristic+Broadcast.c`, `HAPIPServiceDiscovery.c`) | GSN, broadcast key, list of broadcast characteristics, interval, timers | advertise, event, rotate and expire the key, publish | store, BLE link |
| Setup info (`HAPAccessorySetupInfo.c`) | setup code, timers, NFC mode | refresh, enter and exit NFC, pairing start and stop | Pair Setup, display, NFC |
| Platform (`HAPPlatformTimer.c`, `HAPPlatformTCPStreamManager.c`, `HAPMFiHWAuth.c`) | timer queue, listener and streams, coprocessor power | register, deregister, process; open, accept, read, close; power on, sign, release | run loop, IP server, Pair Setup |
| TLV (`HAPTLVReader.c`, `HAPTLVWriter.c`, `HAPTLV.c`) | a buffer, read in place | append, read in any order, encode, decode | pairing procedures, BLE |

### What is hard, and what correctness means

* A session remembers the pairing it verified by the **key** of the pairing in the store and
  looks it up again at every use. Removals by other sessions, the purge after the last admin
  and the reuse of freed keys all happen under it. Correct: it acts for the controller that
  verified, or not at all.
* The **last admin**: whatever request takes it away, and wherever power is lost in the purge,
  the accessory does not run with users only.
* Over IP a pairing request is written and read in one callback. Over **BLE** write and read are
  separate transactions, so a controller's role, its pairing or the cache may change between.
* The IP server keeps a **flag** that a session is secured beside the check whether it is. The
  two must agree when input is taken.
* **Pair Setup** has one owner at a time, can be taken over after a timeout, can be restarted at
  any point and counts failures across restarts. The owner is a pointer to a session.
* The **setup code** has four users: the attempt that locks it, the display that wants a fresh one
  every five minutes, NFC pairing mode, and the split attempt that continues a transient one.
  Each of them ends at a time of its own, also after the accessory is paired or stopped.
* **Stopping** goes through stages: responses are written to their end, sessions are closed by one
  timer and freed by another, a BLE central is given time. An event raised meanwhile
  must neither be lost nor leave a timer behind.
* **BLE** transactions are cut into fragments, run beside each other on several characteristics,
  and have four kinds of timers over them; one nonce each way must stay in step whatever fails.
* The **GSN** numbers events while nobody is connected and is the nonce of a broadcast: each event must
  change it, and no value may be used twice under one key, across restarts, wrap-around and
  updates cut off between two writes.
* A value that is **written** over IP passes a chain of checks in which any step can refuse one
  characteristic of a request and not the others, and each gets a status of its own.
* The **store** is files: a write is a dozen system calls, and power may be lost between two.

`PROJECT.json` lists every hazard at its line with the properties that watch it.

## Modules

| Module | What it is |
|---|---|
| **Pairings and sessions** | |
| `HAPKeyValueStore` | operators: one domain of the store; set and remove are atomic, a purge can be cut off anywhere |
| `HAPPairing` | operators: the pairing list, Find, Add, Remove, clean-up |
| `PairingList` | abstract specification: roles, who acts, one change at a time by an admin |
| `HAPPairingSessions` | state machine: accessory, pairing list, resume cache, IP and BLE sessions |
| `MCPairingSessions` | its instance, with symmetry of controllers and of IP sessions |
| `HAPAccessorySetupInfo` | operators: the setup code with its lock, timers, display and NFC tag |
| `HAPPairingSetup` | state machine of Pair Setup: owner, attempts, setup code, IP and BLE sessions |
| `MCPairingSetup` | its instance, with symmetry of controllers, codes and IP sessions |
| **IP** | |
| `HAPIPAccessoryServer`, `MCIPAccessoryServer` | state machine: descriptors, streams, events, the five timers, start and stop of the whole server |
| `HAPCharacteristic` | the attribute database, formats and constraints: the checks on every value |
| `HAPIPAccessoryProtocol` | the bodies of the characteristic protocol, as tokens with their lengths |
| `HAPIPCharacteristics`, `MCIPCharacteristics` | state machine: GET and PUT `/characteristics`, `/prepare`, events |
| `HAPIPAccessory`, `MCDatabase` | state machine: the attribute database written chunk by chunk |
| `HAPIPHTTPReader` | state machine: HTTP requests found in bytes that arrive in parts |
| **Bluetooth LE** | |
| `HAPBLETransaction`, `HAPBLESession`, `HAPBLEProcedure` | operators: fragments; security, timers, invalidation; the full procedure |
| `HAPBLEPeripheralManager`, `MCBLELink` | state machine: the link that composes them, with the central |
| `HAPAccessoryServerStorage` | operators: what the server keeps besides pairings, each operation as its sequence of writes |
| `HAPBLEAdvertising`, `MCBLEState` | state machine: advertisements, broadcasts, Bonjour record, updates, resets |
| **Building blocks** | |
| `HAPPlatformKeyValueStore`, `HAPDurableStore` | the POSIX store call by call; what the other modules take it for (abstract specification) |
| `HAPPlatformTimer`, `HAPPairingBLESessionCache`, `HAPPlatformTCPStreamManager`, `HAPMFiHWAuth` | state machines: timer queue, resume cache, TCP streams, coprocessor |
| `HAPTLV`, `HAPTLVReader`, `HAPTLVFormat` | TLV8: operators; reading in place; encoding and decoding by a format |
| `MCBuildingBlocks` | the instance of these, of `HAPIPHTTPReader` and of `HAPIPAccessory`: one of them runs, chosen at the start |
| **Proofs** | |
| `HAPPairingSessions_proofs` | lemmas on the list; types, admin, unique identifiers for both transports together; the secured flag, IP alone; bound sessions, bound cache and authority, BLE alone; the sessions implement `PairingList` |
| `HAPPairingSetup_proofs` | every property of Pair Setup that the runs check |
| `HAPIPAccessoryServer_proofs` | both invariants of the IP server |
| `HAPIPCharacteristics_proofs` | reads, writes, prepared writes and subscriptions over IP: everything but the lengths of the bodies |
| `HAPBLEPeripheralManager_proofs` | the link: transactions, subscriptions, writes |
| `HAPBLECentral_proofs` | the link again: a central that keeps to the protocol is served |
| `HAPBLEAdvertising_proofs` | all four properties of advertising |
| `HAPPlatform_proofs` | resume cache, TCP streams, coprocessor, timer queue, and the store with its refinement |

Operators named `...Never`, `...Unchecked`, `...Faulty` and the like, marked "Faulty", are
not part of the specification: each is a mistake that one of the properties detects.

## State and code

In every module one action is one callback of the run loop: a handler with all the calls it makes.
A handler of a module with much state is an operator from the record of all of it (`World`,
`Accessory`) to its next value, so that calls compose as in the code.

### Pairings and sessions

| Variable or field | Code |
|---|---|
| `pairings` | `kHAPKeyValueStoreDomain_Pairings`; survives every crash |
| `cache` | `server->ble.storage->sessionCacheElements` in use; survives a stop, not a crash |
| `session[s].link` | IP: `session->state` (Idle, Reading, Writing); BLE: connected, or to be disconnected (`HAPBLESessionIsTerminal`) |
| `session[s].isSecured` | `session->securitySession.isSecured` (IP) |
| `session[s].hap` | `session->hap`: active and pairingID; `peer` is a history of who verified |
| `session[s].verify` | `session->state.pairVerify` |
| `session[s].request` | `session->state.pairings`, with the identifier to remove |
| `session[s].procedure` | the `HAPBLEProcedure`: its characteristic, `startedSecured` |
| `failed` | the `HAPAssert` or `HAPPrecondition` that aborted the process |

One action is one callback: an IP action is a complete request with its response put into the
outbound buffer, `IPWriteCompletes` is the stream taking its last byte; a BLE action is a
complete transaction. Abstractions that matter:

* A controller's identifier stands for its long-term public key; a message carries a valid
  signature or tag, or not (`valid`, `sameKey`). Ill-formed TLVs are one message, `Malformed`.
* `IPOtherRequest` and `BLEOtherRequest` stand for every request that does not concern
  pairings, and for refused ones. Incomplete input over IP sets the flag like a complete
  request does and is not a step of its own.
* The BLE timers (link, procedure, pairing procedure) and undecodable messages are
  `BLEInvalidate`, which may happen at any time.
* Pair Setup is the step that stores the first pairing; its procedure, and transient sessions, are
  in `HAPPairingSetup`.
* Store operations succeed or the power goes; an I/O error that the code reports is not modelled.
* Which used cache element is evicted is left open; the code takes the least recently used.

### Pair Setup

| Variable or field | Code |
|---|---|
| `running` | `server->state` is not Idle; the stages of start and stop are left out |
| `pairing` | key 0 of the Pairings domain, or `Nobody` |
| `attempts` | `NumUnsuccessfulAuthAttempts` in the Configuration domain |
| `pairSetup.owner` | `server->pairSetup.sessionThatIsCurrentlyPairing` |
| `pairSetup.transient`, `.split` | `server->pairSetup.flags` with `flagsPresent` |
| `pairSetup.verifier`, `.proof` | the code behind `server->pairSetup.B` and `b`; the code (or illegal key) behind `A` and `M1` |
| `pairSetup.expired` | `operationStartTime` is older than the timeout of 30 seconds |
| `setup.code`, `.lock`, `.keep` | `server->accessorySetup.state`: info or code available, `lockSetupInfo`, `keepSetupInfo` |
| `setup.refresh`, `.nfc` | `dynamicRefreshTimer`, `nfcPairingModeTimer` |
| `setup.display`, `.tag` | what the platform last got to show |
| `session[s]` | connected, `state.pairSetup` (state, method, error), `hap.isTransient` |
| `updatePending` | `server->callbackTimer` |
| `failed` | the `HAPAssert` that aborted the process |

A handler is an operator from the record of all this state (`World`) to its next value, so that
calls compose as in the code: `IPPairSetup` is `HandleRead` after `HandleWrite`, and closes the
other transient sessions before; over BLE `BLEPairSetupWrite` and `BLEPairSetupRead` are
two actions. Abstractions:

* SRP is which code a proof was made from. A guess is right when it is the code in force, and
  when the verifier of M2 was of that code. A generated code is any member of `Codes`.
* Time is one fact, `expired`; the timers of the setup code may expire whenever they are registered.
* Everything after the first pairing is one step, `Unpair`; verified sessions are in
  `HAPPairingSessions`.
* The setup ID is there when NFC or a display is (`HAPAssert` at line 122 is only reached
  with one). The deprecated legacy pairing mode is left out.
* A power loss or a failed assertion leaves display and tag dark.

### IP server (`HAPIPAccessoryServer`)

| Variable or field | Code |
|---|---|
| `server` | `HAPAccessoryServer`: `state`, `callbackTimer` |
| `ip.state`, `.nextState` | `server->ip.state`, `nextState` |
| `ip.gcTimer`, `.maxIdleTimer`, `.transitionTimer`, `.eventTimer` | `garbageCollectionTimer`, `maxIdleTimeTimer`, `stateTransitionTimer`, `eventNotificationTimer` |
| `session[s].state` | the descriptor: Free, Reading, Writing, or Idle (closed, not yet collected) |
| `session[s].inbound`, `.out` | pieces of input in the inbound buffer; what is being written and how much is left of it |
| `session[s].flags`, `.subscribed` | `eventNotifications[].flag`, and the entries |
| `session[s].due`, `.old` | `eventNotificationStamp` is a second old; `stamp` is older than the idle time |
| `ble` | the connection and its safe-to-disconnect timer, as far as stopping waits for them |
| `told`, `failed`, `session[s].owed`, `.sent` | bookkeeping: the last state the application was told; an assertion failed; what a subscriber has not received |

What a request is about is open (`verified`, `transient`, a subscription, a response of some
parts); pairing requests may take any session's pairing away. A step that changes nothing is left
out (`Matters`). Not modelled: `/secure-message`, and the text of responses other than their framing.

### Characteristics over IP (`HAPCharacteristic`, `HAPIPAccessoryProtocol`, `HAPIPCharacteristics`, `HAPIPAccessory`)

| Variable or field | Code |
|---|---|
| `value`, `session[s]` | the application's values; permission of the controller, `eventNotifications`, `timedWriteExpirationTime` and `timedWritePID` |
| `response` | the last response: bookkeeping for the properties |
| `context`, `stream`, `outbound`, `accSession` | `HAPIPAccessorySerializationContext`, what was written, `outboundBuffer`, the session's state |

A number keeps order and distances, with small widths for the integer types; a float is a fixed-point
number; a text is a tag with its length. A body is a list of tokens with their lengths, which is
what the two passes, counting and writing, must agree on; the outcome `"Fatal"` of a response is the failed
assertion behind a body that was announced and could not be written. JSON parsing is left out: the inputs are
what `HAPIPAccessoryProtocolGetCharacteristicWriteRequests` extracts. An event that has `r` but no
value is not among the inputs (it answers a value that was never set).

### HTTP and TLV (`HAPIPHTTPReader`, `HAPTLV`, `HAPTLVReader`, `HAPTLVFormat`)

A byte is a symbol of its class or a small number. `http` is `httpReader` with the `http...` fields
of the session; `buffer` and `reserved` are the bytes of `HAPTLVReader` and the three types that mark
what was read; `sent` and `result` are what `HAPTLVWriterEncode` wrote and `HAPTLVReaderDecode`
returned. An integer is put together as the code does it, from bytes that are shifted as an `int` of
`IntBytes` bytes (`HAPTLVReader.c:995`); `shiftsWrap` is what the processor makes of a shift by the width of
an `int` or more. A format without a value outside a separator fails a precondition (`Failed`), and a
writer that runs out of room keeps the fragments that fitted. In HTTP, quoted strings and pairs, repeated
headers and folded lines are there (`httpMode = "Failed"` is the failed assertion). The response type of HTTP, and
enumerating a decoded sequence twice, are not modelled.

### BLE link (`HAPBLETransaction`, `HAPBLESession`, `HAPBLEProcedure`, `HAPBLEPeripheralManager`)

| Variable or field | Code |
|---|---|
| `link` | `connected`; the platform was asked to cut it; an indication is unconfirmed |
| `session` | `HAPSession` (`hap.active`, transient, state of the pairing procedures) and `HAPBLESession` (`isTerminal`, `isSafeToDisconnect`, link and pairing procedure timers) |
| `proc` | the `HAPBLEProcedure` of the storage: `attachedCharacteristic`, timer, `startedSecured`, multi-transaction state, transaction |
| `attr[c]` | `gattTableElements[c].connectionState`: notifications enabled, pending event, fallback procedure |
| `value`, `pairing`, `running` | the application's values, the central's pairing and role, the server's state |
| `told`, `gap`, `asked`, `prepared`, `clean` | bookkeeping: subscriptions told to the application, distance of the nonces, the central's requests, its prepared writes, whether it kept to the protocol |

A body is a sequence of tokens, a fragment carries some of them. Requests and responses have no memory of
their own: `memory` is the start of the scratch buffer, which every request, response and prepared body of the
procedure shares. A timed write keeps a reader, `timed.length` tokens of that buffer; what the buffer
holds when the write is executed is what is written, and the requests that follow it get no buffer
(`NewTransaction(memory, 0)`, `HAPBLEProcedure.c:1219`). The faulty form that gives them one violates
`WrittenAsSent`. A timer is on or off. The central
may do anything allowed by GATT; a message it seals at the wrong nonce, or garbage, ends `clean`.
`PairSetup`, signature, configuration and information requests have handlers but the instance does not send them.

### Advertising (`HAPAccessoryServerStorage`, `HAPBLEAdvertising`)

| Variable or field | Code |
|---|---|
| `store` | the Configuration domain: `CN`, `GSN` with its `didIncrement`, `Version`, `LTSK`, and `Broadcast`, the parameters with the GSN at which the key expires |
| `broadcasts` | the CharacteristicConfiguration domain: characteristics that are broadcast, with their intervals |
| `pairings` | none, of the current long-term key, or stale: left by a reset that was cut off |
| `image`, `server` | the firmware that runs; the server's state |
| `adv` | `server->ble.adv`: connected, the event's characteristic and interval, timer, fast mode |
| `air` | the advertisement the platform last got; over IP the Bonjour record |
| `failed`, `outdated` | the assertion or fatal error that ended the process; an event was announced when a reset or an update removed its key |
| `sent`, `seen`, `asked`, `last`, `interrupted` | bookkeeping: the nonce of the last broadcast, the GSN told to a central, the intervals asked for, the published configuration number, cut-off updates |

An operation that writes several keys is a sequence of contents; a power loss leaves any prefix of it.
Device ID, setup hash, advertising identifier and names are constant and left out.

### Building blocks

`HAPPlatformKeyValueStore`: `dir` is the directory as the process sees it, `dirs` every directory the
medium may have after a power loss, `op` the operation with its next system call. `HAPPlatformTimer`:
the array with `numActive` and `numExpired`, `firing` the callback that runs and may register and
deregister. `HAPPairingBLESessionCache`: the elements with their time stamps. `HAPPlatformTCPStreamManager`:
listener, streams with their interests, `ready` the file handles the run loop still has to call.
`HAPMFiHWAuth`: the chip with power, counter and registers, and the power-off timer. Run loop,
file handles, I²C and the file system are external and modelled from their use. `CloseOutput`
and `Write` of a stream are left out.

## Runs

| Run | Instance | Shows |
|---|---|---|
| `ip_sessions` | 2 IP sessions, 4 controllers, 3 keys | the secured flag is current |
| `ble_session` | BLE, 4 controllers, 3 keys, 2 cache elements | sessions and cache elements stay with their controller, only admins change the list |
| `mixed_sessions` | 1 IP session and BLE, 2 controllers, 3 keys | the list is sound (an admin, no duplicates); refinement of `PairingList` |
| `reused_key` | 2 IP sessions, 3 controllers, 2 keys | violated: a session is secured again, for another controller |
| `ip_setup` | 2 IP sessions, 2 controllers, 2 codes, display and NFC | assertions hold; no code when paired or stopped |
| `mixed_setup` | 1 IP session and BLE, static code, NFC | one owner, locked code, no pairing replaced, lock-out |
| `ip_server` | 2 IP sessions, 1 characteristic, pipelining | the server is sound through start, stop and restart; no event is lost |
| `server_stop` | 1 IP session and BLE, no pipelining | Stop ends, events are delivered, room is made (liveness) |
| `ip_characteristics` | 2 sessions, 6 characteristics, one per kind of rule | writes are authorised and fulfil their constraints, each is answered by its status, lengths are kept; a body that fills the buffer is the one that ends the process |
| `ble_link` | 3 characteristics: timed writes; admin reads with events; Pair Verify | good centrals are served, transactions and subscriptions are sound, values are written as sent, everything ends (liveness) |
| `ble_state` | 3 characteristics, 2 broadcast, 2 firmware images | advertised state is current, changes are seen, nonces are fresh, configuration numbers change |
| `building_blocks` | nine parts, one of which runs | store (and its refinement of `HAPDurableStore`), timers, cache, streams, chip, TLV, HTTP, database |

### Refinements

`PairingList` has a role per controller, the set of controllers that a session acts for, and whether
the accessory is on. Roles change one controller at a time, while an admin acts, or all at once when
the last admin goes. A list without an admin counts as empty: it exists only while the accessory is
down, and start purges it. `ImplementsPairingList` says that every step of the sessions, including
the power losses inside a purge, is a step of this list. Over IP a session acts for the controller
that is stored under its key, which after a reuse of the key is not the one that verified: that is
`reused_key`.

`HAPDurableStore` is the store as all other modules use it: a call changes the keys it names one at a
time, each at once or not at all, and what was made durable stays. `StoreIsDurable` says that the
system calls of the POSIX store, with failures, kills and power losses, implement it.

### Bounds

* *Pairings.* The code wants room for 16 pairings at least. Three keys and four controllers already
  give a full list, a refused addition, a hole that is filled again and a key that changes hands;
  two IP sessions are an admin and the one it acts against. A third session, a fourth key or a
  second IP session beside BLE only repeat these; for what is proved the bounds do not
  matter. Two cache elements make eviction and a free element both happen.
* *Pair Setup* has one owner, so two sessions are the owner and the one that takes over; two codes
  are the one in force and another. `MaxAttempts` is 2 in place of 100: a success can reset
  a counter that is not used up, and a takeover can come between two guesses.
* `ip_server`: two descriptors are one that is served and one at the limit. An inbound buffer of two
  pieces (`MaxFill`) holds a request and part of the next. Its invariants are proved for all
  bounds. `server_stop`: one session, since liveness under that many fair timers is out of reach with two.
* `ip_characteristics`: a switch, a lock with timed writes, an admin code, a thermostat with
  constraints, a note with write responses and a button: each check of a write has a
  characteristic that it can refuse. One event entry and 12 bytes of scratch make both run out, and
  an outbound buffer of 222 bytes is one that some bodies fit, some fill exactly and some exceed.
* `ble_link`: a fragment carries one token (`Lengths`), the buffer two (`MaxBody`), so that requests
  and responses of two fragments and one too long happen. A central errs once per connection. A pairing
  is lost and the server stopped only in a connection without an error; on a cancelled link nothing
  happens but the cut; subscriptions, events and loss of admin only while the link `Lasts`.
* `ble_state`: integers wrap at 4 and 8, broadcasts last three numbers, so that the GSN wraps,
  a key expires and both coincide. The inductive invariant was also model-checked with
  the widths 3, 6 and 12. A width below 4 lets the published number return to what a
  controller saw last. One power loss per start; an update that was cut off is not rolled back.
  With four numbers two images cannot bring the published number round; three could, hence the 5
  of the theorem. The application may reset or be updated while an event is announced; after
  such an update numbers are not followed over the start that fails, and a key that a cut-off reset leaves is not
  followed.
* `building_blocks`: two keys in two domains, two faults; three timers and two units of time; three cache
  elements with time stamps up to 4; two streams and a backlog of two; bytes up to 7, so that a value
  of a fragment's length, one more and one less are all there, and an `int` of two of them, so that types
  are narrower, as wide and wider; buffers that do and do not hold
  the samples; the HTTP inputs are pipelined requests with each pair of headers, repeated,
  folded and quoted ones among them, and every request that lacks one byte.

### Fairness

* `server_stop` (`DrainingSpec`): the handlers of the timers are weakly fair, since the run loop
  fires a timer that stays registered; so is time itself (`Second`, `Minute`, `Moment`), and
  the disconnection of a central whose connection was cancelled. `SafeToDisconnectTimerExpired`
  is strongly fair: a central that reads every 200 ms renews the timer and would keep a stopping
  accessory for ever, so it is assumed to pause again and again. `HandleSpaceAvailable` is
  weakly fair: controllers take what is written to them. Without pipelining, because a controller that
  sends requests ahead without end keeps its session from coming to rest, and `Stop` waits for that.
  Nothing is assumed of the application, of new connections or of requests.
* `ble_link` (`FairSpec`): the timers of procedures and fallback procedures, the one that makes a
  terminal link safe to cut, and the platform's cutting of the link, fire if nothing turns them off. Each
  is written as infinitely often not pending, which is weak fairness of its action because the action
  turns it off, and cheap for TLC. Nothing is assumed of the central.

The other runs check safety. Deadlock is not checked in `ble_link` (a stopped server whose link is gone),
`ip_characteristics` (a failed assertion ends the process) and `building_blocks` (parts with bounded
inputs or faults run out of them).

## Where code and documents disagree

`reused_key` is checked: the look-up that is there "to detect concurrent Remove Pairing
operations" (`HAPSession.c:144`) does not detect one that is followed by an addition. A session
that is writing a response while its pairing is removed is not closed; the freed key is given to
another controller, and the session counts as secured again, for that one.

Found by earlier runs of these modules, or while the code was read:

* Pairings: `HAPSessionHandlePairingsRead` asserts errors (`HAPSession.c:512`) that
  `HAPPairingPairingsHandleRead` does not keep to once the write of the same request has purged the list
  (`HAPPairingPairings.c:1020`). Pair Verify M1 requires a session that is not active
  (`HAPPairingPairVerify.c:147`); one that lost its pairing before its first secured request is.
  The assertion of `handle_input` (`HAPIPAccessoryServer.c:3207`) relies on sessions being closed
  after a removal, which only removals over IP do.
* Pair Setup: a paired accessory has a setup code until the read of M6, and over BLE a timer may come
  first (`HAPAccessorySetupInfo.c:122`). Only Pair Setup over IP closes transient sessions, so that
  a pairing over BLE fails `HAPSession.c:184`. The callback timer does not look whether the
  server still runs, and refreshes a setup code after a stop (`HAPAccessoryServer.c:45`,
  `include/HAPAccessorySetupInfo.h:52`). Over BLE a controller that sends M1 again between M5 and M6
  makes a paired accessory keep its code (`HAPPairingPairSetup.c:1247`).
* IP responses: a body that fits the outbound buffer exactly is announced with its length and then
  cannot be written for want of the terminator's byte, which fails the assertion behind it
  (`HAPIPAccessoryServer.c:1876`, `1884`); `BodiesAreSound` says that this happens exactly for that length, and
  the buffer of `ip_characteristics` makes it happen. A `/characteristics` response with `meta`, `perms` or `ev` closes its object before these
  members (`HAPIPAccessoryProtocol.c:663`), and is then no JSON: `BodiesAreSound` says that these are the
  only ones. A write is carried out though its status says
  `ReadFromWriteOnlyCharacteristic`, or though the request as a whole is answered 500. A refused `ev` is
  overwritten by the status of the value next to it. `meta` omits `minStep` when only the step
  differs from the default. An event that does not fit the outbound buffer is dropped. An event of a
  characteristic whose read handler fails is not sent.
* IP writes: a TLV8 value that is not a string is answered with success and not written; rounding a
  float to its step may exceed the maximum; the range check of an `int` computes in 32 bits.
* HTTP: a folded header line runs into an assertion (`HAPIPAccessoryServer.c:3112`). A second
  `Content-Type` is refused in the part in which the first one arrives and replaces it in a later one (`3088`,
  `3160`); a second `Content-Length` is always refused. `RequestsArriveAsSent` states both, and that no other
  request depends on how it is divided.
* BLE: `HAPBLESessionIsTerminalSoon` subtracts unsigned numbers and is true only once the deadline has
  passed (`include/HAPBLESession.h:44`). After a message that cannot be decrypted the session is zeroed
  before it is invalidated, so that the application is not told. A session that was never secured has no link
  timer after its first procedure. A refused execute-write keeps the prepared write. A request that
  announces a body of no bytes while a prepared write has the buffer fails `HAPAssert(bodyBytes)`
  (`HAPBLETransaction.c:43`); in the model such a body is the same as none.
* Advertising: `RestoreFactorySettings` demands no more than an idle server (`HAP.h:4322`). If an event
  is still announced then, or when the firmware is updated, its key goes, and the next event that is raised fails an
  assertion (`HAPBLEAccessoryServer+Advertising.c:1041`), or the next start is a fatal error when it builds the
  advertisement. The runs include this: `outdated` tells such an event, and `FailsOnlyWhenOutdated` that nothing
  else fails. The list of broadcast characteristics is
  refused at 41 elements though its buffer has 42 (`HAPBLECharacteristic+Broadcast.c:161`, `294`). An
  event sent in a connection that a power loss ends leaves `didIncrement` set.
* Store: a failed write removes its temporary file relative to the working directory
  (`HAPPlatformFileManager.c:187`). Temporary files are created read-only, so that after an interrupted write
  an unprivileged process cannot write that key again. A failing `fsync` of the file is
  only logged: with `FileSyncFails` TRUE `FilesAreWhole` is violated.
* TLV: a flat member that is not the last of its structure takes the elements of those behind it
  (`HAPTLVReader.c:1150` against `include/HAPTLV+Internal.h:905`). Integers that are too short are accepted and not
  sign-extended. A 64-bit integer is kept below 2^31, taken for a negative one from there to 2^32, and beyond depends
  on what the processor makes of an undefined shift (`HAPTLVReader.c:995`). `FormatsAreKept` says
  exactly which values are kept. `HAPTLVWriterAppend` that fails leaves the first fragments behind.
* TCP: reopening the listener while all streams are in use would arm it; nothing does so.
  MFi: a chip that is off is not safe to release (`HAPMFiHWAuth.c:42`); Release leaves a chip that is on without a timer.

## Proofs

The theorems hold for every value of the constants under the assumptions that the modules name
(`PairingAssumption`, `SessionAssumption`, `SetupInfoAssumption`, `SetupAssumption`, `ServerAssumption`,
`RequestsAssumption`, `ApplicationAssumption`, `StorageAssumption`, `ContextsAssumption`,
`WidthsOrdered`, `DatabaseTyped`, `DatabaseAssumption`, `BufferAssumption`, `LinkAssumption`, `AdvertisingAssumption`, `StoreAssumption`, `CacheAssumption`,
`StreamAssumption`, `ChipAssumption`), which TLC evaluates in every run of their modules: any number
of controllers, keys, sessions, characteristics, files, streams or cache elements, and any
widths of the integers. Where a theorem assumes more, it says so and why.

* **TypeCorrect, AdminAlwaysExists, IdentifiersUnique, PairingListAlwaysSound** (both transports).
  `AdminExists` is not inductive alone: an addition keeps it only because the request passed the admin
  check, so an admin is in the list before, and a slot is only taken when it is free, so none is
  overwritten. A restart needs that what a purge left is still a list without duplicates. A session
  gets its pairing key from the verify procedure, so the invariant `IInv` adds `Ready`, that
  a procedure about to start a session knows a key and a peer. The lemmas before it say,
  per operator, that lists stay lists without duplicates and end with an admin or empty.
* **PairingListImplemented** (both transports): `Spec => ImplementsPairingList`. The role of a controller
  is read off the list (`Roles`), a list without an admin being settled already. One lemma per operation says
  what it does to the roles: clean-up and purge nothing, an addition, an update and a removal the
  role of one controller, and what is cut off before the purge what would have been done after it. A free key means
  fewer controllers than keys, since the keys map onto the controllers with a role. Each action is then a
  step in which no role changes, or one as `PairingList` has it (`RolesChange`). `RoleInv` adds to `IInv` that
  a free descriptor has no active session and a stopped accessory only free ones, so that who acts has a
  role and nobody acts while it is off.
* **FlagsAlwaysCurrent** (IP alone). `FlagInv` adds that a stopped accessory has no sessions. A
  list changes only in `Responds`, which closes what is stale and reading; the session that
  responds is writing afterwards, and `IPWriteCompletes` looks again before it reads.
* **BLESessionsBound, BLEResumeEntriesBound, BLEPeerAuthorized** (BLE alone). `BoundInv` says
  that everything that refers to a pairing by key (the session, a verify procedure about to
  succeed, each cache element) refers to the pairing of its own controller. It needs that a
  session is never active and about to start again, that the Pairings procedure runs in the
  session it started in (`startedSecured`), and that the cache of a stopped accessory is bound
  unless the list lost its admins. Changes keep the identifiers under the keys that stay, so a
  reference can only break by a removal of its key, which drops the element or ends the session.
* **Pair Setup** (both transports): TypesKept, ProcedureAlwaysOwned,
  CodeAlwaysLocked, ShownCodeAlwaysCurrent, PairingKept and LockoutKept. The invariant is
  `SInv`: the types, and that the world is `Good`. A `Proper` world has a setup code that is
  consistent (what is kept is locked, what is refreshed is not, display and tag show it),
  a locked one while there is an owner, and nobody but the owner past M2; the owner past M2
  has guesses left and a verifier of the code in force, and is at M6 if the accessory is
  paired. It is `Engaged` when the owner is open and in the procedure, and `Apart` when no
  transient session is the owner. `PairingNeverReplaced` and `LockoutIsFinal` need the last
  parts of `Proper`: M5 does not look whether the accessory is paired or locked out, it relies
  on its session being at M4. Since a handler passes through worlds that are not
  proper, `ProperBut` and `EngagedBut` leave one session out; the lemmas follow the calls of the
  code and end in one lemma for each kind of step (`Preserves`).
  *IP alone*: TransientClosedInTime, SetupInfoNeverAsserts, CodeHiddenOncePaired, KeptCodeKept,
  AssertionsHoldOverIP, CodeHiddenOverIP. `IPInv` adds that a paired accessory has no owner, no setup
  code and no transient session (`Hidden`), because over IP M5 and M6 are one callback, in which the
  other transient sessions were closed before. *With IP, also beside BLE*: CodeHiddenOnceStopped.
  `IdleInv` says that a server that does not run has no code, no NFC mode and no callback timer.
* **IP server**: ServerAlwaysSound, EventsAlwaysKept. `IInv` is `Sound(World, Sessions)`. `EngineSound`
  says what each stage has and has not: an idle engine no sessions, listener or timer; a
  stopping one no listener and, while it has sessions, a timer that goes on with the stop; a closed
  session the garbage timer. Each session is `SessionSound`: it reads only under the pairing that secured
  it, writes only while something is left to write, and what it owes a subscriber is flagged or on its
  way; one that waits with events has the event timer. A handler calls others while its own session is
  between two states, hence `Sound(w, S)`: sessions outside `S` may be unsound until it is done.
* **Characteristics over IP**: SessionsAlwaysSound, SubscriptionsAlwaysTold, WritesAlwaysAuthorized,
  WritesAlwaysReported, for any attribute database, requests of any length and members, outcomes of
  handlers, and permissions that come and go. A request is read and carried out by runs over its members and its
  contexts (`QueryRun`, `BodyRun`, `ReadRun`, `WriteRun`), recursive functions from how many are done to what has become of
  them. `RunExists` shows that such a function is there and obeys its recursion, by the least number that has no
  run; `Climb` carries what holds of the world from one write to the next. `CharInv` adds to the properties the types of all
  state and `TablesKnown`: an entry of an event table is there once and the application knows it, which a write in the
  middle of a request keeps because `Without` takes out exactly one. The lemmas follow the calls: what
  each of the ten `HandleWrite` functions passes on fulfils the constraints (`HandleWriteIs`), one write keeps the world sound and changes at most
  its own value (`HandleWriteRequestIs`), so does a list of them, each with the status that tells what became of it
  (`WritesAreDone`), and a read puts only permitted values into a context (`AnswersArePermitted`). `WritesAreReported` needs
  that the value is that of the last write carried out: a later write with an error to the same characteristic leaves it (`ReportedStep`).
  SessionsAlwaysSound assumes `StepsFit`, that the range of each float with a step ends on a step: without it
  `HAPFloatCharacteristicRoundValueToStep` (`HAPCharacteristic.c:1288`) rounds a value near the maximum
  beyond it. `RoundedFulfils` proves that it is enough. SubscriptionsAlwaysTold is the rest of the property without that condition. The attempt
  showed a case that `WritesAreReported` had forgotten: a TLV8 value that is no string is ignored and reported as a success.
* **BLE link**: TransactionsAlwaysSound, SubscribersAlwaysServed, WritesAlwaysAsSent, for any GATT table,
  database, requests, fragments and outcomes of handlers. `LinkInv` relates the world (`World`, as
  handlers see it) to what the central asked and what was confirmed to it as prepared:
  `Sound` (the shape of a transaction in each of its states; what has begun has a timer; what is
  secured and when), `Apart` and `Ends` (no procedure without a link; a terminal session
  is not active), `NotStuck` (no event waits that could go), `ToldSound` (the application knows the subscriptions
  of a secured session), `Matches` (an answer that waits is the one to what the central last asked, and what
  began secured leaves sealed) and `Remembers`: the fragments read so far are what was sent
  of the body (`Gathered`), a timed write, as its reader finds it in the buffer, is the confirmed one or about to be
  confirmed (`Confirming`), and only the attached procedure has prepared any (`PreparedHere`). The last two
  hold until the session is terminal: then the central has given up its requests. A handler passes through worlds in which
  its procedure is between two states, so the lemmas follow the calls (`SendRequestResponse` up to `HandleReadRequest`
  and `HandleWriteRequest`) and relate the world before to the one after. `WrittenAsSent` is
  what `Remembers` gives at the moment a request is complete. Before the proof TLC checked `LinkInv` on four more
  instances: Pair Setup beside Pair Verify, secured and open characteristics, signatures, unknown opcodes, wrong
  instance identifiers, empty timed writes, and fragments of one and of three tokens.
* **GoodCentralsAlwaysServed** (BLE link, `HAPBLECentral_proofs`): as long as a central made no mistake, its link is
  not cut, its session not ended, and both ends count the same nonces, whichever requests it interleaves on
  its characteristics, timers fire and handlers fail. Beside `LinkInv` it takes `Trust`: what the
  central asked and the accessory works on are the same. `Calm` says that nothing is a reason to end the link; `Agreed`
  that each side seals and opens in the security the request began in, and that a fallback procedure
  is still to get what the central is still to send; `Awaits` that what the central waits for is in
  progress, and an exchange that drops the session is alone; `Promises` that a write is prepared
  exactly when the central was told so or is about to be, because an execute write without one, or another write
  before it, is an error that ends the link. `Trust` is no invariant of the world inside a handler, so
  the lemmas go from one call to the next with what is left of it (`Standing`, `Settling`, `Trusting`).
  Attempting the proof showed a mistake of the model, not of the code: the history `prepared` was cleared by an execute write
  with a body on a pairing characteristic, which the central is not told to have been executed.
* **Advertising**: StateAlwaysSound, ChangesAlwaysAnnounced, NoncesAlwaysFresh and
  ChangesAlwaysNumbered, the last for integers of 16 bits that hold at least 5. `IInv` has the
  state of one world (an event is on the air only with its timer, and with its key unless it is outdated;
  the timer only after an increment, nothing of it in a connection; what is on the air is what is stored) and its history:
  `NonceSound` (the numbers used under the key since it was made, plus those it has left, are less than
  its life, or an update that was cut off will expire it), `ToldSound` (the number a central was told is
  less than a round away, also after the rest of the key is used), `NumberSound` (how many increments
  lie between the published number and the stored one, by what was interrupted), and
  `Configured`. Numbers that wrap are compared by their distance round the circle, with lemmas that add
  distances. Before `NonceSound` was proved TLC checked it with widths of 3, 6 and 12.
* **Building blocks.** NewestAlwaysSurvives: sessions of the cache are unique and the one saved last has the
  last time stamp; the cache has more than one element (with one, a second saving must replace the first).
  StreamsAlwaysServed: the listener is armed exactly while there is room, and a ready event is of an open stream.
  ChipAlwaysUsedWell. TimersAlwaysKept: `TimerInv` says that the entries with an identifier are the first ones and
  no identifier is in two places, so that a new one is free; that what is held is what has a callback, and that the
  expired timers and the others are each sorted by deadline and order of registration (`Precedes`). Between
  the two only timers are out of order that were registered since the round began. A place that is moved has
  a `Source`, and sources differ, which is what a register, a deregister and the end of a round have in common. StoreAlwaysDurable is the refinement of `HAPDurableStore`, step by step: the store
  is what the directory shows, the stable contents what the directories on the medium show; a rename
  or unlink is the change of the abstract store, every other system call a stutter, an fsync of the directory
  makes stable. FilesAlwaysKept, if fsync of a file does not fail: every directory that the medium
  may have holds whole files with what was promised, and a left-over temporary file is overwritten
  before it is used.

The restrictions to one transport and to an fsync that works are real: without them
the disagreements above are counterexamples.

Only model-checked, and why:

* Liveness (`StopEnds`, `EventsDelivered`, `RoomIsMade`, `EverythingEnds`): fairness and ENABLED are
  beyond the proof system.
* `BodiesAreSound`: the two passes over a body add the lengths of its tokens, texts among them, with folds, of which the provers know
  nothing.
* `DatabaseIsWritten` (`HAPIPAccessory`), `ReadsAreFaithful` and `FormatsAreKept` (`HAPTLV`, `HAPTLVReader`,
  `HAPTLVFormat`), `RequestsArriveAsSent` (`HAPIPHTTPReader`): what recursive operators compute of databases, formats and bytes,
  which needs induction over data.

## Plan

Done: every component of the inventory that keeps state between callbacks and is not pure I/O.

Not modelled, for good: cryptographic primitives, JSON and Base64 text, validation of static attribute
tables, type tables, the deprecated legacy import and legacy pairing mode, `/secure-message`, logging,
the example applications and the Swift wrapper.
