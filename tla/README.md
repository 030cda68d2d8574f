# TLA+ verification of setu-cloud

setu-cloud is the server side of an IoT platform: devices (smart plugs, fans, lights)
talk MQTT to an EMQX broker; one or more server instances subscribe to the broker, keep
the truth in Postgres, a cache and a notification channel in Redis, and serve a tenant
API, a consumer app API, voice assistants and an admin console over HTTP.  This
directory holds TLA+ modules of the parts where order, concurrency or failure decide
whether the server is right, the TLC configurations that check them on small instances,
and theorems about them checked by TLAPS.

## 1. The system

### Components

| Component | Source | State it keeps | Operations |
|---|---|---|---|
| MQTT router | `internal/mqtt/router.go`, `subscriber.go` | 64 worker slots, cache of known tenants; everything else is in Postgres/Redis | `HandleUp`, `HandleShd`, `HandleSysConnected`, `HandleSysDisconnected`, and one handler per message kind: `reg`, `boo`, `rpt`, `ack`, `ota_done`/`ota_err`, `offline` |
| Registry | `internal/registry` | `devices` table (with the `is_online` flag), Redis key `online:{tid}:{did}` | `Upsert`, `SetOnline`, `SetOnlineCached`, `UpdateDiag`, `Get`, `List` |
| Shadow | `internal/shadow` | `shadows` table (one row per datapoint), Redis document `shadow:{tid}:{did}` | `UpdateReported`, `HandleShadow`, `SetDesired`, `GetShadow`, `refreshCache` |
| Commands | `handlers/devices.go`, `app/devices.go`, `app/groups.go`, `app/scenes.go`, `handlers/ota.go`, `iot/service.go`, `localkey` | `commands` table | seven issuing paths; `handleAck`, `handleOTA` |
| LAN keys | `internal/localkey`, `app/localkey.go`, `router.ensureLocalKeyOnline` | `device_local_keys` table, `klk` commands | `getOrCreateRaw`, `Provision`, retry on reconnect |
| Tenant keys | `internal/keystore` | `tenant_keys` table, a 5-minute in-process cache | `ActiveKey`, `Generate`, `Invalidate` |
| Factory provisioning and inventory | `internal/ztp`, `admin/main.go`, `cmd/seedinventory` | `device_inventory` | `HandleProvision`/`claimDevice`, admin "provisioned" switch, delete |
| Ownership | `internal/app/devices.go`, `ble.go` | `app_devices` | `ClaimDevice`, `AdoptDevice`, `DeleteDevice`, BLE nonce signing (trust on first use) |
| Accounts and sessions | `internal/app/auth.go`, `internal/api/middleware` | `app_users` with the login failure counters, `otp_codes`, `verification_tokens`, `refresh_tokens` | OTP, register, login, refresh (rotation, replay detection), logout, delete |
| OAuth linking | `internal/oauth` | `oauth_auth_codes`, `oauth_tokens`, `linked_accounts` | code exchange, token pairs, refresh, disconnect |
| WebSocket hub | `internal/ws` | map of clients, one 256-slot buffer each | register, unregister, `Broadcast`, a write pump and a read pump per client |
| Proactive reporting | `internal/proactive` | subscription to Redis, Alexa's token | push the state to Alexa / Google after each `rpt` |
| Voice assistants | `internal/alexa`, `internal/google`, `internal/capability`, `internal/iot` | none of their own | discovery, state reports, directives; directive to datapoints and back |
| Products | `internal/schema`, `internal/app/profiles.go`, `handlers/admin.go` | `released_products`, a static catalogue | release, retire, resolve a product id to capabilities and assistant configuration |
| Groups, scenes, automations, rooms, profiles | `internal/app` | `app_groups`, `app_scenes`, `app_automations`, `app_rooms`, profile table | CRUD, default rooms |
| Admin console | `admin/main.go` | in-memory sessions, EMQX users | login, inventory, CSV import, tenant keys |
| Start-up and housekeeping | `cmd/server`, `internal/db`, `internal/cache`, `internal/config` | pools | wiring, daily clean-up of `device_events` |
| Tools | `cmd/mockdevice`, `cmd/seedinventory`, `cmd/ota-sign` | none | test device, seeding, signing |

### How they interact

* The broker calls the router's callbacks; each callback copies the payload and starts a
  goroutine that takes one of 64 worker slots.  From there on nothing orders the
  goroutines: two messages of one device are handled in any order, their statements
  interleave, and QoS 1 may deliver either of them twice.
* `/up` and `/shd` are shared subscriptions when a group is configured (one instance gets
  each message); `$SYS` events go to **every** instance.
* HTTP handlers, the voice services and the router share Postgres and Redis only.  There
  is no lock around a read of one and a write of the other.
* The router publishes every event on a Redis channel; `ws.Hub` and `proactive` subscribe.
* An adoption, and a device that comes online without having acknowledged its LAN key,
  start `localkey.Provision` in a goroutine of its own.
* The admin's "back to inventory" deletes the devices row and, by the foreign keys,
  commands, shadows and events, while handlers for that device may be running.

### What is hard

Order: per-message goroutines, `$SYS` against `/up` against retained `/shd`.  Duplicates:
QoS 1, resubscription, several instances.  Check-then-act on tables: LAN keys, OTP,
refresh rotation, authorization codes, trust on first use.  Caches beside a table: Redis
shadow documents, presence keys, tenant key cache.  Partial failure: ignored errors of
inserts, publishes, cache writes.  Nested use of one connection pool.  Buffers that are
full and connections that end on either side.  Optimistic answers given before a device has
acted.  Values that are rounded on the way to an assistant and back.

### What correctness means, per component

* Commands: a status is only ever what the device said; a row precedes the publish;
  an answer is written before it is announced; repeated answers change nothing;
  answered commands do not stay pending.
* LAN keys: one key per device for ever, whoever asked first; every caller gets it.
* Presence: once no event is being handled, the Redis key says whether the session is up.
* Shadow: the cached document is never older than the last finished write; reports do not
  touch desired values; an aborted batch leaves nothing.
* Inventory and ownership: a device is handed out once per reset, a provisioned device has
  its devices row, at most one owner, one signer on first use.
* Tenant keys: at most one active key, and readers use it within the cache's age.
* Sessions: a refresh token is spent once, replay closes the family, logout is final.
* Registration: a code is compared with a bounded number of guesses.
* OAuth: a code gives one token pair, one pair per user and client is live, the newest pair
  is in the client's hands and works, revocation is final, nothing outlives the account.
* WebSocket hub: frames in order, nobody waits for a slow client, nobody sends on a closed
  channel, a client that is gone is forgotten.
* Proactive reporting: a user is pushed what was the state of a device of theirs, and in the
  end the state there is.
* Voice assistants: what is shown can be wished for and changes nothing, an answer comes
  true, what was discovered works.

## 2. Modules

One module per component, each with the statements of its handlers as actions; a module
`...Proofs` with its theorems; a module `MC...` with its instances for TLC.

| Module | Models | Status of the component |
|---|---|---|
| `CommandLifecycle` | every path that issues a command, the broker, the device's answers, `handleAck`, `handleOTA`, `storeEvent`, `publishWS` | modelled |
| `LocalKey`, `WriteOnce` | `getOrCreateRaw` and all its callers, the klk exchange; `WriteOnce` is the abstract register it implements | modelled |
| `Presence` | the five kinds of message that say whether a device is up, on several instances | modelled |
| `ShadowCache` | the shadows table, its row locks, and the Redis document | modelled |
| `Inventory`, `Provisioning` | factory claim, admin switches, ownership, BLE first use, of one MAC; `Provisioning` is the abstract life of the device that they implement | modelled |
| `TenantKeys`, `SigningKey` | one tenant's key pairs and the per-process caches; `SigningKey` is the abstract line of keys that the service implements | modelled |
| `Sessions`, `Accounts` | login, refresh, logout and deletion of one account; `Accounts` extends it by the codes, verification tokens and the registration the account comes from | partly: guests and mail are left out |
| `OAuthLink` | authorization codes, token pairs, linked accounts, statement by statement | modelled |
| `EventFan` | a report on its way to the WebSocket clients and to the voice platforms | modelled (hub, proactive reporting) |
| `Products`, `VoiceMapping` | products, capabilities and the mappers, as operators | products partly: firmware and panel projections are left out |
| `VoiceControl` | both assistants' requests on devices that others use too; extends `VoiceMapping`, which extends `Products` | modelled |

What all of them have in common:

* **A step is a statement.**  A handler is a program counter per goroutine (`pc`), and one
  action runs it from one SQL statement, Redis command or publish to the next.  What the
  code does between two of them in memory belongs to the action before or after, with the
  early returns.  A transaction's statements are actions too; what it writes shows at its
  commit, and the row locks it holds are variables.
* **A worker, caller or task is one goroutine.**  The code starts one per message or
  request; those of the models are used again once they are done.
* **`Settings`.**  A specification starts by choosing one member of `Settings`, a set of
  records, and keeps it in `setting`: who issues requests, whether statements may fail,
  how many inputs there are.  A run thus looks at several scenarios, each of them small.
  The theorems hold for any set of settings.  (`EventFan` calls them `FanSettings` and `scene`,
  `VoiceControl` `VoiceSettings` and `house`; these two and `Accounts` also name their
  specifications `FanSpec`, `VoiceSpec` and `AccountSpec`, so that a module of proofs can extend
  more than one module.)
* **Faults.**  "Faulty" settings let the statements fail (SELECTs too, and sending), with their
  effect where the code could not tell (a lost answer), and let goroutines die where a crash
  matters.  What the code makes of a failure is part of the action: an early return, an empty
  result that is taken for a whole one, or a default that takes its place.  What is not made to
  fail is named below with its module.
* **History variables** are marked as such in the VARIABLES.  No guard of the code's actions
  reads one; the device of `CommandLifecycle` reads `said`, which is its own memory.
* **Definitions named `...Unchecked`, `...Not`, `...Early` and so on** with a comment
  "Fault:" are what a plausible bug would make of the definition that follows them.  The
  specifications do not use them; they show that each property depends on the code.

### CommandLifecycle

`req[c]` and `pc[c]` are the request that drew uuid `c`: `IssueCommand`, `Command`,
`SendCommand`, `GroupCommand`, `RunScene`, `AdminIssueOTA` and `ProvisionKey` resolve a
route in their own ways (the first four differ in whose `tid` they use and in what they join),
`Insert`, `PublishOK`/`PublishError` and `SetDesired` follow.  Groups and scenes ignore
the errors of their INSERT and publish.  `dn` and `net` are bags, the broker's two
directions.  `DeviceAcks` and `DeviceEndsOTA` are what `cmd/mockdevice` does on a message
of its own topic.  `handleAck` and `handleOTA` update the row, `storeEvent` and `publishWS`
follow; an UPDATE that fails is logged and the rest is done all the same.  `Reset` is the
admin's, which deletes the rows by cascade.  Payloads, QoS bookkeeping and the text of
events are left out.

### LocalKey and WriteOnce

A caller asks for the key for one of two reasons: to hand it to the app (`GetLocalKey`) or
to push it (`ProvisionLocalKey`, `AdoptLink`, `HandleHello` by way of `EnsureAdopted`,
`EnsureUnsent`, `EnsureUnacked`).  `SelectKey`, `InsertKey` (ON CONFLICT DO NOTHING) and
`RereadKey` are `getOrCreateRaw`; `RecordPush` and `Publish` the klk command.  `nvs` is
what the device holds.  `WriteOnce` has three actions, `Choose`, `Learn`, `Forget`; the
refinement maps its `stored` to the table and its `answer` to what each caller holds.

### Presence

A task is one message at one server with the next step of its handler.  `HandleBoo`,
`HandleOffline`, `ProcessShd`, `HandleSysConnected` and `HandleSysDisconnected` are given as
the order of their steps; `IsKnownTenant`, `SetOnline`, `SetOnlineCached` and `PublishWS`
run them.  `SysGoesTo` and `DeviceGoesTo` say which instances a message reaches.  The
device connects, publishes its retained shadow, drops (its will is published) or stops
cleanly.  A server crashes with its tasks, and resubscribes with the retained message when
it comes back.  Redis itself does not fail in this module.

### ShadowCache

`TakeReport`, `Upsert` per datapoint in any order (the code walks a Go map), `Commit` and
`Rollback` are `UpdateReported`'s batch; a cycle of batches that wait for each other's rows
is broken by rolling one of them back.  `Select` and `Cache` are `refreshCache`.
`TakeShadow`/`HandleShadow` replace the document by the retained one, whose shape differs.
`Ask`, `SetDesired`, `Answer` are a command's writes, with a refresh
(tenant API) or without (app, voice).  `Expire` and `GetShadow` are the 24-hour limit and
the rebuilding read.

### Inventory

One inventory row and the rows of the dids the device has had.  `factory`, `mark` and
`reset` are transactions (`BeginTx`, `ReadDid`, `UpdateRow` or `UpdateNoRow`, `Exists`,
`WriteDevices`, `DeleteOwner`, `CommitClaim` or `CommitReset`, `Rollback`, `Answer`) whose
first update locks the inventory row.  `DeleteLook` and `DeleteRow` are the admin's
look-then-delete; `AddDevice` puts the MAC back under a did it picks.  `AdoptLook`,
`AdoptLink`, `SignLook`, `SignCheck`, `SignFirst`, `SignAgain`, `Sign`, `ClaimRow`,
`ClaimInsert`, `RemoveDevice` are the app's; `HandleReg` the device's.  A transaction holds
one of `setting.pool` connections.  `claimDevice` takes a second one while it holds
its transaction open (`Exists`), which is why the pool is in the model.

`Provisioning` is what this amounts to for the device (`Life`): it is pending, is handed out with
its devices row, is taken back, is removed only while pending and added again.  `CommitClaim` is its
`HandOut`, `CommitReset` its `TakeBack`, `DeleteRow` its `Remove` and `AddDevice` its `Add`; whoever
makes the did's row without the inventory (`HandleReg`, `ClaimRow`) is its `Name`, and all that comes
between, on both sides of a lock, stutters.

### TenantKeys

`Look` is the cache of the worker's process, `Load` the SELECT on a miss, `Begin`, `Update`,
`Insert`, `Commit` and `Rollback` the transaction of `Generate` with the row lock and the
partial unique index, `Store` the caching, `Use` what the caller does with the key: burn it
into a device, sign, or nothing.  `HandleProvision` burns the configured key (`Legacy`) when
it gets an error.  `Restart` empties a process; `Tick` lets time pass, up to `TTL`.

`SigningKey` says what all of it is for, in two actions: the active key is replaced by one that
was never active, and a key that is or was active is handed out.  The rows of the table are its
state (`Line`), a `Commit` is its `Replace`, a `Use` its `HandOut`, and everything else stutters: a
transaction that fails, a cache that is old or a server that restarts is not seen.  The configured
key that the factory falls back to is outside of the line.

### Sessions

`Login`, `CountFailure`, `ResetFailures`, `MintSession` are the login handler: it reads the
count and writes what it has read plus one.  `Refresh` reads a token and its state,
`CloseFamily` answers a replay, `MarkUsed` and `Replace` rotate.  `Logout` revokes the
token's family.  `RequestDeleteOTP`, `DeleteAccount`, `Consume`, `RevokeAll` and `DeleteRow`
delete the account.  `Crash` is a server that dies or a statement that fails with the
handler returning.  A token past its sixty days is refused without any change, so it is one
that nobody presents.  Access JWTs are stateless and left out.

### Accounts

A visitor is a goroutine that serves someone without an account.  `RequestOTP` looks whether
the address is registered and `StoreCode` inserts the code; `VerifyOTP` reads the newest code,
`CountAttempt` adds one in the database and compares, `ConsumeCode` and `Prove` give the
verification token; `Register`, `SpendProof`, `LookForAccount` and `CreateAccount` are
`Register`'s statements, after which the goroutine goes on as one of `Sessions`' workers in
`MintSession`.  The module's steps are those of `Sessions` and its own, so the properties of
`Sessions` are checked here once more with an account that is made on the way.

### OAuthLink

A link is a user at a client.  `Authorize` draws a code, `ExchangeAuthCode` and `MarkCode`
spend it, `RotateRefreshToken` and `EndPair` take a pair, and both go on with `RevokePairs` and
`InsertPair` (`IssueTokenPair`).  `LinkAccount` is the end of an exchange.  `Disconnect` and
`Unlink` are Google's DISCONNECT, `DeleteUser` the cascade.  A pair is one row: its access token
and its refresh token are revoked together.

### EventFan

`HandleRpt` and `PublishReport` are the router's; Redis hands the event to `hubq` and `proq`.  The
hub's read lock is `rest # {}`: while it is held nobody registers or unregisters.  `Offer` is one
turn of `Broadcast`'s loop, with its `default` branch; `WritePump`, `Write`, `ReadPump` and
`Unregister` are a client's two goroutines.  A goroutine of the proactive service runs
`OwnerOfDevice`, `OwnsDevice`, `GetReportedDPS`, `LinkedPlatforms`, and for each platform
`OwnsDeviceForAssistant` and `Push`.  Reports are numbered; the number is the event and the state.

In faulty settings the batch of a report fails, Redis does not hand an event on to a subscription
(the error of the publish is ignored, and a subscription that reconnects has missed it), and every
SELECT of the proactive service may fail, after which the code returns and says nothing.
`GetReportedDPS` may break off and give part of the state, which is the state 0; `LinkedPlatforms`
may leave out links.  A link is `pushable` if there is a token for it and, for Alexa, something of
the device to show; to the others nothing is pushed.  `Miss` notes in `late` the links that would
have been pushed something newer than what they show; a push of the newest state takes a link out
of `late` again.

### Products, VoiceMapping and VoiceControl

`Products` has what a released schema says (`CapabilityFor`, `AppCapabilities`, `AppAssistant`),
the static catalogue, the table's two operations and the resolution of a product id.  The code
of a data point is the set of the words that `capabilityFor` looks for in it, which keeps the
order of its cases.  `VoiceMapping` has both mappers.  Colours and their hue, saturation and
brightness are exact fractions; `Merged` is a state with changes laid over it one after the
other; `Rounded` is `math.Round`; four Kelvin values whose quotient is a
half that float64 does not reach are listed in `ShortHalves`.  A temperature is counted in
eighteenths of a degree Celsius, so that Fahrenheit is exact.

In `VoiceControl` a setting is a house: its devices, what they hold at first, the product they
are (`pid`, of the devices row, which directives go by) and the one they were adopted as (`appPid`,
of `app_devices`, which discovery goes by), the products on file, the requests that may come (`VoiceAssumptions` says what shape they have, `ValueAssumptions` what values).  A request goes
through its devices: `OwnsDevice`, `IsOnline`, `Resolve`, one
`SendCommand` or `Skip` per wish, `Answer` or `ReportState`, and `Respond`.  Meanwhile the device
applies commands (`Apply`), is touched, goes off, is given away, loses commands; products are
released and retired; the proactive service pushes.

Where the house is faulty every statement of these may fail.  A product that cannot be looked up is the
static catalogue's (`CapsOf`, `Supported`), and a devices row that cannot be read leaves `appPid`
(`OwnsDevice`); a state that cannot be read is an empty one or part of it (`Readings`), and is
answered with SUCCESS; a presence that cannot be read is none; a command that was not stored,
or whose publish failed or seemed to, is given up (`GiveUp`: to Alexa it is the whole answer, with
Google the next wish follows).  `Spoil` notes the device of which a request has so got a wrong
picture, as `Disturb` notes the devices that were changed behind its back.

A wish is one the assistant may have (`Offers`):
for a capability it was told of, with a value in the range it was told of.

## 3. Runs

Twelve runs.  The ten passing ones check `Mixed` (in `Presence`, `Prompts`) settings of one
module each.  `CHECK_DEADLOCK FALSE` in all of them: inputs are bounded, and once they are used
up nothing is left to do, so TLC would report the end of every behaviour.  That nobody
waits for ever is what `HandlersEnd`, `RequestsEnd`, `DropIsNoticed`, `NobodyHoldsUp` and
`GoneIsForgotten` check.

| Run | Distinct states | What it shows |
|---|---|---|
| `commands` | 172 thousand | A status is the device's verdict; an answer is written before it is announced; only a contradiction or a reset changes an answered status; without losses an issued command is answered. |
| `localkey` | 807 thousand | Racing first uses get one key, the device's is that one and the app's too; the service implements `WriteOnce`; an adopted device gets its key although a push was lost. |
| `presence_settles` | 15 thousand | When session changes are handled one at a time, the Redis key ends up right in spite of crashes or failing statements, and the flag and the apps too without faults. |
| `shadow_mixed` | 324 thousand | The reported column is one whole report; where reports come one at a time and nothing fails, the last one ends up in the table, and in the document if refreshes do not overlap; handlers end. |
| `inventory_mixed` | 94 thousand | The inventory implements `Provisioning` (`DeviceLife`): a device is handed out once before it is taken back, and is removed only while pending; a provisioned device has its row; nonces are signed for owners only; an undisturbed reset leaves nothing; requests end if the pool is large enough. |
| `tenant_keys` | 1.8 million | The service implements `SigningKey` (`KeyLine`): one active key from the first on, replaced in one step, and none that comes back; nobody uses a rotated key for longer than the cache's age; failures lose no key. |
| `accounts` | 316 thousand | A closed family stays closed, but for refreshes then under way; a token is replaced once, unless it was read twice at once or its mark was lost; the last allowed wrong password locks while logins come one at a time; a code is compared with its five answers and one for each other request already past the count. |
| `oauth` | 1.7 million | A code gives one pair, unless it was read twice at once or its mark was lost; one pair per link is live, unless two issues for it overlapped or one could not revoke; the newest works, unless a request failed halfway; a link revoked with no request under way stays without a pair until a code is exchanged. |
| `events` | 421 thousand | Frames arrive in order, or are lost for the slow client only; no send on a closed channel; a client that is gone leaves the map; states are pushed to their owner, and a platform shows the last one in the end, unless since its last push of that state an event was lost, a SELECT or a push failed, or a goroutine was overtaken. |
| `voice` | 662 thousand | Answers come true, unless someone else changed the device, its product or the way of a command, or a statement of the request failed; what is shown can be wished for and changes nothing, for each of 101 values of brightness and of colour temperature and 512 colours; what was discovered and the device has is not refused, unless the product changed since the request began or one of its SELECTs failed. |

Two more runs refute what the code, its comments or its documents say; each is a finding:

| Run | Refuted | What happens |
|---|---|---|
| `tenant_keys_first` | `SignaturesVerify` | Two first uses draw a key each; the one the index refuses was the factory's, which then burns the configured key. |
| `oauth_disconnect` | `DisconnectUnlinks` | DISCONNECT upserts the linked account, which links it again; nothing sets `unlinked_at`. |

### Bounds, and why they are enough

* Commands: one on any of the seven paths with everything failing, two on the app's path with
  nothing failing.  Two commands share only `desired`; the rest of their state is indexed by the uuid.  One duplicate
  is enough to repeat any one answer after any other.  Two tenants, so that a device may be
  under another than its user.
* LAN keys: two callers, two keys; a third caller would see what the second sees, as the
  row never changes after the first insert.  One disconnection loses the one push.
* Presence: two instances (one alone receives, or both), two sessions (the second
  reconnects into the handlers of the first), one crash.
* Shadow: two workers, two datapoints, two values: the least with which batches deadlock, tear
  or overtake.  `changes` and `asks` are 1 or 2.
* Inventory: two requests at a time, three or four in all, so that a request meets the end
  of one and the beginning of another; two users, two dids, so that a device can come back as
  another.  One setting has as many connections as workers.
* Tenant keys: two goroutines in two processes, three keys, three or four requests, two or
  three ticks with a `TTL` of two: an entry can be new, one tick old, or expired.
* Accounts: two visitors and two codes, so that a code is verified by both at once and a newer one
  takes its place; two attempts where the code has five; two verification tokens.
* Sessions, in the same run: three requests at a time, four tokens (a login, two rotations and a rotation or login
  in between), three failures to the lock where the code has five, one deletion code.
  Workers and tokens are interchangeable (no CHOOSE and no order on them), so this run uses symmetry; it
  checks safety only.
* OAuth: two requests at a time, two codes, three pairs (an exchange, a second one or a rotation
  that overlaps it, and one after it); two clients, or two users of whom one goes.  Workers are
  interchangeable.
* Events: a buffer of one frame where the code has 256 (three reports fill it and lose one), two
  clients so that one can be slow and the other not; two goroutines of the proactive service so that
  one overtakes the other; three changes of owner (away, to another, back).  The hub and the proactive service share only the
  router's publishes, so they have settings of their own.  Failures are possible, and none need
  happen, in one of the hub's (one client) and two of the service's (three reports for two platforms of
  which the product is enabled for one; two for two of which one has no token).
* Voice: two requests at a time, at most two devices and two wishes; two versions of a product and
  three releases or retirements; one touch.  Statements fail in the settings `Shaky` (two plugs),
  `Mistaken` (a lamp of four capabilities that was adopted as one of two) and `Pushed` (the same, with the
  proactive service), one or all of a request.  In the setting `Sweep` the touch takes every value of a
  data point in turn: all of brightness and colour temperature, and eight levels of each colour channel
  with the ends, their neighbours and the thirds and halves where sectors and roundings meet.

### Fairness

Only where liveness is checked.  `WF` on the steps of a goroutine that has begun: Go runs
what can run, every call has a timeout or ends.  In `ShadowCache` the fair action is "go on or be
rolled back", since Postgres breaks deadlocks.  In `LocalKey` and
`Presence` some goroutine takes each message (`WF` or, where taking is disabled while all
callers are busy, `SF`); the semaphore of 64 places gives its places back.  Two hypotheses are
about the outside and not about this code: the broker delivers in settings without loss,
and a device answers and reconnects.  In `EventFan` the
hub's loop, a broadcast's turns, both pumps and `Unregister` are fair: goroutines that can run do, a
write has a deadline of ten seconds, and the lock is free between two broadcasts, of which there are
finitely many.  `TenantKeys`, `Accounts` with `Sessions`, `OAuthLink` and `VoiceControl` have no fairness and
no liveness.

## 4. Proofs

The theorems say, of every value of the constants and any number of steps, what the runs
show of small instances.  They rest on the ASSUMEs of the module they are about, and on
nothing else, with the exceptions named below.  The ASSUMEs say that `None` is no key, worker
or token, that settings are settings, that bounds are natural numbers, that the visitors of
`Accounts` are finitely many, that some server does not crash (`Presence`), and
what a house looks like (`VoiceAssumptions`: capabilities are lists of known
kinds, requests are non-empty lists of the house's devices and come from one of the two
assistants, of which Alexa names one device at a time), and what values there are
(`ValueAssumptions`: a data point has one kind, whatever is released; what it holds at first and
what it is set to by hand is of its kind's type, a channel 0..255 and a colour temperature 0..100
as in `capability/kinds.go`; this goes for the product a device is, for the one it was adopted as
and for all that may be released; what a wish carries has the type of its field, on whatever scale).

| Module | Proved | The invariant behind it |
|---|---|---|
| `CommandLifecycleProofs` | `TypeOK`, `StatusIsVerdict`, `RecordedBeforeSent`, `ToldAfterWritten`, `ChangesNeedContradiction` | Along a message's way: what is sent was issued, every copy in flight was sent, what was said is about something sent, every report in flight or in a handler was said; and what is announced has been written or its UPDATE failed. |
| `LocalKeyProofs` | `TypeOK`, `CallersAgree`, `DeviceHasStoredKey`, `WrittenOnce`, `AppHasDeviceKey` | Every copy of a key agrees with the table: at a caller, in a message, in the device; a caller past the read has a key.  The refinement adds that no step changes a stored key.  With one tenant (`OneTenant`) every key handed to the app is the stored one (`HandedKept`). |
| `RouterProofs`, on `Presence` | `TypeOK`, `SettledCache`, `Settled` | In benign settings every pending task, and without a group the retained message too, says what the session is, and while the key is wrong some task that cannot get lost is about to set it (`Covered`).  Without faults the same is true of the flag and of what the apps were told (`Told`). |
| `RouterProofs`, on `EventFan` | `FanTypeOK`, `NoSendOnClosed`, `FramesInOrder`, `PushedToOwner`, `SettledShown` | Whom the broadcast is still to offer its frame is in the map, with an open channel (`Locked`).  A client has got, is writing or has buffered exactly what was offered and did not find its buffer full, in this order (`Offered`, `Ordered`, `Numbered`).  A pusher's owner is among the heirs since its reading (`Heirs`).  The newest state is shown, or on its way to the platform: in the channel, or with a goroutine that has yet to read it or to push it (`OnItsWay`), or the link is in `late`: every failure that takes a link's last chance puts it there. |
| `ShadowCacheProofs` | `TypeOK`, `NoTornReport`, `LocksGivenBack`, `Settled` | Whatever is on its way to the reported column, in a message or in a batch, is one report the device has made; a lock names a worker that is inside its batch.  When reports come one at a time and nothing fails, all that is under way is one report and one retained shadow of the device's state (`OneReport`), the table shows this state unless the report is under way (`Stored`), and the document does unless a refresh is (`Cached`). |
| `InventoryProofs` | `TypeOK`, `DeviceLife`, `HandedOutOnce`, `ProvisionedHasRow`, `DeletedOnlyPending`, `SignedForOwners`, `CleanWhenPending` | Who is past the update of the inventory row holds its lock and has read what the row still is (`Custody`), so a commit finds the device as the life it takes a step of has it; who is about to sign has seen a link (`Linked`).  In calm settings who resets or deletes is alone at work (`Alone`), who is about to link a did has the provisioned device's (`Linking`), and a reset has read that did and holds what rows of it there are (`Resetting`). |
| `TenantKeysProofs` | `TypeOK`, `KeyLine`, `OneActive`, `KeysAreStored`, `KeyOutlivesFailures`, `UsedKeyIsRecent` | Who is past the UPDATE holds the lock of the key it found active, and the keys drawn are new and differ from each other; every key at hand has a row; an entry's age bounds the time since its key's rotation.  The refinement adds that what a commit takes the lock of is all that is active, and that its own key has no row yet. |
| `SessionsProofs` | `TypeOK`, `ClosedIsClosed`, `SpentOnce`, `StrikesLock`; of `Accounts` the same three and `AccountTypeOK`, `GuessesLimited` | Who refreshes has a row; a closed family has no refresh under way that was not there when it was closed; a token that two requests hold, or that is unmarked after its replacement, is `loose`; the count in the row is the number of wrong passwords while logins do not overlap.  In `Accounts` nobody has logged in to, and nobody deletes, an account that is still to be created (`Unborn`); and a code's answers are no more than its count, which with the visitors about to add to it exceeds the limit by the other visitors at most (`Guessed`). |
| `VoiceProofs`, on `OAuthLink` | `TypeOK`, `CodeSpentOnce`, `OneLivePair`, `LastPairWorks`, `RevokedEnds`, `DeletedIsGone` | A code some request has read unmarked is held by that request alone or is `loose`; of a link whose issues do not overlap at most one goroutine is about to insert, and then no pair is live; a link whose pair was revoked has no request past its SELECT; the newest pair is live, or somebody who will replace it is on the way. |
| `VoiceProofs`, on `VoiceMapping` | `ColourComesBack`, `KelvinComesBack`, `AlexaComesBack`, `GoogleComesBack` | No state: for every colour of 256 levels a channel and every colour temperature of 0..100, and with them for every value of every kind of capability, what an assistant is shown, wished for again, sets the value it was made from. |
| `VoiceProofs`, on `VoiceControl` | `DiscoveredWorks`, `AnswerComesTrue`, `ShownIsSettable` | While nothing spoils a device, what a request would say of it is what it would say once the device has carried out its queue (`StateInv`), since the part of its wishes it has sent would not change the state to come (`SendInv`); so what an assistant shows and may be trusted is that too (`ShownInv`); where a command of the request has not reached the device the device is spoilt (`LostAnswer`).  A request at a device it has not spoilt goes by the product the device has, and once it has resolved that by its capabilities as they are (`ReqInv`), so a wish for what the device has finds its data point (`VoiceInv`).  What the devices hold, what is on its way to them and what requests have yet to send is of its data point's kind, whichever release described it (`ValueInv`); with one data point of a kind, what is shown then comes back capability by capability. |

Two theorems have hypotheses that are facts about settings.  `CacheAlwaysSettles` and
`FlagAndViewSettle` ask that the settings are `Benign` (session changes come one at a time; crashes or
failing statements but not both; outside a shared group neither crashes nor a mock device): the
others lose messages, see section 5, and `Prompts`, which the run checks, satisfies it.
`AppAlwaysHasDeviceKey` asks that the app's tenant is the device's, which section 5 says is
needed too; the invariant itself is about that case only.

A library of theorems is shared where modules meet the same system: `RouterProofs` is about both
ways a router's message goes, `VoiceProofs` about the three parts an assistant uses.

Why an invariant of its own is needed can be seen in `HandedOutOnce`: it says nothing of a
second transaction that has read an unprovisioned row and is about to update it.  Only with
the custody of the lock (`Custody`: who has updated has the lock, and there is one holder)
does the commit of a claim keep it.  `AnswerComesTrue` is the farthest from inductive: it is about
devices at rest, and says nothing while commands are under way.  The idea of its invariant is
the state to come, `Final(d)`: what the device holds with its queue laid over it.  `Apply`
does not change it, another's command does and spoils the answer, and a request's own leaves it
as it is from the moment it is sent.  What remains are facts about `Merged`: laying a change over a
state twice is laying it once, and a request's second command covers what the first one set.

Each proof has the same shape: the initial states
satisfy the invariant, every action keeps it (one step per action, and below it one per
conjunct the action can disturb), and the invariant implies the property.

`TypeOK`, `FanTypeOK` and `AccountTypeOK` and seven further properties are proved and are no
property of a run any more, since the theorem says more than the run did: `RecordedBeforeSent`,
`LocksGivenBack`, `HandedOutOnce` and `DeletedOnlyPending` (which `DeviceLife` implies), `OneActive` (which `KeyLine` implies), `KeysAreStored` and
`DeletedIsGone`.  `VoiceControl` has no
type invariant of its own: the shape of its variables is part of the invariants above
(`ReqShaped`, `WorldShaped`).

**Only model-checked**: all liveness (`AnsweredEventually`, `AdoptedGetsKey`,
`DropIsNoticed`, `HandlersEnd`, `RequestsEnd`, `NobodyHoldsUp`, `GoneIsForgotten`), which the proof
system does not reach.  Every safety property of a passing run is a theorem.

## 5. What was learnt on the way

Besides the two findings, facts that a reader of the code may want to know.  They limit what the
properties say:

* Group and scene runs ignore the errors of their INSERTs, so an id may be published that no
  row has; `publisher.go:30` asks for an id of the table.  `RecordedBeforeSent` is about the
  other paths.  A group's command goes to a topic of the user's tenant (`groups.go:157`): a device
  provisioned under another never hears it, and is counted as sent.
* A claimed device of another tenant gets two rows in `device_local_keys`: the app reads one
  (`app/localkey.go:24`), the device holds the other.  `AppHasDeviceKey` is about one tenant.
* The handler of an old "disconnected" may run after that of the new "connected"
  (`router.go:387`, `412`); a device that then says nothing stays offline.  Hence "one session
  change at a time" in `presence_settles`.
* Of two refreshes of a document the one that has read first may set last (`shadow.go:114`); the
  document stays old until the next one.
* `handleAck` updates without looking at the status, so an "ok" that overtakes an "error"
  of the same command is overwritten.  Hence "unless contradicted".
* The mock device leaves its retained shadow saying "online" when its will is published on
  `/up`; a server that resubscribes reads it again and shows a device that is gone.
  `SettledCache` therefore excludes a mock device of an ungrouped server that resubscribes.
* An adoption or a claim that runs while the admin resets the device can leave an owner of a
  device that is back in the inventory; `CleanWhenPending` assumes that nothing else runs.
* The two status switches take a second connection inside a transaction: with as many of them
  at a time as the pool has connections, all wait for each other.
* `Logout` marks the rows there are.  A `Refresh` that has marked its token but not stored
  the next one adds a live token to the family afterwards, so "no further rotations can
  occur" (`auth.go:443`) holds only if none is under way; `ClosedIsClosed` says so.
* A login under way while its account is deleted stores a token of a new family afterwards;
  no foreign key ties it to the account, and `Refresh` does not look for one.
* Overlapping logins lose failures, and one that has read the count before the lock writes
  it after; `StrikesLock` is about logins one at a time.
* `Register` says "consume the token before any writes so concurrent requests fail cleanly"
  (`auth.go:259`), but the UPDATE asks nothing: of two requests the second fails at the unique
  address, with a 500.
* The hub's `?did=` filter is stored and never read: a client gets every event of its tenant.
* The proactive service reads the shadow under the consumer tenant, so a device provisioned
  under another is never reported, and it uses the static catalogue (`CapsForPID`), so a released
  product outside it is reported as a switch.  A goroutine that has read first may push last.
* Where two data points have one kind, directives go to the later, and Alexa is shown both;
  Google shows one `color` field for colour and temperature, the later's.  `ShownIsSettable` asks
  for one data point of a kind.
* A data point whose type changes with a release is passed over by both assistants until the device
  reports a value of the new type; `ValueAssumptions` leaves this out.
* A state that cannot be read is answered all the same: `reportedDPS` gives an empty map
  (`iot/service.go:178`), and QUERY, ReportState, EXECUTE and control say SUCCESS with what there is
  (`google/handler.go:140`, `197`; `alexa/handler.go:239`, `271`).  `AnswerComesTrue` is about requests
  whose statements did not fail.
* `ResolveCapabilities` takes any error for "not released" (`app/profiles.go:169`): while Postgres does
  not answer, a released product outside the static catalogue is a switch, and what was discovered of it
  is refused or passed over.  `DiscoveredWorks` leaves out requests with a failed SELECT.
* Discovery goes by the product in `app_devices` (`iot/service.go:53`), directives by that of the live
  devices row (`iot/service.go:108`), and the two may differ (`app/devices.go:173`): an assistant is
  then told of what the device lacks, and a wish for that is refused.  `DiscoveredWorks` is about what the
  device has.
* The proactive service returns at every error (`proactive/service.go:92` to `121`), and the error of the
  publish on Redis is ignored (`router.go:361`): the push is left out without a trace, until the next
  report.  Hence "unless" in `SettledShown`.
* `SETU_CLOUD_API.md:478` promises 409 for the adoption of a device that another user has; the code
  upserts and makes the caller its owner.  `Inventory` has what the code does.
* `schema.go:75` says that a colour data point carries HSV, which the app converts; `capability/kinds.go`
  and the mappers take red, green and blue.  `ValueAssumptions` is about the latter.
* Alexa is told that contact, motion and humidity are retrievable, and is never told what they say;
  humidity is advertised as a range that no directive can set.
* Alexa's relative directives (`AdjustBrightness`, `AdjustTargetTemperature`, `AdjustRangeValue`,
  warmer and cooler) and `SetThermostatMode` carry their value in a field that is not decoded, and
  set zero.  Google's `ThermostatSetMode` is advertised for a thermostat without a mode, and does nothing
  with SUCCESS.
* EXECUTE answers for all devices with the state of the last one; a device to which sending
  failed is listed under SUCCESS and ERROR, with the values that were not sent.
* The ranges of a schema (`min`, `max`) reach the attributes of two traits, and no conversion: a
  brightness of 10..1000 is shown as 1000 per cent.
* `ResolveCapabilities` takes a retired version too, unlike the assistant configuration: "devices in the
  field keep working".  A version that is pushed again stays retired; the same contents are not
  stored under a second version.
* A refresh of the shadow is not asked for by the app's and the assistants' commands, so their
  desired values reach the document with the next report; the retained shadow gives the document
  another shape.
* The factory's claim whose answer is lost is not repeatable: the retry gets 409.
* `DeleteAccount` scans a guest's missing e-mail address into a string, so a guest's account is
  not found.

## 6. What is not modelled

Guests (an INSERT and `MintSession`) and the mail that carries a code; the expiry of codes and tokens by
time, which refuses without a change; `TriggerDiscoveryRefresh` and Alexa's stored bearer token;
`FirmwareConfig`, panels and the validation of schemas.  The authentication of clients at OAuth's token
endpoint, which looks at `client_secret` only if there is one (`oauth/handler.go:137`), and an UPDATE of
`RevokeByToken` that fails and is answered with 200 (`oauth/store.go:236`).  Of a product that a device was
adopted as but is not, nothing is released: such devices are of the static catalogue.  Single-statement CRUD of profiles, rooms, groups,
scenes, automations and tenants; wiring, configuration and the daily clean-up; the CSV import, the
sessions in memory and the EMQX calls of the admin console; the seeding and signing tools: they
have no state that two actors disagree about, or are I/O.  Cryptography is taken as what it promises:
keys and tokens drawn at random do not repeat.  Postgres runs at READ COMMITTED, as the code leaves
it.

## 7. Plan

Done, in this order: `CommandLifecycle`, `LocalKey` with `WriteOnce`, `Presence`,
`ShadowCache`, `Inventory`, `TenantKeys`, `Sessions`, `Accounts`, `OAuthLink`, `EventFan`, `Products`,
`VoiceMapping` and `VoiceControl`, each with its run and its proofs.

Worth doing next:

1. `AdminSessions`: the console's sessions in memory against the deletion of users.
2. `DeviceCloud`: a composition of `CommandLifecycle`'s desired values with `ShadowCache`, so that a
   command's effect on the document is followed from request to report.
3. `OAuthLink` against a grant that is consumed once, stated as a specification like `WriteOnce`,
   `SigningKey` and `Provisioning`.
