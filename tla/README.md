# Verification of aiopowerwall

aiopowerwall is an asyncio client for the local interface of a Tesla Powerwall
gateway. This directory models, in TLA+, the parts of it whose correctness
depends on the order of events: what several tasks sharing one client, a
gateway with a will of its own, and a network that loses and delays messages
can do to each other.

## The system

| Part | Where | State it keeps | Operations | Interacts with |
| --- | --- | --- | --- | --- |
| config.json store | `client.py` `write_config`, the `set_*` methods; `_read_filestore` | none: the file and its hash live on the gateway | read-modify-write of the whole file under an optimistic hash | session (DIN), gateway, the Tesla app writing the same file |
| session | `client.py` `connect`; `transport.py` `login`, `_ensure_token`, `_refresh_token`, `_authed_get` | `_din`, `_token`, `_connect_lock`, `_token_lock` | connect, authorised GET with one retry | every other part |
| curtailment | `client.py` `curtail`, `restore_from_curtailment` | `_saved_real_mode`, `_saved_reserve_percent`, `_curtailment_active` | save mode and reserve, write; write back | config.json store |
| TEG and authorization commands | `client.py` `schedule_max_backup`, `cancel_max_backup`, `dispatch_battery_power`, `resume_battery_operation`, `set_island_mode`, `trigger_islanding`, `remove_authorized_client`, OCPP, calibration | none: a backup event, a setpoint, the grid contactor and the paired keys live on the gateway | one or two signed requests | transport, gateway, the app and the cloud |
| v1r wire and signing | `transport.py` `_build_signed_request`, `_build_tlv`; `client.py` `_varint`... | none | encode, sign, decode | transport |
| reads | `client.py` `get_*`, `_query_graphql`, `queries.py` | none | read-only requests | transport |
| scaling | `client.py` `scaled_to_raw_reserve`... | none | pure conversions | setters, reads |
| component lookup and battery units | `components.py` `battery_units`... | none | pure matching of the rows of three payloads, read in three requests, with Powerwalls and expansions | reads |
| energy-site adapter | `energysite.py` | none | forwards to the client, shapes replies; a router fails over to the cloud on errors marked `failover_safe` (`exceptions.py`) | all of the above, the cloud |
| authorized-client parsing | `authorized_clients.py` | none | pure parsing | reads |

All tasks run in one asyncio event loop: between two awaits a task runs alone,
at an await any other may run, and there it may be cancelled, time out or get a
transport error. `v1r` requests are signed and carry an expiry, now + 12
seconds (`transport.py:365`); until then the gateway may accept one whose
caller has given up. Bearer tokens and `v1r` signatures are independent.

What is hard, per part, and what makes it correct:

* *config.json store*: the file is read in one request and written back whole
  in another, by several tasks and by the Tesla app. Correct means that a call
  is one atomic merge of its updates, that nobody's settings are lost, and that
  the caller is told the truth, or at least that it does not know.
* *session*: two locks, a cached token that the gateway may revoke, and one
  retry. Correct means no overlapping logins, no stale token in the cache, one
  retry enough for one revocation, nobody waiting for ever.
* *curtailment*: a snapshot and a flag in the client about settings on the
  gateway. Correct means that the flag agrees with the gateway, and that what
  is put back is what the owner had.
* *commands*: two requests that belong together, commands that take a failure
  for success, setpoints with a timer, requests that arrive late. Correct means
  that what a caller is told was done, or not done, is so; that no setpoint
  outlives its caller by more than a known time; that schedules which race each
  other leave an event, and what a resume has released stays released.
* *energy-site adapter*: the caller above decides by the class of an error
  whether to do the command a second time, through the cloud. Correct means
  that nothing that was answered is done twice, and that what was left in flight
  can cross a later command only for a known time.
* *battery units*: which row of one payload is which unit of another, by
  serial number where there is one and by position where there is none, while
  rows come and go between the requests. Correct means one unit per row, no row
  left out, no pack taken for a ghost, no pack under another's DIN.
* *scaling*: two roundings. Correct means that what is set is what is shown, and
  that level and reserve, rounded apart, still compare as what they stand for.

`PROJECT.json` lists each hazard at the line where it bites, with the
properties that would catch it.

## Modules

    SiteConfig ---- ConfigRegister (abstract)
        |                ^     ^
        |   implements   |     |  composed with
        +---- ConfigStore      +---- Curtailment ---- CurtailmentProofs
                 |                       |
         ConfigStoreProofs         MCCurtailment
         MCConfigStore

    Session ---- SessionProofs, MCSession

    Commands <---- EnergySite ---- MCCommands       Scaling    BatteryUnits
        |   implements |                               |  \       /  |
    CommandsProofs <-- EnergySiteProofs                |  SiteReads  |
                                                       |      |      |
                                            ScalingProofs     |   BatteryUnitsProofs
                                                         SiteReadsProofs
                                                         MCSiteReads

**SiteConfig** is the document: a function from the settings the client writes
to JSON values (tagged; numbers in hundredths, so that the raw reserve 9.75 is
`Num(975)`), with one more setting for all the others. `ApplyUpdates` is the
loop over `_apply_dotted_update`; `Stored` is what the gateway keeps (a false
flag is dropped, `client.py:545-549, 593-597`). Each `set_*` method is the set
of updates it can hand to `write_config` for arguments it does not refuse.

**ConfigRegister** is what `write_config` promises: each call is at most one
atomic merge into the configuration of that moment; a call that returned was
merged, a call that failed never will be, a call whose reply is missing may
still be.

**ConfigStore** is `write_config` itself. A call posts a read (`Begin`), on the
reply merges and posts the whole document under the hash that came with it
(`SendUpdate`), and returns or raises on the second reply (`Finish`). `GiveUp`
is a timeout, a transport error, an unusable reply or a cancellation, at either
await. Messages are records in the set `wire`: they are lost, reordered, and an
update outlives its caller. The gateway's hash is represented by the document
it is the hash of: the weakest check a content hash can make, so a hash that
also covers a version accepts fewer updates and has fewer behaviours. The
signature's expiry is one of the ways an update is lost (`Lose`).

**Session** is one client shared by tasks that call `connect()` alone or a
read. A lock is the task that owns it; tasks whose `pc` is a "...Wait" queue
for it (any may be next, asyncio's FIFO order is one of the choices). Every
login and GET is a request that the gateway answers, refuses in one of several
ways, or never answers. `LoginError`, `GetError` and `DinError` give the error
each refusal becomes. The connection's other v1r requests carry no token and
are in the other modules. A call ends with every local variable forgotten, so
one call per task is as good as several.

**Curtailment** composes `curtail` and `restore_from_curtailment` with the
atomic register. `curtail` reads the configuration (`ReadConfig`), saves mode
and whole percent of the reserve and begins its write (`Save`); `restore`
begins its own with the snapshot or the defaults. `Return` moves the flag. The
snapshot is never cleared. `Expire` ends the life of the request of a call that
raised. Every other writer, the owner, the app or another setter, is a `Foreign`
merge and may come at any time, also between the two requests of a call. Three
history variables say what a call can be asked to respect: `normal` is the two
settings as their owner left them; `later` those of them that were written after
a curtail read them, which its snapshot cannot have; `doubt` that a write raised
which may have been merged, until a restore returns. `CarefulNext` is one call
at a time, waiting for the signature's expiry after one that raised, and only
restores once a curtail may be in force; `RetryNext` tries a curtail that raised
again.

**Commands** is `_send_command_request` and every call that uses it to change
the gateway. `Requests` gives the requests of each operation (two for
`schedule_max_backup`, whose cancel comes first; one for the others; `otherMode`
is `set_island_mode` with a mode that is neither 6 nor 1), `todo` those still to
be answered, `DurationsOf` the durations that a call does not refuse. A call may
end in its `connect()` with any of `ConnectErrors`, an untranslated JSON error
among them. Each request is posted with its expiry (`Post`), carried
out (`Execute`), refused (`Refuse`), lost (`Lose`), or given up by the client
(`TimesOut`, `Cancel`), after which it may still be carried out. A reply names
one of the ways in which `post_v1r` and `_send_command_request` tell replies
apart: `Refusals` say that nothing was done, `Unusable` ones do not say.
`Tolerated` is, per request, what counts as an answer although it is not the
response asked for: `allow_missing_response` swallows every error,
`_check_set_island_mode_result` overlooks all but rejections, and
`trigger_islanding` overlooks these too. `Error` is what the others raise.
`Lag` is how far the gateway's clock is behind the client's: the signature's
life (`transport.py:365`) is set by one clock and checked by the other. `Tick`
is the clock of signatures and setpoints, `Outside` everybody else: the app,
the cloud, the grid. Operations fall into four `Families` that touch disjoint
parts of the gateway. The history variable `clean` holds schedules that have met
no writer of events but each other: when one begins, every event call that is
under way or can still arrive (`Rivals`) is one of them. They race as they like;
`clean` is emptied by another writer, and by a cancel of theirs that nobody waits
for any more and that removes their event.

**EnergySite** puts the adapter between these commands and a router that has the
cloud to fall back on. `Forward` is the adapter's method after a successful
`connect_if_needed`, for the commands it has (`Offered`); black start, OCPP and
calibration are asked of the client itself (`Direct`); `Unhealthy` and `NotImplementedLocally` hand the call to
the cloud at once; an error of `FailoverSafe` (`exceptions.py`) hands it over
after the client tried. `CloudActs` and `CloudAnswers` are two steps: the cloud
too may do what it does not report. The router and the cloud are not in the
repository; they are modelled from what `energysite.py:6-18` and
`exceptions.py:13-35` rely on, as external definitions. The history variable
`steady` holds, per family, a call that nothing has crossed: no other call of the
family was open when it began or has begun since, and neither somebody else nor
a request that an earlier call had given up has changed what it wrote. A step of the cloud is,
to the gateway, a step of somebody else, which is why `SiteSpec` implements
`Spec` of `Commands`.

**BatteryUnits** is `battery_units` with everything it calls, as operators on
sets of slots: `_ghost_filtered_bms_slots`, the Powerwalls of configuration and
status, the rows of the followers, of the configured expansions, and what is
left. A row has the serial numbers of its four parts, of which the first that is
not empty counts. **Scaling** is the four conversions and `battery_level` in ten-thousandths
of a percent; a tie may be rounded either way, so a conversion is a relation, or
the set of nearest numbers. **SiteReads**
composes both: three payloads are read one after the other (`Read`) while the
site changes (`Change`, to a neighbouring site: one row, the configuration, or
a restart of the gateway, which then has no rows). The state is the site; the
units, the reserve and the level shown are computed from what was read. The
energy in the battery is a share of its capacity, in `Parts`, as nothing but
the level reads it.

An action stands for the code between two awaits. What a module leaves out of
the data is said in its header.

## What the runs check

| Run | Instance | Shows |
| --- | --- | --- |
| `config_store` | 3 calls, symmetric; asks that write the same setting, two settings, and a flag the gateway drops; an app that rewrites the contested setting | `TypeOK`; `OutcomeIsTrue`: what the caller is told holds, also for what is still in flight; `OthersSettingsSurvive`: a merge changes only what its call named; `AtomicMerge`: `ConfigStore` implements `ConfigRegister` |
| `config_store_kind` | the same, nothing lost, nobody else writing | `LoserHasWinner`: a refusal means that another call was merged; `EveryCallEnds` |
| `session` | 3 tasks, 3 tokens, 2 revocations, timeouts, cancellations, one kind of refusal | `OneLoginInFlight`, `CachedTokenIsNewest`, `ConnectLoginsAreShared`, `OneRetryHealsARevocation`, `LocksAreServed`, `EveryCallEnds` |
| `session_refused` | 1 task, every refusal | violated: a second 401 is not an authentication error |
| `session_escape` | 1 task, every refusal | violated: a body that is not JSON escapes `PowerwallError` |
| `curtailment` | 5 calls, symmetric; a factory configuration with and without the settings, a whole, a fractional and an unreadable reserve; an owner who writes mode and reserve at any time, and another writer | `FlagTellsTheSettings`, `RestorePutsBack`, `SavesWhatItReplaces` under a careful caller |
| `curtailment_exact` | 2 calls, reserve 9.75 | violated: 9 is put back |
| `curtailment_retry` | 3 calls | violated: the snapshot is overwritten by a retry |
| `commands` | 2 calls of one family behind the router; three kinds of mishap; the app, the grid and the cloud; signature life 1, setpoint 1, a lag of 1, clock to 3 | `OutcomeIsTrue`, `StaleSetpointEnds`, `ResumeReleases`, `EventStands` of the commands; `TwiceOnlyUnanswered`, `DoneStands` of the adapter |
| `commands_remove` | 1 call, faults | violated, `FaultsStillRaise`: a removal answered with a fault goes on as if it were carried out |
| `energy_site_unreached` | 1 call, requests answered or lost | violated, `UnavailableFallsThrough`: a cancellation given up for want of a reply and then lost is reported as done, and the cloud is not asked |
| `site_reads` | 595 sites of up to 5 rows, one change between the requests | `NoRowTwice`, `EveryRowRead`, `DinOfTheRow`, `NoPackDropped`, `OwnBattery`, `ReserveReadsBack`, `LevelFitsTheReserve` |

*Bounds.* Three calls are what a race needs: one whose update goes astray and
two that race on. Token numbers are bounded by `MaxTokens`, revocations by
`MaxRevocations`, the clock by `MaxTime`; when a bound is reached the guarded
action stops and everything else goes on. In `session` the refusals are cut to
one kind, as all kinds end a call in the same way and differ only in the name
of the error; the single-task runs have them all. In `commands` the mishaps are
one of each kind that the code tells apart: an error response (which
`allow_missing_response` and `trigger_islanding` tolerate and the others raise),
a refusal that is failed over, and a reply that cannot be parsed (3.9 million
states; the other members of `Refusals` and `Unusable` differ from these in the
name of the error). The two calls
are of one family at a time (`Together`): the families share no state but the
clock, so a third and fourth call of another family would only interleave.
Every property there is about one call and its rival; a third contender, the
app or the cloud, is always present. A signature (life 1) can outlive its
caller by a tick, by two with the lag, and a setpoint (duration 1) can be set
after that, which is what the bound of `StaleSetpointEnds` measures; the clock
goes that far. Durations 0, 1 and 2 are asked for, where a dispatch may last 1
and a backup event must last 2, so each is refused too little or too much. In `site_reads`
the leader has up to two followers and two expansions in rows of any order,
rows without serial number, nearly empty ones, a ghost and an empty slot, and
the configuration may know fewer Powerwalls than the status.

*Deadlock* is checked in `config_store`, where the app never stops. The other
systems stop when all calls have been made; that no task is stuck in `Session`
is `EveryCallEnds`.

*Fairness.* `FairSpec` of `Session` asks that a task's next step is eventually
taken when it stays possible: asyncio runs every ready task, a lock that is
free is given to a waiter, and aiohttp's `ClientTimeout` ends a request that
gets no answer (`ConnectionFails` is part of `Step` for that reason). Nothing
is asked of the gateway or of cancellations. `KindSpec` of `ConfigStore` asks
that some enabled step is eventually taken, of client and gateway alike: it is
the environment in which nothing is lost.

*Mutants.* Operators introduced as "a mistake for the runs to find" are not
part of any specification. Each is a plausible bug that one property of one run
detects.

## What is proved

With TLAPS, for every number of calls, tasks, tokens and revocations, every set
of updates, every starting document, every signature life, lag and duration,
and every set of well-formed sites (of up to 100 rows):

* `ConfigStoreProofs`: from `AsksAssumption` (updates are well formed, which
  `SettersWellFormed` proves of every setter) and `FactoryAssumption` (the
  gateway starts with a document of its own kind), `StoreInvariant`. The
  invariant `StoreInv` adds to the types why outcomes are true: a call has at
  most one message in flight, of the kind its phase awaits; an update in flight
  is not yet applied and is the merge of what was asked into the document its
  hash stands for; a reply reports what happened. `OutcomeIsTrue` alone is not
  inductive: it says nothing of an update in flight whose caller still waits.
  From it follow `TypeCorrect`, `OutcomesAreTrue`, `NoLostSettings` (the hash
  check makes the merge that of the current document), `ImplementsRegister`
  (every step is a register step or a stutter: `GatewayAccept` is `Apply`) and
  `LosersHaveWinners` (with `StaleHasWinner`: what a call has read is out of
  date only if another was merged).
* `SessionProofs`: from `SessionAssumption`, that the types and these two hold:
  `LocksFit`, before the DIN is known every request is the connect lock's
  owner's, and after that nobody holds that lock and a login holds the token
  lock; `RepliesFit`, a login's reply on its way brings a token newer than all
  delivered. Therefore one login at a time (`LoginsAreExclusive`), so a reply
  never overtakes another and the cache is the newest (`TokenIsNewest`), and
  no login after the DIN is known (`ConnectIsShared`). `HealInv` adds why one
  retry is enough (`OneRetryHeals`): a refusal is met, and a refresh begun, only
  after a revocation, and all tokens are accepted until then; so if there was
  but one revocation, the token a refresh brings was issued after it and is
  never revoked.
  `OwnersInv` adds that the owner of a lock is inside the block that frees it,
  whence `NoLockIsLost`, what `EveryCallEnds` needs besides fairness: before the
  DIN is known a token owner is the connect lock's owner itself (`LocksFit`), so
  the nested locks never wait on each other.
* `CurtailmentProofs`: from `CurtailmentAssumption` (documents and other
  writers hold values an owner may choose), under `CarefulSpec`, `CarefulInv`.
  `RestorePutsBack` is about one step at the end of a history, so the invariant
  carries it, setting by setting for those that the owner has not written since
  a curtail read them: what a curtail has read would be saved as the owner's
  (`ReadsFit`); once its write may have been posted the snapshot is that, and so
  is what a restore asks for (`SnapshotFits`); what is in force is the owner's
  until the merge of the curtail and then its own or what a restore has put back
  (`InForce`); and no two calls have a request that can still arrive
  (`OneAtATime`). It needs that saving what was put back changes nothing
  (`SavedFacts`: truncation to a whole percent is idempotent). From it
  `TypeCorrect`, `FlagIsTrue`, `RestoresPutBack` and `SavesTheReplaced`.
  `UsesTheRegister` says that the two calls keep to `ConfigRegister`, which
  justifies composing them with it.
* `CommandsProofs`: from `CommandsAssumption`, `CommandsInv`. To the types it
  adds what a call has in hand (`CallsFit`), that a request is in flight at most
  once and never after it was carried out (`RequestsFit`), that a reply is about
  the request in hand (`AnswersFit`), how long a dispatch given up can still set
  something (`SetpointsFit`), and that clean schedules meet no rivals but each
  other, so that their event is there or one of them is still to make it
  (`EventsFit`): a schedule is carried out only where there is no event, and a
  cancel that is still awaited belongs to a call whose schedule is to come. From
  it `OutcomesAreTrue`,
  `StaleSetpointsEnd`, `ResumesRelease` and `EventsStand`.
* `EnergySiteProofs`: `SiteInv` adds who a call belongs to (`WantsFit`), and that
  no other call of a steady one's family is under way and what it has done is in
  force (`SteadyFit`). `RouterImplements` is the refinement `SiteSpec => Spec`;
  `CommandsKeepTheirPromises` carries the four invariants over to the
  specification that the run checks. `OnlyUnansweredTwice` and
  `WhatIsDoneStands` are the adapter's own.
* `BatteryUnitsProofs`: for any payloads that can be read, however they
  disagree, no row is given to two units (`RowsAreGivenOnce`) and every row that
  counts is given to one (`RowsAreAllRead`); a row that alone reports an
  expansion's serial number is that expansion's (`RowsHaveTheirDin`: such an
  expansion is matched before anything else is given away). The lemmas are about the position
  of a member in a finite set of slots: the k unmatched expansions take the
  first k unclaimed rows and leave exactly the others. `PacksAreKept` is about
  sums of capacities: rows are dropped as ghosts if the capacity of the others
  is within a tenth of the total, and a pack of a tenth or more leaves them too
  far from it. Its lemmas about sums (`TallyExists`, `CapacityEquation`,
  `CapacityWithout`, `CapacityGrows`) are proved without an induction theorem,
  each by a smallest set for which it would fail.
* `SiteReadsProofs` applies these to payloads of different moments
  (`NoRowIsReadTwice`, `NoRowIsLeftOut`, `DinsOfTheRows`) and of one (`PacksAreNotDropped`).
  `RowsAreTheirOwn` is about a site that the payloads describe completely
  (`Complete`). It goes part by part through the order in which `battery_units`
  gives rows away (`OwnRows`): the leader's row is 0; each expansion finds the
  one row of its serial number; what is left without serial number is the
  followers', and as their rows are in the order of the Powerwalls, the n-th
  such row is the n-th follower's (`FollowersOfComplete`, by `IncreasingRank`
  of `BatteryUnitsProofs`).
* `ScalingProofs`: rounding loses no whole percentage (`WholePercentsComeBack`),
  keeps order, stays in range, and a raw value that is shown and written back is
  the same again (`RawComesBack`). A level is known of any energy above zero
  (`LevelIsKnown`), in range between the buffer and the capacity
  (`LevelInRange`), and never on the wrong side of the reserve
  (`LevelFitsReserve`, of any energies, where the run has 40 `Parts`).
  `SiteReadsProofs` has `ReservesReadBack` and `LevelsFitTheReserve`.

Some properties say less than one might wish, because the code does.
`EventStands` lets a late cancel of a clean schedule remove the event, and
`DoneStands` a late request of an earlier call cross a later one: nothing in the
code prevents either. Both bound the time in which it can happen, the life of a
signature and the lag after the end of the call that gave it up. `DinOfTheRow`
allows a replaced pack to appear under the DIN of the old one. A pack
smaller than a tenth of the capacity is within the tolerance of the ghost
filter, so `NoPackDropped` is about the others; it also asks that rows of no
pack look like ghosts and that the status is of the same moment. `OwnBattery`
asks that an expansion has a serial number no Powerwall and no other expansion
has, and that every pack but the followers reports one.

Only model-checked: liveness (`EveryCallEnds` of `config_store_kind` and of
`session`), as TLAPS does not reason about fairness.

## Where code and documentation part

The violation runs show six disagreements, quoted in `PROJECT.json`:
a second refusal of a GET raises the wrong error (`transport.py:303`; line 317
is unreachable); a body that is not JSON escapes `PowerwallError`
(`transport.py:164, 308`); a fractional reserve is truncated on its way through
`curtail` (`client.py:1037`); a `curtail` retried after a lost reply overwrites
the snapshot, so that the restore leaves the gateway curtailed
(`client.py:1026`); `remove_authorized_client` takes a fault for an
answer (`client.py:1453`); a cancellation or removal that got no reply and was
lost is reported as done, so the router does not fall through to the cloud
(`energysite.py:8-11`, `client.py:1453`).

Other limits that the models made visible: `curtail` saves what it read in one
request and replaces what it finds in a later one, so a setting chosen between
the two is overwritten without being saved (`client.py:1025`), and that one only;
a setting chosen during a curtailment is overwritten by the restore; `curtail`
and `restore_from_curtailment` in two tasks leave the flag to the order of their
returns (`FlagTellsTheSettings` is about one call at a time); a `schedule_max_backup` whose own cancel timed out may be cancelled by it after it returned; with a
pure content hash, a curtail given up can be merged after the restore that
undid it, while its signature is valid; a dispatch or an island command that
was given up and done again by the cloud can arrive after a later call in the
other direction has succeeded; a configured expansion without a match takes an
unclaimed row that reports another serial number, so that a replaced pack
appears under the DIN of the old one; a nearly empty pack without serial number
can be taken for a ghost if it is smaller than a tenth of the capacity; a ghost
row and an offline follower make the ghost the follower's; an empty battery has
no level at all, as if its energy were unknown (`client.py:1630`); one below 5
percent is shown at a level below 0 (`client.py:1614`; the docstring of
`battery_level` says 0-100).

## Not modelled

* *v1r wire format, signing*: byte layouts, varints, RSA and protobuf are
  conversions; a message is what it asks for and until when its signature is
  valid.
* *Authorized-client parsing*: a pure function of a payload into enumerations
  that lets unknown values through; nothing depends on the order of events.
* *Read-only commands, GraphQL and REST texts, models*: they change nothing and
  keep nothing. `live_status` combines three of these reads and promises no
  relation between them. `component`, `component_float` and the like look up one
  value and are the fields of a row in `BatteryUnits`.
* *The energy-site setters* (`operation`, `backup`, `grid_import_export`)
  forward to calls that `ConfigStore` models and return the envelope.
* Key files, logging, and `close()`, which frees an HTTP session.
* The router, the cloud and the gateway are not in the repository. They are
  external definitions, as permissive as the code in `src/` has to expect.

## Plan

Done, in this order: the store and its register, the session, curtailment,
commands, the adapter behind its router, the battery units and the scaling, and
the proofs about each of them; every safety property that a run checks is a
theorem. Left:

* An abstract specification of the session, what a caller of the transport may
  rely on without knowing of its locks, and `Session` shown to implement it.
