# Verification of the declarative SDK for Keeper

This directory specifies the parts of the repository that change shared state,
in TLA+. The modules are checked by TLC on small instances, and the central
theorems are proved by TLAPS for every instance.

The SDK reads a manifest, discovers the records of a Keeper tenant, computes a
plan, and executes it through Keeper Commander. Ownership of a record is a JSON
marker in one of its custom fields. There is no state file, no lock and no
transaction: all coordination is in the tenant's records. Next to that, the
`secrets` package offers agents a message bus and a lock in the custom fields
of a Keeper Secrets Manager (KSM) record.

## Inventory

| Component | State it keeps | Operations | What makes it correct |
|---|---|---|---|
| Classification: `core/diff.py`, `core/vault_diff.py`, `core/metadata.py`, `core/planner.py` | none, a function of the discovered records | `compute_diff`, `compute_vault_diff`, `build_plan`, `Plan.ordered` | refuses what it does not own; never orphans what it wants; a plan's result has an empty plan |
| Vault apply: `providers/commander_cli.py` `discover`, `_apply_vault_plan`, `_write_marker` | the records of a shared folder | ls, get, record add, update, marker, rm | no step of one process touches what another party holds; a rerun converges |
| CLI: `cli/main.py` | none | `plan`, `apply`, `diff`, `import`, exit codes | conflicts stop an apply; the plan shown is the plan run |
| KSM bus: `KsmBus`, `BusClient` in `secrets/bus.py` | versioned fields of one record, channels of messages, cursors | publish, put, get, delete, subscribe, send, receive, ack, gc | no message lost or skipped; a stale writer overwrites nothing |
| KSM slots: `KsmAgentBus` in `secrets/bus.py` | holder, expiry and payload of a record; `_leases` of each agent | acquire, release, publish, consume, ping | one holder at a time; a payload consumed once |
| PAM apply: `commander_cli.py` `apply_plan` | gateways, PAM records, rotation settings | import or extend, second discover, markers, tuning, deletes | marks only what it imported; partial failure is reported |
| Reference gateways: `commander_cli.py` `_ensure_reference_project_scaffold` | project folders, their shares with the gateway's application | look up folders, make and share them, extend a configuration | what is marked can be read by the gateway; a half-made scaffold is completed |
| Import and adoption: `cli/main.py` `import_` | none of its own | claims unmanaged records by title | adopts nothing that is claimed |
| Sharing: `core/sharing_diff.py`, `_apply_sharing_plan` | shares, and sidecar records that carry their markers | grant, revoke, upsert and delete sidecars | a share in force has a sidecar |
| KSM applications, MSP companies | remote applications, companies, tokens | create, update, share, remove | a rerun repeats no creation |
| Session layer: `_with_keeper_session_refresh`, `_run_cmd`, `auth/` | a cached login | run a call, log in again once | a repeated call does no harm |
| Service provider: `commander_service.py`, `service_client.py` | remote asynchronous requests | post, poll to a deadline, retry on 429 | a timeout is not a failure |
| Mock provider: `providers/mock.py` | a dictionary | discover, apply | same plans as the real one |
| Graphs: `core/*graph.py` | none | topological order | dependencies first |
| Loading, schemas, models, other families' diffs, redaction, reports, renderers | none | parse, validate, print | |
| Bootstrap: `secrets/bootstrap.py` | a KSM application, a token, a bus record | create in sequence | a rerun after a failure |
| Smoke runs: `scripts/smoke/` | lock files; the test user's second factor and the record of its secret; the sandbox | preflight, acquire, release; enrol, verify, provision | no two runs share resources; a run recovers from what an earlier one left |
| MCP server, k8s, Crossplane, Backstage plugins, actions, sync scripts | none | front ends and generators | |

The interesting behaviour is where several processes meet in the tenant: between
a discover and the calls made from it, between a record's creation and its
marker, between a read of a KSM record and the save of it. `PROJECT.json` lists
these hazards at their lines, each with the properties that guard it or with the
reason why none does yet.

## Plan

1. *Done.* `LifecycleDiff` and `VaultApply`: ownership, the core of the system,
   with the abstract specification `Custody` and its proof.
2. *Done.* `Bus` and `Slot`, with proofs for both.
3. *Done.* `PamDiff` and `PamApply`: apply, import and adoption of PAM records,
   with the graph of a manifest and the order of its execution.
4. *Done.* `SharingDiff` and `SharingApply`: shares and their sidecars.
5. *Done.* `Tenant`: companies, applications, the bootstrap, service mode and the
   enrolment of smoke test users.
6. *Done.* `LockFiles` and `Smoke`: the live smoke test and its guard.
7. *Done.* Proofs for `Bus`, `SharingApply`, `PamApply`, `Tenant`, `Enrolment` and
   `Smoke`.
8. *Done.* `Scaffold`: manifests whose gateways exist already, and its proofs.
9. *Done.* `Tenant` compared with the mock.
10. *Done.* `AtomicBus` and `AtomicSlot`, which `Bus` and `Slot` implement; `Lab`, in
   which the theorems of `Smoke` and `Scaffold` hold side by side.
11. Left: the scenarios and the offline run of the smoke test; tokens and configuration
   outputs of applications; resources of PAM manifests nested deeper than users.

## Modules

| Module | Models | Extends or instantiates |
|---|---|---|
| `LifecycleDiff` | the classification of manifest rows against records | |
| `VaultApply` | processes that apply vault manifests to one folder | `LifecycleDiff`, `Custody` (refinement) |
| `Custody` | what the SDK promises about ownership | |
| `VaultApplyProofs` | theorems about `VaultApply` | `VaultApply` |
| `PamDiff` | graph, comparison and plan of PAM manifests | `LifecycleDiff` |
| `PamApply` | apply and import of PAM manifests | `PamDiff` |
| `PamProofs` | theorems about it | `PamApply` |
| `Scaffold` | PAM manifests on gateways that exist already | `LifecycleDiff` |
| `ScaffoldProofs` | theorems about it | `Scaffold` |
| `SharingDiff` | what the sharing diff makes of rows and sidecars | |
| `SharingApply` | apply of sharing manifests | `SharingDiff` |
| `SharingProofs` | theorems about it | `SharingApply` |
| `Session` | what every command has: a step, repeated calls, mishaps | |
| `MspDiff`, `MspApply` | managed companies: diff, mock, apply | `Session` |
| `KsmDiff`, `KsmApply` | applications: diff, mock, apply | `Session` |
| `Bootstrap` | `dsk bootstrap-ksm` | `KsmApply` |
| `ServiceApply` | apply through Commander's service mode | `LifecycleDiff`, `Session` |
| `Enrolment` | the test user and the sandbox of a smoke run | `Session` |
| `Tenant` | these five on one tenant | `MspApply`, `Bootstrap`, `ServiceApply`, `Enrolment` |
| `TenantProofs` | theorems about it, the enrolment included | `Tenant` |
| `LockFiles` | the lock files of smoke runs | |
| `Smoke` | the cycle of smoke runs | `LockFiles` |
| `Lab` | the smoke test beside the applies of its manifests | `Smoke`, `ScaffoldProofs` (instance) |
| `SmokeProofs` | theorems about both | `Lab` |
| `Bus`, `Slot` | `KsmBus` and `BusClient`; `KsmAgentBus` | `AtomicBus`, `AtomicSlot` (refinement) |
| `AtomicBus`, `AtomicSlot` | what their users may take them for | |
| `BusProofs`, `SlotProofs` | theorems about them | `Bus`, `Slot` |
| `MC...` | instances for TLC | |

### LifecycleDiff

A snapshot is a function from record uids to records (title, body, marker). A
title stands for the pair of resource type and title, a body for all the other
fields; the comparison of fields, one long comparator per type in the code, is
inequality of bodies. `Match` is the lookup by `uid_ref` and then by title,
`Collision` the check before it, `ToCreate`, `ToUpdate`, `InSync`, `Refused` and
`ToAdopt` the branches of `_classify_desired`, and `Orphans` that of
`_classify_orphans`. Where records share a title the code's index keeps the last
one listed; the listing's order is the server's, so a plan is made for *some*
`TitleIndexes`. A marker without a manager, which `decode_marker` lets through,
counts as ours when it matches and as nobody's when it does not, as in the code.

### VaultApply

One process is one `dsk apply`. Its variables are what the code holds in local
variables: `ahead` and `snap` (the loop of `discover`), `todo` and `doomed` (the
plan), `cur` (the record between its write and its marker), `want` (the rows).
`rec` is the folder on the server and `used` the uids it has given out.

| Action | Code |
|---|---|
| `List`, `Read` | `discover`: one `ls`, then one `get` per record |
| `Plan` | `compute_vault_diff`, `build_plan` and the gates of `apply` |
| `Create`, `CreateLost` | `_vault_add_login_record`; the latter when the session expires after the server added the record and the call runs again |
| `UpdateBody` | `_vault_apply_login_body_update` |
| `Mark` | `_write_marker` |
| `Delete` | `rm --force`, after all writes |
| `Finish`, `Fail` | the end of the process; `Fail` is every exception, early exit and kill |
| `Outside...` | people and other tools |

The body of a login is its `content` (fields and notes) and its `custom` fields, a map
from labels to settings. A plan names the drifted parts of it (`DriftOf`), as `after`
does. `PatchBody` replaces the content and lays the custom fields of the patch over the
record's (`MergeCustom`): an entry with a known label is replaced, one with a new label
appended, every other one stays, and entries of the patch without a label (`Keyed`, the
`key` rows of `VaultCustomKeyValue`) are dropped, while a create writes them. Labels
stand for what they are folded to; the order of custom fields, which the merge keeps
and the comparison looks at only among equal labels, and doubles of a label are left out.

`Versions` gives the contents a manifest's file has over time. The name of a
vault manifest is the stem of its path (`cli/main.py`, `_load_plan_context`): two
files of one stem are, to the code and to the model, versions of one manifest.
Ghost variables: `calm` (who has had the folder to itself since its listing) and
`outside` (the bound on the steps of people).

Assumed of the server: it never reuses a uid, and it refuses an update made from
a stale revision, so the read and the write within one `_write_marker` or one
body update are one step. Vault slice-1 login rows are modelled; shared folders,
record types, attachments and keeper_fill rows are not, nor is `--dry-run`, which
ends before the first call.

### Bus

One KSM record: a message channel and other keys, each a value with a version.
An agent's operation takes up to three steps: `Load` (what `BusClient` reads to
learn the version), `Fetch` (what `KsmBus` reads and compares), `Save` (the whole
record, with one field changed). `Retry` and `GiveUp` are the two ways out of a
`VersionConflict`, `Abort` is an exception or a death anywhere. `CasKeys` are
written as `ack` writes a cursor, `LooseKeys` by `put`, `delete` and by `publish`
without an expected version. `Poll` is `subscribe(since_id)` by a reader that
keeps the last id it received.

`Fenced` says whether the server refuses the save of a record that has changed
since it was read. The code cannot enforce that and the documentation leaves it
open (docs/KSM_INTEGRATION.md: "preview-gated until a sanctioned live proof").
All results below are for `Fenced = TRUE`. With `FALSE`, every save may undo
another one, and TLC refutes each property of `Bus` and `Slot` except the types.

### Slot

One record used as a lock with an expiry and a payload. Each of the five
operations of `KsmAgentBus` reads the record and the clock, decides and builds
the record to save (`Begin`); `Save` writes it and returns. `Refuse` is the case
in which `publish` or `ping` finds the lease gone and forgets it. `until` is a
ghost: the end of the lease as `acquire` or `ping` returned it. A `consume`
removes the lock of whoever holds it, as the tests of the code expect, and so
ends all leases.

### PamDiff and PamApply

PAM records are not written one by one. One `pam project import`, or `extend` when
the plan has an update, is given the whole manifest; then the records are
discovered again, found by their titles, tuned, marked, given their rotation, and
the orphans are removed. `Bulk`, `Look`, `Tune`, `Mark`, `Rotate`, `Attach` and
`Delete` are these steps, `Gateways` comes before them, and `Skip` passes over a
row that the second discover did not find. `PlanImport` is `dsk import`, which
claims unmanaged records by title. `PamDiff` has the graph of a manifest
(`Graphs` of the community modules), and the comparison of `pam_settings`, in
which options that Commander sets by itself do not count.

Ghosts: `calm` as before, `cut` (records marked by a process that had no rotation
for them or did not get to it), `twice` (an import the server carried out twice
because the session expired in it), `lapses` (rows that do not appear).

### Scaffold

Where gateways have `mode: reference_existing`, the tenant's gateway and PAM
configuration are found by name (`Refer`), and the SDK makes what the import makes
otherwise: folders `PAM Environments/<name>` with Resources and Users (`Probe`, `Make`),
shared with the gateway's KSM application (`Share`), before it extends the configuration
(`Extend`), looks again and marks by title (`Look`, `Mark`). Each discover looks for the
folders first (`Find`, `Located`); a lookup that fails is passed over, which leaves the
run with --folder-uid. `dirs` are the folders with the applications they are shared with,
`wiring` the application of each gateway and the gateway of each configuration.
Fields, tuning, rotation and deletes are in `PamApply`. Ghosts: `undone` (a share,
gateway, configuration or folder changed by somebody else in a way the SDK cannot
notice), and per run `alone` (since its start no other run has acted, nobody else has,
and no call of its own has been passed over).

The manifests of the smoke test's PAM scenarios are of this kind, and their apply is a
single step in `Smoke`. `Lab` has both, side by side: a behaviour is one of the smoke
test or one of such applies. `Scaffold`'s `Uid`, `Ref`, `Title` and `Body` are called
`Handle`, `RowRef`, `RowTitle` and `RowBody` there.

### SharingDiff and SharingApply

What is in force on the server cannot be listed, so the code keeps a sidecar
record for every row and reads only those. A row's grant and its sidecar are
written by four calls: `Enforce`, `DropSidecar`, `AddSidecar`, `MarkSidecar`; a
removal by two: `Revoke`, `Forget`. `side` are the sidecars, `force` what the
server enforces. Ghosts: `lost` (objects of rows at which a process was
interrupted) and `held` (rows that a plan passes over).

### Tenant

A shell works for one of four families of commands on one tenant. `calm` is true
while nothing has failed and nobody else has interfered since the plan, `quiet`
while nobody has since the last listing.

* Companies: `MspLook` lists them before each change, `MspAdd`, `MspEdit` and
  `MspRemove` are the commands. `Folded` is `casefold` of a name. A number of seats
  has four forms, in the manifest, the command, the server and the listing.
* Applications: the listing is kept from the plan on (`listed`) until a change of
  the process's own. `KsmCreate` and `KsmMark` are two calls. `KsmRefuse` collects
  what Commander cannot do, which the code finds out in the middle of a plan.
* `Bootstrap`: one action per call. `Propagate` is the server making the new share
  known to the client, some time later.
* `ServiceApply`: the client posts, polls and fetches; `Serve` is the service, which
  works on its queue in order and goes on with what no client waits for any more. A
  create posts the whole manifest. The plan is that of `LifecycleDiff`.
* `Enrolment`: one action per call of `ensure_sdktest_identity` and `ensure_sandbox`.
  `channels` are those of the test user's second factor, ordered by `place`, since
  AutoUI answers from the first; an added one counts from its validation on
  (`active`). `Results` are the outcomes of a login: a device that Keeper does not
  know and a factor each take a code, and a code is good for one of them in its window
  of 30 seconds (`used`). The code asks for Forever, so a device that was let in is
  `remembered` until the factor is disabled. What the code lets pass with a warning
  (a failed `2fa_delete` or `rm`) is a mishap.

### LockFiles and Smoke

A smoke run started with `--parallel-profile` reads every lock file (`Glob`,
`ReadLock`, `Weigh`) twice, for the check and for the acquisition, then creates its
own exclusively (`Acquire`) and writes it (`WriteLock`). A lock of a process that
is gone is removed by whoever meets it, by path, after it was read. Process ids
are given out again. In `Smoke`, what `dsk` does is abstracted to the exit codes
that the runner expects: 2 for a plan with changes, 0 for one without. `maker` of
a record is a ghost: the process that made it, while it lives.

## Runs

| Run | Question | Bounds |
|---|---|---|
| `vault_disjoint` | Do two manifests with disjoint scopes stay out of each other's records? | 2 processes, 3 records, one row per manifest that may vanish from the file, 2 steps of people |
| `vault_serial` | Does one manifest converge, with one owner per `uid_ref`, and are deletes right? | 1 process at a time, 4 records, 3 file versions (edit, retitle, remove; a custom field that comes, changes and goes, and one without a label), 2 steps of people, who add and change a custom field |
| `vault_rerun` | Does a rerun resume after a failure? **No** | as `vault_serial`, without people |
| `vault_retitle` | Has a second apply nothing to change when a title moves between rows? **No** | 2 file versions |
| `vault_shared_titles` | Are disjoint `uid_ref`s enough for isolation? **No** | 2 manifests with a common title |
| `pam` | Are rows marked, tuned and rotated as planned, and can an interrupted apply be taken up? | 5 uids, 4 file versions (rotation, edit with scripts, removal and retitle, no rotation), 2 troubles |
| `sharing` | Do sidecars and grants agree, and is nothing wanted revoked? | 4 file versions (permissions, a grant that moves, a folder that goes, an unknown record), 1 failure, 1 foreign sidecar |
| `tenant` | Does a real apply do what the mock does, without twins, does an interrupted enrolment recover, and does every command end? | 2 portfolios, 4 rollouts, 3 service manifests, 4 benches, 2 mishaps, 2 polls at most |
| `smoke` | Do smoke runs keep to their own sandbox, and fail only for causes of their own? | 2 profiles that share a configuration, 3 runs, 3 process ids, 2 mishaps |
| `smoke`, applies | Is what they mark within the gateway's reach, and are half-made scaffolds completed? | 2 projects on one gateway, 2 runs, 1 mishap, 3 wirings |
| `bus` | Are messages lost, skipped or overwritten, and is every operation atomic? | 2 agents, 4 operations, 2 tries |
| `bus_aba` | Does an old version never match again? **No** | one key written by all kinds of calls |
| `slot` | Is the lock exclusive, each payload consumed once, and every operation atomic? | 3 agents, 6 operations, ttl 2, clock to 4 |

Three records are enough for `vault_disjoint`: one of each manifest and one of a
person, or a duplicate from `CreateLost`, are in the folder together while both
processes run from stale plans. In `vault_serial` four records allow for both
rows, a duplicate and a person's record. Four bus operations are two writers in
conflict, a retry of the loser and a third writer or a collection of expired
messages. Six slot operations are two full hand-overs, and the clock outlasts two
leases. The files of `pam`, `sharing` and `tenant` are chosen so that each kind of
row is created, changed, left alone and removed, in both directions between the
versions; a second trouble hits the process that takes up what the first one left.
Of two applies the second one meets what the first one left, wherever it stopped, or runs
beside it; the wirings are the declared one (the second project's configuration is found
through its gateway), one with another application, and one without the gateway.
Three smoke runs are two that meet at the lock of a third, dead one. Six uids are enough
that a run always gets the one it needs (`Add` and `Import` ask for that). A company's id
may run up to 7 and an application's to 6: a repeated create takes two of them.
The benches have four of the ten tokens at most; the others are two enrolments, the
second one after an interrupted one.
Uids, agents and process ids are symmetric where they are not numbers.

`CHECK_DEADLOCK FALSE` is set where processes may stop because the bounds are
reached or nothing is left to do, and in `pam` also because the planner stops for
good on two records that claim one row.

### Properties

* `StaleButOwn`: whatever a process has read or planned concerns records that
  are gone, or still its manifest's own. `OwnScopeOnly`: every call it makes
  adds a record, or changes one its manifest created or holds. `CustodyRefined`:
  custody changes only along the edges of `Custody`. All three are under
  `DisjointScopes`: `uid_ref`s *and titles* are namespaced per manifest, nobody
  renames records to a manifest's titles, foreign records bear no marker of ours.
* `OneOwnerPerRef`: no two records marked for one `uid_ref`, the state from which
  the planner never recovers. `IdempotentRerun`: after an apply that nobody
  disturbed there is nothing to create or delete and no collision, and every record in
  place `Carries` its row: same title and content, and each labelled custom field of the
  row. A second plan may still have updates, but they change nothing
  (`SecondUpdateIsVoid`); it need not be clean, see below. `DeletesOnlyUnwanted`: `--allow-delete` never
  removes a record whose row is in the file.
* `NoMessageLost`, `NoMessageMissed`, `NoSilentOverwrite` of `Bus`;
  `MutualExclusion`, `ConsumedOnce` of `Slot`.
* `BusIsAtomic`, `SlotIsAtomic`: each implements a specification without reads, saves,
  revisions or operations under way, in which every operation happens at once.
  `AtomicBus` is a log and some registers, where the real bus saves the whole record to
  change one key. `AtomicSlot` is a lock with a term and a payload. An operation takes
  effect with its save, so it is linearizable; one that is refused, given up or dies
  before it has no effect.
* PAM: `OneOwnerPerRef` although records are marked by title; `MarksOnlyItsOwn`:
  marking never replaces a foreign marker while nobody else interferes;
  `NeverStuck`: what an interrupted apply leaves, `dsk import` and another apply
  can take up; `DeletesOnlyUnwanted`; `AppliedIsDone`: an undisturbed apply that
  ends with 0 has put every row in place; `CleanMeansDone`: a clean plan means
  that nothing is left to do.
* Scaffold: `MarkedIsReachable`: what is marked in a project's folders can be read by its
  gateway, whatever was interrupted before, so a clean plan leaves nothing to share;
  `RerunsGetThrough`: an apply that nobody disturbs is stopped only by a missing gateway
  or configuration.
* Sharing: `OneSidecarPerRow`; `NothingForgotten`: a grant in force has a sidecar
  by which it can be revoked; `SidecarsTellTheTruth`: what a sidecar says is in
  force; `AppliedIsInForce`; `RevokesOnlyUnwanted`. Rows at which a process was interrupted are
  excepted, except from `OneSidecarPerRow`, and from most also rows that move to another
  place or grantee, as the comment at each property says.
* Tenant: `AgreesWithMock`: the real apply leaves what the mock provider, which the
  tests use, leaves of the same plan (in service mode: what the plan asked for);
  `MakesNoTwin`, `MarksOnlyNewApps`, `BootstrapWorks`; `BenchWorks`: a smoke run let in
  to its tests can log in again with the secret in its record; `EnrolmentRecovers`: no
  interrupted enrolment locks the next one out; `Advances`: each step of a command
  leaves less to do (`Left`, a natural number), and nobody else adds to it; `Ends`, a
  liveness property.
* Smoke: `KeepsToItsOwn`: no run removes what a living run has made; `NoFalseAlarm`:
  a run whose calls succeed passes, whatever earlier ones left behind.

Each has a mutant in `PROJECT.json`, a plausible slip in the code that breaks it.

### Where the code and its documents differ

* `vault_rerun`: an apply that dies between a record's creation and its marker
  leaves an unmarked record, which the next plan refuses as a conflict.
  docs/ARCHITECTURE_GAPS.md:70 expects a CREATE or UPDATE.
* `vault_retitle`: in a file where one row takes over the old title of another,
  both match one record through the title, and the second apply is not clean.
  docs/VAULT_L1_DESIGN.md:129 promises that it is.
* `vault_shared_titles`: the title fallback ignores which manifest and which
  `uid_ref` a marker names. docs/VAULT_L1_DESIGN.md:117 requires both to match,
  and docs/ARCHITECTURE_GAPS.md:27 advises to namespace `uid_ref`s only.
* `bus_aba`: `put` and `delete` restart a key's version, so a stale
  `expected_version` matches again. docs/KSM_INTEGRATION.md:159 says that it
  prevents stale writers from overwriting a newer value.

The following were met while modelling. The properties except them, each where its
comment says so, because the code, not a document, is the reference.

Vault apply:

* Custom fields: an update overlays them by label and never takes one away
  (`_vault_merge_custom_for_update`, commander_cli.py:3564-3606), while
  `_field_diff_vault_login` (core/diff.py:652-670) wants the file's and no others. A
  custom field that was dropped from the file, or that a person has added, makes every
  later plan an UPDATE, and the applies, each of which ends with 0, change nothing. So
  does a row with a `key` instead of a label that was added or changed after the create,
  because the merge drops it. docs/VAULT_L1_DESIGN.md:129 promises a clean second plan.
  `vault_serial` reaches these states, and `IdempotentRerun` says what holds there
  instead: TLC refutes the stronger form in which the second plan has no update.

PAM apply:

* A row that changes its title: the import creates a new record and marks it, the
  old one keeps its marker, and the planner then raises on two claimants for good.
* An interrupted apply leaves unmarked records, conflicts for the next plan until
  `dsk import` adopts them. `dsk import` sends the whole manifest, so it also creates
  missing rows, unmarked. docs/ARCHITECTURE_GAPS.md:62-70 treats a rerun as safe.
* Rotation: a plan whose user has scripts raises on the first apply (the listing it
  looks in is older than the user); later plans are clean and never attach them.
  `rotation_settings` added to a managed user, or lost between marker and rotation,
  are trusted to the marker and never applied.
* Gateways with `mode: create` are planned as CREATE on every run.
* A collision in the middle of the batch is not reported as a partial outcome.
* Tuning goes to the record found by its marker, the marker to the one found by title.

Gateways that exist already:

* When the project's Resources folder cannot be found, because it is gone or an `ls`
  fails, the plan looks at --folder-uid, and the apply marks what has the rows' titles
  in the folders it then finds or makes, marker or not. keeper_sdk/SCAFFOLD.md:31: "SDK
  never touches records without its marker."
* A configuration without a gateway passes `check_tenant_bindings`, whose docstring
  (keeper_sdk/providers/commander_cli.py:1264) promises a valid pairing; apply looks at
  the pairing only to find a configuration whose title is not there.
* `validate --online` looks for existing gateways among the discovered records, where
  Commander lists none; the tests' provider does. docs/VALIDATION_STAGES.md:42.
* On a tenant without PAM Environments, two first runs collide in mkdir and one stops
  half way; the next run goes on.
* A share withdrawn later is in no plan: it is clean although the gateway cannot read.

Sharing:

* A row that moves to another grantee or path writes its new grant and sidecar, and
  the delete of the old one then finds the new sidecar by its `uid_ref` and revokes
  the new grant; the old one stays in force, unknown.
* The deletion of a default row for records revokes the default grantee of the folder.
* A foreign sidecar of the same grant, listed first, hides ours, which then counts as
  an orphan.

Companies and applications:

* An update never removes a company's file plan; a company's `node` is dropped when
  the manifest is normalised. `--allow-delete` removes unlisted companies whoever
  manages them. `ConflictError` is not caught by `dsk apply`.
* Scopes of an application are always reported empty, hence a plan to set them never
  becomes clean and its apply always ends with a `CapabilityError`. So do new shares,
  tokens and outputs, after the applications before them were created. Names that two
  applications exchange never converge. Whether an application with shares is removed
  before the failure depends on its name sorting before `keeper-ksm:apps:`.
* The application of a bootstrap has no marker, so a manifest with its name is in
  conflict with it. `--overwrite` removes a working configuration before the new one
  is redeemed; a rerun that creates the admin record makes another.

Service mode: every create posts the whole manifest, so n creates are n imports; no
markers are written, so what was created is a conflict afterwards; an edit never
sends the title; a third 429 or the deadline reports a failure although the command
may be carried out later; an empty status counts as success.

Smoke runs:

* A stale lock is unlinked by path after it was read. If another run has replaced it
  in between, that run's lock is removed and two runs share a sandbox (`robbed`).
* A lock file whose writer died between creating and writing it counts as corrupt and
  stops all profiles until a person removes it. A file that goes away while they are
  listed raises. A process of another user counts as dead, a reused id as alive.
* A record that lost its marker in a failed vault run is never swept, and makes every
  later vault run of the profile fail. A failure to remove the project tree is only
  a warning, and fails the next run.
* A run that dies between disabling the old factor and adding the new one leaves an
  account without any. The next run's stored login is not asked for a code, succeeds,
  and its caller gets a secret that the account does not know; the docstring at
  scripts/smoke/identity.py:665 speaks of a known one. Hence `LogsIn`, not a match of
  secrets, in `BenchWorks`. A new device's code uses up the window, so the right secret
  may be refused, and that leads to a new enrolment, which needs the password.
* A record whose removal failed stays beside the new one, and the next run takes the
  first it finds, then as later, so the twins are never cleaned up.

## Fairness

`Tenant` states `WF_vars(Work)`: a command that has been started and can take its
next step takes one, until it ends. That is what a process does that is neither
killed nor stopped, every call of it returns or raises (a kill is `Stop`, which ends
the command). No fairness is assumed of the service, of its queue, of the propagation
of a share or of people: `Ends` holds because polls have a deadline. Its safety half
is `Advances`, which says this without fairness: whoever takes how many steps, those of
a command are bounded by what it has to do. For `Ends` it remains that a command which
has not ended can take a step, which is up to TLC, and that it takes one. The other
specifications state none: a command is started and may be killed at any time, the
retries of `BusClient` are bounded, and nothing in the code makes an operation
eventually succeed.

## Proofs

`VaultApplyProofs`, from `VaultAssumption`, `BodyAssumption` and `NullsAreNew`, and the hypotheses named here,
which `MCVaultDiscipline` has TLC evaluate for the runs `vault_disjoint` and `vault_serial`:

* `TypeCorrect`: `Spec => []TypeOK`.
* `PlansStayOwn`, `ScopesAreIsolated`, `CustodyImplemented`: under
  `DisjointScopes`, `StaleButOwn`, `OwnScopeOnly` and the refinement of
  `Custody`, for any number of processes, manifests and records.
* `OneOwner` (`OneOwnerPerRef`) and `DeletesAreUnwanted` (`DeletesOnlyUnwanted`): also under
  `OneRunPerManifest`, one process at a time on a manifest, which nothing enforces (two would
  both create the same row), and `RefsAreKeys`, a file has a `uid_ref` once, which
  `build_vault_graph` checks. Processes on other manifests, people and crashes stay.
* `RerunIsIdle` (`IdempotentRerun`): also under `TitlesKeepTheirRefs`, a title is of one
  `uid_ref` over time, which nothing checks; `vault_retitle` shows what happens otherwise.
* `SecondUpdateIsVoid`: an update planned for a record that carries its row leaves it as it
  is, so after `RerunIsIdle` a second apply changes nothing but the time in markers. `CleanWithoutCustomFields`:
  where there are no custom fields such a record does not differ from its row, so that the
  second plan has no update at all.

For the first four theorems the inductive invariant is `TypeOK /\ StaleButOwn`. `OwnScopeOnly` alone is not
inductive: that a call is harmless depends on the plan it comes from, the plan on
the snapshot, the snapshot on markers that others may have changed since. Its
parts say of each of these what stays true without a lock: a record under an SDK
marker lies in the scope of the manifest it names (`Scoped`), a record read under
such a marker is gone or still that manifest's (`SnapIsOwn`), so is a record in a
plan (`PlanIsOwn`), and the record about to be marked is its manifest's or fresh
(`MarkIsOwn`). One lemma per action shows that it keeps the invariant.

For one owner per `uid_ref`, `Claims` is added. The planner refuses two records of one
`uid_ref`, but marks later, from a snapshot: what has the marker of a row still to be
written is the record that row is to update, and nothing for a row to be created
(`TodoClaims`), likewise for the record about to be marked (`CurClaims`); what is doomed is
wanted by no row (`DoomedClaims`). It holds because a manifest comes to hold a record only
by its own process's marking it (`OnlyMarkGains`). For convergence, `TitlesFit` ties
the title of a record to its `uid_ref`, so that matching by title and by marker agree, and
`Undisturbed` follows a process from its listing: what it read is what there is (`ReadAll`),
every row is in place, pending, written and not yet marked, or somebody else's
(`Accounted`; an update still to be run gives its record what the row says, `HoldsAfter`, and
one that runs on a record in place takes nothing away, `HoldsStill`), every other record of ours is doomed (`OrphansDoomed`), and no step makes
a rival or a namesake (`NoRivals`, `Namesakes`, `Sole`). At the end nothing is pending or
doomed, so a plan made then has nothing to create or delete, whichever order the listing
has, and its updates concern custom fields that no update can change.

`SlotProofs`, from `SlotAssumption`: `TypeCorrect`, and with `Fenced` the theorems
`LockIsExclusive` (`MutualExclusion`), `NoPayloadTwice` (`ConsumedOnce`) and
`PayloadsAreHeld` (`PayloadsGoByHolder`). The argument: an operation whose save
the server would accept decided on the slot as it is now (`Pending`); hence a
lease that has not run out is the one in the record (`LeaseInRecord`), and a
payload about to be published is new while one that was consumed is gone
(`PayloadsNew`). `PayloadsGoByHolder`, that only the holder drops a payload nobody
consumed, is no property of a run, because `SlotIsAtomic` implies it.
`SlotLinearizes` (`SlotIsAtomic`) has every save that the server accepts do what the
atomic operation does on the slot as it is, which `Pending` gives; that a term ends no
later than a ttl from now, however long the save took, is added to the invariant
(`TermsFit`).

`BusProofs`, with `Fenced`: `MessagesAreKept` (`NoMessageLost`), `NothingIsMissed`
(`NoMessageMissed`) and, where no key of `CasKeys` is in `LooseKeys`,
`StaleWritersFail` (`NoSilentOverwrite`). An operation reads the record twice, and
what it read the second time it compares with the first by version alone. The
invariant says why that is enough: a version that has been loaded is lower than the
one in the record, or the entry loaded is the one in the record (`Loaded`); a record
fetched is an earlier one, or the one on the server (`Fetched`); ids are drawn above
all ids in the channel and all that were received (`Rising`). Hence a save that the
server accepts replaces what it was made from. Keys of `LooseKeys` have no such
invariant, since `put` and `delete` restart their versions: `bus_aba`.
`BusLinearizes` (`BusIsAtomic`) adds that no two messages of a channel have one version,
none has a higher one than the channel, and no reader has received a later one than it
remembers (`Ordered`), and that `delete` is saved only for keys that are there
(`DeletesWhatIsThere`). A save changes its own key alone, and that as the atomic operation
does: the channel because a version that matches is that of the same channel, the others
because the record is the one that was read.

`SharingProofs`, for all files and any number of interruptions. `TypeCorrect` needs no
assumption. `OneSidecar` (`OneSidecarPerRow`), under `OutsidersStayApart` (other tools use
`uid_ref`s and markers of their own), is not inductive: that `MarkSidecar` makes no second
sidecar depends on `DropSidecar` having removed the first one. `NoneLeft` says that
there is none between the two calls; that the removal is enough, though it takes
the first record that the listing has, follows from the property itself, and from
every marked sidecar of the row being ours (`OursOrApart`). The listing's first record
exists because uids are ordered (`FirstIsIn`, by well-founded induction).

The other four need `PlacesKeepTheirRefs` too: the files give a place one `uid_ref` over
time. A place that changes its `uid_ref` gets a second sidecar before the first is
removed, and a process that dies in between leaves two sidecars that tell different
terms of one grant; the code does not prevent it. Then `SidecarsAreTrue`
(`SidecarsTellTheTruth`), `GrantsAreRemembered` (`NothingForgotten`), `WantedIsSpared`
(`RevokesOnlyUnwanted`) and `AppliedMeansInForce` (`AppliedIsInForce`) follow from
`Inductive`, which is about the sidecars alone, and `Strong`, which ties them to the
server: `Truth` and `Remembered` except the object that is being written (`Busy`), so
`CurIsPlanned` says of it what its sidecar will say; `TodoIsPlanned` and
`DoomedAreUnwanted` keep a plan true while the process itself changes what it was made
from; `GrantsAreDoomedOrWanted` is why a folder that is removed takes no wanted grant
with it; `Progress` follows each row from the plan to its place.

`PamProofs`: `TypeCorrect`, for all manifests and folders; and with hypotheses on the files
and on other tools, which `MCPam` states as an `ASSUME` so that TLC evaluates them on the
run's own files: `OneOwner` (`OneOwnerPerRef`), `DoomedStayUnwanted`
(`DeletesOnlyUnwanted`), `MarksStayOwn` (`MarksOnlyItsOwn`), `CleanIsDone`
(`CleanMeansDone`), `AlwaysResumable` (`NeverStuck`) and `AppliedMeansDone`
(`AppliedIsDone`). The hypotheses, each of which the code relies on and does not check:

* `TitlesKeepTheirRefs`: a title belongs to one `uid_ref`, within a file and over time,
  since records are found by title after the import.
* `NamesTellTypes`: no two records differ by their type alone. `_live_matches_by_identity`
  falls back to the title when the type is not found; a record of another type would be
  marked for the row, and the row then has two owners.
* `StrangersStayApart`: other tools use `uid_ref`s and markers of their own.
* `RotatingRowsStay`: rows with a rotation are not retitled, as the payload names no
  record and the import makes a new one. `SettingsAreTuned`: settings are on resources,
  where the tuning writes them; a configuration's options come with the import.

No property is inductive. `Marks` says that a marker and a title agree in the row they
name, or that the marker names no row. It holds across `Mark` only because the listing a
record was found in is right in its titles (`SeenRight`) and has every record of ours
(`OwnAreSeen`); together they are `Owners`. `Plans` says that what the plan settled stays
so: what is doomed is wanted by no row, a row's known uid has one of its titles, what was
marked was the only one of its title. `Settled` follows rotations, which the diff cannot
see: a record of ours without one was left so by a process (`cut`) or is to get it.
`Undisturbed` says what crashes leave without other tools: no foreign marker, and one
record per title unless an import ran twice. `Progress` follows each row of an
undisturbed process: it waits, is in place, was passed over or refused.

`TenantProofs`, from the assumptions of its modules: `MarksAreOwn`
(`MarksOnlyNewApps`) and `NoTwinIsMade` (`MakesNoTwin`), for all manifests, tenants and
numbers of mishaps. Commands create what a listing does not have, and the listing of
applications is kept from call to call. `ListingHolds` says that, until somebody else
interferes, it is either to be made again or lists the names there are now, since each
change of names discards it, and that what it said when a call was chosen still holds when
the call is made; `FirmsListed` says the same for companies, which are listed before
each change. Then what is created is of a new name. That what is created has one fresh
uid follows from uids being numbers (`OneFresh`).

Its second half, with an invariant of its own (`BenchInvariant`): `TheBenchWorks`
(`BenchWorks`) and `EveryRunRecovers` (`EnrolmentRecovers`), for all states of the tenant
at first and any number of mishaps before the run. `Progress` says how far a run is that
has been let alone: after the clearing there are no channels, from the addition on none
but its own (`Own`), its record and its secret agree (`Recorded`), and after a login that
went through another one would (`Welcome`). That the verification succeeds follows from
its code being of a fresh window and its factor being the only one (`OwnLetsIn`), that the
bare login succeeds from there being no factor (`BareLetsIn`). A run that goes by the
stored login is in the second case of `Welcome`, whatever its secret (`InMeansWelcome`).

Next the bootstrap and the types. `BootstrapAlwaysWorks`
(`BootstrapWorks`): `BootProgress` says, step by step of a bootstrap that is let alone, what
it has settled: its application is of the name, it has been shared with the admin record
and the directory, and the configuration names it; that nothing of it is lost follows from
`Stationed` and `OneFamilyActs`, since the steps of the other parts of the tenant are not
those of a process that runs a bootstrap. `TypeCorrect` (`TypeOK`) adds to that what each
part of the tenant keeps of its own, one lemma for each and one for the steps of the
others (`TypeInvariant`). The uids of an import are of the numbers that are left because
there are as many as rows (`FewFresh`, `Numbered`).

The rest is `AllAgree` (`AgreesWithMock`): what an apply that is let alone leaves is what
the mock provider leaves, whatever the order of its calls and however often one is sent
twice. It has three parts.

* Companies (`CompaniesAgree`, for all portfolios and tenants). `MspCourse` says what each
  company that the plan saw has become by now: it is gone if it was dissolved, updated if
  its row has been dealt with (`Due`), and as it was if not; the others were founded for a
  row. An update that goes by the company as it is now, and not as the plan saw it,
  therefore makes the row, its file plan excepted (`UpdatedAsRow`). Numbers of seats come
  back as the comparison has them, the several values for no limit included (`RoundTrip`).
* Applications (`AppsAgree`, for all rollouts and tenants). `KsmCourse` says the same of
  applications: one that was retired is gone, one that is kept has the shares of the plan
  except those still to be changed (`AsPlanned`). `Marking` says that no two applications
  have one marker: only new ones are marked, for refs that had none in the plan.
* Service mode, under `SteadyTitles`, which `MCTenant` states as an `ASSUME`: no ref changes
  its title, and a manifest has no two rows of one title. Else one row may match a record by
  its marker and another by its title, the plan edits it twice, and only the later edit
  stays. `SvcQueueing` says that the request waited for is the last in the service's queue,
  and once there is a plan the only one, so the listing the plan is made from is of the
  records as they are, whatever requests an earlier client abandoned. `SvcCourse` says that
  each change of the plan is in force or its command not yet answered, and that a create
  not in force has no record of its title: the first import, which sends the whole
  manifest, makes all of them, and any further one adds records that the plan does not
  touch. `ListingCovers` and `ImportMakes` say that no change lacks a command, and no
  imported row a record.

Last, `CommandsAdvance` (`Advances`): what a command has still to do is a natural number,
since files are finite (`FilesAreFinite`), and each of its steps lowers it. A write or a
delete takes a row off the plan: `MspDue` and `KsmDue` say that the call under way is for
one that is still on it. A poll or a retry comes nearer to its deadline or its bound
(`Bounded`), and from one step of a bootstrap or an enrolment to the next there is no way
back but the login that verifies, at most three times. The plan of the service mode is the
one step that adds to `Left`; it comes once, since a plan that asks for nothing is refused
(`PlanAsks`), and is counted in `Unplanned`. What others do leaves both as they are
(`OthersSetNothingBack`).

`SmokeProofs`, from `LockFilesAssumption` and `SmokeAssumption`, which say that
`NoPid` is no process and `Nowhere` no profile, and that a scenario expects a record and
finitely many: `RunsStayApart` (`KeepsToItsOwn`), for any number of
processes, profiles and mishaps. Between the exclusive creation of its lock and its end
a run holds the lock of its profile, unless a lock has been removed in place of another
(`Locked`): a lock is taken for stale only when its process is off, and is unlinked by its
path only after it has been read. Whoever is named as the maker of a record is such a run,
in the profile of the record (`MadeInside`). Two runs cannot hold one lock, so what a run
removes from its profile is its own, or nobody's.

`TypeCorrect` and `NoFalseAlarms` (`NoFalseAlarm`) are about the same runs. `Course` says
what each step of a run relies on: it has no records before it makes some; what a sweep has
still to look at contains all that is managed; a plan is made of a folder without managed
records, or of a project without any, if its tree could be removed; during an apply, the
records without marker are the run's, and the titles that are missing are still to be made.
A step of the run leads from one line of `Course` to the next, one of another run leaves its
records alone (`Same`), because that one is in another profile (`LanesDiffer`). So only a
plan can be surprised, by a record without marker that nobody who runs has made. A batch of
imports makes a record for each title because there are as many as titles and none alike
(`AllTitles`).

`ScaffoldProofs`, under `Fits` (the constants fit together) and, for the second,
`StrangersHoldNothing` (other tools write no marker of ours for a manifest), both of which
`MCSmoke` has TLC evaluate: `TypeCorrect`, `MarkedAreReachable` (`MarkedIsReachable`) and
`RerunsSucceed` (`RerunsGetThrough`). `Sharing` follows a run until somebody takes
something back: the application it goes by is still its gateway's (`Wired`), the folders
it shares stay at their paths and stay shared (`Granted`), and what it has listed is in
them (`SeenInside`). That its second discover looks the folders up again changes nothing,
as no path is there twice. `Course` follows a run that is alone: each level it has passed
is there, so a parent is there when a folder is made, and what it looks for next is not
missing. Steps of others end its being alone, or only add (`Grows`), and one lemma
(`OneActs`) has them leave `Sharing` as it was.

Run `smoke` checks both modules in `Lab`, of which the same is proved. `LabSpec` implies
the specification of the test (`LabTests`) and that of the applies (`LabApplies`): a step
of the one is a stuttering step of the other. So `LabTypes` (`TypesOK`),
`LabMarksReachable` (`MarkedIsReachable`), `LabRerunsSucceed` (`RerunsGetThrough`) and
`LabRunsStayApart` (`KeepsToItsOwn` and `NoFalseAlarm`) follow from the theorems above,
those of `ScaffoldProofs` by their names in the instance. `LabAssumption` is what
`NullsAreNew` says of the constants of that instance.

Every invariant and every action property of a passing run is thus a theorem, and so are
the refinements. Only model-checked: liveness under fairness (`Ends`), which is out of
TLAPS's reach, and with it that `Work` is enabled until a command has ended.
`CommandsAdvance` is the part of it that can be proved.

## Not modelled

* Parsing, schemas and typed models, redaction, previews, renderers and reports, the
  MCP server, Kubernetes, Crossplane and Backstage front ends, and the scripts that
  generate code and documents: functions of their input, or wrappers of commands that
  are modelled, which keep no state of their own that others share.
* The KSM secret store: single reads.
* Diffs of families without a writer: the CLI refuses to apply them.
* Vault: shared folders, record types other than logins, attachments, keeper_fill.
  PAM: `pam_extended`, several gateways in one manifest, `check_tenant_bindings`. Sharing: teams against users,
  expiries. Applications: tokens of Commander 18. Companies: adoption. Service mode:
  encrypted responses. Smoke: runs without the guard, what a scenario verifies beyond
  its records being there and managed; where the admin's credentials come from; and
  `teardown_sandbox` and `_ensure_app_share`, which nothing calls.
* Assumed of Commander: sharing a record again with an application (`Share` of
  `Bootstrap`) sets whether the application may edit it. Simplified in `Smoke`: the look
  at whether a lock's process lives and the unlink of the lock are one step (`Weigh`; the
  race is that between the reading of the lock and `Weigh`), and of
  `_teardown_records_with_fallback` only one folder is swept.
* Clocks are assumed to agree in `Slot`, and message ids to stay within their twenty
  digits in `Bus`.
