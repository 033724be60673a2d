# A formal model of Tobira

Tobira (`src/`) is an OpenID Connect identity provider with a delegated account
manager. It runs on Cloudflare Workers: every HTTP request is an `async` handler
(Hono), all shared state is in one D1 (SQLite) database, and many isolates serve
requests at the same time. Two server-rendered pages, the operator's and the
delegates', carry scripts of their own. This directory holds TLA+ models of the
handlers and of those scripts, the TLC configurations that check them on small
instances, and TLAPS proofs.

## How the program executes, and how the models do

* One D1 statement is atomic, and so is one `DB.batch([...])`. Between two awaited
  statements any statement of any other request may run, on any isolate.
* A request may stop between two statements: the isolate is evicted, a statement
  throws, the client goes away. Nothing is rolled back.
* Nothing is shared in memory between requests, except the per-isolate key caches.
* A page's script runs from one `await fetch` to the next without interruption; what
  the user clicks and other answers come in between, in any order.

So in every module a **request is a process with a program counter and the locals it
read, and one awaited statement is one action**. `Abort` may end a request at any
point. Reads that only feed the next statement may be merged with it where a comment
says so. Ids drawn by `generateToken` or `crypto.randomUUID` are model values taken
from a finite set, which bounds the rows that exist. The audit log, translations and
the text of answers are left out. History variables are marked as such; no action
reads them except to keep further history.

## Inventory

| Component | State | Operations | Who else touches it | Hard behaviour | What makes it correct |
|---|---|---|---|---|---|
| Codes and token sessions (`routes/oidc.tsx`, `index.tsx: authenticateClient, issueOidcTokens`) | `auth_codes`, `app_sessions` | issue, exchange, refresh, revoke | logout, consent revocation, password handlers, deletions | two requests spend one code or refresh token; revocation between the statements of a refresh; a request that stops halfway | single use, one session per authorization, nothing comes back after revocation, grants survive rotation unchanged |
| Browser side (`/login`, `/authorize`, `/authorize/decision`, `/logout`, `/oidc/logout`, `/account/revoke-consent`) | `sessions`, `consents` | log in, authorize, approve, log out, revoke | password and admin handlers | checks read before the code is inserted; revocation in three statements | nothing is issued beyond an approval; `auth_time` is what the session says of its login; logout and revocation end what they say |
| Signing keys (`oidc/keys.ts`, `oidc/jwt.ts`) | row `oidc_keys`, a cache per isolate | cold start, rotate, prune, sign, verify | all token handlers | concurrent rotation, stale caches, last writer wins, rows of older formats, two secrets during a deployment | signers are current; a key outlives its tokens and is not forgotten before |
| Accounts (`/login`, `/login/2fa`, `/change-password`, `/reset-password`, 2FA, invitations) | `users`, `sessions`, `password_resets`, `invitations`, a cookie between password and code | verify, rehash, seal, change, reset, enrol, delete | - | login racing a change or reset; UPDATE without comparing what was read; links used twice | a change ends access by the old password within a bound; nobody's setting is overwritten; an enabled factor is asked for |
| Rate limiter (`index.tsx: rateLimit`) | `rate_limits` | count, reset | login, 2FA, signup, forgot-password ask it first | window boundary, reset on success | attempts are spread; refusals are earned |
| Permission gate (`checkPermission`, `getEntitlements`, `/entitlements/me`, dashboard, user details) | reads users, apps, permissions and the tables of the service path | check | operator's loops, every handler of the service path | five SELECTs are not one; the same question in five sets of queries | the answer was true for a moment; the queries agree, and where they do not is known |
| Seats (`createAssignment`, `grant/add`, `grant/remove`, contracts) | `service_contracts`, `group_service_grants`, `service_user_assignments` | assign, grant, distribute, withdraw | group moves | check-then-insert; limits lowered below their use | no more is oversold, doubled or handed down than requests overlap |
| Group tree and memberships (`/admin/am/groups/*`, `membership/*`, `group/create`) | `groups`, `group_memberships`, `group_service_grants` | create, move, delete, join, leave | seats, services, delegation | cycle check on a stale tree; move and grant withdrawal are two statements | acyclic; no grant survives a move |
| Role applications (`/group-admin/api/roles/*`) | `role_applications`, membership flags | apply, approve, reject | memberships | approve racing reject; two applications at once | the outcome recorded is the outcome in force; the inbox misses nobody |
| Facilities and offered roles | `facilities`, `service_role_master` | add, place, move, remove | assignments | check-then-delete | no assignment of a row that is gone |
| Services, apps, tags (`/admin/services/*`, `/admin/apps/*`, `/group-admin/api/service/*`, `/app/*`) | `service_providers`, `services`, `service_apps`, `apps`, `tags`, `service_tags` | apply, approve, reject, reapply, compose, edit, delete | seats, permission gate | composing or editing while approving; a loop without a bound; cascades in several statements | what is in use was looked at; status and contract agree; an approval ends |
| The operator's pages (`client/users.ts`, `groups.ts`, `accountGroups.ts`) | the entity a dialog is open for, the rows shown, open questions, requests under way | open, grant, revoke, add, remove | other operators, delegates | answers in any order; a question asked on a stale list | a list settles; acts do what they announce |
| The delegates' page (`client/groupAdmin/*`, `client/serviceAppsModal.ts`) | a copy of all rows, a second one of grants and apps, the group shown, the removal aimed at | add, remove, switch group or tab | other delegates | some answers mend one copy by hand | the mended copy follows every answered change; the second is behind by no more than those |
| Token endpoints that only read; back-channel logout | none | userinfo, introspection, entitlements; notify | `/oidc/logout` | best effort delivery | - |
| Audit log, mail, icons, config, translations | logs and texts | write | - | - | - |

`PROJECT.json` lists the components with their status and every hazard at its line,
with the properties that cover it or the reason why none does.

## Modules

| Module | Role | Proofs |
|---|---|---|
| `AuthorizationLedger` | abstract: what the provider promises of one authorization | |
| `TokenStore` | `auth_codes` and `app_sessions`, `/oauth/token`, `/oauth/revoke`; refines the ledger | `TokenStore_proofs` |
| `OidcProvider` | extends `TokenStore` with `sessions`, `consents` and the browser requests | `OidcProvider_proofs` |
| `Keyset` | the signing keys: the row `oidc_keys`, isolate caches, `loadKeyset` | `Keyset_proofs` |
| `SeatBudget` | contracts, grants and assignments of one service: `createAssignment`, delegated `grant/add` | `SeatBudget_proofs` |
| `RateLimiter` | the rows of `rate_limits` | `Accounts_proofs` |
| `Accounts` | passwords, second factors, resets, invitations, login sessions | `Accounts_proofs` |
| `Directory` | groups, memberships, grants on the tree, role applications, facilities, offered roles | `Directory_proofs` |
| `Catalog` | extends `Directory` with services, apps and tags | `Catalog_proofs` |
| `Gate` | `checkPermission` and the queries that answer the same question | `Pages_proofs` |
| `Console` | the scripts of the operator's pages | `Pages_proofs` |
| `Portal` | the scripts of the delegates' page | `Pages_proofs` |
| `Pages` | the three side by side | `Pages_proofs` |
| `MC...` | instances for TLC | |

Some instances explore several **scenes** one after the other: the first step chooses a
scene, which fixes the initial tables and the actions and bounds of the rest. Scenes
never mix, so their state spaces add up and do not multiply. Every action of a module is
in some scene; the theorems are about the whole module.

### AuthorizationLedger

One authorization (a user's approval, as one code) is `none`, then `offered`, then
`moving` while a request has spent the code or refresh token and has not yet stored
its successor, then `held` by one row of `app_sessions`; and from every state it may
become `void`, which is final. "Held" names no token: that there is only one holder is
what the refinement has to show.

### TokenStore

`authCodes` and `appSessions` are the rows that exist, `row` the columns of every row
ever inserted (apart from `used_at`, kept as `usedCodes`, columns are never updated).
`req[p]` is a request: its program counter, the code or token it works on, and the
time it read. `parent`, `family` and `killed` are history variables for the
properties; no action reads them.

| Code | Actions |
|---|---|
| `/oauth/token`, `authorization_code` | `PresentCode`, `ClaimCode`, `VerifyClient`, `LookupCodeUser`, `InsertToken` |
| `/oauth/token`, `refresh_token` | `PresentRefresh`, `CheckRefreshPermission`, `DropDenied`, `LookupRefreshUser`, `ConsumeRefresh`, `InsertToken` |
| `/oauth/revoke` | `PresentRevoke`, `DeleteRevoked` |
| other handlers, one statement each | `IssueCode`, `DeleteUserSessions`, `DeleteGrantSessions`, `DeleteGrantCodes`, `DeleteUser`, `DeleteApp`, `TogglePermission` |
| stopping, time | `Abort`, `Tick` |

What a client sends (`client_id`, `redirect_uri`, verifier, secret) is three Booleans
in `VerifyClient`: only whether each matches makes a difference. A revocation by the
wrong client ends like `Abort`. A session without an authenticated time (`auth_time`
NULL, from before the column existed) is the value `None`.

### OidcProvider

Adds `sso` and `sessRow` (table `sessions`), `consents`, and one process per browser
request (`flow`). Requests may find sessions from before the column `auth_time`
(`Legacy`): their row says NULL, `/authorize` passes NULL on into the code, and the
exchange of that code puts its own moment in its place, which refreshes keep. Codes and
rows of `app_sessions` that are themselves older than the column are in `TokenStore`
(`None`) and not here: a code behaves like one of such a session, a row is dated by its
first refresh. Every use of the token tables goes through a statement of
`TokenStore`, which is what theorem `RunsTokenStore` says.

| Code | Actions |
|---|---|
| `/login`, `/login/2fa` once the user is verified | `StartLogin`, `CreateSession` |
| `GET /authorize` | `StartAuthorize`, `CheckGate`, `CheckConsent`, `EmitCode` |
| `POST /authorize/decision` | `StartAuthorize`, `CheckGate`, `RecordConsent`, `EmitCode` |
| `GET /logout`, `/oidc/logout` | `StartLogout`, `StartHintedLogout`, `LogoutTokens`, `LogoutSession` |
| `/account/revoke-consent` | `StartRevokeConsent`, `DropConsent`, `DropGrantSessions`, `DropGrantCodes` |
| `/change-password`, `/reset-password`, `/admin/users/delete` | `EndSsoSessions`, `EndUserTokens`, `RemoveUser` |

### Keyset

`stored` is the row: its format and a set of envelopes (id, date, the secret that seals
the private key). `cache[i]` is the module variable `cache` of an isolate, `secret[i]`
its `OIDC_KEK`. `load[p]` is a request inside `loadKeyset`: its stage, the time it read
at its start, the envelopes it will return and the active one. Two loads may run in one
isolate or in two. `expiry[k]` (until when a token signed by `k` is valid) and the field
`seen` of a load that is about to write (what it has read) are history.

| Code | Actions |
|---|---|
| `getKeyset` on a miss, `loadKeyset`: first read | `BeginLoad`, `ReadRow` |
| cold start: `INSERT OR IGNORE`, second read | `Seed`, `Reread` |
| rotation and pruning in memory | `Settle`, part of both reads |
| both `INSERT OR REPLACE` | `WriteRow` |
| return, cache, sign or publish | `Serve` |
| `getOidcKeys` on a hit and `signRS256` | `SignFromCache` |
| a statement throws; eviction or deployment; the operator; time | `Abort`, `Restart`, `DeleteRow`, `Tick` |

`Keyset` is not composed with `TokenStore`: signing happens after the session is
inserted and changes no table, so the two share nothing but the clock. That a request
lasts at most `Latency` is the one timing assumption (a Workers request is cut off long
before the seven days that separate rotation from retention).

### SeatBudget

`contract`, `grant` and `parent` are the rows of `service_contracts`,
`group_service_grants` (unique by group) and `groups` for one service; `rows[u, g, f]`
counts the rows of `service_user_assignments` with that user, group and facility (`None`
for NULL, which the UNIQUE constraint does not cover). `asg[p]` is a call of
`createAssignment` with what it has read, `dist[p]` a delegated `grant/add`. `peak` (the
highest limit a group's grant has had) and `source` (the parent it was cut from) are
history.

| Code | Actions |
|---|---|
| `createAssignment`, from both `assignment/add` routes | `ReadGrant`, `ReadOwner`, `ReadExisting`, `ReadUsed`, `ReadChildSum`, `ReadContract`, `ReadTotal`, `ReadRow`, `UpdateRow`, `InsertRow` |
| `/group-admin/api/grant/add` | `ReadCustomer`, `ReadParent`, `ReadBudget`, `ReadSiblings`, `UpsertGrant` |
| `/admin/api/am/grant/add`, both `grant/remove` | `OperatorGrant`, `Withdraw` |
| `/admin/am/contracts`, `/admin/am/contracts/delete` | `AddContract`, `DeleteContract` |
| both `assignment/remove` | `Unassign` |
| `/admin/am/groups/parent`: its two statements | `Reparent`, `Withdraw` |
| a request stops | `AbortAssign`, `AbortGrant` |

Which caller may act for which group is not modelled: some user may always make the
request, so every request is possible. The operator may reparent a group into a cycle,
as two concurrent moves can; the properties hold all the same. Deleting a facility or a
role removes several assignments in one batch, here one after the other.

### RateLimiter

`limits[k]` is the row of a key: its count and the end of its window. The keys (account,
address, second factor, sign-up, forgotten password) differ only in limit and window.
`stamps[k]` is history: when each attempt was let through since the row was last deleted.

| Code | Actions |
|---|---|
| `rateLimit`: the upsert with `RETURNING` | `Attempt` |
| `rateLimitReset` after a right password or code | `Succeed` |
| time | `TickClock` |

The limiter is composed with nothing: handlers ask it before anything they read, and a
refused request changes nothing else.

### Accounts

`users`, `sessions`, `resets` and `invites` are the tables; `pre` are the
`pre_2fa_token` cookies, which are signed and stored nowhere. A password is a model
value, a hash is the password and whether its cost is the current one; a second factor
is its secret and whether it is stored encrypted. `past[u]` records what the owner last
set and when, `claims[r]` how often a reset was used.

| Code | Actions |
|---|---|
| `POST /login` | `StartLogin`, `Rehash`, then `Admit` or `AskCode` |
| `POST /login/2fa` | `StartCode`, `Seal` (encrypts a secret stored in the clear), `AdmitCode` |
| `/user/2fa/setup`, `/user/2fa/disable` | `StartEnable`, `StartDisable`, `StoreFactor` |
| `/change-password`; `/forgot-password`, `/reset-password` | `StartChange`; `AskReset`, `ClaimReset`; then `SetPassword`, `DropSessions` |
| `/signup`, `/admin/invite`, `/invite` | `SignUp`; `SendInvite`; `StartAccept`, `InsertInvited`, `DropInvite` |
| `/logout`, `/admin/users/delete` | `Logout`, `DeleteUser` |
| a request stops; time | `Abort`, `Tick` |

A wrong password, code or link is answered at once and is no action. Two assumptions
are made: a request lasts at most `Latency`, and nobody sets a password somebody has set
before (`New`), without which "a session of the old password" means nothing. The
initial accounts may be of any age: with a hash of a lower cost, or a secret from before
secrets were encrypted.

The statements of the same handlers on `app_sessions`, and what sessions are used for,
are in `OidcProvider`; there a login is two actions and a password change one.

### Directory

`tree[g]` is `parent_id`, `Gone` where there is no row; it has no foreign key and may
name a group that is gone. `grants` are the rows of `group_service_grants` without their
numbers (those are in `SeatBudget`), `members` the memberships with their flags and
whether they are in their period, `forms` and `status` the role applications, `facility`
and `duty` (roles a service offers) the owner of each row, `used` the facilities and
duties some assignment names. A `job` is a request of several statements.

| Code | Actions |
|---|---|
| `/admin/am/groups`, `/admin/groups`; `/group-admin/api/group/create` | `InsertGroup`; `StartChild`, `InsertChild`, `Appoint` |
| `/admin/am/groups/parent` | `StartMove`, `WriteMove`, `WithdrawMoved` |
| `/admin/am/groups/delete`; `/admin/groups/delete` | `StartDelete`, `WriteDelete`; `DeleteBare` |
| grants, contracts (numbers in `SeatBudget`) | `OpenGrant`, `CloseGrants` |
| `membership/add`, `membership/remove`, both routes | `StartAdd`, `UpsertMember`, `RemoveMember`, `TimePasses` |
| `roles/apply`, `approve`, `reject`; `roles/applications` | `StartApply`, `FindPending`, `InsertForm`; `StartDecide`, `CheckApprover`, `SetFlag`, `Record`; `Inbox` |
| facilities of operator and delegates | `AddFacility`, `AddManaged`, `PlaceFacility`, `DropFacility`, `StartRelocate`, `CheckSource`, `Relocate`, `StartVacate`, `Vacate` |
| roles of services | `AddDuty`, `OfferDuty`, `EraseDuty`, `StartUnlist`, `Unlist` |
| an assignment comes or goes; a request stops | `Occupy`; `Abort` |

Who is asked differs from what may be done: `roles/approve` does not refuse the
applicant's own application, only the list (`Inbox`) leaves it out.

### Catalog

`providers`, `services`, `apps`, `comp` (`service_apps`), `tags`, `labels`
(`service_tags`) and the `contracts` that approvals make, over the groups, grants and
memberships of `Directory`. `CatalogSpec` lets every step of either module happen in any
order. `task` is a request of several statements. An app's
addresses and texts are one `content`.

| Code | Actions |
|---|---|
| services: `service/create`, `delete`; operator's create, delete; `providers/delete` | `StartService`, `Found`, `CreateService`; `StartDrop`, `Strip`; `AddService`, `StartErase`; `StartClose`, `RemoveProvider`; `Cascade` |
| `services/approve` | `StartApprove`, `ReadOwner`, `ReadTree`, `Walk`, `Activate` |
| `services/reject`; `service/reapply`; `contracts/delete` | `StartReject`, `Refuse`; `StartReapply`, `Reapply`; `EndContract` |
| `service/app/add`, `remove`; the operator's | `StartCompose`, `CheckApp`, `Compose`; `OperatorCompose`, `OperatorDecompose` |
| apps | `CreateApp`, `RequestApp`, `UpdateApp`, `DecideApp`, `DeleteApp`, `StartEdit`, `WriteEdit`, `Discard` |
| tags | `SetTag`, `DeleteTag`, `SetLabel`, `ApplyLabel`, `RemoveLabel`, `CoinTag` |
| a request stops | `Drop` |

`Walk` is one turn of the loop in `approve` that collects the ancestors of the owner
from the tree it has read. The loop has no visited set. It awaits nothing, so once begun
it runs on: that is the one fairness assumption of the project, `WF(Walk)`.

### Gate

The tables as sets and functions, periods of validity as `"future"`, `"valid"` or
`"over"`; of a service its status (`phase`) and the group that owns it (`owner`).
`Permitted(u, a)` is what `checkPermission` would answer in one moment; a
`check` computes it SELECT by SELECT and keeps, as history, the answers that were true
meanwhile. `desk` are the operator's handlers that loop over users and apps.

| Code | Actions and operators |
|---|---|
| `checkPermission` | `StartCheck`, `ReadDirect`, `ReadHome`, `ReadShared`, `ReadService`, `UseAnswer` |
| permission grants of users and groups, `/admin/users/bulk` | `StartGrant`, `StartGroupGrant`, `StartBulk`, `RegroupNext`, `GrantNext`, `AbortErrand` |
| revocations, `users/group`, `apps/toggle` | `RevokePermission`, `RevokeGroupPermission`, `SetUserGroup`, `SetStatus` |
| `services/approve`; `service/reapply`; a deletion with the next creation | `ApproveService`; `ReapplyService`; `ReplaceService` |
| dashboard, entitlements, user details | `StandaloneApps`, `ServiceApps`, `Entitlements`, `EntitlementsMe`, `UserDetails` |
| the service path; time | `ChangePath`; `TimePassesBy` |

`ChangePath` is any handler that writes a row of the service path: it changes one row in
any way. `SeatBudget`, `Directory` and `Catalog` have those handlers in full. No time
passes during a check, which reads the clock once. A grant counts whatever the status of
its service, ownership only for a service that is active; `/entitlements/me` lists active
services alone (`Listed`). Pending, rejected and inactive are one value (`"closed"`),
for no query here tells them apart; so `ReapplyService` is the reapplication that finds
its service approved meanwhile, the only one that changes anything here.

### Console and Portal

`Console` is one panel of the operator's dialogs at a time. `current` is the entity the
dialog is open for, `list` what is rendered and for whom, `target` and `question` the
dialogs of a removal and of an overwrite, `wire` the requests under way: a load or a
change is sent, served by the database (`table`), and its answer handled, in any order,
or lost. `disturbed` and `strayed` are history. Buttons, confirmations and answers are
named after the functions of `client/users.ts`, `groups.ts` and `accountGroups.ts`.
`Finish` loads the list anew after a success, and after a grant of a permission or the
removal of an assignment whatever the answer, as the scripts do.

`Portal` is one kind of row of the delegates' page at a time. `copy` is the JSON the
server rendered, `held` the database. Most answers load the page anew (`Reloads`,
`ServePage`); removals of members, assignments and grants, and client secrets, mend the
copy by hand (`DropMember`, `DropAssignment`, `DropGrant`, `MarkSecret`), reading the
globals `removeXTargetId` and `currentGroupId` as they are when the answer arrives.
`told` and `mine` are history: what the copy ought to be.

Grants and apps are kept twice. The tables show `grantsDetailByGroup`, the assignment
dialog offers services from `grantsByGroup`; the apps are in `appsByGroup` and, as they
were when the table was last drawn, in the data of its buttons, with which the edit dialog
opens. An answer mends the first of each. `second` is the other one; it is taken when the
page is served and, for the apps, whenever the table is drawn (`RenderAll`, from
`SwitchGroup` and `SwitchTab`). `since` is history: the rows of changes answered since
then. Left out is the line in the edit dialog that says whether there is a secret and
which a changed secret overwrites in whatever app's dialog is open; no request reads it.

`Gate`, `Console` and `Portal` share no variable. Each has a specification of its own
(`GateSpec`, `ConsoleSpec`, `PortalSpec`); `Pages` is their conjunction.

## What is checked

| Run | Instance | Shows |
|---|---|---|
| `token_store` | 1 user, 1 public app, 2 scope sets, 1 code, 3 tokens, 2 requests, clock 0..1 | `TypeOK`, `SingleSuccessor`, `OneSessionPerFamily`, `RevocationFinal`, `GrantPreserved`, `PublicClientUsedPkce`, and `ImplementsLedger` |
| `oidc` | 1 public app, 2 scope sets, 2 login sessions of life 2, 2 browser requests, 1 code, 2 token ids, clock 0..2; scenes `consent`, `times` (1 token each), `legacy` (a session without `auth_time`, 2 tokens) | `ProviderTypeOK`, `ScopeApproved`, `AuthTimeGenuine` |
| `oidc_logout` | 1 login session, 2 tokens, clock stopped | violation of `LogoutEndsTokens` |
| `oidc_revocation` | as `oidc_logout` | violation of `RevocationEndsTokens` |
| `keyset` | 2 isolates, 2 loads, 3 key ids, 2 secrets, lifetimes 1, retention 4; scenes `rotation` (clock 0..6), `operator` (old rows, deletion, clock 0..2) | `TypeOK`, `SignerCurrent`, `LiveKeysKept` |
| `keyset_overlap` | 4 key ids, 1 secret, clock 0..6 | violation of `IssuedTokensVerify` |
| `seats` | 3 users, 4 groups, 1 contract, 1 facility; scenes `crowd` (2 assignments at once), `places` (1 at a time, with and without a facility, the owner's group moving), `distribute` (2 delegated grants at once in every tree) | `TypeOK`, `SeatsBounded`, `DuplicatesBounded`, `SubGrantsBounded` |
| `accounts` | 1 user, 2 passwords, 2 secrets, 2 sessions, 1 reset, 1 invitation, 2 requests, cookie, mail and latency 1, sessions 2, clock 0..4 (scene `late`) or 0..2; the limiter with limit 2, window 3, clock 0..8 | `AccountsTypeOK`, `ResetOnce`, `SettingsKept`, `StaleAccessBounded`, `FactorAsked`, `AttemptsSpread`, `RefusalEarned` |
| `directory` | 2 requests; scenes `tree` (every forest of 3 groups, 1 grant), `roles` (3 applications), `sites`, `duties` | `DirectoryTypeOK`, `TreeAcyclic`, `GrantsFollowTree`, `RoleOutcome`, `PendingBounded` |
| `catalog` | 2 groups, 1 service, 1 app, 2 contents, 1 tag, 2 requests, 2 moves; scenes `apply`, `apps`, `walk`, `erase` | `CatalogTypeOK`, `ReviewedComposition`, `ActiveContentVetted`, `ContractMeansActive`, and `ApprovalEnds` (liveness) |
| `pages` | 2 users, 1 group, 1 app, 1 service, 1 check, 1 errand; 2 entities, 2 requests; 2 groups, 2 requests; scenes `gate`, `desk`, `dialog`, `portal` | `PagesTypeOK`, `CheckMomentary`, `QueriesAgree`, `ListSettles`, `ActsAsAnnounced`, `CopyFollows` |
| `portal_removal` | 2 groups, 2 requests | violation of `RemovedMemberLeaves` |

### Why the bounds are enough

The properties of tokens relate the rows of one authorization, so one user, app and code
suffice (an instance with two apps was also run once); two requests are the smallest
race and three tokens one rotation beyond it, so that a fork of the chain, a stale
refresh of the first token and a second exchange all happen. With lifetimes of 1 a clock
of 0..1 meets the last valid second of a code or token; `oidc` goes on until login
sessions have expired; its scene `legacy` needs a second token, for a refresh after the
exchange that dates the first. For the keys the clock runs until a second rotation and the first
pruning have happened; ids of keys that nothing refers to any more are used again.

Three users and two requests are the fewest that can exceed `SeatsBounded` when the
limit is 1; two children and a parent the fewest that can exceed `SubGrantsBounded`. The
three bounds of `seats` are tight: with one request less in any of them TLC finds a
violation.

In `accounts` two passwords are the old and the new one (a third would only repeat the
change), and the clock of `late` runs past `PreTTL + 2 * Latency`, which is where
`StaleAccessBounded` becomes tight: a login that read the old hash hands out its cookie
at the last moment, the cookie is presented at its last moment, and that request takes
as long as it may. Three groups make the smallest tree where a move takes a sub-tree
along that has a tree above and below it; two moves close a cycle. Three applications
are one more than two requests could leave pending. In `catalog`, two groups give a walk
of two turns and the smallest cycle. In `pages` one user's permission for one app is
followed; in scene `gate` its service path, status and owner change in every way,
in scene `desk` they are drawn once (no grant, or one of a service that is closed or
without status) and the loops run. A second user is there for the loops, a second entity
and a second group for answers that concern another one.

All values in `SYMMETRY` are ids that are only compared for equality. No symmetry is
used in `catalog`, which checks liveness. The theorems below remove the bounds.

### Deadlock and fairness

`accounts`, `directory`, `catalog`, `pages` and `portal_removal` do not check deadlock:
clocks or ids of their instances run out, or nothing is left to do in a scene. All other
runs check it. The specifications are safety specifications without fairness, for a
request may always stop and the code has no retry or background job; only `Catalog`
assumes weak fairness of `Walk`, for the reason given there. `ApprovalEnds` says that
the loop ends unless overlapping moves have closed a cycle of parents.

### Where the code and its comments disagree

* `oidc_logout`: the comment above `/oidc/logout` says that the issued tokens stop
  working. A refresh that has deleted its old row and not yet inserted the new one has
  no row for the logout to delete, and its user ends up with a live session. Nothing
  else gets past a logout (theorem `LogoutEndsUnlessMoving`).
* `oidc_revocation`: `/account/revoke-consent` says "Revoke any active
  sessions/auth_codes for this app". A code claimed before its row is deleted becomes
  a session after the rows of `app_sessions` were deleted. With no request of the grant
  under way between the two `DELETE`s the sentence is true (`RevocationEndsWhenAlone`).
* `keyset_overlap`: the header of `oidc/keys.ts` says that the public key of a rotated
  key stays until retention so that tokens issued under it verify. Two loads that
  rotate from the same set overwrite each other; the key of the first is in no stored
  set while its isolate signs with it. `LiveKeysKept` says exactly how far the claim
  holds: the operator and such an overlapping load are the only ways to lose a key.
  Without them every valid token verifies (theorem `TokensVerifyWhenCalm`).
* `portal_removal`: after a member is removed, `executeRemove` calls
  `closeRemoveMemberModal`, which `types.ts` declares and no script defines. The rest of
  the function is skipped: the dialog stays open and the row stays in the table.

`RevocationFinal` is what does hold of sessions: a session that *was there to be deleted*
never comes back in any form.

Several properties are bounds or exceptions and not the plain rule, because the code
checks and then writes in two statements. What each of them leaves open is what
overlapping requests can do, and nothing else:

* `SeatsBounded`, `DuplicatesBounded`, `SubGrantsBounded`, `PendingBounded`: one more
  for each concurrent request. One request at a time keeps the rule. That a limit is
  lowered below its use is not an error of the code: assignments are kept on purpose.
* `SettingsKept`: the upgrade of an old hash or of an unencrypted secret at login writes
  back what it read (`wasOld`, `wasPlain`); nothing else does.
* `StaleAccessBounded`, `FactorAsked`: logins under way at the moment of the change.
* `TreeAcyclic`: a move written after another one it did not see (`tangled`).
* `GrantsFollowTree`: see its comment; a move that stopped between its two statements
  leaves the grants behind.
* `RoleOutcome`: an application that two requests decided at the same time, or whose
  approval stopped halfway (`contested`).
* `ReviewedComposition`, `ContractMeansActive`: an app or decision that passed its check
  before an overlapping approval (`slipped`, `adrift`).
* `CheckMomentary`: two rows written during one check; the gate may then combine a
  permission that was not yet revoked with a group not yet joined.
* `AuthTimeGenuine`: a session from before the column `auth_time` says NULL. Its tokens
  then carry the moment of the first exchange (`DatedByExchange`), which is the documented
  fallback and not the moment of a login.
* `QueriesAgree`: three exceptions. An app that opens through the user's group is not shown
  on the dashboard behind a row of the user's own that is over or to come. An assignment
  without facility or role opens its apps and is in no entitlements. A service that is
  granted and not active, as after a late `reapply`, opens its apps and is on the
  dashboard, and `/entitlements/me` leaves it out.
* `CopyFollows`: the dialog closed, or the group changed, while a removal was under way
  (`swerved`). And it is of the copy that is mended. The second copy of grants and apps is
  *not* what a fresh page would show: until the page is loaded anew or the apps are drawn
  again, the assignment dialog offers the service of a removed grant (the server refuses it)
  and the edit dialog opens with the secret as it was. `Behind` says that the second copy
  differs only in rows changed since it was taken, and offers every grant that is shown.

## What is proved

Every theorem holds for all values of the constants under the named assumptions of its
module; sets of requests are finite only where something counts them.

`TokenStore_proofs` proves the seven properties of `token_store` for every number of
users, apps, codes, tokens and requests and every clock. Assumed are only
`ConstantsOK` (code and token ids differ, `NULL` is not a value, lifetimes are natural
numbers). The properties are not inductive: that no two tokens have the same parent
depends on what requests in flight hold. `Chains` strengthens them with

* `RowsKnown`: types, and that rows and requests name inserted rows of the right kind;
* `Lineage`: a token's parent is spent, and is its family's code or one of its tokens;
* `HeldAlone`: what a moving request holds is spent and has no successor yet, and its
  family has no other live session;
* `Exclusive`: two moving requests never belong to one family;
* `Final`: a killed family has neither a live session nor a moving request;
* `SingleSuccessor`.

Each action gets one step; steps that neither spend nor insert share `QuietChains`.
`Provenance` (where a row's columns come from) adds `GrantPreserved` and
`PublicClientUsedPkce`. `Refinement` maps every step to a ledger step or a stutter,
with `StatusOf` as refinement mapping (`StepRefines`); that a void authorization stays
void is then read off the ledger (`VoidStays`).

`OidcProvider_proofs` proves that every behaviour of the provider is a behaviour of
`TokenStore` (`RunsTokenStore`), so the theorems above hold of it
(`ProviderImplementsLedger`), and with the invariant `Around /\ Backed` that
`ProviderTypeOK`, `ScopeApproved` and `AuthTimeGenuine` always hold. `Around` says that what each
browser request carries is backed by a session of the user, begun with a login or older
than the column `auth_time`, and, from the consent check on, by an approval; `Backed`
says the same of every code and token, and that what an exchange has dated keeps its date.

Two theorems say when the claims that `oidc_logout` and `oidc_revocation` refute do hold.
Their hypotheses are about the schedule only. `LogoutEndsUnlessMoving` assumes of each
`DELETE` of a logout that no authorization it ends is *moving*, that is in the hands of a
request that has spent its code or refresh token and not inserted the session
(`LogoutMeetsNoMove`). `RevocationEndsWhenAlone` assumes that no request of the grant is
moving while `/account/revoke-consent` is between its two `DELETE`s (`RevocationAlone`);
from that follows that the grant has no session between them (`GrantSilent`). In both, what is
ended is void at the moment it is ended, and `VoidStays` does the rest.

`Keyset_proofs` proves `TypeOK`, `SignerCurrent` and `LiveKeysKept` for every number of
isolates, loads, keys and secrets and for all lifetimes with `Latency <= CacheTTL` and
`Rotation + CacheTTL + Latency + TokenTTL <= Retention` (`KeysetConstantsOK`; in the code
the slack is seven days). The invariant `KeysInv` says what a load holds at each stage
(`LoadOK`), that a cache is no older than one load and one TTL (`CacheOK`), that a write
drops only what is past retention of what was read (`SeenKept`) and that a key outlives
its tokens (`Cover`). One difficulty is the v2 row, which has no date: every load that
reads it dates the key by its own start, so one key can carry several dates. `Near`
bounds their distance by `Latency`, which needs `OldRow`: while the row is still v2 only
requests about to write it hold its key.

`TokensVerifyWhenCalm` is the claim that `keyset_overlap` refutes, under what it takes:
nobody deletes the row, and always `Calm`, that is every request about to write has read every
key in the row, which was sealed under the present secret. Failures, restarts, cold starts, migration
of old rows and any number of isolates and loads are allowed. The invariant
`SignersStored` adds to the claim that every key a usable cache or a request about to serve may still sign
with is in the row. It survives pruning because a key that may sign is younger than
`Rotation + CacheTTL + Latency`, also by the other dates it may carry
(`SignersAreYoung`), and that is where the slack in the lifetimes is used.

`SeatBudget_proofs` proves `TypeOK`, `SeatsBounded`, `DuplicatesBounded` and
`SubGrantsBounded` for every number of users, groups, contracts, limits and requests
(`ConstantsOK`: finite sets, `NULL` is not a value). No bound is inductive, because a request that has passed a
check acts on it later. `ClaimsBounded` therefore counts the users of such requests with
the occupants (`Claim`). A claim grows only when a request counts the occupants and finds
a seat free (`ClaimAdds`); a user who was already there, whose row may be removed before
the insert, is in the claim all along (`ClaimSteps`). `InsertsBounded` does the same for
rows with the requests that are about to insert. Both rest on `Basic`: what a request
has read of a grant is covered by the peak of its group. For `SubGrantsBounded` requests
in flight cannot just be added up, because landing one may replace a grant another has
counted: `PledgesBounded` says that *whichever subset* of them lands, what is left of the
old grants plus what the subset wants is within the bound. A request that passes the
check of its siblings stays with them within one limit (`PledgesJoin`), every other adds
at most one (`LandingWants`), and landing moves seats from the one term to the other
(`PledgesLand`).

`Directory_proofs` proves the five properties of `directory` for every directory and
any number of requests. Its invariant has five parts, proved one after the other:

* `Kinds`: types, and what a request holds at each of its statements;
* `Decided`: two requests that decide the same application contest it; without, it is
  pending as long as one does, and its flag is set only by the one that is to record it;
* `Backlog`: the requests that are about to insert, with the pending applications, are no
  more than there are requests;
* `Ordered`: the new parent of a move that is not `stale` is still not below the group
  (`Detached`), so writing it closes no cycle;
* `Covered`: grants are on groups that are there, and a move or deletion covers all it
  found below its group. With it `GrantsFollowTree` is inductive.

`Catalog_proofs` proves the four safety properties of `catalog` for `CatalogSpec`, with
the invariant of `Directory` as one conjunct. `Requests` says what a request holds at
each statement, `Contracted` that a service with a contract of an approval is there and
active unless `adrift`, and `Looked` that
the composition an approval has compared (`Weighed`) is still what is there, apart from
what has slipped in since. The handlers of services write the tables of `Directory` too,
an approval along a path it read earlier: `OpenGrantsKeeps` shows that this keeps
`DirectoryInv`, so `GrantsFollowTree` holds of both together (`ApprovedGrantsKeepUp`).

`Accounts_proofs` proves the five properties of accounts in `accounts` for any number of
users, secrets, sessions and requests and any lifetimes. `AccountsInv` is a conjunction
of parts, each proved from those before it: types and what requests hold (`RowsOK`),
single use of resets (`MailsOK`), a request is never older than `Latency` (`Clocks`),
which rows were once of an older form (`Older`), and then, for each property, what a
request or cookie under way goes by and since when (`Asking`, `LoginsOK`, `SettersOK`,
`StaleOK`). The core of `StaleOK` is that whoever still carries an earlier password
began before the change, or presents a cookie of one who did: that is where the two
latencies and the life of the cookie come from.

It also proves, of the limiter in front of these endpoints, `AttemptsSpread` and
`RefusalEarned` for every limit and window. The invariant is one predicate per key, `KeyOK`: the last recorded attempts, as
many as the row counts, lie in its window; those before it lie before the window, and all
but `Limit` of them at least one window earlier.

`Pages_proofs` proves every property of `pages`, each of the specification of its own
part, for any number of users, groups, rows and requests. Assumed is only that `None`,
`Nobody` and `Nothing` are no values of the kinds they stand beside (`GateNoneOK`,
`NobodyOK`, `NothingOK`).

* *Gate.* `Rest` is what a check under way would answer if nothing more were written, and
  `Fresh` that what it has read is still so. While a check is fresh the two questions,
  `Rest` and `Permitted`, are one (`FreshRest`). A write changes one of five tables
  (`OneTable`); after it the check will answer either what was permitted before or what is
  now, depending on whether it had read that table already (`OneWriteBetween`). Both are
  in `seen`, whence `CheckMomentary`; a second write can break `Fresh` and that is why the
  property stops there. An approval, a deletion or a reapplication of a service counts as one
  write: all it changes is read by one SELECT. `QueriesAgree` holds in every state of the
  right types, so it compares the SQL of the queries and rests on no history.
* *Console.* `ListOK`: unless `disturbed`, the list is right, or a load is under way that
  will put it right, or a change has succeeded whose answer will cause such a load; and a
  load that nothing has overtaken carries the present rows. `CalmOK` says what a question,
  a removal dialog and a change sent on a settled panel still have in common with it.
* *Portal.* `AimOK`: on the boards whose removals mend the copy by hand, a removal under
  way is of the row the dialog lies over, or another answer has taken that row out of
  the copy and closed the dialog. `MineOK` keeps the delegate's own additions apart from
  answered removals. `Behind` is inductive once every answered change is in `since`.

Every invariant and every action property of a run that passes is thus also a theorem.
Only model-checked are the liveness property `ApprovalEnds` (liveness and `ENABLED` are
out of TLAPS's reach) and the counterexamples to the violated claims; three of these claims
are theorems under the hypotheses named above, and the fourth, `RemovedMemberLeaves`,
fails on every removal.

## Not modelled

* Back-channel logout: it reads `app_sessions` and posts to relying parties before the
  rows are deleted; no answer is stored and nothing depends on one.
* userinfo, introspection and discovery, which read and format a row whose content
  `GrantPreserved`, `ScopeApproved` and `AuthTimeGenuine` are about.
* External codes (`facility_external_codes` and the like), icons, system texts, the audit
  log and mail: single upserts or output on which no handler decides.
* Layout, filters and wording of the pages, and the translations (`i18n.ts`): no state.
* The cryptography itself (a signature verifies exactly under its own key, a hash
  identifies its password or token), redirect URI matching and the parsing of requests,
  which only choose between going on and an error answer.
* Who may act for whom, except where a property is about it (`Inbox`, the delegated
  handlers of `Directory` and `Catalog`); in `SeatBudget` every request is possible.

What could be added: a property of signing keys an operator has deleted (the model has
the step that writes them back), and the composition of `Accounts` with `OidcProvider`
over one table `sessions`, which the two modules now describe from their own sides.
