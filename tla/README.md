# TLA+ models of the MyFanss backend

The backend (`src/`, NestJS over TypeORM and PostgreSQL) lets fans subscribe to
creators, read and discuss their posts, message and tip them. Its handlers read
rows, decide in memory and save; most run without a transaction, many save whole
entities, and retries, webhooks and several tabs of one user make them overlap.
That is what these modules model: every handler in the steps its database
statements make, interleaved with every other handler that touches the same rows.

How to run, inside this directory:

    tlc -workers 2 -config MCRefreshTokens.cfg MCRefreshTokens.tla   # a run
    tlapm RefreshTokensProofs.tla                                    # the proofs

`PROJECT.json` lists the runs, the mutants that show each property can fail, the
source lines each definition stands for, the hazards and the theorems.


## 1. Inventory

| Component | State | Operations | Correct when |
|---|---|---|---|
| Refresh tokens (`auth/token.service.ts`) | `refresh_tokens`: isRevoked, familyId, replacedByTokenId, expiresAt | login issues, refresh rotates, reuse detection revokes the family, logout, logout-all, delete a session | families stay linked; a closed family lives on only through calls already in flight; a failure costs nobody a session |
| Sign-up and identity (`auth/auth.service.ts`, `users.service.ts`, `search.service.ts`) | `users`: name, email, search_text; the preferences row | signup, createUser, updateUser, updateProfile | one account per e-mail; an account is whole, or the call that made it failed |
| Login, reset, deletion (`auth/auth.service.ts`, `users/users.service.ts`, `gdpr.service.ts`) | `users.password`, `is_deleted`; reset tokens; sessions | login, updateUser, updateProfile, forgot/resetPassword, deleteUser, selfDeleteUser | sessions end with the password; a reset token counts once |
| Roles (`admin/admin-users.controller.ts`, `creators.service.ts`) | `users.role`, creator profiles | assignRole, updateUserRole, onboard, profile edits | an admin remains; no role nobody gave |
| Subscriptions (`subscriptions.service.ts`) | `subscriptions`: status, cancelledAt, one row per pair | subscribe, cancel | the two columns agree |
| Billing webhooks (`billing-webhooks.service.ts`) | event rows, customer maps, the connection pool | handleIncoming: record, map, apply, commit or roll back; count duplicates | events apply once, atomically; no connection forgotten; deliveries end |
| Tips (`tips.service.ts`, `tip-fee.util.ts`) | `tips`, audit entries | intent, confirm, the shorthand | only the owner confirms; outcomes are final; fee and net add up |
| Posts (`posts.service.ts`, `post-visibility.service.ts`) | `posts`: visibility, deletedAt | create, edit, delete, public reads | subscribers' posts reach those entitled |
| Comments (`comments.service.ts`) | `comments`: parent, deletedAt | create, edit, delete | one level of replies; tombstones stay |
| Moderation (`moderation.service.ts`) | reports, audit entries | report, resolve or dismiss | one open report per user; the audit log follows the row |
| Messaging (`messaging.service.ts`) | conversations, messages | find or create, send (with clientId), mark read | sent once; inbox line and read marks follow the messages |
| Rate limits (the two guards, `rate-limit.service.ts`) | counters in the process's cache | count a call or refuse it | bounded calls in a window; no refusal without cause |
| Avatar uploads (`avatar-upload.service.ts`) | files, `users.avatar_url` | upload, profile edit with a URL or none, any other save of the user | the URL names a file and no file is left behind, but for what a client's URL, a write-back, an overlap or a death explains |
| Notifications and mail (`notifications.service.ts`, `mailer.service.ts`) | preferences; outbox and metrics in memory | look up or create, update, notify, send with a timer | choices respected and kept; outbox honest; callers not held up |
| Lists (feed, inbox, messages, comments, users) | the rows; the client's cursor | one page at a time | nothing missed, nothing twice |
| Migrations (`migrations/`) | the schema, the table `migrations` | run in one transaction or in one each, revert | the schema is that of the applied migrations |
| Guards, policies, JWT strategy; webhook signature; throttler; user search; audit query; application shell; seeds | none of their own, or a library's | | see "Not modelled" |

How they interact:

- All services share one PostgreSQL database; nothing else is shared but the
  process's cache (rate limits) and memory (outbox, metrics).
- `SubscriptionsService` and `BillingWebhooksService` write the same rows of
  `subscriptions`; `PostVisibilityService` reads them for each public read.
- `UsersService.updateProfile`, `assignRole`, `onboard`, password changes and the
  avatar upload all load and save the same `users` row. TypeORM's `save(entity)`
  SELECTs the row again and UPDATEs the columns in which the *loaded entity*
  differs, so a save whose entity is stale writes back what it never assigned.
- Not so the columns its own DTO names. The `ValidationPipe` makes an instance of the
  DTO's class (`transform: true`, main.ts:30), a class of target ES2023 (tsconfig.json:9)
  defines all its fields, `Object.assign` also assigns the undefined ones, and `save`
  leaves undefined columns out. So an edit writes a column of its DTO only if the body names
  it; others it has loaded (`is_deleted`, `role`, `search_text`, a password or avatar URL
  the DTO does not name, a post's `deletedAt`) it writes back.
- `signup` is `createUser` (insert, search text, preferences), a second look-up by
  e-mail and `issueTokenPair`, each a statement of its own and none undone by a later
  one's failure.
- Reset, password change and deletion call `TokenService.revokeAllUserTokens`
  after their own save, not in a transaction with it.
- `subscribe` ends with a notification, `forgotPassword` with a mail; both go
  through `MailerService` with its timer.
- Tips and moderation write to `AuditService`, after the fact; its errors are
  swallowed.
- `AppModule` imports Users, Auth, Subscriptions, Creators, Posts, Feed,
  Notifications, Audit, Admin, Uploads, Moderation and Tips; Comments, Messaging,
  BillingWebhooks and Mailer are not imported there directly. They are modelled as
  their controllers expose them.
- The application runs with `synchronize: true` (appDataSource.db.ts:34) and runs no
  migrations; its entity list omits Comment, Conversation, Message,
  BillingWebhookEvent and BillingCustomerMap. The integration tests run the
  migrations. The models take the tables, indexes and foreign keys of the migrations.

What is hard here: read-then-write without a lock in nearly every handler; stale
saves of whole entities; retries that overlap their first attempt; webhooks
delivered twice and out of order; transactions that wait for a unique key while they
hold a pooled connection; crashes between two statements; messages that commit in
another order than their ids; a timer that races the mail driver. PROJECT.json's
hazards list each at its line with the properties that watch it.


## 2. Modules

Names are the source's where TLA+ allows. A handler is a chain of actions, one per
database statement (or several that nothing can separate); `req[r].pc` or `pc[r]`
says where call `r` is, and the entity it carries is a field of `req[r]`. History
variables (named as such in the modules) only record what the properties need:
which calls overlapped or read something since changed.

| Module | Models | Notes |
|---|---|---|
| `RefreshTokens` | TokenService, sessions of AuthService | rotation is `Present`, `FindLive/FindRevoked/FindExpired`, `Mint`, `Retire`, or `Burn`, `Lapse`; `Fail` kills a call between statements; `Expire` is time |
| `Sessions` | abstract: a session is its user's, calls end sessions of one user at a time, and an ended session is open again only through a renewal that found it open | implemented by `RefreshTokens` (refinement `Abstract`: the family of a login is its session) |
| `SignUp` | signup, createUser, the edits of name, of e-mail, of both or of neither, the search text | in an `Entity` None is undefined |
| `Passwords` | all that decides whether one account logs in | `updateDetails` is updateUser without a password: it writes back `is_deleted`, a profile edit the password too |
| `Roles` | the role column and creator profiles | |
| `Subscriptions` | subscribe, cancel | extended by `BillingWebhooks` |
| `BillingWebhooks` | processEvent, applyMutation, duplicates, pool, crash | composes with `Subscriptions`: the same `status` and `cancelledAt` |
| `EventLedger` | abstract: an event is recorded once, with one outcome for good, and takes effect in that very step, on its own pair | implemented by `BillingWebhooks` (refinement `Ledger`) |
| `Tips` | TipsService with its idempotency keys | |
| `TipLife` | abstract: a tip is its fan's, and is decided by calls of that fan which found it pending, and only by those | implemented by `Tips` (refinement `Life`: a confirmation past its read is `deciding`) |
| `TipFee` | computeTipFee and the columns of a new tip | |
| `Posts`, `Comments`, `Moderation` | the three content services | |
| `Messaging` | one conversation | a commit is a step of its own, so ids become visible out of order |
| `RateLimits` | a counter read, then set, with its life | calls are counted for every window, named by its last tick |
| `AvatarUpload` | uploads (delete old, save new, save URL) beside profile edits with a client's own URL or null and saves that write back the URL they read | `Elsewhere` are URLs of no upload of this user; `strays` and `unsure` are history |
| `Notifications` | preferences, mails, timer | a PATCH's body names any of the preferences, or none; one stands for those no code reads |
| `Paging` | a client's way through each list | rows are sets; a page is the rows of least rank (`First`) in the list's order |
| `Migrations` | the nineteen ups and downs as lists of statements, and TypeORM's runner | a statement adds or drops named objects, or fails as PostgreSQL makes it; a table's columns come with it |
| `MC*` | instances for TLC | `MCAccounts`, `MCContent`, `MCMessaging` and `MCServices` each hold several modules that share no state a guard reads; `service` picks the one that runs, so a behaviour is one of any of them |
| `*Proofs` | the theorems, see 5 | `RefreshTokensProofs`, `BillingWebhooksProofs`, `MessagingProofs`, `TipFeeProofs` of the module they are named after; `TipsProofs` of Tips; `AccountsProofs` of Passwords, Roles and SignUp; `ContentProofs` of Comments, Posts and Moderation; `ServicesProofs` of the services in MCServices but Migrations |

Data are abstracted to what the properties tell apart: ids are small sets or the
order of insertion; bodies, titles and templates are left out or named by their
row; dates are "null"/"set", or ticks where order and the cut to milliseconds matter;
hashes and signatures are "was issued". `PROJECT.json`'s map gives the lines of each
definition; definitions marked external stand for PostgreSQL, TypeORM, the provider
or the client as the code uses them.


## 3. Runs

Bounds are constants and are named in each `.cfg`. The races of this code are between a
handler that has read a row (in its own look-up, or in the SELECT of `save`) and one that
writes it before the first does: two overlapping calls, each free to begin again when it
has ended. Where a third adds an order (a retry beside two racing confirmations of a
tip), there are three.

| Run | Bounds | What it shows |
|---|---|---|
| `tokens` | 3 tokens, 2 users, 2 calls, 1 failure, 1 expiry | `ParentRetired`, `ClosedButForOvertaken`, `SessionKept`, `SessionsImplemented` (implements `Sessions`). Three tokens are a login with two rotations of it, or two logins and one |
| `tokens_reuse_survivor` (violation) | 3 tokens, 1 user | reuse detection leaves a live token in the family |
| `billing` | 1 pair, 2 external ids, 4 events: activation, its cancellation, a failed payment, a second activation; 2 deliveries, 1 fan request, 1 crash | `EventsAppliedOnce` (implements `EventLedger`), `ColumnsAgree`, `MappedHasRow`. Any order and repetition of the events |
| `billing_liveness` | the same service with events that cannot be applied; pool of 2 | `PoolAccounted`; `SomeoneGoesOn` (no deadlock), `DeliveriesEnd` |
| `billing_failure_recorded` (violation) | 1 delivery | a constraint error leaves no event row |
| `accounts` | Passwords: 2 new passwords, 1 reset token, 2 calls; Roles: 2 admins and 1 fan, 1 handle, 2 calls; SignUp: 2 accounts, 2 e-mails, 2 names of which the database refuses one as search text, 2 calls | `SessionsFollowPassword`, `TokenUsedOnce`; `AdminRemains`, `RolesAreGiven`; `AccountsWhole` |
| `passwords_deleted` (violation) | 1 call | a deleted account logs in |
| `content` | Comments: 3 comments, 2 users; Posts: 1 post, 1 fan; Moderation: 2 reports, 2 admins; 2 calls | `OneLevel`, `TombstonesUndone`; `ShownToEntitled`, `ChangesAsAsked`; `OneOpenReport`, `AuditFollows` |
| `messaging` | Messaging: 3 messages, 1 clientId, 2 calls, 1 failure, 2 ticks per ms; Tips: 1 key, 2 fans, 3 calls, 1 restart; TipFee: 0 to 500 cents at eight rates | `SentOnce`, `SummaryFollows`, `NoHoles`; `OutcomesImplemented` (implements `TipLife`), `AuditTrue`; `FeeSplits` |
| `services` | RateLimits: limit 2, window 2, clock 3, 1 restart; AvatarUpload: 3 uploads, 1 URL of another's file; Notifications: 2 mails; Paging: 3 rows, pages of 1, 2 ticks per ms; Migrations: all of them, unbounded runs, crashes and reverts | `LimitHolds`; `FilesFollowAvatar`; `ChoiceKept`, `OutboxHonest`, `CallsEnd`; `PagesExact`; `SchemaFollowsApplied` |
| `migrations_fresh` (violation) | one run | a fresh database cannot be migrated to the end |
| `paging_users` (violation) | 3 users, pages of 1 | the list of users ends after its second page |

Each module has one type invariant; an instance that holds several modules checks
them as one (`AccountsTypeOK`, `ContentTypeOK`, `PairTypeOK`, `TypeOK` of `MCServices`). Symmetry is used in
runs without liveness properties and over ids no definition orders. Deadlock is not
checked where bounds stop the clock, the supply of ids or the uploads, which is
everywhere: `SomeoneGoesOn`, `DeliveriesEnd` and `CallsEnd` say that calls do not wait
for one another, nor for ever.

### What the properties concede

The code is optimistic: many of the properties a reader would first write down do not
hold. The checked ones name the exact exception and hold outside it; each exception is
reached in its run, where the property without it is violated. They are:

- Tokens: two refreshes with one token fork the family, and both children live; a
  rotation in flight stores a live token in a family just closed.
- Passwords: a login that compared the old password stores its session after the
  change revoked the others; two resets may use one token; a stale profile save
  restores an old password, and any stale save of the user undoes `is_deleted`.
- Sign-up: the account is inserted first, so a name PostgreSQL cannot read as a
  tsvector ("a:b"), a first look at the preferences from another client, or a crash,
  leaves it without preferences or search text, and a retry is told the e-mail is
  taken; an account whose e-mail is edited before signup looks it up gets no session,
  or that of the one who took the e-mail; overlapping edits leave an older search text.
- Roles: two admins can demote each other; an admin who onboards becomes a creator;
  a profile edit brings back a role changed meanwhile.
- Billing: overlapping writers tear a row's two columns; a late cancellation of an
  old external id cancels the pair's new subscription; 'failed' events stay so, as a
  redelivery is only counted; a fan cannot cancel a past_due subscription.
- Tips: a failed tip can become completed by a confirmation that overlapped the first
  (`TipLife` lets it decide too); the loser
  of a race for a key is answered another fan's tip, which it cannot confirm.
- Posts and comments: an edit in flight undeletes what it edits; a deletion that read a
  post before its visibility was edited puts the older visibility back; comments are accepted
  on a deleted post (docs/comments.md says 404).
- Moderation: no unique index backs the single open report of a user.
- Messaging: a stale save overwrites lastMessageAt and the preview; a late commit is
  left unread, and missed by a reader past its id (docs/messaging.md:113-115); the
  marker's microseconds are cut, so the marked message itself may stay unread.
- Rate limits: calls between get and set are not counted; a restart forgets.
- Avatars: a profile edit (PATCH /users/:id/profile) may set any URL, or null, so one
  edit alone leaves the stored file behind and a URL that names none; the next upload
  deletes whatever file of the directory the URL's last part names, another user's if it
  does; other saves write back a URL replaced meanwhile; the old file is deleted before the
  new one is saved; an upload that dies or overlaps another leaves a file nobody deletes or
  a URL without one. An unlink that fails though the file is there is left out.
- Preferences: a first look-up that loses the race to insert them fails. `ChoiceKept` concedes
  nothing: an update in flight holds no preference but those its body names, so it
  writes none back.
- Mail: delivered after the timeout, recorded as failed.
- Migrations: UserMigration's down is empty, so a revert leaves `users` and the next
  run fails; AddAdvancedUserFields' down drops an index by a name it was not created
  with (an unquoted one, folded to lower case) and always fails, so reverts stop there;
  BackfillRolesToEnum's down drops the role's default instead of restoring it.
- Lists: the feed ends early if a post goes between the two statements of
  `take` with a join.

### Disagreements the runs show

1. `tokens_reuse_survivor`: "revoke entire family" (token.service.ts:189) does not
   cover what an overtaken rotation inserts.
2. `billing_failure_recorded`: the integration test (:299) expects the event row to be
   committed although the mutation failed; PostgreSQL has aborted the transaction,
   the recording UPDATE fails outside any catch, and the connection is not released
   (the model's `DatabaseError`). `save` inside an open transaction makes no savepoint.
3. `passwords_deleted`: 'deleted user cannot authenticate'
   (health-and-gdpr.integration.spec.ts:134), but validateUser asks for neither
   is_deleted nor status.
4. `paging_users`: docs/migration-pagination.md:47 promises complete pages; with a
   cursor getUsers takes exactly `limit` rows and looks none ahead.
5. `migrations_fresh`: README.md:176 has all migrations run against a fresh database;
   AddPostSoftDelete adds posts.deletedAt, which AddDeletedAtToPosts has added before
   it, so every full run fails there and CreateBillingWebhooks is never reached.

Others met on the way, outside the models: `DELETE /users/me`
(users.controller.ts:325) is declared after `@Delete(':id')` (:222), which takes the
route; changeUserRole and softDeleteAndRevokeSessions have no caller; the controller
calls restorePost and getArchivedPosts (posts.controller.ts:101, :239), which the
service lacks; deleting a deleted post answers 404 where the docs say 204;
an admin's deleteUser revokes no sessions; countAdmins counts deleted admins; role
changes reach access tokens with the next login only; creator analytics read columns
that do not exist; validateQueryParams admits the roles admin, manager and user only;
users sorted by other columns than created_at page by id alone; seed.ts inserts a second
subscription of one fan to one creator, which the unique index refuses, so the script
ends with an error; it seeds no creator profile, as docs/creators-api.md:139 says it does;
search_text is written but read by no query.


## 4. Fairness

Safety runs assume none. Two properties need some:

- `DeliveriesEnd` under `FairSpec`: strong fairness of each delivery's next step. A
  delivery waits in two places only, for a connection of the pool and for a unique
  key another transaction holds; both queues serve in order of arrival, so a waiter
  that can go on again and again does. Nothing is assumed of fans, of the provider or
  of new deliveries. The property excepts a pool all of whose connections have been
  leaked by database errors, from which nothing recovers but a restart.
- `CallsEnd` under `Notifications!Fairness`: weak fairness of a call's own statements
  (the database answers) and of its mail timer (`setTimeout` fires). The mail driver is
  not fair: it may never answer. `Started = MaxMails` is the model's bound on mails.

The proof of `CallsEnd` assumes `Notifications!Prompt(r)` of each call instead, the same
weak fairness with the guards of the statements (`Ready`) and of the timer written out where
WF has ENABLED. On the instance of the run `Ready(r)` and `pc = "send"` are true in exactly
the reachable states in which `ENABLED <<Step(r)>>_prefVars` and
`ENABLED <<Timeout(r)>>_prefVars` are; the same holds of `Ready(w)` of `BillingWebhooks` and
`ENABLED Delivery(w)` on both of its instances.


## 5. Proofs

Every property of every passing run but two (`SchemaFollowsApplied`, `DeliveriesEnd`) is proved
for all values of the constants. A theorem names the very definition its run checks; where an
`MC*` module gives a property a name of its own (`MCServices!LimitHolds ==
RateLimits!LimitHolds`), the theorem is about that one. The services that share an
instance share no variable, so `AccountsProofs`, `ContentProofs` and `TipsProofs` first state
their theorems of the component's own specification (`Roles!Spec`, `Tips!Spec`);
`AccountsSafe`, `ContentSafe` and `PairSafe` carry them over to the specifications the runs
check (`AccountsSpec`, `ContentSpec`, `PairSpec`), whose steps are steps of each component.

Assumptions on the constants, all checked by TLC in the runs: bounds are numbers, and
where 0 makes no sense (pool, limit, window, page) not 0; `None`, the null value, is
none of the ids, names or records it stands beside, since columns and fields hold one
or the other (`NoneAssumption` of RefreshTokens and Messaging, and the `None \notin ...`
of the others); the calls of Notifications are finitely many, as its bound counts them;
and what an instance supposes of its constants (`PayloadAssumption`: an external id of
the provider belongs to one pair). Modules that are instantiated define their
assumption, and `AccountsAssumption`, `ContentAssumption`, `PairAssumption` and
`ServicesAssumption` of the `MC*` modules assume it.

All safety proofs go one way: an invariant that says what each call in flight knows, one
lemma that the initial states have it, one that each step keeps it, one step of the proof
per action, and then the property. What a call knows is the point: handlers decide on
what they read some statements ago, so an invariant over rows alone is never
inductive. It reads "unless the row was written since (`outdated`, `overlapped`, `contested`,
`crossed`), what this call remembers of it is still so".

**`RefreshTokensProofs`**

- `TypeCorrect`: `Spec => []TypeOK`, one step per action.
- `LinkedInv` (lemma): `Linked`, the strengthening the others stand on. Families are
  rows; a child has its parent's family and user; a token minted by a rotation that has
  not yet answered is known to no client and to no other rotation. Without the last
  part a rotation could retire a token that another call has just handed out.
- `ReplacementTheorem`: `ReplacementInFamily`, which no run checks, is inductive relative to these; the only
  step that records a replacement is `Retire`, and `Linked` says what it records.
- `ParentRetiredTheorem`: parent and child live together only during their rotation,
  or after it died.
- `ClosedTheorem`: `ClosedButForOvertaken` is not inductive: a rotation about to mint
  into a closed family would break it. `ClosedInv` adds that such a rotation is known
  to be overtaken, or itself holds a late token.
- `SessionKeptTheorem`: needs `KeptInv`, that what a rotation has minted in an open
  family is still live when the old token is retired.
- `SessionsTheorem`: `Spec => SessionsImplemented`, that the service implements `Sessions`.
  Each step maps to a step of the abstract module or to a stutter: the first issue of a
  family to `Login`, a step that revokes the last live row of one to `End`
  (lemma `RevokingEnds`), a rotation's look-up to `Renew`, its insert or its end to
  `Renewed`. It needs `Linked`, now with the fact that a family's row heads itself.
- `EndedForGood`: what `Sessions` is for, proved from it. A login all of whose tokens are
  revoked, with no rotation past its read of a live one, never has a live token again:
  `Ended` is inductive in the abstract module (`EndedStep`), so no statement of the
  service need be looked at.

**`BillingWebhooksProofs`**

- `PoolTheorem`: `PoolAccounted`, with `PoolOK`: the deliveries that hold a connection are
  finitely many, whatever the set of deliveries, because each took one from a pool of
  `PoolSize`. `TypeCorrect` needs it: the counters' bounds follow from the sum.
- `ColumnsTheorem`: `ColumnsAgree`, with `WritersOK`: a writer about to update holds an
  entity whose two columns agree, and the columns it will write are those that differ,
  unless the pair was written since (`Fresh`).
- `MappedTheorem`: `MappedHasRow`, with `HeldOK`: the uncommitted row of an event belongs to
  one transaction. Only `Commit` writes maps, and it writes row and event too.
- `LedgerTheorem`: `Spec => EventsAppliedOnce`, that the service implements `EventLedger`:
  `Commit` maps to the ledger's step with the outcome and effect the transaction had
  prepared (`KnownTx`), a fan's save to `FanWrites`, every other step to a stutter.
- `RecordStands`, from the ledger alone: the outcome recorded of an event stands for good.
- `NoDeadlock`: `SomeoneGoesOn`. A delivery holds its connection from its first statement, may
  wait for the event row of a second, and that one for the map row of a third; who holds a
  new map row is past its last wait (`MapHolderGoesOn`), so no chain is longer
  (`HolderLeads`). If nobody holds a connection the pool has one, by `PoolTheorem`.
- `AdvanceTheorem`: every step of a delivery lowers the number of steps it has `Ahead`; so with
  `NoDeadlock` deliveries neither stand still together nor go round.

**`MessagingProofs`**

- `SentOnceTheorem`: `SentOnce`, from the unique index in five parts (`UniqueOK`): ids are
  drawn once, committed once, no two messages have one sender and clientId, a call that
  saves has its message, and so has every answer.
- `SummaryTheorem`: `SummaryFollows`, with `AloneOK`: until sends cross, one call saves at a
  time, it saves the newest message, and it knows how the row differs.
- `NoHolesTheorem`: `NoHoles` is inductive relative to the shape.
- `TypeCorrect`: the module's `TypeOK`, a part of `PairTypeOK`.

**`TipsProofs`**

- `AuditTheorem`: `AuditTrue`. A confirmation past its read is by the tip's own fan and, until the
  tip is contested, of a tip still pending that its save will change (`TipCallOK`); so only
  a contested tip has two decisions to log.
- `OutcomeTheorem`: `Tips!Spec => OutcomesImplemented`, that the service implements `TipLife`. An
  insert maps to `Give`, a read that found the tip pending to `Find`, the UPDATE of a
  confirmation to `Decide` (whether its column differs or not), a restart to `Forget`, every
  other step to a stutter (`LifeRests`, `LifeGoes`). What is `deciding` changes with the one
  call that moves (`DecidingMoves`), which is why `Decide` may leave it: two calls of a fan can
  decide the same.
- `OutcomeStands`, from `TipLife` alone: a completed or failed tip that no confirmation is
  about to save stays what it is.
- `PairTypes`: the instance's type invariant.

**`AccountsProofs`**

- `SessionsTheorem`: `SessionsFollowPassword`, with the versions a profile edit may put back
  (`SavesOK`): the password or one replaced since it was read.
- `TokenTheorem`: `TokenUsedOnce`. A token neither shared nor lost is redeemed by one call,
  which finds it unused (`AloneOK`).
- `AdminTheorem`, `GivenTheorem`: `AdminRemains` and `RolesAreGiven`. A call that may take an
  admin's role has counted two (`AnotherAdmin`), and unless outdated the other is
  still there when it saves.
- `WholeTheorem`: `AccountsWhole`. Ids are given in order and each to one signup, so what an
  account lacks is on its signup's way, or the signup has failed; a search text about to be
  written is current unless its call is outdated.
- `AccountsTypes`: the instance's type invariant.

**`ContentProofs`**

- `OneLevelTheorem`: `OneLevel`. A reply about to be inserted has a parent that exists and is at
  the top; nothing deletes rows or moves parents.
- `TombstonesTheorem`: `TombstonesUndone`. An edit is its author's, and of a comment not
  deleted unless outdated.
- `OneOpenTheorem`, `AuditTheorem`: `OneOpenReport` and `AuditFollows`. A decision that its
  save does not have to write is in the row already, by another decision or by itself.
- `ShownTheorem`: `ShownToEntitled`. All that holds now has been seen by every read in flight
  (`SeenNow`), so what a read was told at one statement it saw.
- `ChangesTheorem`: `ChangesAsAsked`. An edit writes the visibility it was asked for or none, a
  deletion the one it has read, which is the post's unless the deletion is outdated; an
  edit that is not outdated holds the post's `deletedAt` as it is.
- `ContentTypes`: the instance's type invariant.

**`ServicesProofs`**, all of `MCServices!Spec`

- `LimitTheorem`: `LimitHolds`. The counter in the cache bounds the calls of any window the
  clock is in since the last lapse (`WindowOK`), and it was set within the last window by
  a call that was let through (`CounterOK`).
- `FilesTheorem`: `FilesFollowAvatar`. The URL of an upload in flight is its own (`Private`): it
  is not yet the user's and no other call holds it, so its file is neither deleted nor
  orphaned by others; what the files and the URL owe to a replaced URL, a client's or a
  dead upload is in `strays` and `unsure`. It holds with overlaps, for any URLs a client sends.
- `ChoiceTheorem`: `ChoiceKept`, without exception, for bodies of any preferences. The entity of
  an update is its body, and the columns it has found to differ are of those the body
  names, whatever was saved since.
- `OutboxTheorem`: `OutboxHonest`, from the sum in `MailsOK`: mails
  the driver still holds have timed out.
- `CallsEndTheorem`: `CallsEnd`, a liveness property, from `Prompt` (see 4). A call only goes
  onward along its statements, and none of its steps leaves it where it was (`GoesOnward`);
  the statements are finitely many, so temporal logic alone does the rest (`CallEnds`).
- `PagesTheorem`: `PagesExact`, for any page size, number of rows and precision of dates.
  What stayed has been seen or is still to come (`KeptOK`), what has not moved and is still
  to come has not been seen (`OnceOK`). It stands on lemmas about a page, `First(n, S)`: it is a
  prefix of `S` in the list's order, has `n` rows at most, and what is left out follows all of
  a page that is full. These need the first and the last row of a finite set, which come
  without induction from the well-foundedness of strict subsets (`Earliest`, `Latest`).
- `ServicesTypes`: the type invariant, with `MailsBounded` for the counters of mails.

**`TipFeeProofs`**: `SplitTheorem` is `FeeSpec => []FeeSplits` for every set of amounts and of
configured fees (every row holds the split of its amount, `SplitInv`). It
rests on three facts for every amount in Nat and every rate in 0..10000: `FeeNearest` (the
fee is the nearest cent, halves up), `FeeReconciles` (fee and net are not negative and
add up), `FeeMonotone` (a larger tip leaves neither side with less). They rest on
`Rounding`, a fact about integer division, and on the products' bounds. Doubles
compute these products exactly in the range the request's validation admits.

Only model-checked:

- `DeliveriesEnd`: liveness under strong fairness. The prover has no ENABLED, and a delivery
  waits for as many others as there are, so its proof is an induction over their number and
  over that of leaked connections, which the prover cannot do in temporal logic. Its halves
  that need no fairness are proved: `NoDeadlock` and `AdvanceTheorem`.
- That `Ready` and `Prompt` say what ENABLED does, on the instances named in 4.
- `SchemaFollowsApplied`: `Migrations` has no constants. Its lists of statements are concrete and
  a schema is a fold over them; TLC visits every state there is, and a proof would
  evaluate the same folds, for which the prover would need induction over data.
- The five runs that expect a violation.


## 6. Plan

Order: (1) sessions, money and accounts, where an unlucky order costs most:
RefreshTokens, Subscriptions with BillingWebhooks and EventLedger, Tips, Passwords,
Roles; (2) content and conversations: Posts, Comments, Moderation, Messaging;
(3) the services around them: RateLimits, AvatarUpload, Notifications, Paging; (4) what
they stand on: the abstract Sessions and TipLife, SignUp, Migrations. These are written and checked.
Left:

- Model: posts' visibility over the real subscription rows (Posts over
  Subscriptions instead of a free `active` set); roles in JWTs between login and
  expiry beside `Roles`; the audit log as a component of its own; rows for comments of several posts.
- Abstract specification: one for a conversation, implemented by Messaging.
- Proofs: what the items above add.


## 7. Not modelled

- Guards, policies and the JWT strategy: pure functions of the claims. The models
  take a call as one its caller was allowed to make.
- Webhook signatures, JWT signing and bcrypt: no state of the system's own.
- The throttler: a library's counters.
- Mail drivers and templates, file contents, the pages by number, filters, searches,
  exports and metrics endpoints: one read, or formatting.
- Seeds: a script of one process, run by hand on a development database. The columns'
  types and defaults in the migrations, and `synchronize`, which derives the schema from
  the entities when the application starts.
- `main.ts`, the filters, interceptors and loggers: wiring and formatting.
- Time, but for expiry, the rate window and the dates of paged rows.
