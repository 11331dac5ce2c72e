# ProIdentity Mail: TLA+ specifications

ProIdentity Mail is a control plane, written in Go, around Postfix, Dovecot,
Rspamd and MariaDB: an admin panel, a webmail, a groupware server and the
command `mailctl`, which timers and the mail server call. These modules specify
the parts of it in which several actors share state: requests that interleave,
files and tables without a common transaction, processes that die between two
steps, and rules that are written down in several programs and must agree. TLC
checks them on small instances; TLAPS proves their safety properties for every
value of the constants.

Contents: 1 the system, 2 the modules, 3 the runs, 4 bounds and fairness,
5 the proofs, 6 findings, 7 what is not modelled, 8 what could follow.

## 1. The system

Four programs share one MariaDB database and one file system. `webadmin`,
`webmail` and `groupware` are HTTP servers: each request is a goroutine, and
most handlers are sequences of single SQL statements. `mailctl` runs as root:
it is started by systemd timers, by the content filter, and by hand. Postfix
and Dovecot are external; they deliver into the same Maildirs that webmail
renames files in, answer SMTP on the local host, and read the directory by
queries that the renderer writes into their configuration.

| component | state | operations | meets the others through |
|---|---|---|---|
| quarantine | `quarantine_events`, stored message files, audit entries | store, release, delete, list | mail server (SMTP or `new/`), admin sessions |
| login limiter | `login_rate_limits`, `users.status` | Locked, Fail, Success, unlock, clear | every login; the users table |
| webmail sign-in, second factor | `users`, `user_mfa_settings`, `user_mfa_challenges`, session map in memory | login, answer a challenge, enrol, verify, change password, reset, edit | limiter, admin panel, hosted authenticator |
| mailbox files | Maildir directories | open, move, delete, report, batches, folders | Dovecot, composing |
| composing | window state in the browser, draft and sent files | save, open, send | mailbox files, SMTP |
| mail pages | list, reader and selection in the browser | list, open, select, drag, confirm | mailbox files |
| TLS jobs | `tls_certificate_jobs`, `tls_certificates`, `/etc/letsencrypt`, loaded certificates | create, claim, process | certbot, proxy sync, render and apply |
| admin sign-in and step-up | session map, `admin_mfa_challenges` | login, second factor, step-up | limiter |
| admin second factor, passkeys | `admin_mfa_settings`, WebAuthn credentials | enrol, verify, register a key, edit the provider | admin sign-in |
| directory | tenants, domains, users, aliases, catch-alls, shared mailboxes, roles | create, edit, delete | Postfix, Dovecot, webmail read its rows |
| host and certificate names | mail server and TLS settings, certbot's directories, inventory | save settings, ask for a certificate, look one up | DNS provisioning, TLS jobs, client set-up |
| DNS provisioning | Cloudflare zone, backup rows | plan, apply | directory, host names |
| configuration apply | rendered files, live files, request file, what services loaded | render, sync the proxy, apply, compare | TLS jobs, settings |
| migrations | `schema_migrations`, the tables | apply, dump, import | start-up, restore |
| backup | archives, retention, live restore | create, verify, prune, restore | services, database |
| filters | filter rows, Sieve script, its link | edit, compile | Dovecot |
| app passwords, protocol sign-in | `user_app_passwords`, limiter keys | create, revoke, verify | limiter, Dovecot, groupware |
| groupware, contacts, calendar | CalDAV and CardDAV rows | get, put; create, edit, delete in webmail | app passwords |

What is hard in it, by component, and what makes the component correct:

- **Quarantine.** A message lives in a file, its status in a row, its history
  in audit entries, and a release hands it to a mail server: no transaction
  spans two of them, and two administrators may act on one event. Files are
  named by tenant, day and Message-ID, so two events may share one. *Correct:*
  an event is resolved at most once and logged exactly then; "released" implies
  a delivery, "deleted" implies that no copy is left; nobody's message is
  removed or overwritten by work on another's.
- **Login limiter.** Checks and counts are separate statements, several keys
  are counted one after the other, row and gap locks may deadlock, and an
  unlock takes locks in the opposite order. *Correct:* no failure that commits
  is lost, a full tally and an active account do not coexist, a lock stops all
  but the attempts in flight, every attempt is answered.
- **Webmail sign-in.** A handler reads the account, its authenticator, the
  policy and the challenge in different statements and ends in a map in memory,
  while another enrols, resets or changes the password. *Correct:* only a
  proved secret is ever in force, no session skips an authenticator that was in
  force when its password was verified, a challenge is spent once, a reset is
  final, an old password opens nothing after a change.
- **Mailbox files.** Nothing locks a Maildir. A request looks a message up by
  a name that the mail server changes, validates it, looks it up again and then
  renames, rewrites or removes. *Correct:* no overlap of moves loses the content
  of a message, except where a rewriting is cut or met by another; the folder
  rules hold for the moves that happen and not only for those that
  were validated.
- **Composing and the mail pages.** Answers arrive after the window has
  changed; a draft is replaced by removing one file and writing another; a
  delivery may succeed after its request failed. *Correct:* what the user was
  told is saved is kept, the sent folder shows nothing that was not accepted,
  work on one message leaves the draft of another alone; the reader and the
  list come to show what the page says they show, and a confirmed deletion
  removes what its dialog named.
- **TLS jobs.** Overlapping and dying workers share a table; certbot, the
  inventory, the proxy and the mail services follow one another without a
  transaction. *Correct:* one worker per job, every job answered or its worker
  dead, success means served, no job starves.
- **Admin sign-in and second factor.** Handlers read the one settings row, wait
  for a provider or a key, and write the whole row back; sign-in and step-up
  share challenges that have no purpose; the session of a request may end before
  the request does. *Correct:* the settings never demand a factor that cannot be
  presented, handlers of different factors leave each other's alone, an answer is
  spent, an ended session never comes back.
- **Directory.** Who owns an address is asked by six queries in three programs;
  a mailbox directory is named after the address and outlives the account.
  *Correct:* the queries agree, and nobody is given another's mail.
- **Host and certificate names.** Records, instructions for mail programs,
  certificate names, the search for certificates and the SNI tables are computed
  from the same settings in places that do not know of each other. *Correct:*
  the records can stand in one zone, what mail programs are told resolves, the
  certificate that was asked for is the one that is found.
- **DNS provisioning.** A zone is planned from a list and changed one call at a
  time while others change it. *Correct:* an apply that answers success has done
  what it says, and one that was not told to replace removes nothing.
- **Configuration apply, migrations, restore.** Long runs of single steps, each
  of which may fail or be killed, without a lock between runs. *Correct:* the
  next quiet run repairs everything; the record of a migration is true; a
  restore that ends well restored everything and nothing half-restored is served.
- **Retention.** Three rules keep an archive, by day, week and month, in a
  calendar that overflows. *Correct:* what is removed is not missed.
- **Filters.** Rows, script and link have no common commit. *Correct:* an
  answer without error means that Dovecot runs the enabled filters.
- **Protocol sign-in, groupware.** Account and app password are read one after
  the other; an object has two keys, one for each side. *Correct:* whoever is let
  in was allowed in at some moment of the attempt; the two sides see one object.

## 2. The modules

| module | models | abstract specification | proofs |
|---|---|---|---|
| `Quarantine` | `internal/quarantine/store.go`, `StoreQuarantineMessage`, `ResolveQuarantineEvent` | `Resolution` | `MailctlProofs` |
| `LoginGuard` | `internal/session/sql_limiter.go`, the limiter's callers, `UnlockUser`, `UpdateUser` | `FailureCounter` | `LoginGuardProofs` |
| `MailboxAccess` | sign-in, second factor, password and sessions of `internal/webmail`, `ResetUserMFA` | | `MailboxAccessProofs` |
| `Maildir` | `internal/webmail/maildir.go` and the requests on it | `Mailbox` | `ServicesProofs` |
| `Compose` | the compose window of `static.go`, `send`, `draft`, `smtp_sender.go` | | `ComposeProofs` |
| `TlsJobs` | `process-tls-jobs` of `cmd/mailctl/main.go`, `CreateTLSCertificateJob` | `JobQueue` | `MailctlProofs` |
| `AdminAccess` | `internal/admin/mfa.go`, `webauthn.go`, the admin sessions of `internal/session/manager.go` | `Trust` | `AdminAccessProofs` |
| `Directory` | the directory handlers and statements of `internal/admin`, the queries of `internal/render` and of webmail | | `OperationsProofs` |
| `Provisioning` | Cloudflare plan and apply of `internal/admin/sql_store.go` | | `OperationsProofs` |
| `ConfigApply` | `render`, `sync-proxy` of `mailctl`, `apply-mail-config.sh`, `internal/configdrift` | | `OperationsProofs` |
| `Migrations` | `internal/db/migrate.go`, dump and import | | `OperationsProofs` |
| `Retention` | `mailctl backup`, `backup-prune`, `internal/backup/backup.go`, `prune.go` | | `OperationsProofs` |
| `LiveRestore` | packing of `backup.go`, `internal/backup/live_restore.go` | | `OperationsProofs` |
| `Groupware` | `internal/groupware`, contacts and calendar of `internal/webmail` | | `ServicesProofs` |
| `Filters` | filters of `internal/webmail`, `sieve.go` | | `ServicesProofs` |
| `ProtocolAccess` | app passwords, Basic authentication of groupware, Dovecot's query and auth policy | | `ServicesProofs` |
| `MailView` | the mail pages of `internal/webmail/static.go` | | `ServicesProofs` |
| `HostNames` | DNS records, autoconfiguration and certificate names of `internal/admin`, certbot and inventory of `mailctl` | | `OperationsProofs` |

The first seven and `Retention` have an `MC` module of their instances each. The
last eleven and `Maildir` are composed by `Estate` (proofs in `EstateProofs`), whose instance is
`MCEstate`: a behaviour of it is about one of the twelve (variable `part`), and the
others rest in what they were started with. They share nothing in the code but the
database and the disk they lie in, so interleaving them would only multiply
their states. An operator introduced by "Variant:" is not part of the
specification: it is a wrong version of the operator below it, kept to show that
a property would notice.

**Conventions.** An action is one step that others can see the effect of or
interleave with: an SQL statement, a system call, a hand-over, an access to a
locked map. A worker (request, process) is a record with a program counter and
the local values that survive to a later step; a value read into it is stale
from then on, as in the code. Errors of a step, cancelled requests and crashes
are actions that drop the request and leave everything else as it is. Variables
said to be history (`proved`, `retired`, `late`, `issued`, `torn`, ...) are read
by properties only. Numbers that only grow (ids, secrets, certificates) are
counters; times are a clock (`LoginGuard`) or nondeterministic expiry.

**Quarantine.** `row` is the committed status, `stored` the store by path,
`inbox` a recipient's `new/` by name, `handed` what was delivered, `audit` the
committed entries. `store[e]` is the `mailctl` run that stores `e`; `req[w]` is
one resolution: `Begin` (BEGIN and the plain SELECT), `OpenSource`, then
`SendSMTP` or `CreateTarget` and `CopyMessage`, `UpdateRow` (waits for the row
lock, re-reads the status), `DeleteFile`, `InsertAudit`, `Commit`. Status and
audit entry of a transaction become visible at `Commit`; `Abort` rolls them
back, but not the files. `Direct[w]` says how the process of `w` is configured
to release. The day in a path is left out: events that share a Message-ID are
taken to be stored on one day, the worst case.

**LoginGuard.** `rec` is the limiter's table, `req[w]` an attempt that checks
its keys, verifies, and counts or forgets its keys, one statement or transaction
at a time. Row locks, the gap lock of `SELECT ... FOR UPDATE` on a missing row
and the insert that waits for it are conditions on the other requests' program
counters; `FailAborts` is a failed statement, the two-second timeout or the
deadlock victim. `late` counts the passwords verified during a lock.
`FailureCounter` is the in-memory limiter of the same package.

**MailboxAccess.** One record per request: `Login`, `ReadSecurity`, `Decide`
(challenge or session), `OpenChallenge`, `CheckCode` or `AskProvider`, `Spend`,
`Create`; `BeginEnrollment`; `ReadPending`, `Enable`, `Enabled`; `VerifyCurrent`,
`ChangePassword`, `Invalidate`. Codes are the secrets they belong to; whether a
code of the right secret is in its time window is the client's choice to send
it. `Empty` is the secret `''` that the pending column holds by default, after a
verification and after a reset: nobody generated it, anybody can compute its code,
and `VerifyMailboxTOTPEnrollment` validates against it like against any other. An
account without a row has no pending secret at all (`None`). `needs` remembers that
an authenticator was enabled when the password was verified; an administrator's
reset clears it.

**Maildir.** A file is an inode with a content, a place is a folder, `new` or
`cur`, and a name with flags. `Matches` is the lookup by exact name or base
name, `IsFound` the first in the order of the directories. The trash-origin
header is written as the code writes it: read, truncate by path, write to the
open file. Between the last two the file is empty; `spoilt` remembers the messages
whose rewriting was stopped there (`stopped`) or that another request read there, to
rewrite them too (`overlapped`). `MailServerRenames` is Dovecot or a mail client; `WebmailSpec` is the
specification without it.

**Compose.** `window` is what the browser shows, with `state.currentDraftId`;
`request[r]` is a save, a send or a draft being opened, each with the values the
window had when it was clicked. A text is its version; `newest` is the newest
version of a message in the sent folder. `loose` counts the deliveries that go
on after their request has ended. The window is filled by the compose button
(`StartCompose`), by a draft that arrives (`ShowDraft`) and by Reply and Forward
(`OpenResponse`), of which only the last leaves the name of the draft shown before
in place: `carried` collects the messages whose draft is taken along so. Closing
the window hides it and changes nothing else, so it is no action; Discard empties
it.

**TlsJobs.** `job` is the table, `worker[w]` a run of `process-tls-jobs`: select
the oldest, claim by a guarded UPDATE, certbot, inventory, proxy, services,
finish. `cert` is the generation on disk, `web` and `mail` the ones loaded.
`Upsert` and `Insert` follow the driver, which counts changed rows. `inUse` says
whether the status of the domain is pending or active: `UpdateDomain` changes it at
any moment, creating and claiming a job do not look at it, and the inventory and
the mail services' tables leave a domain out that is not in use. `excused` is
history: the jobs of which `SuccessIsRecorded` says nothing.

**AdminAccess.** `settings` is the row of `admin_mfa_settings`, `keys` the number
of stored hardware keys, `rows` both challenge tables, `live` and `trusted` the
sessions in the map and those with a step-up mark. A request is `check` or
`assert` (the answer to a challenge), `create` or `mark` (what a right answer
leads to), `spend` or `drop` (the deletion, after or before it, as each handler
has it), `save` (about to write the settings in `next`), or a later statement of
a key's registration. `fresh` is history: nobody has written the settings since
this request read them. `Trust` is what a session manager promises: a session is
signed in once, raised and lowered while it lasts, and never returns. A session
is taken to be valid until its request has read what it needs; whose approval the
hosted provider gives is its own business, so an account is not told from another.

**Directory.** The tables are sequences or sets of rows; `CreateDomain` inserts
the domain and `CreateSystemMailbox` its shared mailboxes one statement at a
time, as the handler does without a transaction. A handler that is refused is no
step. `MailboxMap`, `AliasMap`, `SenderLogins`, `PassDB`, `UserDB` and `ListMailboxes` are the
queries of Postfix, Dovecot and webmail, each from its own text. `Deliver` is mail that
arrives for an address and stays in the directory named after it.

**Provisioning.** The zone is a set of records with their ids; in which order
Cloudflare lists them is left open. `ActionFor` compares the listed zone with a
wanted record; `ApplyCloudflareDNS` lists and plans. A plan is a set of calls,
each made for one wanted record, and `Precedes` says which are made before which;
`CallSucceeds` and `CallFails` make them one by one (a failed call may have taken
effect), `RecordBackup` comes after the last one. The wanted records are assumed
to fit together, which is what `HostNames` checks of them.

**ConfigApply.** A file's content is the version of the settings it was rendered
from; `Blank` and `Mixed` are half-written files. A `runner` is the config-apply
unit or the TLS worker (`TlsWorkers`). For the mail files it renders into the shared
directory, installs file by file, checks, restarts; for the proxy it writes the
files through one temporary name each, tests, reloads. The unit does mail first and
the proxy then; the worker does the proxy first, then `mailctl render` on its own,
and last `apply-mail-config`, which renders once more (`BeginsWith`, `AfterProxy`,
`EndRender`, `AfterMail`). `Report` is the drift report.

**Migrations.** A statement is `<<script, place>>`; `schema` holds those in effect.
A loop looks a version up, executes the statements one by one, and records it. A
dump is a snapshot; `ImportTable` replaces one table.

**Retention.** Time is slots of a day in a calendar given by `MonthStarts`.
`Rule` is what one rule of `prune.go` keeps of the sorted candidates: the first
archive of every period, as long as periods are left; `SelectBackupsToKeep` is
the three rules together. `prune.go` knows an archive by its name alone, and so do
they: the piece that a failed run left counts like a whole one. A run writes,
encrypts, verifies, lists and removes, one archive at a time.

**LiveRestore.** `server` gives every part (mail, configuration, a symbolic link,
the database) the number of the change that wrote it. A backup packs part by
part while the server changes; a restore stops services, copies into place part
by part, imports, repairs permissions, starts services; both fail anywhere.

**Groupware.** A row has an href, a UID, a body, and the columns webmail lists.
`PutObject` is the INSERT ... ON DUPLICATE KEY UPDATE of DAV with both unique keys;
`CreateObject`, `UpdateObject`, `DeleteObject` are webmail's.

**Filters.** A request changes `rows`, lists them back, writes `script`, then makes
and renames the link; `SyncAllFilters` is the start-up, account by account.

**ProtocolAccess.** `attempt[c]` is one sign-in: groupware reads the account and
the app passwords by two statements; Dovecot asks the auth policy, runs its one
query, and asks or reports again. `proper` is history: there was a moment of the
attempt at which the offer was allowed.

**MailView.** The variables are the fields of the page's `state`; `calls` are the
requests under way, each served and answered by separate steps. The script of the
page runs undisturbed to its next `await`, which is where actions end.

**HostNames.** A host is a label and a zone. `BuildDomainDNS` gives the records a
domain should have, `ClientSetup`, `MailAutoconfig`, `ServiceDiscovery` and
`OutlookAutodiscover` what mail programs are told, `DesiredTLSHostnames` what a
certificate is asked for, `CertificateCandidateNames` (the page) and
`TlsInventoryCandidateNames` (`mailctl`) where it is looked for, `SNIHosts` what is
rendered into the mail servers' tables. Jobs keep the names of the moment in
which they were created, and certbot calls its directory after the first of them.
`outOfUse` holds the domains whose status is neither pending nor active, which
inventory and tables leave out and nothing else does.
`latest` is history: the job that called certbot last.

## 3. The runs

Times are of two TLC workers on a small machine.

| run | instance | states | shows |
|---|---|---|---|
| `quarantine_mixed` | 3 events, 2 sharing an ID; one direct and one SMTP worker; 2 resolutions | 477k, 2 min | rows, files, mailboxes and audit never contradict each other, the refinement of `Resolution`, every request returns |
| `quarantine_kept` | same events, 1 worker | violation | finding 1 |
| `login_one_account` | 1 account, 2 keys, 2 requests, 4 attempts, 1 change, clock 0..2 | 349k, 1.5 min | counting equals `FailureCounter`, full tally locks, late verifications bounded, attempts return |
| `access_two` | 1 account, 2 requests, 1 challenge, 1 change; 2 generated secrets and the empty one with 2 sessions, or 1 and the empty one with 3 | 5.7M, 1.8 min | enabled secrets proved, resets final, sessions proven, challenges spent |
| `access_password` | 2 requests, 1 secret, 2 sessions, one policy | violation | finding 2 |
| `maildir_one` | 2 messages, 1 request of any kind, batches, failures, restarts, no mail client | 820k, 0.5 min | refinement of `Mailbox` |
| `maildir_delete` | 1 message, 2 requests | violation | finding 3 |
| `compose` | 2 requests, 2 drafts; 2 messages, 2 versions, 1 sender, 1 send, or 1 message, 1 version, 2 senders, 3 sends | 5.8M, 2.3 min | saved texts kept, own drafts only, filed was accepted |
| `tls_two` | 2 workers, 2 jobs, 2 certificates, a domain in and out of use | 683k, 2.7 min | a running job is held or its worker dead, success is served and recorded, refinement of `JobQueue`, no starvation |
| `admin_two` | 2 requests, 2 sessions, 1 challenge at a time, 1 secret, 1 key | 4.2M, 2 min | factors presentable and kept, answers bounded, refinement of `Trust` |
| `retention_months` | 1 operator, 2 archives, a policy of 2 months, 3 days | violation | finding 4 |
| `estate` | the parts below, each by itself | 1.7M, 3 min | a property or two of each |

The parts of `estate`:

| part | states | property |
|---|---|---|
| maildir: 1 sent message, 2 requests that move it, a mail client | 168k | `SentStaysApart`, `MovesKeepMessages` |
| directory: 2 domains, 2 tenants, 2 users, 3 edits | 256k | `OneOwnerPerMailbox`, `QueriesAgree` |
| dns: 2 applies, 1 change by others, 5 records | 83k | `AppliedAsAnswered` |
| config: 3 runs of 2 kinds, 1 change of settings | 124k | `QuietRunIsCurrent` |
| schema: 2 loops, 3 scripts, 2 releases, 1 dump, 1 import | 113k | `RecordedIsApplied` |
| retention: 2 operators, 3 archives, 3 days in 4 months | 273k | `RetentionHeld` |
| restore: 1 backup, 2 restores, 2 changes | 179k | `RestoreIsWhole` |
| groupware: 2 hrefs, 2 UIDs and one of webmail, 4 requests | 40k | `PutIsReadable` |
| filters: 2 mailboxes, 3 syncs | 85k | `ScriptFollowsRows` |
| protocols: 2 attempts, 2 changes, 1 app password | 32k | `OpensByPolicy` |
| view: 2 messages, 3 pages, 2 acts | 146k | `ScreenIsTrue` |
| names: 2 domains, 2 deployments, 6 mail and 5 TLS forms, 3 posts, domains in and out of use | 187k | `NamesResolve`, `CertificatesFit` |

In the other parts the deployment is one of which `NamesResolve` says nothing: it
is costly, and constant there.

What the less obvious properties say:

- `ResolvedAsRecorded` and `StatusIsTrue` are two related invariants each:
  `ReleasedWasDelivered` and `DeletedLeavesNoCopy`, and `RunningIsHeldOrLost` and
  `SucceededIsServed`. The proofs treat the parts separately.
- `SuccessIsRecorded` excepts jobs that were worked on while another was, and jobs
  whose inventory run passed over their domain because it was not in use;
  `SucceededIsServed` excepts, for the mail services, a domain out of use when they
  were given their tables (see 6).
- `FullTallyLocksAccount` excepts accounts that an administrator's edit has made
  active: `UpdateUser` writes the status its form was loaded with and leaves the
  rows in place.
- `LateVerificationsBounded`: an attempt checks all its keys before it verifies,
  so during one lock fewer passwords are tried than requests are in flight.
- `ChallengeUsesBounded` excepts challenges whose DELETE failed; the code ignores
  that error.
- `SecretProved` says that a code of the secret in force was accepted. It does not
  say that the secret was generated: the empty one may be in force (see 6).
- `ResetIsFinal` is about generated secrets, since the empty one can be enabled
  again after every reset, and excepts a secret whose code had been accepted when
  the reset came (see 6).
- `SavedTextKept`: a text reported as saved is in a draft, or a version at least
  as new is in the sent folder. It excepts saves that failed between the removal
  and the write, answers that arrived when the window showed another text, and the
  messages whose draft a reply or forward took along; `TakesOwnDraft` has the
  second and the third exception. All are limits of the code, described in 6.
- `SentStaysApart` is about the origin header: while a file is being rewritten
  it is empty and refused by the validation, so the restore rules never see a
  sent message without its origin.
- `MovesKeepMessages` is about content: a message is readable while some file of it
  has its body, or a request that emptied a file holds the body and is about to
  write it back. It excepts the two cases in which the code loses it: the rewriting
  is stopped between the emptying and the writing, which leaves an empty file, or
  another request reads the file in between and writes back what it read (see 6).
- `FactorsKept` says that a factor disappears only when the settings were written
  between another request's read and write; that such writes do lose factors is
  described in 6. No handler removes a factor on purpose.
- `AnswersBounded` is `ChallengeUsesBounded` for the administrator, sign-ins and
  step-ups counted together.
- `ImplementsMailbox` holds for one request at a time and without a mail client.
  With two requests it does not (finding 3); and if a mail client renames a file
  while its origin header is rewritten by path, a second copy is left (see 6).
- `OneOwnerPerMailbox` excepts directories left behind by a change of name:
  nothing moves them.
- `AppliedAsAnswered`: "as answered" is judged if nobody else changed the zone
  since it was listed; the second half, that an apply which was not told to
  replace removes nothing, holds whoever interferes.
- `QuietRunIsCurrent` is a statement of repair: it is about a run that had nobody
  beside it, and says that whatever earlier, overlapping or killed runs left is
  put right by it.
- `RetentionHeld` asks for exactly what the policy promises, but for the oldest month
  on the days of a late cutoff (`CutoffIsLate`), which is finding 4; and it knows
  archives by name, as the code does, so that the piece of a failed run may stand in
  for a whole archive (see 6).
- `CertificatesFit` is about the job that called certbot last, if no settings were
  saved, and no domain's status changed, since it was created: another job's certbot
  may replace the certificate of the same name by one for fewer names. It says
  nothing of a domain out of use (see 6).
- `PutIsReadable`, `ScriptFollowsRows`, `ScreenIsTrue`, `NamesResolve` name their
  exceptions in the comment above them; each exception is a limit of the code
  described in 6.

## 4. Bounds and fairness

Bounds are constants named `Max...`, in the guards of the actions they bound.
`CHECK_DEADLOCK FALSE` is in every cfg because these counters end: when no
attempt, job or send is left the system rests, as the real one does between
requests.

Two requests suffice for the races here: each is between a read or check of one
request and a write of one other, or of the administrator, the mail server or a
crash, which are actors of their own. Where an object is shared by three (path
sharing) there are three events. Two penalties, a limit of two and a clock of
three instants give each lock a first, a repeated and an expired occurrence;
four attempts are the least with which a request could pass a check of the wrong
key. Two certificates are the least with an older and a newer one, two drafts
the least with a replaced and a written one. Two runs have a state constraint,
`Explored`, the union of two smaller instances whose bounds would multiply: in
`compose` the versions of two messages, and the senders and sends of one; in
`access_two` secrets and sessions.
`AdminAccess` has one challenge at a time: two of its requests race for the same
one, and its number is taken again when its row and its requests are gone; it has
two sessions because the first sets a factor up that the second signs in with.

In `estate`: three edits of the directory reach an address that is taken away and
given to another account; three runs of `ConfigApply` are two that overlap and the
quiet one after them; four months, with runs on the 28th of February, the 28th and
the 31st of March, hold two archives of one day, one week and one month (the last
two days share both) and the overflow of the calendar (on the last); two restores are a failed one and
its repetition; four requests of `Groupware` are the least with which each key of
a row can be taken by the other side; three posts of `HostNames` are two pages
saved and a job, or a job of another domain before it. `MailView` has two messages
and two acts beside the answers under way; one message is opened, and changes its
id, while the other is acted on.

The proofs remove the bounds from the question for every safety property of the
runs: they hold for any number of requests, rows, files, names and steps, and for
every value of the bounds (5).

Fairness is assumed where liveness is checked, and nowhere else; `estate` checks
safety only.

- `QuarantineFairSpec`: weak fairness of each request's own steps. The Go
  scheduler runs every goroutine, InnoDB grants a free row lock, and the local
  mail server answers or closes the connection (the code sets no deadline on it:
  a server that hangs for ever is outside the assumption). No failure is assumed
  to happen, so `RequestReturns` says that resolutions never wait for each other
  for good; the row lock is taken after the delivery, never during it.
- `LoginGuard!FairSpec`: each request's steps; `FailAborts` only when the
  request is in an insert deadlock, which InnoDB detects; an unlock commits or
  aborts, InnoDB bounding its wait for row locks.
- `TlsJobs!FairSpec`: the worker is started again, by
  `proidentity-tls-worker.timer` every minute
  (`deploy/proidentity-production-setup.sh`); commands return, if with an error
  (weak fairness of `GiveUp` and `Fail`); and a statement that is tried in run
  after run succeeds some time, crashes notwithstanding (strong fairness of
  `Select` and `Claim`). certbot has no time limit in the code: a certbot that
  hangs for ever is outside the assumption.

## 5. The proofs

Eight modules of theorems, checked by TLAPS for every value of the constants
that satisfies the assumption named in each module (`...Assumptions`). These say
that `None`, `Absent` and the like are not something else, that bounds are
numbers, that requests are finitely many where they are counted, and of what kind
the given lists are: scripts are sequences of statements and a release is a set of
versions (`Migrations`), the first day of a month follows that of the month before
by 28 to 31 days (`Retention`), no two wanted records stand in each other's way
(`Provisioning`). TLC evaluates every one of them on the instances of section 3.

Each proof about a component follows one pattern: `Init => IInv`, every action keeps `IInv` (a lemma
per action or per conjunct), hence `Spec => []IInv`, and the properties are
conjuncts or consequences of it.

| module | theorems about |
|---|---|
| `LoginGuardProofs` | `LoginGuard`: types, full tallies, late verifications, refinement of `FailureCounter` |
| `MailboxAccessProofs` | `MailboxAccess`: types, secrets, sessions, challenges, resets |
| `AdminAccessProofs` | `AdminAccess`: types, factors, answers, refinement of `Trust` |
| `ComposeProofs` | `Compose`: types, sent copies, drafts, saved texts |
| `MailctlProofs` | `Quarantine`: types, audit, release, deletion, files, refinement of `Resolution`; `TlsJobs`: types, workers, status, inventory, refinement of `JobQueue` |
| `ServicesProofs` | `Filters`, `Groupware`, `ProtocolAccess`: types and the property of each; `Maildir`: types, moves, sent messages, refinement of `Mailbox`; `MailView`: types, what the screen shows |
| `OperationsProofs` | `Migrations`, `ConfigApply`, `LiveRestore`, `Directory`, `Provisioning`, `HostNames`, `Retention`: types and the properties of each |
| `EstateProofs` | `Estate`: each part runs as its own specification says, and with that every property of the run |

### Requests and sessions

**Quarantine.** No property of a committed row is inductive alone: what a
row will say is decided earlier, in a request. `QuarantineIInv` adds that a request is
consistent with its program counter (`RequestsConsistent`), that at most one
holds a row's lock and that row is then still held (`LocksExclusive`), that a
message is filed before its row exists (`RowsWereInserted`) and only under its
own path (`FilesInPlace`), that a release about to be recorded has delivered
(`DeliveredBeforeUpdate`) and a deletion about to commit has purged
(`PurgedBeforeCommit`). Proved: `QuarantineTypeOK`, `AuditMatchesStatus`,
`ReleasedWasDelivered`, `DeletedLeavesNoCopy` and with them `ResolvedAsRecorded`,
`CopyNotOverwritten`, `OnlyADeleteRemovesAHeldFile` and the refinement of
`Resolution`.

**LoginGuard.** A full tally and its account's status are written by one
transaction, but the row was read two statements before. `IInv` says that row
locks exclude each other (`Exclusive`), that what a failure has read is still the
row when it writes, and what it is about to commit is one failure more than
the row has (`RowsRead`): this is the whole of the refinement of `FailureCounter`,
which takes the step at the commit. For `LateVerificationsBounded` those who have
verified during the lock of a key and those who are past its check are counted
together (`LateAt`): fewer than all requests, for the one that set the lock is
neither. Proved: `TypeOK`, `FullTallyLocksAccount`,
`LateVerificationsBounded`, `CountsLikeLoginLimiter`.

**MailboxAccess.** `IInv` adds that a request about to enable a secret has
had a code of it accepted (`EnablesProved`), and that a login that began under an
enabled authenticator either still sees it, or has read it as enabled
(`NeedsHonoured`): nothing but a reset disables one, so the decision cannot miss
it. `ResetIsFinal` needs the further invariant `ResetsKept`: a retired secret is
neither the pending nor the enabled one, and no verification is about to write it;
the empty secret, which a reset leaves pending, is never among the retired ones.
`ChallengeUsesBounded` needs `UseInv`, which counts the uses of a challenge
together with the requests that hold it (`UsesCounted`) and says that it has none
while its row is there (`RowsUnused`). Proved: `TypeOK`, `SecretProved`,
`SessionsProven`, `ChallengeUsesBounded`, `ResetIsFinal`.

**AdminAccess.** What the settings will be is decided when a request reads
them, so `IInv` says of every request (`Fits`) that the settings it is about to
write demand only secrets already proved and keys already stored, that they still
have every factor of the row if nobody has written it since, and that a
registration past its INSERT has stored a key. `AnswersBounded` counts as
`ChallengeUsesBounded` does. Proved: `TypeOK`, `SignInPossible`, `FactorsKept`,
`AnswersBounded` and the refinement of `Trust`, for which `IInv` numbers the
sessions in the order in which they were created.

**ProtocolAccess.** The account and its app passwords are read at different times,
so `Noted` says of an attempt that if it may open now, or has been told so, there
was a moment at which it might; and that no app password will have what it offers
unless one had it when it began. Proved: `ProtocolTypeOK`, `OpensByPolicy`.

### Mail

**Maildir.** `MaildirIInv` is that every file is in one place and that a request
stands where what it was asked has brought it. For `MovesKeepMessages`, `BodyIInv`
says that an open file is, under whatever name, of the message at hand (`OwnFile`),
that a request about to write back holds the body (`HasRead`), and that every file of
a message has its body or such a request (`Kept`), or the message is `Spoilt`: so the
content of one that is not goes only with its last file (`FilesAreKept`). For `SentStaysApart`, `SentIInv` says of a sent message that either nobody has
touched it, it is one file and whoever has validated it moves it to the trash
(`Untouched`), or every file of it is empty or says that it was sent (`Touched`). It
is proved under the hypothesis `SentNotReported`, that no request reports a sent
message as spam: a report is not validated, and does carry it away. The refinement
of `Mailbox` is proved of `WebmailSpec` under `OneAtATime`, that there is one request, as it
is run. Proved:
`TypeOK`, `MovesKeepMessages`, `SentStaysApart`, `ImplementsMailbox`.

**Compose.** `FiledWasAccepted` is strengthened to a count
(`FiledAccounted`): what is filed, and the requests between acceptance and filing,
are together no more than what was accepted; it rests on the cardinality facts of
the library. For `SavedTextKept` the invariant says that names are handed out in
order (`NamesUsed`), that the window shows the newest text of its message
(`TextNewest`), that a request about to clean up has filed a version as new as its
own (`FiledIsNew`), that while the window has not turned, a draft named by it or by
a request is of its message or was taken along (`OwnDrafts`), and that what was
answered as saved, or is about to be, is stored, be it in a request about to write
it (`SavesKept`).
Proved: `TypeOK`, `FiledWasAccepted`, `TakesOwnDraft`, `SavedTextKept`.

**MailView.** What the screen shows with nothing under way is decided by what is
under way: `MailViewIInv` says that the last list asked for is of the open folder,
or that this list is shown (`ListArrives`), that the selected message is shown, or
was asked for, or a list will select another (`ReaderArrives`), that what is marked
or selected is in the list, and that a dialog names what confirming it would delete
as long as nothing disturbs it (`DialogNames`). Proved: `MailViewTypeOK`,
`ScreenIsTrue`.

**Filters.** That a sync which ended alone left the right script is decided
while it runs. `FiltersIInv` says that whoever is alone has nobody beside it
(`AloneIsAlone`: whoever begins later takes its solitude away), that it has seen the
rows as they are from its list on (`SeenIsCurrent`), and that every mailbox it has
dealt with is written, and linked or at hand (`DealtWith`). Proved:
`FiltersTypeOK`, `ScriptFollowsRows`.

**Groupware.** Of each collection `GroupwareIInv` says that its two keys are apart,
that the UID of a body is the row's, that an address book lists what is in its cards
(which is stronger than what the property says of the list), and that an answer is
in the row of its name (`Sound`). One lemma replaces a row by another, which is what
every request comes to. Proved: `GroupwareTypeOK`, `PutIsReadable`.

### Operation

**TlsJobs.** `JobsIInv` is in four parts. `TablesOK` is the shape of the
tables. `Holding` adds that a busy worker's job is shown as running
(`BusyIsRunning`), without which a claim could find it queued. `Serving` adds
that `cert` is never older than what any job issued, and that a worker past the
reload of the proxy, or of the services, has loaded at least its own
certificate, unless the services' tables leave the domain out. `Recording` adds that
the jobs of workers who overlap are excused (`OverlapIsExcused`), that what a worker
is about to record is at least what any job that is not excused has issued
(`WillRecord`), and that the rows are so too as soon as such a job is past the
inventory or about to add a row to rows that were all equal (`Recorded`). Proved: `TypeOK`, `OneWorkerPerJob`,
`RunningIsHeldOrLost`, `SucceededIsServed` and with them `StatusIsTrue`,
`SuccessIsRecorded` and the refinement of `JobQueue`.

**Migrations.** That a recorded version is applied is not inductive: what a
loop may record depends on what it, or a loop of another release beside it, has
executed, and an import replaces the tables under both. `MigrationsIInv` says of
every loop that its release's earlier scripts are recorded and the first `done`
statements of the current one are in effect (`LoopsTrue`), of every dump that it is
true of itself (`DumpsTrue`), and of an import that nobody else runs beside it and
that what is already replaced is as in the dump (`ImportTrue`). Proved:
`MigrationsTypeOK`, `RecordedIsApplied`.

**ConfigApply.** `QuietRunIsCurrent` is about the end of a run, so `ConfigIInv` says
of every stage of a quiet run what it has put right so far: rendered, staged,
installed, loaded (`QuietIsOnTrack`), which rests on nobody running beside it
(`QuietIsAlone`). At which stages the mail files and the proxy's have been dealt with
differs between the unit and the TLS worker (`MailApplied`, `ProxyApplied`).
Nothing is assumed of what it found. Proved: `ConfigTypeOK`,
`QuietRunIsCurrent`.

**LiveRestore.** `RestoreIInv` says that an archive of an undisturbed backup is
true, part by part while it is packed (`ArchivesTrue`, `PackingTrue`), and that an
undisturbed restore has restored what is not left to do, with the services down
until then (`AloneHasRestored`). Proved: `LiveRestoreTypeOK`,
`RestoreIsWhole`.

**Directory.** `DirectoryIInv` is one conjunct per table, that its rows refer to
rows that exist, the two unique keys (`NamesUnique`, `LocalsUnique`), and that a
directory which no change of name has left holds the mail of the account at its
address (`MailAtAddress`). In every state with these keys the queries agree.
Proved: `DirectoryTypeOK`, `OneOwnerPerMailbox`, `QueriesAgree`.

**Provisioning.** Of a plan only the calls that are left are in the request; what
the others have done is in the zone. `AsPlanned` says what the zone is if a given
set of the planned calls has been made, `ProvisioningIInv` that it is this one as
long as nobody else has changed the zone, and what a request has removed is what its
plan told (`ApplyFormed`). With no call left the zone has for each wanted record
that record and nothing in its way, because a plan for one wanted record makes
nothing that stands in the way of another. Proved: `ProvisioningTypeOK`,
`AppliedAsAnswered`.

**HostNames.** `NamesResolve` follows from the types of the settings alone
(`SettingsFormed`). For `CertificatesFit`, `CertificatesIInv` says of a job that its
names are those the settings want until these change (`JobFormed`), and that the
certificate of the job that called certbot last is what that job asked for and, once
the job has ended with the domain in use, is in the inventory (`LatestIsThere`). That page and `mailctl`
find one certificate rests on every directory of certbot having a name that both
look for: no name in `.local`. Proved: `HostNamesTypeOK`, `NamesResolve`,
`CertificatesFit`.

**Retention.** The core is three lemmas without state: what the three rules do not keep
is not missed, by any calendar and policy (`ExpiredIsNotMissed`); it is not missed
later either (`NotMissedLater`), nor without another archive that is not missed
(`NotMissedWithout`). The second rests on the calendar where the cutoff is late: a day
of a late cutoff is followed in its month by such days only (`CutoffStaysLate`). `RetentionIInv` says that what a run is about to remove is not
missed, while others write, remove and are killed.
Proved: `RetentionTypeOK`, `RetentionHeld`.

### The installation

**Estate.** `PartsRunApart` says that a behaviour of `Estate` is, for each of the
twelve parts, a behaviour of that part's own specification: a step of the part it is
about is one of the part's, and every other step leaves the part as it is, which
its `[][Next]_vars` allows. What is proved of a part is therefore proved of the
installation, without looking at it again: `EstateTypes` is `EstateTypeOK`, and
`PromisesKept` the conjunction of every safety property that `estate` checks.
`PromisesKept` has one hypothesis, `SentNotReported`, which `SentStaysApart` needs
(see **Maildir**) and which the requests of the run satisfy.

### What is not proved

Every safety property of a passing run is stated by a theorem. The type invariants of
all modules are proved (those of the installation's parts together as
`EstateTypeOK`) and not run. Proved and no longer run are also `AuditMatchesStatus` and
`OneWorkerPerJob`, which follow from the refinements that are run.

Only model-checked is liveness (`RequestReturns`, `AttemptReturns`, `QueuedIsTaken`),
which needs fairness and ENABLED, out of reach of the provers.

## 6. Findings

Each run of kind "violation" exhibits one disagreement between the code and a
test, message or comment of the repository.

1. `quarantine_kept`: the clean-up after a failed INSERT removes the file of an
   earlier, held event with the same Message-ID (`sql_store.go:944`).
2. `access_password`: a login that verified the old password creates its session
   after the change has ended the account's sessions (`handlers.go:1672`).
3. `maildir_delete`: a message restored between the check and the deletion is
   deleted from the inbox (`maildir.go:330`).
4. `retention_months`: on the last days of a longer month `AddDate(0, -M+1, 0)` runs
   over into the next month, and the oldest month of the policy is pruned: one month
   less is kept than `deploy/devmail/README.md:43` says ("Defaults keep 7 daily, 4
   weekly, and 12 monthly backup archives."; `backup/prune.go:113`).

Met while modelling, each visible in the model as an exception of a property or
as an action, and not run on their own.

Mail and sign-in:

- An expired lock is reset by a second statement that may hit a new lock
  (`sql_limiter.go:71`, `ClearLock`).
- A verification in flight enables its secret although an administrator's reset
  has come between (`webmail/sql_store.go:781`; exception of `ResetIsFinal`).
- A verification does not ask whether an enrolment is pending: after a completed
  enrolment or a reset the pending secret is `''`, a code of it is accepted, and it
  becomes the secret in force, in place of a generated one too
  (`webmail/sql_store.go:774-787`, `ReadPending`; the case `Empty` of `SecretProved`
  and the exception of `ResetIsFinal`).
- Of two moves of one message to the trash, the second may read the file that the
  first has emptied to add the origin header, and write back the header alone: what
  is in the trash, and can be restored, has no content (`maildir.go:672-696`;
  `overlapped`, exception of `MovesKeepMessages`).
- A stop or a restart between the emptying of a file and its writing leaves it
  empty, under its old name, and the message can no longer be opened, moved or
  deleted (`maildir.go:685`, `HalfWritten`; exception of `MovesKeepMessages`).
- Rewriting the origin header by path recreates a file that was renamed in
  between: a second copy (`maildir.go:685`, `Truncate`).
- A restored message keeps its origin header and names the wrong folder when it
  is trashed again (`maildir.go:676`, `Tag`).
- Reply and Forward keep the name of the draft shown before, and the next save or
  send of the window removes that draft, of another message, although its save was
  answered "Draft saved to mailbox" (`static.go:2985-3004`, `OpenResponse`;
  `carried`).
- The answer to a save puts its draft's name into a window that shows another
  message, whose next save removes that draft (`static.go:3121`; `turned`).
- A save that fails after removing the old draft loses it (`maildir.go:361-376`;
  `torn`).
- A message that was accepted is answered as failed when QUIT or the sent copy
  fails (`webmail/sql_store.go:1060`, `Deliver`, `SendFails`).
- A draft saved under another sender is not found when the message is sent
  (`handlers.go:666`, `DropDraft`).
- The dialog of a deletion names the selection of the moment it opens, and the
  confirmation takes the selection of the moment it is pressed; a late list is
  shown under the name of whatever folder is open by then; a right click marks a
  row without drawing the reader anew (`MailView`, exceptions of `ScreenIsTrue`).
  The folder may also change under the dialog, when an answer comes late.
- Dovecot does not look at the protocols an app password was made for; only
  groupware does (`ProtocolAccess`, `QueryPassdb`).
- A PUT of a UID that is stored under another href updates that row and is
  answered as stored at an href that does not exist
  (`groupware/sql_store.go:172`; exception of `PutIsReadable`).
- A filter that moves to a folder the renderer refuses is stored, and fails every
  later sync of the account; requests that overlap may write an older list last;
  a start-up skips accounts without filters, so a deletion whose sync failed is
  not repaired, and stops at its first error; an update that changes nothing is
  reported as not found (`webmail/sql_store.go:358`).

Administration:

- With two workers the inventory may end with the older certificate until the
  next run (`cmd/mailctl/main.go:582`; `Claim`, exception of
  `SuccessIsRecorded`).
- A certificate job is created and claimed without a look at its domain's status,
  and the inventory and the SNI tables are read of pending and active domains only:
  the job of a suspended or disabled domain succeeds without a row in the inventory
  and without an entry in the tables (`cmd/mailctl/main.go:590`, `321`,
  `admin/sql_store.go:1769`; exception of `SuccessIsRecorded`, `SucceededIsServed`
  and `CertificatesFit`).
- A write of the admin's second-factor settings overwrites what another handler
  has written since it read them: an authenticator that was just enabled, or the
  switch of the hardware keys, is lost (`admin/sql_store.go:493`, `Save`).
- A challenge for the local authenticator that was opened before ProIdentity Auth
  was enabled is still accepted afterwards: the answer is checked by the
  challenge's provider, not by the one in force (`admin/mfa.go:133`, `Check`).
- The approval of hosted TOTP switches it on for the account that the settings
  name by then, enabled or not (`admin/mfa.go:548`, `Confirm`).
- The registration of a key reports hardware keys as enabled even if neither
  write of the switch succeeded (`admin/webauthn.go:140-143`, `FlagKeys`, `Fail`).
- A mailbox directory stays behind when the account or domain is renamed
  (`renamed`, exception of `OneOwnerPerMailbox`).
- The shared mail host may be called like an alias of the domain (`webmail`,
  `autoconfig`, ...): the records wanted then contradict each other. Automatic
  setup always answers `mail.<domain>` (`docs/admin-panel.md:276`), which is not
  published when the shared host lies inside the domain under another name
  (exceptions of `NamesResolve`).
- The TLS page wants `webmail` and `madmin` in a certificate also when no web host
  is configured, when these names are not published. A saved certificate name is
  the first to be looked for but is never given to certbot, and the tables for SNI
  do not look at `use_for_mail_sni`. A job keeps the names of the moment it was
  created and may name hosts of other domains. A certificate is called after the
  first name of its job, so that the late certbot of an earlier job replaces a
  newer certificate by one for the names of its own job
  (`cmd/mailctl/main.go:733`, `RunCertbot`). `mailctl` looks for `.local` names,
  the page does not (`HostNames`).

Operation:

- A run that fails while it writes leaves a piece under the archive's final name
  (`backup/backup.go:380`), and a prune, which looks at names only
  (`backup/prune.go:76`), keeps it as the newest of its day, week and month and
  removes the whole archive there (`archives`, "partial").
- Backups skip symbolic links, certbot's `live/` among them (`Links`).
- A restore does not stop the TLS worker, the config-apply unit or the backup
  timer; after any error the services it stopped stay down; its copy deletes
  nothing; and after the import of an older dump a table that it did not replace
  makes a later CREATE TABLE fail (`LiveRestore`, `Migrations`).
- Two renders write one temporary file: one may install the other's half
  (`cmd/mailctl/main.go:1611`, `OpenTemp`, `Mixed`); the next quiet run repairs it.

## 7. What is not modelled

Abstractions inside the modules: message content, MIME, attachments and
addresses; a sent copy cut short by an error; a mail client's flags on drafts;
errors of removing an existing draft; the wording of answers; audit entries
other than the quarantine's; the accounts of the hosted provider, the usage
counters of keys and the operations that ask for an administrator's step-up; the
auth-spray alert of the limiter (it writes audit entries without a lock);
creation of folders; the contents of certificates and the challenge types of
certbot, whose refusals are `GiveUp`; quotas, which Dovecot enforces; the text of
rendered files and of Sieve rules; what a migration does to rows; the format and
encryption of archives; PROPFIND and REPORT, which read the rows of `Groupware`;
records whose name no other record can have (SRV, DKIM, DMARC); the search box
and the other pages of webmail. `VerifyProtocolPassword` of webmail
(`webmail/sql_store.go:910`) is called by nothing. Handlers of the directory run
one at a time: all but `CreateDomain` change the tables by a single statement.
The statement that resets an expired lock without looking again is in `LoginGuard`
(`ClearLock`), but no property is about it: it may lift a lock that was set in
between, and leaves tally and status alone.

Components left out:

- *Hosted authentication client*: calls to a remote service, whose answers are
  nondeterministic choices in `MailboxAccess` and `AdminAccess`.
- *Spam training*: one HTTP call without state; a report is a move in `Maildir`.
- *Admin pages*: one page of rows at a time, whose requests the modelled handlers
  check.
- *Audit presenter, translations, health, headers, password hashing*: formatting,
  constants and calls to libraries.
- *Start-up and configuration*: reading the environment and wiring.
- *Installation scripts*: run once by hand; the script that applies the
  configuration is in `ConfigApply`.

## 8. What could follow

- A composition of `LoginGuard` and `MailboxAccess`: the account's status is the
  variable they share.
- Overlapping handlers of the directory, whose checks precede their statement.
- Two mailboxes in `MailView`, and the search box.
- Of `Maildir` with a mail client and several requests: what of `Mailbox` is left
  if the copies that rewriting a header leaves behind are counted as one message.
