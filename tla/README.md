# A formal model of pagebin

pagebin is a single Rust process that publishes static sites under `/s/<slug>/`:
an administrator uploads HTML files or a ZIP, the server stores a SQLite row and
a content directory per site, and viewers read them, behind a password if the
site has one. This directory holds TLA+ models of the parts of it that keep
state, TLC configurations that check them on small instances, and theorems that
TLAPS proves for every value of the constants.

```
tlc -workers 2 -config store_faults.cfg MCSiteStore   # any run of the table below
tlapm SiteStoreProofs.tla             # and the other *Proofs modules
```

All paths below are relative to the repository's root (`src/` is its Rust code, `css/` and
`static/` what the browser gets).

## 1. The system

| component | source | state | operations |
|---|---|---|---|
| storage core | `src/sites.rs`, `src/sites/{publish,content,replace,settings,delete,archive}.rs` | SQLite rows, `sites/<slug>/`, `tmp/<random>` (staging), `tmp/<random>.old` (parked), one mutation mutex | publish, replace, update, delete, archive, reads |
| boot and sweeper | `src/sites/sweep.rs` | the same; the list of expired slugs | reconcile at boot, sweep at every interval |
| catalog | `src/db.rs`, `migrations/0001_init.sql` | rows | insert, replace, update, delete, select |
| viewer access | `src/routes/view.rs`, `src/routes/unlock.rs`, `src/auth/viewer_tokens.rs` | signed cookies in the browser | visit, unlock |
| API and settings form | `src/routes/api.rs`, `src/routes/settings.rs` | none of their own | PATCH, POST, PUT, DELETE |
| password work | `src/auth/password.rs`, `src/auth/limiter.rs` | admissions, worker permits, failure history | verify, hash |
| sessions and forms | `src/auth/sessions.rs`, `src/routes/{admin,publishing,management}.rs` | session store in memory, cookies, tokens in pages | login, load, submit, logout |
| signing key | `src/auth/key.rs` | the key file | load or create |
| stylesheet | `css/daisyui.mjs`, `css/daisyui-theme.mjs`, `css/tailwind-input.css` | none: built once from options | list themes, define themes, add prefixed items |
| administrator's pages | `static/admin.js`, `templates/`, `src/routes/admin.rs` | the theme cookie; buttons, status lines and the selected page size of a page | toggle the theme, search, select a size, copy a link |
| payloads, forms, ZIP validation, host dispatch, configuration, errors | `src/auth/tokens.rs`, `src/routes/upload.rs`, `src/sites/{new_site,validate}.rs`, `src/host.rs`, `src/config.rs`, ... | none | pure functions |

How they interact:

- Every HTTP handler runs on tokio and may be dropped at any await when its
  client disconnects. Publication, replacement, settings and deletion are handed to a
  detached task (`sites.rs`, `detached`) and run on; an archive, a visit, an
  unlock and a PATCH before its save end with their request.
- Mutations of rows and directories exclude each other by the one mutex
  `Sites.mutation`; staging an upload and every read are outside of it.
- SQLite and the file system are changed by separate calls with no transaction over
  both. Each call may fail, a commit may take effect and still report an error, and the
  process may die between any two. The only recovery is the boot's
  reconciliation.
- A password is hashed on a blocking thread that outlives its request. Rows and sessions
  read before it are stale after it, so the handlers check some of them again.
- A visit reads its row in one await and the site's files in later ones, without the
  mutex, so mutations, crashes and boots may come between them.
- A browser's tabs share the theme cookie; a page keeps the theme of the cookie it was
  requested with, and its script runs after it is shown.
- A viewer's grant names the salt of the password it was earned with; the
  database row is the only revocation list.

What makes each part correct, and is hard to test:

- storage: no failure, crash or interleaving leaves a row over bytes that are
  not its complete upload; no failure destroys the content of a listed site; the boot
  brings rows and directories back together; every job returns the mutex.
- boot and sweeper: only expired sites go, and they do go.
- access: nobody is let in without having proved the password generation of the
  row that lets them in; a grant lasts exactly its lifetime under a clock that may jump.
- settings: a save does not undo what it did not see.
- password work: permits and failure counts follow the job, not the client.
- sessions: revocation and expiry hold for forms that wait for a worker.
- visits: nothing is sent that an acknowledged mutation had done away with, and no
  existing file is answered with a 404 while nobody changes the site.
- pages: a chosen theme is what the next page shows, under whatever rules the options and
  the plugins' passes produce; buttons and status lines agree whatever the browser answers.

`PROJECT.json` lists the hazards at their lines with the properties that cover
each one.

## 2. Modules

| module | what it is |
|---|---|
| `SiteCatalog` | abstract specification: the rows, and the four atomic changes a reader may see |
| `SiteStore` | the storage core, the boot and the sweeper, one database or file operation per step |
| `SiteStoreProofs`, `CatalogProofs` | the inductive invariant of `SiteStore` and its store at rest; it implements `SiteCatalog`, and who answers for a row that does not fit its content |
| `SiteVisits`, `SiteVisitsProofs` | visits to files, one look at the disk per step, beside `SiteStore`; what they may rely on and what they are sent |
| `SiteAccess` | viewers, grants and PATCH over a changing site, whose steps are those of `SiteCatalog` |
| `SiteAccessProofs` | the inductive invariant of `SiteAccess` |
| `LoginGate`, `LoginGateProofs` | admissions, workers and the failure limiter; that permits match work, histories follow the failures, and delays the histories |
| `AdminSessions`, `AdminSessionsProofs` | the session store and the forms it authorizes; its theorems |
| `KeyFile`, `KeyFileProofs` | the signing key's file, created by racing boots; its theorems |
| `ThemeSheet` | the theme rules the two style plugins emit for given options, and the cascade over them; the reference they are compared with |
| `StyleItems` | the other styles of the bundle: which are included, where a prefix goes, and how layers are nested; extends `ThemeSheet` |
| `CopyLinks` | the copy buttons of a page and their asynchronous handler |
| `AdminPages`, `AdminPagesProofs` | one tab on the administrator's pages: extends `StyleItems` and `CopyLinks` with the theme cookie, navigations and the page size; its theorems |
| `MC*` | the small instances TLC checks |

Composition: `SiteStore` is shown to implement `SiteCatalog`, and the
administrators of `SiteAccess` take `SiteCatalog` steps. So what `SiteAccess`
assumes of rows is what `SiteStore` provides. Two of the catalog's steps are
stricter in `SiteAccess`: an entry is one of the site's files
(`DivergenceIsReported` of `SiteStore`: unless a replacement reported an error), and a
new password has a fresh generation. `SiteVisits` extends `SiteStore` and interleaves visits with
all of its steps; `VisitsAreReaders` proves that they add nothing to it, so that every theorem
about the store holds beside them.

Definitions marked "Mistaken" in the modules are not part of any specification.
They are plausible wrong versions of a definition, kept to confirm that
the properties notice them.

### SiteStore

A job is an admitted request; `pc[j]` names the await it is at, and each action runs
to the next one. `Stage`/`Write` are `Content::new` and `Content::write`;
`Lock` takes `Sites.mutation`; `Insert`, `Reserve`, `Install`, `Commit` are
`try_publish`; `Find`, `Park`, `Swap`, `Unpark`, `Record`, `Discard`,
`Unswap`, `Restore` are `replace::swap` with `Content::swap_into` and
`swap_back`; `DropReservation` and `DropStaging` are `Content::cleanup`;
`Check`, `ProveEntry`, `Save` are `settings::update`; `Look`, `DeleteRow`,
`RemoveContent` are `delete`, taken by jobs and by the sweeper; `Open`, `Pack`,
`Cancel` are `Sites::archive`. `ClearStaging`, `RemoveOrphans`, `PruneRows`,
`Serve` are the boot's passes, which run alone.

A directory holds a tree: the upload it comes from and whether it is empty, partial or
whole. Copying, creating and removing trees is not atomic: an error
leaves a partial one, and a crash does. A row records the upload its counts describe, the entry,
the password generation and the expiry. `Content`'s two ownership flags are `reserved` and
`moved`, because cleanup trusts them and not the disk. The constant `Faults`
selects which of file system errors, database errors (a statement that fails, or takes
effect and still reports failure) and crashes may happen. One error needs no fault: a `Write` fails for an
upload that names both a file and a path below it, which validation lets through.

Left out: titles, timestamps, sizes as numbers, symbolic links and permissions
(`validate_storage` either fails as a file system error or has no effect), and the
content of files. A random slug may be any slug; a random name under `tmp/` is unused.

### SiteVisits

`Visit` is `view::serve` up to `serve_open`: one database read, which may fail, and the
answers to sites nobody can see. `Enter` is the look at the directory of a visit to the site
itself, `LookFor` is `safe_metadata` of the file, `OpenFile` the second look by `ServeFile`
or `ServeDir`, `LookForPage` and `OpenPage` the same two for the site's own `404.html`.
Each is one await; `Trip` is any of them failing for another reason than absence. In a
directory that is being written or removed a file may be there or not. `place`, `asked`,
`seen` and `answer` are the handler's locals; `placed`, `gone`, `outdated` and `quiet` are
history: which uploads have stood at a slug, which of them an acknowledged mutation had
done away with when a visit read its row, and whether anybody held the mutex for its site since.

A file that was opened is sent whole, since an open descriptor survives renames and
removals. Left out: decoding of the path, trailing-slash redirects, directories with an
index file, conditional and range requests, and passwords (`SiteAccess`).

### SiteAccess

`Visit` is `view::serve` up to the file transfer, `Submit`, `Verify` and
`Complete` are the unlock form before, in and after the password worker. The
administrators' `Publish`, `Replace`, `Save` and `Remove` are atomic, as `SiteStore` is shown to make them. `Read`, `Prepare` and
`Apply` are the PATCH route: its row is read before the hashing, and
`Sites::update` runs after it. `Clock` sets Unix time to any value, forwards or
back. A generation is a salt with its password. `proofs` is a history variable: the
generations a viewer has shown to know.

Left out: the pre-unlock challenge, origin checks (both end in "refused"), the
worker queue (it is "busy"; see `LoginGate`), and which bytes are transferred (`SiteVisits`).

### LoginGate

A request holds an admission for its whole life and its job a worker permit; `job`
goes on when the request is gone. `Check` is the closure of
`verify_password` with `Limiter::complete`, which runs under the limiter's lock;
`Resume` and `Wake` are the rest of `password_job`. `Retained` is `retain` with a condition on
the instants: the entries that stay, in their order. `log` is a history variable: for each
address every counted failure in completion order, without bound or pruning.

### AdminSessions

A session and its CSRF token are named by the number of the random identifier.
`Create`, `LooksUp`, `Verified` and `Logout` act on the store at an instant at most
`MaxLag` in the past, because the code samples the clock before it takes the
lock. `Verify` and `VerifyAgain` are the two `verify_form` calls around the password
worker. Responses that set or clear the cookie may be lost.

### KeyFile

A boot is a process that calls `load_persisted` once, one system call per step; a key is
named by the boot that drew it. `synced` says what a power loss spares: nothing, the file's
bytes, or its directory entry too, which is what `sync_all` on the file and then on the
directory make durable. Before that, any shorter file or none may be found. `Fail` stands for
every error and for a killed process: both leave the file as it is.

Left out: permissions and the comparison of inodes, since nothing else touches the file.

### ThemeSheet

A rule is the set of its selectors, whether it stands in the dark media query, and what it
declares; spelling is left out. `DaisyThemes` is `pluginOptionsHandler` with its three cases and,
for a list, its three passes and the shortcut for a single default theme; `CustomTheme` is the
theme plugin; `Sheet` is a build, in the order of the `@plugin` lines. `Matches`, `Specificity` and
`Shown` are the browser's cascade, by the CSS specifications. `Wished` says what the options ask
for without rules, passes or specificity.

### StyleItems

`Items` is what `daisyui_default` adds beside the themes, after `shouldIncludeItem`: base styles through
`addPrefix`, components and utilities through `addPrefix` and `nestCssLayers`. The modules of the single
items are the same three lines around different data, so that one operator stands for each kind and the data
is the constant `Parts`. A style is the list of its declarations, each with the keys on the way to it; a text
is a sequence of atoms, cut where the code looks for the start of a name, so that the scanner of
selectors (`prefixSelectorClasses`, `getEscapeEnd`, `getIdentifierEnd`), the exceptions and the at-rule and
variable cases of `getPrefixedKey` are those of the code.

The instance writes its texts in parts, and says of each whether it holds a name that a prefix belongs
to. `Asked` puts the prefix there without scanning anything; `SameSayings` compares what two lists of styles
say of each selector in each layer without looking at how they are nested.

Left out: the declarations of the real components, the extension of the theme (`variables_default`),
the drawer variants, and logging.

### CopyLinks and AdminPages

`Attach` is the body of the loop in `admin.js`, `Click` its listener up to the `await`, `Settle`
the rest with either result, `Leave` a new page. `AdminPages` follows one tab: a navigation is a
request whose answer has not come, the old page lives on under it, and a newer one replaces
it. `Toggle` posts the form of `theme.html` (or a value no page offers), `AnswerTheme` and
`Refuse` are `set_theme`, `AnswerPage` renders with the theme of the cookie the request carried.
`SelectSize` is a `change` of the page size before or after the deferred script listens;
`OtherTab` stands for all other tabs of the browser.

Left out: everything else on these pages (`AdminSessions`), the viewers' pages, and
the `Referer` being absent, as the responses' `same-origin` policy makes browsers send it.

## 3. What is checked

| run | expected | properties |
|---|---|---|
| `store_faults` | holds | `TypeOK`, `RowIsWhole`, `NothingLost`, `CleanupKnowsDisk`, `ArchiveIsStable`, `DivergenceIsReported`, `AppearsInstalled`, `NeverAdopted`, `ImplementsCatalog` |
| `store_live` | holds | `JobsReturn`, `ExpiredGo`, `SaveKeepsCurrent` |
| `visits` | holds | `RestIsClean`, `NothingOutdatedIsSent`, `QuietVisitsAreExact` |
| `access` | holds | `GrantsAreEarned`, `ServedIsUnlocked`, `GrantsAreNotRefreshed`, `UnlockedOpens` |
| `patches` | holds | `EntryExists`, `ReplacedStaysReplaced` |
| `login_gate` | holds | `HistoryIsTheLog`, `PermitsMatchWork`, `DelayIsExact`, `GuessesAreAccounted`, `PermitsComeBack` |
| `sessions` | holds | `TypeOK`, `FormsFollowLogout`, `SessionsRunOut`, `LiveSessionsStay`, `RoomIsUsed` |
| `key_file` | holds | `KeysAgree`, `CreatedKeyLasts` |
| `admin_pages` | holds | `CopyStatusAgrees`, `SizeIsApplied`, `ThemesFollowOptions`, `PrefixReachesNames`, `LayersKeepRules`, `ChosenThemeIsShown`, `ButtonsComeBack` |
| `sweep_stale` | violated | `SweepRemovesOnlyExpired` |
| `replace_error` | violated | `FailedReplaceKeepsContent` |
| `patch_lost` | violated | `AbsentKeysKeep` |

What each question is, and why its bounds suffice:

- **`store_faults`**: does any failure leave a row over bytes that are not its own,
  or destroy a listed site? Two jobs of any operation meet at one slug with the sweeper,
  with every file system error, database error and crash, boots included. Only the mutex
  holder changes rows and `sites/`, so two jobs and the sweeper give every
  pair of a mutation and an overlapping staging, archive, deletion or leftover.
  `MaxSlugAttempts = 2` lets a publication retry after a conflict and run out.
  The uploads have different files, so that a replacement that fails half way can leave a
  row that names an entry the site does not have, or a row without a directory: `DivergenceIsReported` says, of
  every moment at which nobody holds the mutex, boots included, that this happens only after a replacement of
  the site that told its caller of an error or that a crash cut off. So a site that the
  boot removes because a crash fell between the two renames of a replacement is accounted for; nothing
  stronger is true of it, since the boot keeps no parked tree.
- **`store_live`**: does every job return, and does every expired site go? File system errors
  happen; database errors and crashes do not, since a statement that fails
  forever, or a process that never stays up, lets nothing happen. For the same reason the sweeper's
  reading of its list, whose failure ends a round, does not fail here; a failed removal does, and the round
  goes on with the next slug. Saves with every
  combination of kept and changed fields race here with the other mutations.
- **`visits`**: what does a visitor get? One visitor and two jobs at one slug, each visit
  interleaved with every step of publication, replacement and deletion, with a crash and a boot at any
  point, and with failures of the visit's own reads. A visit is at one slug and mutations of other
  slugs do not touch it, so one slug is enough. The storage itself works: a
  failed removal may leave an orphan until a later boot, as the code says, and then neither
  `RestIsClean` nor `QuietVisitsAreExact` is promised (`NothingOutdatedIsSent` is, as section 4 shows). Uploads that cannot be staged do happen, and
  `RestIsClean` says that they leave nothing behind. What a failed removal leaves is followed in `store_faults`: it
  never shows under a row (`RowIsWhole`) and no later site adopts it (`NeverAdopted`). One upload has the error page, one
  the entry, one both, so that looking for a file and for the page have different results in each.
- **`access`**: who gets in? One viewer with two passwords, two
  generations and a clock that moves anywhere. A grant
  depends on one site, one viewer and one cookie, so one of each is enough for TLC; the
  theorems cover the rest.
- **`patches`**, **`patch_lost`**: a PATCH against all other changes of a site,
  with uploads of one and of two files.
- **`login_gate`**: what does a login attempt cost, whatever its client does? `GuessesAreAccounted` says of
  every check that started, its client gone or not, that it ends in a result, and with the log of its address
  holding exactly the wrong guesses that were checked for it. Two checks from one address, one from another, and one
  hashing, with two admissions, one worker, a table of one address and a
  threshold of one: every limit is reached and left again. Deadlock is not checked: each
  request is submitted once and the run ends when all are answered and the clock has stopped.
- **`sessions`**: two tabs of one browser, a store of two, three sessions and
  store operations up to one tick late.
- **`key_file`**: which keys can be in use at once, and which can ever come back? Four
  boots are two that race, one that comes after a crash and one after a
  power loss; two bytes are enough for a short file. A key that was only read may be lost
  with the power, because reading does not sync; the two properties say exactly what is left.

- **`admin_pages`**: a stylesheet is built from each of the instance's options. For the themes: every list of up
  to two entries out of two bundled themes and an unknown one, with any flags, no theme and all themes,
  alone or with plugins that complete a bundled theme or define two halves of one, with and without a
  prefix; two entries are enough for every pair of passes to meet. For `PrefixReachesNames`: every ordered pair that CSS allows of 20
  parts of selectors (own and excepted classes, escapes of each kind, strings, comments, attributes,
  combinators), since the scanner's state after one part is what the next one meets; and keys and values of every kind. For
  `LayersKeepRules`: every ordered triple of nine rules of two selectors, in and out of layers, with at-rules
  around the selector or inside it. The application's own options, which have no prefix, are then browsed, with
  two buttons, two sizes and a second tab. Deadlock is not checked, as other options are only built.

  Two things the code does not promise are not asked. `nestCssLayers` may move a rule past a rule of another
  selector, or past a conditional at-rule outside of any layer, of which the bundle has none but
  keyframes and registered properties. And with a prefix it takes a percentage like `3.7%` of a
  keyframe for a class; the instance has no such key.

The catalog that `ImplementsCatalog` refers to is `SiteCatalog!Spec` with the identity on `row`.

### Fairness

`SiteStore` assumes weak fairness of the running steps of each job, of the sweeper and of the boot
(detached tasks are polled to their end; the interval of `sweep::start` keeps firing), and strong
fairness of taking the mutex, because tokio's `Mutex` is handed out in
the order of arrival. Nothing is assumed of clients, faults, crashes or the
clock. `LoginGate` assumes weak fairness of handlers, blocking jobs and time, and nothing
of clients. `CopyLinks` assumes that the browser settles every `writeText` of a page that is still
there; nothing is assumed of clicks or navigations. `SiteVisits`, `SiteAccess` and `AdminSessions` state no liveness.

### Where the code and its comments disagree

- `sweep_stale`: the sweeper reads the expired slugs, then takes the mutex for each and
  deletes it without reading its expiry again. A site whose expiry was extended in between, or a
  new one published at that slug, is deleted. `sweep.rs:31` says it "Deletes
  every site whose expiry has passed".
- `replace_error`: `content.cleanup().await?` at the end of a replacement that took effect
  can turn it into an error. `replace.rs:10` and the message of the form
  (`publishing.rs:374`) say the existing content was kept.
- `patch_lost`: PATCH fills in absent keys from a row it read before the mutex and
  before the hashing, so a save in between is undone; the comment of `Patch`
  says "absent keys keep the current values" (`api.rs:56`).

Two more that no run is spent on. `set_theme` "returns to the sending page" (`admin.rs:192`) by
a redirect to the path of the `Referer`; the page of a rejected publication is the answer to `POST
/sites`, a path without a GET, so the toggle ends there in a 405. `ChosenThemeIsShown` says so, and that it is the only
exception. And with a prefix the daisyUI plugin's theme controllers have a prefixed class
while those of the theme plugin do not (`daisyui.mjs:65`, `daisyui-theme.mjs:36`); the
application uses no prefix.

## 4. What is proved

Every theorem is checked by TLAPS for any sets of slugs, jobs, files, viewers and patches and any
subset of faults (unless said otherwise), from the assumptions named in the modules: absence (`None`) is
not a value, jobs are not the sweeper, viewers are not patches, bounds are numbers, the kinds of
items are disjoint.

**`SiteStoreProofs`.** `RowIsWhole` and `NothingLost` are not inductive: that a publication commits a
whole tree depends on what its earlier steps did. `IInv` adds what the handlers know at each
await: only the mutex holder is inside a mutation (`MutexHeld`), the boot
is alone (`BootAlone`), a handler runs for a request of its kind
(`RightHandler`), the ownership flags follow it (`FlagsFollow`), and what
the holder last saw of its row and directory is still there (`HolderKnows`). There is a
lemma per action; `Invariance` combines them, and `RowsAreWhole`, `NoContentLost`,
`CleanupIsSafe`, `ArchivesAreStable`, `TypeCorrect`, `SitesAppearInstalled`,
`PathsAreNeverAdopted`, `SavesKeepTheCurrentRow` follow from it.

`RestsAreClean` is `RestIsClean` for stores whose only fault is a crash (`Faults \subseteq {"crash"}`). It is
false of a store whose file operations fail: a removal that failed is only reported. `RestInv` says, on top of `IInv`, at which awaits a job may
own a staging or parked tree (`Tidy`), that a row's and a directory's existence agree unless the mutex holder
is at the awaits between the two (`Matched` or `Midway`), and what each boot pass leaves for the next one:
`tmp/` is empty, then no directory is without a row, then no row without a directory.

**`CatalogProofs`.** `CatalogImplemented`: `Spec => Catalog!Spec`. Under `IInv` each step of `SiteStore`
changes at most the rows a `SiteCatalog` step changes, or none.
`DivergencesAreReported` is `DivergenceIsReported`, under any faults: `DescribedInv` says that a listed site
whose directory is missing or is not what its row describes always has a replacement that answers for it
(`AnswersFor`), that still holds the mutex, was cut off, or answered with an error; it goes on answering until it has
recorded the row, which then fits (`GoesOnAnswering`).

**`SiteAccessProofs`.** `GrantsAreEarned` is not inductive either: the grant of a step comes from a
row read two steps before. `Inv` adds what a request holds over its awaits (`Holding`: a row,
for an unlock a protected one), that a request past the password worker has proved the generation it
read (`Proved`), and that a grant ends `GrantLife` after it was made (`Lasting`). `GrantsEarned`,
`ServedOnlyUnlocked`, `GrantsRunOut`, `UnlocksTakeEffect`, `ReplacedNeverReturns`
and `EntriesExist` follow.

**`KeyFileProofs`.** `KInv` says that a boot which is making the file made the one that is
there, that keys returned since the last power loss are the file's, and that a key whose creation
succeeded is the file's for good. `OneKeyPerMachine` and `CreationLasts` follow.

**`AdminSessionsProofs`.** `SInv` is `TypeOK` in parts plus that a form past its first lookup
names a session (`Named`) and that only identifiers already drawn have ended. That a new
session fits the capacity (`Within'` in `BrowseSInv`) is an argument about cardinalities: the purged
store is below it, and one entry is added. `AuthorizingStep` says that a form is only
let through by a check that finds its session stored and not expired; `FormsFollow` and
`SessionsExpire` follow from it, `LiveStay` and `FullMeansFull` from what a purge leaves
(`PurgeShrinks`). They hold for any `Capacity`, `Lifetime` and `MaxLag`.

**`SiteVisitsProofs`.** No step of a visit changes a variable of the store (`VisitsOnlyRead`), hence
`VSpec => Spec` (`VisitsAreReaders`) and `VisitorsFindWholeSites`: what a visit opens is never half
written. `VisitTypes` is the type invariant, which needs the store's own types on both sides of a step.

`NothingOutdatedIsEverSent` holds under any faults. `GoneInv` says that the upload of a directory has
stood at its slug and is not among those done away with, that the same is true of the tree a replacement has
parked and may put back, and that an upload whose job has not installed it yet has stood nowhere; a publication
or replacement is acknowledged only while its own tree stands (`Succeeding`), a deletion once no directory does. With it, what a visit opens was not gone when it read its row,
as `gone` only grows (`GoneGrows`). `QuietVisitsAreAnsweredExactly`, under crashes alone, takes `RestInv` at the visit's
first read to know that the site it found is complete; as long as nobody touches the site (`Touched`),
what the visit has learnt of its files stays true (`Settled`).

**`LoginGateProofs`.** `GateInv` is `PermitsMatchWork` with the types and the fact that a request
which has not reached the worker has no job; `PermitsMatch` assumes that there are finitely many
requests at a time, and each action is one element added to or removed from the holders of a permit.

`DelaysAreExact` and `HistoriesFollowTheLog` (finitely many addresses) rest on `HistoryInv`: a log is
ordered in time, and a history is an end of its address's log that has lost only entries outside the window or
beyond the newest `Threshold`. Of an ordered log the entries inside the window are themselves an end
(`LiveIsEnd`), and `retain` on an end keeps an end (`RetainsEnd`), so that pruning early or late, or at
another address's check, never changes what is counted.

**`AdminPagesProofs`.** `CopyAgreement` is `CopyStatusAgrees` for `CopyLinks` alone,
`PagesUseCopyLinks` the refinement `PSpec => CSpec`, by which it holds of the pages too.
`SizesAreApplied` needs the types of pages and requests, so that a navigation that is under way is not
mistaken for none. `ChosenThemesAreShown` has
one hypothesis, `AppShowsThemes`: that the application's stylesheet shows a page that names a theme in that theme. It
is a statement about constants, which TLC evaluates as an assumption of `MCAdminPages` for the options
the application has. What the proof adds is everything that moves: cookies, other tabs, newer navigations and rejected forms.

Only model-checked: liveness (`JobsReturn`, `ExpiredGo`, `GuessesAreAccounted`,
`PermitsComeBack`, `ButtonsComeBack`), which the prover does not reach; and `ThemesFollowOptions` with the
value of `AppShowsThemes`, `PrefixReachesNames` and `LayersKeepRules`, because a stylesheet is concatenated from
folds over lists and its texts are scanned atom by atom, and what that computes for every list needs an
induction over it. Every other property of a passing run is a theorem. `AccessTypes`, the type
invariant of `SiteAccess`, is only proved.

## 5. What is not modelled

- Pure functions without state: host dispatch, configuration, form and ZIP decoding,
  filename, title and slug validation, cookie encoding, rendering.
- Paths of a visit: decoding, redirects to a trailing slash, directories with an index file, and
  range and conditional requests.
- The data of the style bundle: the declarations of its components, the extension of the theme and the
  drawer variants.
- A key that is read before the boot that created it has synced it (`key.rs:92`): the code gives
  no guarantee that a property could state.
- Migrations, WAL mode and the connection pool: a statement is one atomic step.
- The command line skill, a client of the API, and packaging.

## 6. Plan

1. A refinement from `SiteAccess` to a smaller specification of who may read what.
2. Pure operators against reference definitions: slug sampling, the choice of an
   entry file, expiry arithmetic at the ends of `u64` and `i64`.
