# A TLA+ verification of g2

g2 is a toolkit for Gentoo overlays: it generates web sites from overlays and
serves them, edits ebuilds, their Manifests and caches, lints repositories, and
maintains Portage's configuration. This directory models the parts of it where
state changes in more than one step (by goroutines, by commands one after the
other, by processes that can fail half way), and those pure parts whose cases
are too many to test. TLC checks the models on small instances; TLAPS proves the
theorems of `*_proofs.tla` for every instance. `PROJECT.json` lists the
components, the runs, the lines of code each definition stands for, the
disagreements with the documentation, and the hazards the properties are aimed at.

    tlc -config MCManifest.cfg MCManifest.tla
    tlapm Manifest_proofs.tla

## Inventory

| Component | State | Operations | What is hard | What makes it correct | Here |
|---|---|---|---|---|---|
| Memory admission, `cmd/g2/smart_mode.go` | `reserved`, `activeTasks`, the waiters of a `sync.Cond` | `Acquire`, `Release` | one `Signal` per release, readings that fail | exact counters, no overcommit, nobody asleep without a waker | `MemoryManager` |
| Remote site generation, `cmd/g2/site.go` | channels, wait groups or an errgroup, checkouts on the disk, the list of sites, the first error | `cmdSiteRemote` in modes standard and pipeline | every interleaving of fetchers, parsers and cleaners; failures | every repository resolved once, whole checkouts read, no temporary one left behind, sorted result, it ends | `RemotePipeline`, `RemoteStandard`, `SiteGeneration` |
| Fetching, `cmd/g2/fetch.go` | one directory | `FetchRepo` and its attempts | kills, deadlines, leftovers of earlier runs | success means the whole tree | `FetchRepo` |
| Parsing and rendering, `cmd/g2/parse_repo.go`, `cmd/g2/generate_site.go` | the parsed sites, the output directory | parse, aggregate, a tree of errgroups over some fifty templates | a write that fails in one of many goroutines; conditions spread over templates and generators | a site reported as generated is whole, one writer per file, links to what there is lead to pages | `SiteData`, `SitePages`, `SiteRender` |
| Site server, `cmd/g2/site_serve.go` | what was parsed | load, one handler for all routes | parallel loads, a second set of rules for the same pages | the same template as the generated site at every path that is answered | `SiteServe` |
| Lints, `lints/`, `qa_policy.go`, `cmd/g2/lint*.go` | the work tree and two commits | some eighty rules; lint, lint changed, targets, queries | what is selected when, policies with levels | nothing a package rule finds is missed by the selection, policies do what they say | `LintBase`, `LintShell`, `LintVars`, `LintMask`, `LintRepo`, `Lint` |
| Manifests, `manifest*.go`, `cmd/g2/main.go`, `cmd/g2/ebuild_bump_version.go` | the ebuilds, the Manifest file, a copy in memory | upsert, verify, clean, bump | sequences of commands, downloads that fail, a stale copy | needed entries stay | `Manifest` |
| Ebuild commands and caches, `cmd/g2/ebuild_*.go`, `cmd/g2/overlay_ebuild.go`, `cache.go`, `pkg_desc_index.go` | package directories, Manifests, md5-dict, indexes | upsert, install, delete, tag, next-revision; generate, verify, clean | one name in several forms, sequences of commands | what is used stays, new versions are new | `EbuildCommands` |
| Versions, `ebuild.go`, `cmd/g2/versions.go` | none | parse, write, compare, increment | many forms | an order | `GentooVersion` |
| Deduplication, `ebuild_deduplicate.go` | files, Manifests, directories | `DeduplicateEbuilds` | removals that fail, equal versions, overlapping targets | the highest version survives | `EbuildDeduplicate` |
| User configuration, `user_config.go` | a directory of fragments, temporary files | add, remove, atomic write | other processes, kills | no torn file, commands do what they report | `UserConfig` |
| repos.conf, `repos_conf.go` | sections in files | set, unset, disable, enable, move | sequences of edits on disabled sections | one section changes, and comes back as it was | `ReposConf` |
| Masks, `package_mask.go`, `cmd/g2/masks.go`, `package_masked.go` | blocks of atoms in files | mask, unmask, reset, add, remove | whole files written anew from what was parsed | other atoms keep author and reason | `PackageMask` |
| World file, `cmd/g2/world*.go` | the file, a temporary one, a list on the screen | commands, editor, resizes | a fixed temporary name, modes that keep line numbers | no torn file, a key changes the line that is shown | `World` |
| Downloads, REQUIRED_USE, search, other parsers and queries | none that lasts | read, compute, print | formats | | not modelled, see below |

The components meet in a few places. `cmdSiteRemote` calls `FetchRepo` for each
repository, asks the memory manager before it parses, and hands the sorted sites
to `generateSite`; the server loads the same sites. `DeduplicateEbuilds`, the
ebuild commands and the Manifest commands share `CleanManifest`. Parsing a
repository runs the lints. `SiteServe` is composed with `SiteRender`, both remote
modes with `MemoryManager`, and the ebuild commands with the versions.

## Modules

**`MemoryManager`** has one action for each pass through the critical section of
`Acquire` (`Enter`, `Refuse`, `ReadFails`) and one for `Release`, since both hold
the mutex throughout. The notify list of the condition variable is a sequence of
calls: `CondWait` appends, `Signal` takes the head, as Go's ticket list does. The
free memory is an arbitrary reading each time, because other programs use memory
too. A client is one call of `Acquire`.

**`RemoteRepos`** holds what both modes share: the repository list (`RepoName`,
numbers that stand for names in alphabetical order), which entries have an http
git source, the states of a checkout directory, and the sort.
**`RemotePipeline`** models the pipeline mode: three bounded channels, `Limit`
workers per stage and the main goroutine that feeds, closes and waits. Workers of
a stage are interchangeable and hold one repository, so they are counted by the
stage of the repositories. **`RemoteStandard`** models the errgroup: `Go` blocks at
the limit, `Leave` runs the deferred `RemoveAll` and hands the error over. Both
take their memory manager from `MemoryManager` by `INSTANCE`, with the
repositories as clients. Writing a directory and removing it take two steps each,
so that somebody could look in between.

**`SiteGeneration`** is the abstract promise: each repository is resolved once, to
a site or a failure; then the run ends, either with a fetch error or with the
sites in order of name. Both modes are shown to implement it, under the refinement
mapping that reads a repository's outcome off its stage.

**`FetchRepo`** runs the command again and again on one directory. It has two
callers: "overlay site generate", with no retry and a checkout that stays, and
"overlays site generate", with retries and a checkout that is removed. The directory
is reduced to whether it has a `.git`, how much of the current upstream tree it
holds, and whether it holds files that upstream no longer has. Between runs upstream
may move; at any time the process may be killed or the deadline pass.

**`SiteData`** says what parsing makes of a tree and what the aggregators make of all sites:
names, packages and their uses, licences, projects, moves, descriptions of flags.
**`SitePages`** gives each page generator as a program of steps: a page, the optional search
index, or a group of goroutines; and for each template the conditions under which it links
and where to. Links to what the site lists (`links`) are kept apart from those to what a
package names (`names`): dependencies, keywords, licences, virtuals and the package it moved
to, of which no repository need have any. **`SiteRender`** runs that program: a frame per
goroutine, `SetLimit` as room in a group, a write that may fail before or after the file was
emptied, and an error that reaches the parent when all children have ended. **`SiteServe`**
adds the server: the loads, the sort by title, and `ServeHTTP` as a function from a path to
the page or redirection. Of a page it keeps the name of the template and whether the handler
passes the data under the keys the template reads (`Unfilled`); the answer 500 to a template
that fails is left out, since no data of the model make one fail.

**`LintBase`** describes what the rules read, and the policies that silence them or
set their level. Each rule is the operator of its name in **`LintShell`** (code),
**`LintVars`** (variables and versions), **`LintMask`** (the format of package.mask) and
**`LintRepo`** (metadata, Manifest, profiles, eclasses and the repository). A rule
returns the set of its results, without their text. **`Lint`** has the commands over a
work tree that is edited, committed and pushed. What "lint changed" is told by git goes
through `DiffNames`: of files that are gone here and new there git may take any pairs of one
kind for renames, and prints such a pair by its new name only.

**`Manifest`** is a sequential user: commands, bumps and edits of the ebuilds in any
order. Downloads succeed or fail one by one. `disk` is the file and `mem` the copy a
running command holds, because a defect lives in the difference between them.
Entries form a set: order and hashes are abstracted, and where the code takes the
first entry of a name the model takes any.

**`GentooVersion`** keeps a version as its tokens, with leading and trailing zeros, so
that two texts of one version differ. **`EbuildCommands`** runs the other ebuild
commands over several repositories, with the caches and indexes derived from them; the
forms a version is named in (PV, PVR, a file name, an atom) are those of the code at
each place.

**`EbuildDeduplicate`** expands targets into a list of places (a file listed twice
is two items), then reduces group by group, removing one file at a time. The order
of Go's maps and of equal elements of a sort is any order.

**`UserConfig`** has several processes that add and remove atoms. A read of a
fragment, the write of the temporary file and the rename are separate steps; each
may fail and a process may be killed between any two. **`ReposConf`** and
**`PackageMask`** keep files as lines and have the parsers and the writers as operators
between lines and sections or blocks. A command of theirs is one action with its
outcomes: done, or failed with the files as far as they were written.
**`TextLines`** has what `UserConfig` and `World` share: the lines of a file whose numbers
are in a set, in their order.
**`MCPortageConfig`** puts the three together.

**`World`** has the commands and the editor as processes over a small file system:
names, inodes with contents, and descriptors. The editor keeps what the code keeps (the
rows as drawn, the cursor, the scroll position, the line a prompt is about), and a
resize may come at any point between two keys. The rows are listed by `Ascending` of
`TextLines`, a function from places to numbers, because the provers know nothing of the
library's sorted sequences.

The proofs are in modules of their own, which extend what they are about and hold the
inductive invariants, the lemmas and the theorems: **`MemoryManager_proofs`**,
**`RemotePipeline_proofs`**, **`RemoteStandard_proofs`**, **`Manifest_proofs`**,
**`Lint_proofs`**; **`Site_proofs`** for the one site from fetch to server (`FetchRepo`,
`SiteRender`, `SiteServe`); **`Ebuilds_proofs`** for what changes package directories
(`EbuildDeduplicate`, `EbuildCommands`); and **`UserFiles_proofs`** for the files of the
user (`World`, `UserConfig`). Where two specifications meet in one module of proofs, the
names of one carry its name: `SiteSpec`, `DeduplicateSpec`, `UserConfigSpec`. None of the
modules has a `RECURSIVE` operator: the tree of goroutines is paths from the main one, and
the digits of a number are read off powers of ten (`Tens`, so numbers have up to nine
digits).

Actions called "bug variant" in the comments are not part of any `Next`. Each is a
plausible mistake in the code of the definition after it, and shows that the
property it is paired with in `PROJECT.json` would notice that mistake.

## Runs

| Run | Instance | Shows |
|---|---|---|
| `memory_manager` | 4 calls, readings from none to plenty, reading may fail | `ReservationsExact`, `NoOvercommit`, `SleepersHaveAWaker`, `EveryCallServed` |
| `remote_pipeline` | 4 repositories, one without an http source, 2 workers per stage, smart mode, temporary directory | `ParserSeesWholeCheckout`, `NoSendOnClosedChannel`, `CheckoutsRemoved`, `ImplementsPromise` |
| `remote_standard` | the same list, limit 2, persistent directory with or without old checkouts, or the temporary one | `ParserSeesWholeCheckout`, `TempCheckoutsRemoved`, `ImplementsPromise` |
| `fetch_repo` | 4 runs, 2 retries | `SuccessIsWhole`, `GitSuccessHasNoStaleFile`, `NoFailureWithoutTrouble`, `FetchEnds` |
| `site` | 2 trees that share a package, a licence and moves; 2 goroutines per group, one failing write, one bad parse | `NoSharedPage`, `WholeSiteOrError`, `LinksResolve`, `GenerationEnds`, `ServesWhatParses`, `LiveAgreesWithStatic` |
| `lint` | 2 packages and a virtual, a fault for each rule in turn, 2 edits, commits and a push | `ChangedFindsPackageFaults`, `QueryFindsItsVersions`, `PolicyChangesSeverities` |
| `lint_renames` | the same | that "lint changed" does not consider a package that a file was moved out of, against its own description |
| `manifest` | versions 1, 1-r1 and 2, own or own and shared distfile, one AUX entry | `AuxEntriesKept`, `NeededEntriesKept`, `CommandsKeepCoverage` |
| `manifest_fix_clean` | the same | that `verify -fix -clean` loses what it fixed, against its own documentation |
| `ebuilds` | 2 repositories, packages `foo` and `foo-3dfx`, directories with versions of every form, 2 commands; or a deduplication of two packages with six ebuilds, listed with and without a repetition | `NewVersionsAreNew`, `UpsertSettles`, `CleaningKeepsWhatIsUsed`, `HighestKeptIfDistinct`, `PackagesSurvive`, `ManifestCoversRest` |
| `portage_config` | 2 processes, 2 atoms, 3 fragments; or 2 sections in a file or a directory, 4 commands; or 4 mask files, 3 commands | `NoTornFragment`, `AddDoesWhatItSays`, `RemoveDoesWhatItSays`, `CommandsEditOneSection`, `MasksFollowCommands` |
| `world` | the editor and one command, 2 packages, lists of up to 4 lines, a terminal of 5 or 6 rows | `WorldWhole`, `EditorChangesShownLine` |

Most of the safety properties of these runs are theorems too (see Proofs). The type
invariants stand beside the variables and take part in no run: that of
`MemoryManager` is a theorem, and types are the first conjunct of every inductive
invariant.

### Bounds, and why they are enough

- *Four calls of Acquire*: one active, one woken and two asleep is the smallest
  state in which a signal can reach the wrong sleeper. The proofs cover the rest.
- *Three fetched repositories, two workers*: more tasks than workers and than places
  in a channel, so senders block, and two fetches can fail or two cleaners run at once.
  A fourth listed repository is skipped. Its name order differs from the list order.
- *Readings never fail in the remote runs* (`ReadMayFail = FALSE`). With failures a
  run of either mode may hang, as one call of `Acquire` does when no task is active;
  these two ask what the modes promise otherwise.
- *Temporary or persistent.* A behaviour of `remote_standard` is one of either mode
  (`workMode`), since only a persistent directory has old checkouts. `CheckoutsRemoved`, in
  that run `TempCheckoutsRemoved`, is about the temporary mode: the persistent one promises to
  keep what it removes (see below). The pipeline is run in the temporary mode.
- *Removals succeed.* The code ignores the error of every `os.RemoveAll`, and so do the
  remote models: what `CheckoutsRemoved` shows is that each removal is reached in time.
- *Two retries, four runs*: a directory can be made by a zip archive, taken over by
  git, killed, and made again.
- *Two trees* (`site`): everything that is aggregated has a value in one tree, in both
  and in none. With two goroutines per group every group of three or more tasks
  waits for room, at every depth; all their interleavings are explored. One failed write
  shows what an error does to its generator, its group and the groups around.
- *One fault at a time* (`lint`): each rule looks at one package, or compares its
  versions; the contents hold a fault per rule, and clean ones. Two edits, with commits
  and a push between, put a change in every stage of git and two in different ones. Packages
  gain and lose ebuilds, so a package that lost one beside one that gained one is a rename
  or is none.
- *Three versions* (`manifest`): two share a base, so the revision matters, and one
  does not. One distfile is named after the version and one is shared by all.
- *Two commands* (`ebuilds`) from every small directory: a third adds nothing
  that another initial directory does not have. The versions have every kind of token.
- *`MaxLines = 2`* (fragments): a fragment holds both atoms, or one of them twice. A
  process whose target is full stops there; that is the bound and not the code.
- *`MaxConfCommands = 4`*: disable, change, move and enable. *`MaxMaskCommands = 3`*:
  what the first wrote is parsed and written twice.
- *World*: three lines in a window of one or two rows scroll; `MaxLines = 4`
  lets one be added, `MaxPieces = 3` bounds the comments of a line, and `MaxChanges = 2`
  the edits of a file. Two changes suffice for the second to meet what the first left.
- *Two processes*, interchangeable, so `portage_config` uses symmetry; it checks no
  liveness. A behaviour of it edits fragments, repos.conf or masks: the three
  have no code in common.

`CHECK_DEADLOCK FALSE` is given where the system may stop: when every call of
`Acquire` sleeps after a failed reading (`memory_manager`), when every process was
killed, and when the bound on commands is reached (`portage_config`,
`world`).

### Fairness

`MemoryManager`, both remote modes and `FetchRepo` assume weak fairness of each
goroutine's own steps: the Go scheduler runs what can run, a parse walks a
finite tree, and a fetch has a five-minute deadline under which its commands are
killed. `MCSite` assumes it of the generation and of the loading as a whole, for
the same reason. Nothing is assumed about readings of the free memory, which may stay
low for ever: `EveryCallServed` rests on the rule that the first parser is always
admitted. Kills, movements of upstream and requests to the server are never fair. The
other modules promise safety only.

## Proofs

The theorems hold for every value of the constants that the named assumptions of the
modules allow, the bounds on runs, commands and changes included; TLC evaluates each
assumption on the instances above. Most theorems follow from an inductive invariant
(`IInv`, `EdInv`, `FragmentInv`, `RenderInv`, `LoadInv`, `CommandsInv`, `TreesInv`), proved
with a lemma for each action or group of similar actions. What each property lacks to be
inductive itself, or rests on beside the invariant:

**Memory** (`ReservationsExact`, `NoOvercommit`, `SleepersHaveAWaker`). That a release
wakes somebody who is not active needs to know that the notify list holds sleeping calls
only, and each once (`SleepersAsleep`). `ReservationsExact` also shows that the
clamp in `Release` is never needed.

**Fetching** (`SuccessIsWhole`, `GitSuccessHasNoStaleFile`, `NoFailureWithoutTrouble`).
What a run reports depends on what earlier runs left, so the invariant says what the
directory is like at every place of a call (`DirectoryAtPlace`: an archive is never
extracted over a git checkout) and that a retry starts from an empty one
(`RetriesStartClean`).

**Remote sites** (`NoSendOnClosedChannel`, `ParserSeesWholeCheckout`, `CheckoutsRemoved`). A
repository is in one place at a time, but the places are of several kinds: a stage, a
channel, the set being cleaned, the list of sites. `Placed` ties them together;
`OwnCheckoutWhole` and `RemovalPending` tie the directories to them. `CheckoutsRemoved`,
which speaks of the temporary mode, needs no distinct names: a directory that is there will
be removed on behalf of some repository of that name. `ParserSafe` does: it has the
hypothesis that no two fetched repositories share a name, which the code does not check
(`UnsharedParse` is the part that holds without it).

Two compositions are proved on top, for both modes:

- *Refinement.* `PipelineKeepsPromise` and `StandardKeepsPromise`: the initial
  states and every step of either mode are, under the mapping of `ImplementsPromise`,
  those of `SiteGeneration` or stutters. The fairness in that promise stays with TLC.
- *Memory.* `PipelineRunsMemory` and `StandardRunsMemory`: each mode, seen through its
  calls of `Acquire` and `Release`, is a run of `MemoryManager` with the repositories for
  clients. `MemoryManager_proofs` is instantiated with this substitution, so its theorems
  hold in the modes (`MemoryKeptInPipeline`, `MemoryKeptInStandard`) without being proved
  again. `NothingStaysReserved` adds that every admission is given back by the time
  the workers have been waited for, after parses that fail too.

**Manifests** (`NeededEntriesKept`, `AuxEntriesKept`, `CommandsKeepCoverage`). The first
needs that what `verify` loaded is still what the file holds, and that the copy a bump
works on lacks nothing needed. It holds whatever the entries are called. The other
two have the hypothesis `NamesApart`: the code finds an entry by its file name and not by
its type, so an AUX entry with the name of a distfile can be taken out. Coverage is about
what a command has still to do (`CoverageInMind`: an entry that is missing is in `todo`). Three
commands are excepted, because they do not keep it: `verify -fix -clean`, a bump to a revision,
and `bump -tag`, which writes ebuilds and leaves the Manifest alone.

**Deduplication** (`HighestKeptIfDistinct`, `PackagesSurvive`, `ManifestCoversRest`). The
invariant splits the groups into those that are complete and those of which one item of
the highest version survives. `LosersLeaveHighest` shows that the two reductions, by
digest and by group, leave one.

**World file** (`WorldWhole`, `EditorChangesShownLine`). `WorldWhole` is about one writer
at a time: it has the temporary file open, that file has its name, and it is
another than the world file. For the editor the invariant is `EdInv`: what the screen shows
was computed from the lines, filter and cursor there are; files and buffers
hold proper lines; and a prompt is about the line under the cursor or, when it has put
an empty line before that one, about this empty line (`Asks`). That last case needs `RowsShift`:
where the empty line goes in, the rows behind it move by one, whether the filter lets it
through or not. It rests on `AscendingLists` and `ListedOnce` (a finite set of numbers is
listed in its order by `Ascending` and by nothing else), which would be an induction over
the lines and is an argument by the least counterexample instead.

**User configuration** (`NoTornFragment`, `AddDoesWhatItSays`, `RemoveDoesWhatItSays`).
`FragmentInv` says which fragment each call is at, and of a call that is alone what it
knows (`KnowsWhatItRead`): nothing has changed since an addition began, and once it writes
no fragment had the atom; the fragments a removal has passed hold none of it now, and its
count is what they held. That these counts add up over the fragments is the lemma
`CountByFragment`.

**Rendering** (`NoSharedPage`, `WholeSiteOrError`). Both have the premise `OrderlyProgram`,
about the program that `generateSite` makes of the parsed repositories: whatever is written
twice is written by steps one of which has ended before the other begins, and goroutines
start goroutines in three levels. It says nothing of the schedule. The `site` run
checks it of its instance, as a part of `NoSharedPage`; it is false where two repositories have one name, and
there the code writes one page from two goroutines. What is proved is what the errgroups
make of an orderly program, for any interleaving, limit and failing writes. `RenderInv`
reads off the path of a page's goroutine how far each of its ancestors has come, and so
whether the page is past, running or still to come (`Passed`); a page that is past is on
the disk, last written by the latest of its writers that is past, unless an error is on its
way up (`Tainted`). Then a success can only be reported with every page there
(`TheWholeSiteOrError`). That a page has a last writer rests on `Before` being an order and
the places being finitely many.

**Serving** (`ServesWhatParses`). `LoadInv`: while it loads the list holds what has parsed and
nothing else, in any order; and a server that listens has no load left to end and lists them
by title. `InTitleOrder` depends on the set alone, so the order of the loads is gone. No
premise is needed.

**Ebuild commands** (`UpsertSettles`, `CleaningKeepsWhatIsUsed`). The first is about running
a command once more on what it left, so it needs that directories are directories of
versions that can be parsed (`Directory`), and that writing a version and reading it back
gives that version: the lemmas about `ParseGentooVersion`, `String` and `Itoa`, over all
digits, suffixes and revisions. For the second, what a cleaning removes is compared with
what is left in each command.

**Lints** (`ChangedFindsPackageFaults`, `PolicyChangesSeverities`). `TreesInv` keeps work
tree, HEAD and upstream what a repository can be. That "lint changed" misses nothing is then a
statement about the trees: a package with a fault differs from upstream, which has none; it
differs in some file, and git prints the file in some stage, unless the package only lost
files and another gained some (`MovedAway`), whatever git takes for renames. That a policy
changes severities only is proved rule by rule, over all the rules that ask the policy: what is
found with a policy is found without one at some severity, and the other way round, unless the
policy says to ignore it.

Model-checked only:

- *Liveness* (`EveryCallServed`, `FetchEnds`, `GenerationEnds` and the fair part
  of `ImplementsPromise`): fairness and `ENABLED` are out of the prover's reach.
- *`LinksResolve`, `LiveAgreesWithStatic`* and the premise `OrderlyProgram` itself compare
  functions of the parsed repositories with each other, page by page, over some fifty
  templates. The programs of the generators are built with `FoldSet` and other folds of the
  library, and what a fold computes for all data is an induction. What goroutines could do to
  the pages is in the theorems.
- *`QueryFindsItsVersions`*: that padded texts are in the order of versions is an
  induction over their characters.
- *`NewVersionsAreNew`*: that the comparison of versions is an order is an induction over
  the positions of numbers and suffixes.
- *`CommandsEditOneSection`, `MasksFollowCommands`*: every command parses whole files and
  writes them anew, with `FlattenSeq`, `SetToSortSeq` and `FoldLeft` of the library. That
  parsing what was written gives back the sections or blocks is an induction over the file.

## Where code and documentation disagree

Two runs each show a disagreement, by a counterexample:

- `manifest_fix_clean`: `verify -fix -clean` writes the Manifest it loaded before it fixed.
- `lint_renames`: git detects renames when "lint changed" asks for differences, and prints the new
  name of the file only, so a package that lost it may not be linted.

The others were met while modelling and stand in `findings` of `PROJECT.json`, each with its
line. The properties are stated so that they hold beside them:

- With a directory to "persistently store" checkouts every checkout is removed at the end, as
  if the directory were temporary, in both modes. `CheckoutsRemoved` says "in temporary mode".
- The server does not serve the generated site. It answers 404 for whole families of pages, and
  the handlers of eight templates name their data otherwise than these read them (`Unfilled`),
  so those pages come out without.
- The parser of policies drops every name that does not begin with PG, so the policies by other
  names that rules and their tests speak of cannot be set.
- A failed reading of the free memory is not retried unless somebody happens to
  release. `SleepersHaveAWaker` and `EveryCallServed` say "unless a reading failed".
- After a bump to a version with a revision `${PV}` is taken with the revision
  (`ebuild_bump_version.go:115`), and without it everywhere else. The entry the ebuild
  needs can be dropped and one nobody needs added. `NeededEntriesKept` leaves
  that bump out; `CommandsKeepCoverage` shows that `verify -fix` repairs it.
- A zip archive is extracted over an earlier extraction, so files that upstream has
  removed stay. `GitSuccessHasNoStaleFile` is therefore about git checkouts.
- "overlay site generate" allows no retry. If a killed run left a directory without
  `.git`, every later run without `-use-zip` fails until somebody deletes it.
  `NoFailureWithoutTrouble` is about calls with a retry.
- Two processes that add atoms at the same time can lose an update or write an
  atom twice: only the replacement of a file is atomic. `AddDoesWhatItSays` and its
  companion are about commands that run alone. `RemoveUserConfigAtom` counts the lines of
  a fragment before it has written it, so with an error it reports lines that are
  still there.
- `Manifest.Remove` goes by file name, so a clean that removes a DIST entry also
  removes an AUX entry of that name; in the run their names differ.
- Two repositories of the same name share a directory, their order in the site is
  not determined, and their pages are written by two goroutines at once. The runs use
  distinct names.
- `LinksResolve` is about the pages of a finished site. Links to what the site lists must
  lead to a page. Links to what a package names must where a repository has the thing
  (`InRepository`); where none has, they lead nowhere: to dependencies, members of virtuals and
  keywords from elsewhere, to the package that another moved to when it is in another
  repository, and to a licence that nobody provides, whose page is below
  `unsupported-licenses` while the link is not.
- Left out of `LinksResolve` are the templates that link through the base that `PageNode`
  computes wrong (`MisbasedTemplates`), and left out of `SitePages` are links that a template
  computes from another directory than its page's, or to pages that no generator writes: the
  packages in `repo_use.html`, `repo_masked.html` and `repo_deprecated.html`, the masked
  and deprecated notes of `repo_package.html`, the versions in `category.html`, the
  category in the heading of `ebuild_details.html`, the repositories in `overlays.html` when it is
  written as `repos/all`, the header and footer of `redirect.html`, the global pages of eclasses in
  `repo_eclass.html`, and the parents of profiles. Breadcrumbs, the menu of the layout, packages
  named within descriptions, and links that scripts make in the browser are left out as well.
- `LiveAgreesWithStatic` compares the names of templates at the paths that both have, and says
  nothing of the data, which `Unfilled` templates do not get.
- An author's line that follows one without atoms, with no blank line between, inherits its
  reason (`Heirs`), and the next
  command writes that down: `MasksFollowCommands` asks for the reason of an atom
  only where no such author stands before it.
- `ChangedFindsPackageFaults` leaves out the packages that only lost files while others gained
  some (`OnlyMovedAway`), and `PolicyChangesSeverities` the policies with names of their own,
  which would make a rule find more if they could be set.
- "ebuild install" looks for flags below ".", and the walk skips directories whose name begins
  with a dot, so none are found and `AfterInstall` leaves `use.desc` as it was.
- The cache names entries differently when it generates and when it verifies:
  `CleaningKeepsWhatIsUsed` is about repositories that verify.
- Two writers of the world file at the same time can tear it: `WorldWhole` leaves those
  behaviours out.
- Atoms without an author are lost when a mask file is rewritten, those of "masks
  mask" among them: `MasksFollowCommands` is about atoms with one. A "repos-conf set" that
  creates a file which is there replaces it, and sections that somebody wrote twice,
  or disabled by their header alone, are edited otherwise than Portage reads them:
  `CommandsEditOneSection` leaves these out.

## Not modelled

- *Formats*: the parsers of ebuilds, metadata.xml, GLSAs, news, projects and the rest map
  one text to one value and keep no state. What other components tell apart of
  their results is in the modules of those.
- *REQUIRED_USE*, the resolver and the *search engine* are functions of text; nothing
  that lasts depends on them. A sequence of calls cannot go wrong where one does not.
- *Downloads* are an outcome in `Manifest` and `EbuildCommands`. The goroutine in
  `httputil.go` sends one value on one of two channels, and the caller takes from both.
- *Queries, profiler, statistics, skills*: they print, or copy embedded files.
- *Overlay and profile configuration*: single rewrites of small files. What
  "conf overlay" does to fragments goes through `user_config.go`.
- *"overlay site generate"* of several checkouts: an errgroup like that of
  `RemoteStandard`, without admission, cleaning or a promise about its order.
- *Commands on one Manifest at the same time*: it is read, changed and written without
  a lock, so every property fails by design.

## What is left

The inventory is modelled as far as it says, and each safety property that is not a theorem
is listed above with what keeps it from being one. Two things would say more:

1. `OrderlyProgram` from a condition on the repositories (distinct names, and slugs that are
   distinct where names are), template by template. `SitePages` has the paths of the pages in a
   form that allows it; the folds of `SiteData` would have to be written as sets first.
2. `CommandsEditOneSection` with sections in place of lines: the parser would have to be
   stated by the numbers of the headers, as `LinesAt` states removal.
