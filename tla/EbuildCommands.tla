--------------------------- MODULE EbuildCommands --------------------------
(***************************************************************************)
(* The commands that put ebuilds into a repository and take them out:      *)
(* "g2 ebuild upsert", "install", "delete", "next-revision", "tag" and     *)
(* "check-exists", "g2 overlay ebuild install", and those that generate,   *)
(* verify and clean what is derived from ebuilds: "g2 cache",              *)
(* "g2 pkg-desc-index" and "g2 use discover".                              *)
(*                                                                         *)
(* A user runs one command after the other, in the directory Cwd and on    *)
(* any repository.  All packages are of one category.  An ebuild is its    *)
(* version, by its text (GentooVersion), and its content; its distfile     *)
(* is ${P}.tar.gz.  The temporary directory of an install, which is gone   *)
(* when the command ends, and the files/ it copies are left out; the files *)
(* Manifest keeps for EBUILD entries too (see Manifest).                   *)
(***************************************************************************)
EXTENDS GentooVersion, FiniteSets

CONSTANTS
    Repos,          \* the repositories
    Cwd,            \* the one the commands are run in
    Packages,       \* the packages that may be there
    CutName,        \* the name of each before its first hyphen with a digit behind it
    Versions,       \* the versions that the user names
    Bumps,          \* those of them that an upsert names as the new version
    Contents,       \* the contents of ebuilds
    Code,           \* what of each is neither comment nor blank
    Flags,          \* the flags of the IUSE of each
    InitialDirs,    \* what the directory of a package in Cwd may hold at first
    MaxCommands     \* bound: the commands that are run

ASSUME EbuildCommandsAssumption ==
    /\ Cwd \in Repos
    /\ CutName \in [Packages -> Packages]
    /\ Versions \subseteq Texts /\ Bumps \subseteq Versions
    /\ \A v \in Bumps : Atoi(v.rev) \in 0 .. Tens[10] - 1
    /\ \A dir \in InitialDirs :
          /\ DOMAIN dir \subseteq Texts /\ IsFiniteSet(DOMAIN dir)
          /\ dir = [v \in DOMAIN dir |-> dir[v]]
    /\ DOMAIN Code = Contents /\ DOMAIN Flags = Contents
    /\ MaxCommands \in Nat

VARIABLES
    ebuilds,    \* the ebuilds of each repository and package: version -> content
    manifest,   \* the versions whose distfiles the Manifest of each package lists
    metadata,   \* the flags that metadata.xml of each package names
    useDesc,    \* the flags of profiles/use.desc in Cwd and, by package, of use.local.desc
    index,      \* metadata/pkg_desc_index: package -> versions, or NoIndex
    formats,    \* cache-formats of metadata/layout.conf, or DefaultFormats
    dict,       \* metadata/md5-dict: <<package, version>> -> content
    md5cache,   \* metadata/md5-cache: the <<package, version>> that have an entry
    last,       \* the command that was run last
    count       \* how many have been run

tree == <<ebuilds, manifest>>
derived == <<metadata, useDesc, index, formats, dict, md5cache>>
vars == <<ebuilds, manifest, derived, last, count>>

NoEbuilds == <<>>        \* the function with no versions
NoIndex == {}
DefaultFormats == {}
Without(f, keys) == [k \in DOMAIN f \ keys |-> f[k]]
With(f, k, v) == [x \in DOMAIN f \cup {k} |-> IF x = k THEN v ELSE f[x]]

\* Every command records its name, its repository, its package and what else it was given.
Run(cmd, r, p, args) ==
    /\ count < MaxCommands
    /\ count' = count + 1
    /\ last' = [cmd |-> cmd, repo |-> r, pkg |-> p, args |-> args]

NoArgs == <<>>

-----------------------------------------------------------------------------
(* Queries of a directory of ebuilds.                                      *)

\* Of two revisions of a version, the one os.ReadDir lists first: "-r..." before ".ebuild".
ListedBefore(v, w) ==
    \/ v.rev # NoRevision /\ w.rev = NoRevision
    \/ v.rev # NoRevision /\ w.rev # NoRevision /\ cmpStr(v.rev, w.rev) < 0

First(names) == CHOOSE v \in names : \A w \in names \ {v} : ListedBefore(v, w)
RevisionsOf(dir, base) == {v \in DOMAIN dir : PV(v) = base}

checkEbuildExists(dir, version) == RevisionsOf(dir, version) # {}

\* The one of the highest revision, and of those the one listed first.
HighestRevision(names) == First({v \in names : \A w \in names : PR(w) <= PR(v)})

\* The answer, and with the content of the inspected file the latest if that differs only in
\* comments.  NoContent stands for no inspected file.
NoContent == "none"
getNextRevision(dir, version, inspect) ==
    LET base == PV(version)
        found == RevisionsOf(dir, base)
        highest == HighestRevision(found)
    IN  IF found = {} THEN base
        ELSE IF inspect # NoContent /\ Code[dir[highest]] = Code[inspect]
             THEN String(ParseGentooVersion(highest))
             ELSE String(IncrementPart(ParseGentooVersion(highest), "revision"))

\* What may come last when the versions of a directory are sorted.
HighestVersions(names) == {v \in names : \A w \in names : CompareVersions(v, w) >= 0}

\* The answers of "tag" with the flag of a part.
cmdEbuildTag(dir, part) ==
    {String(IncrementPart(ParseGentooVersion(v), part)) : v \in HighestVersions(DOMAIN dir)}

-----------------------------------------------------------------------------
(* Upsert.                                                                 *)

\* PV has no revision: of the ebuilds of a version the first is taken for the highest.
UpsertFound(dir, version) == First(RevisionsOf(dir, version))

\* Bug variant: the number of the highest revision, but still the file that was found first.
UpsertBumpedHighest(dir, version) ==
    String(IncrementPart(ParseGentooVersion(HighestRevision(RevisionsOf(dir, version))), "revision"))

\* What it is bumped to: the revision of PV is 0.
UpsertBumped(dir, version) ==
    String(IncrementPart(ParseGentooVersion(PV(UpsertFound(dir, version))), "revision"))

\* bump is a version, or NoRevision for none and for every type of bump.
UpsertInto(dir, version, content, bump) ==
    IF RevisionsOf(dir, version) = {} THEN With(dir, version, content)
    ELSE IF dir[UpsertFound(dir, version)] = content THEN dir
    ELSE IF bump = NoRevision THEN With(dir, UpsertBumped(dir, version), content)
    ELSE With(dir, String(ParseGentooVersion(bump)), content)

cmdEbuildUpsert(r, p, version, content, bump) ==
    /\ Run("upsert", r, p, <<version, content, bump>>)
    /\ ebuilds' = [ebuilds EXCEPT ![r][p] = UpsertInto(@, version, content, bump)]
    /\ UNCHANGED <<manifest, derived>>

-----------------------------------------------------------------------------
(* What is derived from the ebuilds.                                       *)

Present(r) == {p \in Packages : DOMAIN ebuilds[r][p] # {}}
PVsOf(dir) == {PV(v) : v \in DOMAIN dir}
IUSE(dir) == UNION {Flags[dir[v]] : v \in DOMAIN dir}

\* parseRepo knows a version by its PV.
cmdPkgDescIndexGenerate(repos, r) == [p \in {q \in Packages : DOMAIN repos[r][q] # {}} |-> PVsOf(repos[r][p])]

cmdPkgDescIndexVerify(r) == index[r] # NoIndex /\ index[r] = {cmdPkgDescIndexGenerate(ebuilds, r)}

\* The names of the entries of md5-dict hold the revision, if there is one.
CacheVersion(v) == String(ParseGentooVersion(v))
Formats(r) == IF formats[r] = DefaultFormats THEN {"md5-dict"} ELSE formats[r]

\* Entries are written over; with targets only those of the packages they name. Of versions with
\* one entry the last that is listed stays.
Written(repos, r, targets, old) ==
    LET Wanted == {p \in Packages : targets = {} \/ p \in targets}
        New == UNION {{<<p, CacheVersion(v)>> : v \in DOMAIN repos[r][p]} : p \in Wanted}
        LastOf(names) == CHOOSE v \in names : \A w \in names \ {v} : ListedBefore(w, v)
        Source(k) == LastOf({v \in DOMAIN repos[r][k[1]] : CacheVersion(v) = k[2]})
    IN  [k \in DOMAIN old \cup New |-> IF k \in New THEN repos[r][k[1]][Source(k)] ELSE old[k]]

GenerateCache(repos, r, targets) ==
    IF "md5-dict" \in Formats(r) THEN Written(repos, r, targets, dict[r]) ELSE dict[r]

\* verify looks for entries of PV, and knows no other format.
doCacheVerify(r) ==
    /\ Formats(r) = {"md5-dict"}
    /\ \A p \in Present(r) : \A v \in PVsOf(ebuilds[r][p]) : <<p, v>> \in DOMAIN dict[r]

\* Bug variant: entries are valid by the names generate gives them.
ValidCacheEntriesByName(r) == UNION {{<<p, CacheVersion(v)>> : v \in DOMAIN ebuilds[r][p]} : p \in Present(r)}

ValidCacheEntries(r) == UNION {{<<p, v>> : v \in PVsOf(ebuilds[r][p])} : p \in Present(r)}

\* Without layout.conf clean knows "pms" too, of which there are no entries.
doCacheClean(r) ==
    /\ Run("cache clean", r, "", NoArgs)
    /\ dict' = [dict EXCEPT ![r] = IF "md5-dict" \in Formats(r) THEN Without(@, DOMAIN @ \ ValidCacheEntries(r)) ELSE @]
    /\ UNCHANGED <<tree, metadata, useDesc, index, formats, md5cache>>

cmdCacheGenerate(r, targets) ==
    /\ Run("cache generate", r, "", targets)
    /\ dict' = [dict EXCEPT ![r] = GenerateCache(ebuilds, r, targets)]
    /\ UNCHANGED <<tree, metadata, useDesc, index, formats, md5cache>>

cmdCacheSetMethod(r, method) ==
    /\ Run("cache set-method", r, "", method)
    /\ formats' = [formats EXCEPT ![r] = {method}]
    /\ UNCHANGED <<tree, metadata, useDesc, index, dict, md5cache>>

\* The new flags of a package go into its metadata.xml, those of all packages into the files of
\* the profiles of Cwd, whatever repository is searched; nothing is taken out again. Cwd is given
\* by its path, for "." is skipped.
Discovered(repos, r) == [p \in Packages |-> metadata[r][p] \cup IUSE(repos[r][p])]
UseDescWith(found) ==
    [flags |-> useDesc.flags \cup UNION {found[p] : p \in Packages},
     local |-> [p \in Packages |-> useDesc.local[p] \cup found[p]]]

cmdUseDiscover(r) ==
    /\ Run("use discover", r, "", NoArgs)
    /\ metadata' = [metadata EXCEPT ![r] = Discovered(ebuilds, r)]
    /\ useDesc' = UseDescWith(Discovered(ebuilds, r))
    /\ UNCHANGED <<tree, index, formats, dict, md5cache>>

IndexCommand(r) ==
    /\ Run("pkg-desc-index generate", r, "", NoArgs)
    /\ index' = [index EXCEPT ![r] = {cmdPkgDescIndexGenerate(ebuilds, r)}]
    /\ UNCHANGED <<tree, metadata, useDesc, formats, dict, md5cache>>

\* Portage's own tool writes the entries of md5-cache.
Egencache(r) ==
    /\ Run("egencache", r, "", NoArgs)
    /\ md5cache' = [md5cache EXCEPT ![r] = UNION {{<<p, v>> : v \in DOMAIN ebuilds[r][p]} : p \in Present(r)}]
    /\ UNCHANGED <<tree, metadata, useDesc, index, formats, dict>>

-----------------------------------------------------------------------------
(* Install.                                                                *)

\* verify -fix downloads the distfiles that are missing; some downloads may fail.
Fixed(r, p, dir, fetched) == manifest[r][p] \cup (PVsOf(dir) \cap fetched)

\* Both commands end alike. The repository is given to the generators as an argument behind their
\* flags: the index is made of Cwd, the cache takes it for the package to generate, and the search
\* for flags skips the directory ".", whose name begins with a dot, and so finds none.
AfterInstall(r, p, dir, fetched) ==
    LET repos == [ebuilds EXCEPT ![r][p] = dir]
    IN  /\ ebuilds' = repos
        /\ manifest' = [manifest EXCEPT ![r][p] = Fixed(r, p, dir, fetched)]
        /\ index' = [index EXCEPT ![Cwd] = {cmdPkgDescIndexGenerate(repos, Cwd)}]
        /\ dict' = [dict EXCEPT ![Cwd] = GenerateCache(repos, Cwd, {r})]
        /\ UNCHANGED <<metadata, useDesc, formats, md5cache>>

InstallEbuild(r, p, version, content, fetched) ==
    /\ Run("install", r, p, <<version, content>>)
    /\ AfterInstall(r, p, With(ebuilds[r][p], version, content), fetched)

\* The overlay's install names the file after PV.
cmdOverlayEbuildInstall(r, p, version, content, fetched) ==
    /\ Run("overlay install", r, p, <<version, content>>)
    /\ AfterInstall(r, p, With(ebuilds[r][p], PV(version), content), fetched)

-----------------------------------------------------------------------------
(* Delete.                                                                 *)

\* The packages whose entries of md5-cache have a name that begins with p, a hyphen and a digit.
MistakenFor(p) == {p} \cup {q \in Packages : CutName[q] = p}

\* CleanManifest of the ebuilds that are left; without any the whole directory is removed.
RestOfManifest(r, p, dir) == manifest[r][p] \cap PVsOf(dir)

Delete(r, p, removed) ==
    LET dir == Without(ebuilds[r][p], removed)
    IN  /\ ebuilds' = [ebuilds EXCEPT ![r][p] = dir]
        /\ manifest' = [manifest EXCEPT ![r][p] = RestOfManifest(r, p, dir)]
        /\ metadata' = [metadata EXCEPT ![r][p] = IF dir = NoEbuilds THEN {} ELSE @]
        /\ md5cache' = [md5cache EXCEPT ![r] =
               IF dir = NoEbuilds THEN {k \in @ : k[1] \notin MistakenFor(p)} ELSE @]
        /\ UNCHANGED <<useDesc, index, formats, dict>>

DeleteFile(r, p, version) ==
    /\ version \in DOMAIN ebuilds[r][p]
    /\ Run("delete file", r, p, version)
    /\ Delete(r, p, {version})

\* An atom without version names all, one with a version the ebuilds of that PV. An atom whose
\* name is cut names a version that no ebuild has. A removal may fail.
NamedByAtom(r, p, versions) ==
    IF CutName[p] # p THEN {}
    ELSE {v \in DOMAIN ebuilds[r][p] : versions = {} \/ PV(v) \in versions}

DeleteAtom(r, p, versions) ==
    \E removed \in SUBSET NamedByAtom(r, p, versions) :
        /\ Run("delete atom", r, p, versions)
        /\ IF removed = {} THEN UNCHANGED <<tree, derived>> ELSE Delete(r, p, removed)

-----------------------------------------------------------------------------
EmptyRepo == [p \in Packages |-> NoEbuilds]

\* One package of Cwd, with a Manifest of all its distfiles and its cache.
Init ==
    /\ \E p \in Packages, dir \in InitialDirs :
          /\ ebuilds = [r \in Repos |-> IF r = Cwd THEN [EmptyRepo EXCEPT ![p] = dir] ELSE EmptyRepo]
          /\ last = [cmd |-> "none", repo |-> Cwd, pkg |-> p, args |-> NoArgs]
    /\ manifest = [r \in Repos |-> [p \in Packages |-> PVsOf(ebuilds[r][p])]]
    /\ metadata = [r \in Repos |-> [p \in Packages |-> {}]]
    /\ useDesc = [flags |-> {}, local |-> [p \in Packages |-> {}]]
    /\ index = [r \in Repos |-> NoIndex]
    /\ formats = [r \in Repos |-> DefaultFormats]
    /\ dict = [r \in Repos |-> Written(ebuilds, r, {}, <<>>)]
    /\ md5cache = [r \in Repos |-> {}]
    /\ count = 0

Fetched == {{}, {PV(v) : v \in Versions}}

Next ==
    \E r \in Repos :
        \/ doCacheClean(r) \/ IndexCommand(r) \/ cmdUseDiscover(r) \/ Egencache(r)
        \/ \E method \in {"md5-dict", "pms"} : cmdCacheSetMethod(r, method)
        \/ \E targets \in SUBSET Packages : cmdCacheGenerate(r, targets)
        \/ \E p \in Packages :
              \/ \E v \in Versions, c \in Contents, bump \in Bumps \cup {NoRevision} :
                    cmdEbuildUpsert(r, p, v, c, bump)
              \/ \E v \in Versions, c \in Contents, fetched \in Fetched :
                    InstallEbuild(r, p, v, c, fetched) \/ cmdOverlayEbuildInstall(r, p, v, c, fetched)
              \/ \E v \in DOMAIN ebuilds[r][p] : DeleteFile(r, p, v)
              \/ \E versions \in {{}} \cup {{v} : v \in Versions} : DeleteAtom(r, p, versions)

Spec == Init /\ [][Next]_vars

-----------------------------------------------------------------------------
\* Versions are sorted with CompareVersions by "tag", by deduplication, by the lints and for the
\* site: on the versions of a directory it is an order.
OrderedByComparison(names) ==
    LET NotAfter == {p \in names \X names : CompareVersions(p[1], p[2]) <= 0}
        NotBefore == {p \in names \X names : CompareVersions(p[1], p[2]) >= 0}
    IN  /\ \A u, v \in names : <<u, v>> \in NotAfter <=> <<v, u>> \in NotBefore
        /\ \A p \in NotAfter : \A w \in names : <<p[2], w>> \in NotAfter => <<p[1], w>> \in NotAfter

\* What scripts name a new ebuild after is newer than the ebuilds there are, in the directory that
\* the last command worked on. "tag" with a part names a version above all of the directory,
\* "next-revision" one that is free and above the revisions of its version, and the version
\* itself only where check-exists finds none; "versions bump" raises a number that is there.
NewVersionsAreNew ==
    last.pkg \in Packages =>
        LET dir == ebuilds[last.repo][last.pkg]
            names == DOMAIN dir
            Above(v, others) == \A w \in others : CompareVersions(v, w) > 0
        IN  /\ OrderedByComparison(names)
            /\ \A part \in {"revision", "major", "minor", "patch"} :
                  \A v \in cmdEbuildTag(dir, part) : Above(v, names)
            /\ \A v \in Versions :
                  LET next == getNextRevision(dir, v, NoContent)
                  IN  /\ next \notin names /\ Above(next, RevisionsOf(dir, PV(v)))
                      /\ checkEbuildExists(dir, PV(v)) <=> next # PV(v)
            /\ \A v \in names : \A place \in DOMAIN v.nums \cap 1 .. 3 :
                  Above(bumpVersionString(v, <<"major", "minor", "patch">>[place], "", NoNumber), {v})

\* "Upsert": the content is in the directory when the command is done, and to run it again
\* changes nothing, whatever revisions were there.
UpsertSettles ==
    last.cmd = "upsert" =>
        LET dir == ebuilds[last.repo][last.pkg]
            version == last.args[1]
            content == last.args[2]
        IN  /\ \E v \in DOMAIN dir : dir[v] = content
            /\ UpsertInto(dir, version, content, last.args[3]) = dir

\* What is cleaned away is not in use. Revisions of a version share its distfile, and no command
\* takes from the Manifest what an ebuild that stays was listed with; and a repository that
\* "cache verify" accepts it accepts after "cache clean" too.
CleaningKeepsWhatIsUsed ==
    [][\A r \in Repos :
          /\ \A p \in Packages : \A v \in DOMAIN ebuilds'[r][p] :
                PV(v) \in manifest[r][p] => PV(v) \in manifest'[r][p]
          /\ last'.cmd = "cache clean" /\ doCacheVerify(r) => doCacheVerify(r)']_vars
=============================================================================
