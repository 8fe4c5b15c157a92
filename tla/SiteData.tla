------------------------------ MODULE SiteData ------------------------------
(***************************************************************************)
(* What the site is made of: parsing a repository into a site, and the     *)
(* aggregation of all sites (cmd/g2/parse_repo.go, parse_pkg_uses.go and   *)
(* the aggregators of site.go).                                            *)
(*                                                                         *)
(* A tree is what a checkout holds; ParseRepo turns it into a site.  Lists *)
(* that the code sorts are sets here.  Texts (descriptions, counts, dates) *)
(* do not decide which pages exist and are left out.                       *)
(***************************************************************************)
EXTENDS Naturals, Sequences, FiniteSets

CONSTANTS
    Slugs,              \* names that are no file names |-> the directory used instead, "" for none
    MalformedLicenses,  \* tokens of LICENSE that are no licence names
    MainCategories,     \* the categories of the gentoo repository, as fetched
    VirtualCategories   \* "virtual" and the names that begin with "virtual-"

ASSUME SlugsAssumption == \A n \in DOMAIN Slugs : Slugs[n] = "" \/ Slugs[n] \notin DOMAIN Slugs

sanitizeFilename(name) == IF name \in DOMAIN Slugs THEN Slugs[name] ELSE name
isValidLicense(token) == token \notin MalformedLicenses

-----------------------------------------------------------------------------
(* Parsing one repository.                                                 *)

IgnoredDirs == {"profiles", "metadata", "eclass", "scripts", "distfiles", "packages", "licenses", ".git"}

isCategoryAllowed(tree, cat) ==
    \/ cat \in VirtualCategories
    \/ cat \in tree.categories
    \/ "gentoo" \in tree.masters /\ cat \in MainCategories
    \/ tree.categories = {}

\* What the lint of a category's place says, "" when it is in order.
CategoryWarning(tree, cat) ==
    LET main == cat \in MainCategories
        listed == tree.categories = {} \/ cat \in tree.categories
    IN  CASE ~listed /\ main /\ "gentoo" \in tree.masters -> ""
          [] ~listed /\ (main \/ MainCategories = {}) -> "Warning"
          [] ~listed -> "Error"
          [] listed /\ ~main /\ MainCategories # {} -> "Note"
          [] OTHER -> ""

\* Each file of the Manifest with the versions that download it.
buildManifestData(files, versions) ==
    [f \in files |-> {v.pv : v \in {w \in versions : f \in w.distfiles}}]

parseRepoCategoriesAndPackages(tree) ==
    {[cat |-> p.cat, name |-> p.name, flags |-> p.flags, maintainers |-> p.maintainers,
      versions |-> {e \in p.ebuilds : e.parses},
      manifest |-> buildManifestData(p.files, {e \in p.ebuilds : e.parses}),
      warning |-> CategoryWarning(tree, p.cat)] :
     p \in {q \in tree.packages : /\ q.cat \notin IgnoredDirs
                                  /\ isCategoryAllowed(tree, q.cat)
                                  /\ \E e \in q.ebuilds : e.parses}}

\* Bug variant: the name in the tree is not read.
repoNameListed(tree) == IF tree.listed # "" THEN tree.listed ELSE "overlay"

\* profiles/repo_name, else the name in the list of repositories, else the directory.
repoName(tree) ==
    IF tree.repo_name # "" THEN tree.repo_name
    ELSE IF tree.listed # "" THEN tree.listed ELSE tree.dir

parseRepo(tree) ==
    [repo |-> repoName(tree), quality |-> tree.quality, status |-> tree.status,
     packages |-> parseRepoCategoriesAndPackages(tree), licenses |-> tree.licenses,
     projects |-> tree.projects, profiles |-> tree.profiles, eclasses |-> tree.eclasses,
     news |-> tree.news, arches |-> tree.arch_list \cup tree.arches_desc,
     moves |-> tree.moves, expands |-> tree.expands, useDesc |-> tree.useDesc,
     extras |-> tree.extras]

PkgKey(p) == <<p.cat, p.name>>
PkgMap(site) == {PkgKey(p) : p \in site.packages}
Categories(site) == {p.cat : p \in site.packages}
Versions(site) == UNION {p.versions : p \in site.packages}

\* The packages that provide a virtual, and the virtuals that a package provides.
VirtualDeps(pkg) ==
    IF pkg.cat \in VirtualCategories THEN UNION {v.deps : v \in pkg.versions} ELSE {}
ReverseVirtuals(site, pkg) ==
    {PkgKey(v) : v \in {w \in site.packages : PkgKey(pkg) \in VirtualDeps(w)}}

\* What else provides a virtual that the package provides.
Equivalents(site, pkg) ==
    UNION {VirtualDeps(w) : w \in {v \in site.packages : PkgKey(pkg) \in VirtualDeps(v)}} \ {PkgKey(pkg)}

-----------------------------------------------------------------------------
(* The flags of a repository.                                              *)

\* Bug variant: the expanded flags are kept apart.
GlobalDescsUnexpanded(site) == site.useDesc

\* populatePkgUseFlags writes the expanded flags into the map of profiles/use.desc,
\* which is a map of its own, thrown away, when the repository has no such file.
GlobalDescs(site) ==
    IF site.useDesc = {} THEN {}
    ELSE site.useDesc \cup UNION {{x.prefix \o "_" \o f : f \in x.flags} : x \in site.expands}

PkgUseFlags(pkg) == pkg.flags \cup UNION {v.iuse \cup v.required : v \in pkg.versions}
FlagUsers(site, flag) == {PkgKey(p) : p \in {q \in site.packages : flag \in PkgUseFlags(q)}}

getRepoUseFlags(site) == GlobalDescs(site) \cup UNION {PkgUseFlags(p) : p \in site.packages}

\* The expansions that a version's flags belong to.
ExpandsOf(site, version) ==
    {x.prefix : x \in {y \in site.expands : \E f \in y.flags : y.prefix \o "_" \o f \in version.iuse}}

-----------------------------------------------------------------------------
(* Licences and eclasses of a repository.                                  *)

UsedLicenses(site) == {l \in UNION {v.licenses : v \in Versions(site)} : isValidLicense(l)}
getRepoLicenses(site) == site.licenses \cup UsedLicenses(site)
\* LICENSE is a link when it is the name of one licence and nothing else.
LinkedLicenses(version) ==
    {l \in version.licenses : version.licenses = {l} /\ isValidLicense(l) /\ sanitizeFilename(l) # ""}

getRepoEclasses(site) == site.eclasses \cup UNION {v.inherited : v \in Versions(site)}
EclassUsers(site, eclass) ==
    {PkgKey(p) : p \in {q \in site.packages : \E v \in q.versions : eclass \in v.inherited}}

-----------------------------------------------------------------------------
(* Aggregation of a sequence of sites.                                     *)

SitesOf(sites) == {sites[i] : i \in DOMAIN sites}
UnionOver(sites, Op(_)) == UNION {Op(s) : s \in SitesOf(sites)}

\* An unlisted repository counts as experimental and unofficial.
GroupOf(site) ==
    <<IF site.quality = "" THEN "experimental" ELSE site.quality,
      IF site.status = "" THEN "unofficial" ELSE site.status>>
aggregateGroupedRepos(sites) == {GroupOf(s) : s \in SitesOf(sites)}

aggregateUseExpandDescs(sites) == {x.prefix : x \in UnionOver(sites, LAMBDA s : s.expands)}

\* A project that more than one repository names gets the repository's name appended.
ReposOfProject(sites, email) == {s.repo : s \in {t \in SitesOf(sites) : email \in t.projects}}
ProjectKey(sites, email, site) ==
    IF Cardinality(ReposOfProject(sites, email)) > 1 THEN email \o "-" \o site.repo ELSE email
aggregateProjects(sites) ==
    UnionOver(sites, LAMBDA s : {ProjectKey(sites, e, s) : e \in s.projects})

aggregateProfiles(sites) == UnionOver(sites, LAMBDA s : s.profiles)
aggregateGlobalNews(sites) == UnionOver(sites, LAMBDA s : {<<s.repo, n>> : n \in s.news})
aggregateArches(sites) == UnionOver(sites, LAMBDA s : s.arches)
aggregateEclasses(sites) == UnionOver(sites, getRepoEclasses)

\* The first site that moves a package decides where to.
aggregateMoves(sites) ==
    {m \in UnionOver(sites, LAMBDA s : s.moves) :
        \E i \in DOMAIN sites :
            /\ m \in sites[i].moves
            /\ \A j \in 1..(i - 1) : \A n \in sites[j].moves : n.old # m.old}

aggregatePackages(sites) == UnionOver(sites, PkgMap)
aggregateCategories(sites) == UnionOver(sites, Categories)
ReposOf(sites, key) == {s.repo : s \in {t \in SitesOf(sites) : key \in PkgMap(t)}}

\* The packages a project maintains: looked up by the plain address, so a project
\* that was renamed for being shared has none.
ProjectPackages(sites, key) ==
    UnionOver(sites, LAMBDA s : {PkgKey(p) : p \in {q \in s.packages : key \in q.maintainers}})

aggregateLicenses(sites) == UnionOver(sites, getRepoLicenses)
supportedLicenses(sites) == UnionOver(sites, LAMBDA s : s.licenses)
unsupportedLicenses(sites) == aggregateLicenses(sites) \ supportedLicenses(sites)
LicenseUsers(sites, lic) ==
    UnionOver(sites, LAMBDA s : {PkgKey(p) : p \in {q \in s.packages :
                                    \E v \in q.versions : lic \in v.licenses}})

\* The repositories that provide a licence, or use it.
LicenseRepos(sites, lic) == {s.repo : s \in {t \in SitesOf(sites) : lic \in getRepoLicenses(t)}}

AggregateUseFlags(sites) == UnionOver(sites, getRepoUseFlags)

prepareAggregatedData(sites) ==
    [Categories |-> aggregateCategories(sites), Packages |-> aggregatePackages(sites),
     Repos |-> [k \in aggregatePackages(sites) |-> ReposOf(sites, k)],
     Licenses |-> supportedLicenses(sites), UnsupportedLicenses |-> unsupportedLicenses(sites),
     Projects |-> aggregateProjects(sites), Profiles |-> aggregateProfiles(sites),
     Arches |-> aggregateArches(sites), Moves |-> aggregateMoves(sites),
     GlobalNews |-> aggregateGlobalNews(sites), UseFlags |-> AggregateUseFlags(sites),
     UseExpandDescs |-> aggregateUseExpandDescs(sites), Groups |-> aggregateGroupedRepos(sites)]
=============================================================================
