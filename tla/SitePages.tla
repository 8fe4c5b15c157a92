----------------------------- MODULE SitePages -----------------------------
(***************************************************************************)
(* The pages of the site: what each generator of cmd/g2/generate_site.go   *)
(* writes, in which order, in which goroutines, and where each page's      *)
(* template links to.                                                      *)
(*                                                                         *)
(* A generator is a sequence of steps.  A "page" step writes one file and  *)
(* fails the generator when it cannot; an "optional" step is the search    *)
(* index, whose failure is only logged; a "group" step starts one          *)
(* goroutine per task in an errgroup and waits for them.  A path is the    *)
(* directory of an index.html below the output directory, or a file, and   *)
(* links are the paths they resolve to.                                    *)
(*                                                                         *)
(* Two kinds of links are told apart: those to what the site lists, made   *)
(* from the lists the pages are made from, and those to what a package     *)
(* names (dependencies, keywords, licences, the package it moved to),      *)
(* which no repository need have.  Left out are the links that a template  *)
(* computes wrong and breadcrumbs; the README lists both.                  *)
(***************************************************************************)
EXTENDS SiteData, FiniteSetsExt, SequencesExt

CONSTANTS
    Limit,          \* SetLimit of every errgroup, 10 in the code
    DashboardRepos  \* above this number the dashboard lists groups, 10 in the code

ASSUME SitePagesAssumption == Limit \in Nat \ {0} /\ DashboardRepos \in Nat

File(path, tmpl, links) == [kind |-> "page", path |-> path, tmpl |-> tmpl, links |-> links, names |-> {}]

\* A page with the links of its footer, and one that names things besides.
Footer == {<<"help">>, <<"stats">>}
Page(path, tmpl, links) == File(path, tmpl, links \cup Footer)
NamingPage(path, tmpl, links, names) == [Page(path, tmpl, links) EXCEPT !.names = names]

Group(children) == [kind |-> "group", tasks |-> children, limit |-> Limit]

\* One element for each member of S, in some order.
Each(S, Op(_)) == FoldSet(LAMBDA x, acc : Append(acc, Op(x)), <<>>, S)
Concat(S, Op(_)) == FoldSet(LAMBDA x, acc : acc \o Op(x), <<>>, S)
When(condition, steps) == IF condition THEN steps ELSE <<>>

Repo(r) == <<"repos", r>>
RepoPkg(r, key) == Repo(r) \o <<"categories", key[1], "packages", key[2]>>
Pkg(key) == <<"packages", key[1], key[2]>>
InRepos(sites, key) == {RepoPkg(r, key) : r \in ReposOf(sites, key)}

\* A package of one repository is linked there, one of several where they are listed.
PkgEntry(sites, key) == IF Cardinality(ReposOf(sites, key)) = 1 THEN InRepos(sites, key) ELSE {Pkg(key)}

-----------------------------------------------------------------------------
(* Pages about all repositories.                                           *)

DashboardLinks(sites, data) ==
    {<<"overlays">>, <<"categories">>, <<"packages">>, <<"uses">>, <<"arches">>, <<"search">>}
        \cup (IF data.Licenses = {} THEN {} ELSE {<<"licenses">>})
        \cup (IF data.Projects = {} THEN {} ELSE {<<"projects">>})
        \cup (IF data.Profiles = {} THEN {} ELSE {<<"profiles">>})
        \cup (IF data.GlobalNews = {} THEN {}
              ELSE {<<"news">>, <<"news", "archive">>}
                    \cup {<<"news", "archive", n[1], n[2]>> : n \in data.GlobalNews})
        \cup (IF Len(sites) > DashboardRepos
              THEN {<<"repos", "all">>} \cup {Repo(g[1] \o "-" \o g[2]) : g \in data.Groups}
              ELSE {Repo(s.repo) : s \in SitesOf(sites)})

Articles(data) ==
    Each(data.GlobalNews,
         LAMBDA n : Page(<<"news", "archive", n[1], n[2]>>, "news_article.html", {Repo(n[1])}))

generateGlobalNewsFeeds(dir) ==
    <<File(dir \o <<"index.rss">>, "rss", {}), File(dir \o <<"index.atom">>, "atom", {})>>

generateGlobalPages(sites, data) ==
    <<Page(<<"help">>, "help.html", {}), Page(<<"stats">>, "stats.html", {}),
      Page(<<>>, "dashboard.html", DashboardLinks(sites, data))>>
    \o When(data.GlobalNews # {},
            <<Page(<<"news">>, "news_dashboard.html",
                   {<<"news", "archive", n[1], n[2]>> : n \in data.GlobalNews})>>
            \o generateGlobalNewsFeeds(<<"news">>)
            \o <<Page(<<"news", "archive">>, "news_archive.html",
                      {<<"news", "archive", n[1], n[2]>> : n \in data.GlobalNews})>>
            \o Articles(data))
    \o <<Page(<<"overlays">>, "overlays.html", {Repo(s.repo) : s \in SitesOf(sites)})>>

generateCategoryPages(sites, data) ==
    <<Page(<<"categories">>, "categories.html", {<<"categories", c>> : c \in data.Categories}),
      Group(Each({c \in data.Categories : sanitizeFilename(c) # ""},
        LAMBDA c : <<Page(<<"categories", sanitizeFilename(c)>>, "category.html",
            UNION {PkgEntry(sites, k) \cup InRepos(sites, k) : k \in {k \in data.Packages : k[1] = c}})>>))>>

WellFormedMove(m) == Len(m.old) = 2 /\ Len(m.new) = 2

\* A package that moved away leaves a page, unless a package is there now.
MovedPages(data) ==
    Each({m \in data.Moves : WellFormedMove(m) /\ m.old \notin data.Packages},
         LAMBDA m : <<Page(Pkg(m.old), "moved_package.html", {Pkg(m.new)})>>)

MovedTo(data, k) == {m.new : m \in {n \in data.Moves : n.old = k /\ Len(n.new) = 2}}
PackagePage(sites, data, k) ==
    IF Cardinality(ReposOf(sites, k)) = 1
    THEN File(Pkg(k), "redirect.html", InRepos(sites, k))
    ELSE Page(Pkg(k), "package_picker.html", InRepos(sites, k) \cup {Pkg(d) : d \in MovedTo(data, k)})

generatePackagePages(sites, data) ==
    <<Group(MovedPages(data)),
      Page(<<"packages">>, "packages.html",
           UNION {{Pkg(k)} \cup InRepos(sites, k) : k \in data.Packages}),
      Group(Each(data.Packages, LAMBDA k : <<PackagePage(sites, data, k)>>))>>

ArchPages(sites, data) ==
    <<Page(<<"arches">>, "arches.html", {<<"arches", a>> : a \in data.Arches}),
      Group(Each(data.Arches, LAMBDA a : <<Page(<<"arches", a>>, "arch.html",
        {Repo(s.repo) : s \in {t \in SitesOf(sites) : a \in t.arches}})>>))>>

ProfilePages(sites, data) ==
    When(data.Profiles # {},
      <<Page(<<"profiles">>, "profiles.html",
             {<<"profiles">> \o p.path : p \in data.Profiles} \cup {Repo(s.repo) : s \in SitesOf(sites)}),
        Group(Each({p.path : p \in data.Profiles}, LAMBDA path : <<Page(<<"profiles">> \o path, "profile.html",
             {Repo(s.repo) : s \in {t \in SitesOf(sites) : \E p \in t.profiles : p.path = path}})>>))>>)

\* A package that has the flag somewhere is linked in one of all the repositories that have it: the
\* last by name, which need not be the one whose package has the flag.
FlagLinks(sites, data, f) ==
    UNION {UNION {{RepoPkg(r, k) : r \in data.Repos[k]} : k \in FlagUsers(s, f)} : s \in SitesOf(sites)}
UsePages(sites, data) ==
    <<Page(<<"uses">>, "uses.html", {<<"uses", f>> : f \in data.UseFlags})>>
    \o Each(data.UseFlags, LAMBDA f : Page(<<"uses", f>>, "use.html", FlagLinks(sites, data, f)))

\* The flags that an expansion lists: the first site that describes it.
ExpandFlags(sites, prefix) ==
    LET i == Min({j \in DOMAIN sites : \E x \in sites[j].expands : x.prefix = prefix})
    IN  {prefix \o "_" \o f : f \in UNION {x.flags : x \in {y \in sites[i].expands : y.prefix = prefix}}}

UseExpandPages(sites, data) ==
    When(data.UseExpandDescs # {},
      <<Page(<<"uses_expand">>, "use_expands.html", {<<"uses_expand", p>> : p \in data.UseExpandDescs})>>
      \o Each(data.UseExpandDescs, LAMBDA p : Page(<<"uses_expand", p>>, "use_expand.html",
              {<<"uses", f>> : f \in ExpandFlags(sites, p)})))

\* Licences that have no name left are listed but get no page.
Linkable(licenses) == {sanitizeFilename(l) : l \in licenses} \ {""}
LicensePages(dir, sites, licenses) ==
    <<Page(<<dir>>, "licenses.html", {<<dir, l>> : l \in Linkable(licenses)})>>
    \o Each({l \in licenses : sanitizeFilename(l) # ""},
            LAMBDA l : Page(<<dir, sanitizeFilename(l)>>, "license.html",
                            {Repo(r) : r \in LicenseRepos(sites, l)}
                            \cup UNION {PkgEntry(sites, k) : k \in LicenseUsers(sites, l)}))

ProjectPages(sites, data) ==
    When(data.Projects # {},
      <<Page(<<"projects">>, "projects.html", {<<"projects", e>> : e \in data.Projects}),
        Group(Each({e \in data.Projects : sanitizeFilename(e) # ""},
          LAMBDA e : <<Page(<<"projects", sanitizeFilename(e)>>, "project.html",
            UNION {PkgEntry(sites, k) : k \in ProjectPackages(sites, e)})>>))>>)

generateOtherGlobalPages(sites, data) ==
    ArchPages(sites, data) \o ProfilePages(sites, data) \o UsePages(sites, data)
        \o UseExpandPages(sites, data) \o LicensePages("licenses", sites, data.Licenses)
        \o LicensePages("unsupported-licenses", sites, data.UnsupportedLicenses)
        \o ProjectPages(sites, data)

-----------------------------------------------------------------------------
(* Pages of one repository.                                                *)

generateRepoGroupPages(sites, data) ==
    Each(data.Groups, LAMBDA g : Page(Repo(g[1] \o "-" \o g[2]), "repo_group.html",
         {Repo(s.repo) : s \in {t \in SitesOf(sites) : GroupOf(t) = g}}))

generateRepoUseFlagsPages(s, data) ==
    <<Page(Repo(s.repo) \o <<"uses">>, "uses.html", {Repo(s.repo) \o <<"uses", f>> : f \in getRepoUseFlags(s)})>>
    \o Each(getRepoUseFlags(s), LAMBDA f : Page(Repo(s.repo) \o <<"uses", f>>, "use.html",
                                               FlagLinks(<<s>>, data, f)))

generateRepoUseExpandsPages(s) ==
    When(s.expands # {},
      <<Page(Repo(s.repo) \o <<"uses_expand">>, "repo_use_expands.html",
             {Repo(s.repo) \o <<"uses_expand", x.prefix>> : x \in s.expands})>>
      \o Each(s.expands, LAMBDA x : Page(Repo(s.repo) \o <<"uses_expand", x.prefix>>, "repo_use_expand.html",
              {Repo(s.repo) \o <<"uses", x.prefix \o "_" \o f>> : f \in x.flags})))

generateRepoLicensesPages(s) ==
    LET dir == Repo(s.repo) \o <<"licenses">>
    IN  When(getRepoLicenses(s) # {},
          <<Page(dir, "repo_licenses.html", {dir \o <<l>> : l \in Linkable(getRepoLicenses(s))})>>
          \o Each({l \in getRepoLicenses(s) : sanitizeFilename(l) # ""},
                  LAMBDA l : Page(dir \o <<sanitizeFilename(l)>>, "repo_license.html",
                    {Repo(s.repo)} \cup {RepoPkg(s.repo, k) : k \in LicenseUsers(<<s>>, l)})))

generateRepoDeprecatedMaskedInfoPages(s) ==
    Each(s.extras \ {"authors"}, LAMBDA x : Page(Repo(s.repo) \o <<x>>, "repo_" \o x \o ".html", {}))

generateRepoMovedPackagesPages(s) ==
    Each({m \in s.moves : WellFormedMove(m) /\ m.old \notin PkgMap(s)},
         LAMBDA m : Page(RepoPkg(s.repo, m.old), "moved_package.html", {RepoPkg(s.repo, m.new)}))

\* The site's list stands in for one that the repository does not have.
OwnOrGlobal(s, what, own, global) ==
    IF own # {} THEN {Repo(s.repo) \o <<what>>} ELSE IF global # {} THEN {<<what>>} ELSE {}
IfAny(s, what, own) == OwnOrGlobal(s, what, own, {})

RepoIndexLinks(s, data) ==
    {Repo(s.repo) \o <<x>> : x \in {"stats"} \cup s.extras}
        \cup OwnOrGlobal(s, "categories", Categories(s), data.Categories)
        \cup OwnOrGlobal(s, "packages", PkgMap(s), data.Packages)
        \cup OwnOrGlobal(s, "profiles", s.profiles, data.Profiles)
        \cup IfAny(s, "licenses", getRepoLicenses(s)) \cup IfAny(s, "uses", getRepoUseFlags(s))
        \cup IfAny(s, "eclasses", getRepoEclasses(s)) \cup IfAny(s, "news", s.news)
        \cup UNION {{Repo(s.repo) \o <<"news", "archive">>, Repo(s.repo) \o <<"news", "archive", n>>} : n \in s.news}

generateRepoIndexAndStatsPages(s, data) ==
    <<Page(Repo(s.repo), "repo_index.html", RepoIndexLinks(s, data)),
      Page(Repo(s.repo) \o <<"stats">>, "repo_stats.html", {})>>

generateRepoProfilesPages(s) ==
    LET dir == Repo(s.repo) \o <<"profiles">>
    IN  When(s.profiles # {},
          <<Page(dir, "repo_profiles.html", {dir \o p.path : p \in s.profiles})>>
          \o Concat(s.profiles, LAMBDA p :
               <<Page(dir \o p.path, "repo_profile.html",
                      {Repo(s.repo)} \cup {dir \o p.path \o <<f \o ".html">> : f \in p.files})>>
               \o Each(p.files, LAMBDA f : Page(dir \o p.path \o <<f \o ".html">>,
                                                "repo_profile_file.html", {dir \o p.path}))))

generateRepoNewsPages(s) ==
    LET dir == Repo(s.repo) \o <<"news">>
        links == {dir \o <<"archive", n>> : n \in s.news}
    IN  When(s.news # {},
          <<Page(dir, "news_dashboard.html", links)>> \o generateGlobalNewsFeeds(dir)
          \o <<Page(dir \o <<"archive">>, "news_archive.html", links)>>
          \o Each(s.news, LAMBDA n : Page(dir \o <<"archive", n>>, "news_article.html", {Repo(s.repo)})))

generateRepoCategoriesPages(s) ==
    LET dir == Repo(s.repo) \o <<"categories">>
    IN  <<Page(dir, "categories.html", {dir \o <<c>> : c \in Categories(s)})>>
        \o Each({c \in Categories(s) : sanitizeFilename(c) # ""},
            LAMBDA c : Page(dir \o <<sanitizeFilename(c)>>, "category.html",
                            {RepoPkg(s.repo, k) : k \in {k \in PkgMap(s) : k[1] = c}}))

generateRepoAuthorsPages(s) ==
    When("authors" \in s.extras, <<Page(Repo(s.repo) \o <<"authors">>, "authors.html", {})>>)

EclassPages(s) ==
    LET dir == Repo(s.repo) \o <<"eclasses">>
    IN  When(getRepoEclasses(s) # {},
          <<Page(dir, "repo_eclasses.html", {dir \o <<e>> : e \in getRepoEclasses(s)})>>
          \o Each(getRepoEclasses(s), LAMBDA e : Page(dir \o <<e>>, "repo_eclass.html",
                                                    {RepoPkg(s.repo, k) : k \in EclassUsers(s, e)})))

\* The pages of generateRepoUseFlagsPages once more, from the same flags.
RepoUsePages(s) ==
    <<Page(Repo(s.repo) \o <<"uses">>, "repo_uses.html", {Repo(s.repo) \o <<"uses", f>> : f \in getRepoUseFlags(s)})>>
    \o Each(getRepoUseFlags(s), LAMBDA f : Page(Repo(s.repo) \o <<"uses", f>>, "repo_use.html", {}))

EbuildPath(dir, version) == dir \o <<"ebuild", version>>

\* What the pages of a package name, and need not be there.
VirtualLinks(s, p) == {Pkg(k) : k \in VirtualDeps(p) \cup ReverseVirtuals(s, p) \cup Equivalents(s, p)}
LicenseLinks(p) == UNION {{<<"licenses", sanitizeFilename(l)>> : l \in LinkedLicenses(v)} : v \in p.versions}

\* The licence of a package is that of one of its versions; which of the packages are listed as
\* informative does not matter.
RepoPackagePage(s, data, p, used) ==
    LET dir == RepoPkg(s.repo, PkgKey(p))
    IN  NamingPage(dir, "repo_package.html",
          {Repo(s.repo)} \cup {EbuildPath(dir, v.pv) : v \in p.versions}
          \cup {Repo(s.repo) \o <<"uses", f>> : f \in p.flags \cup UNION {v.iuse : v \in p.versions}}
          \cup {Repo(s.repo) \o <<x>> : x \in s.extras \cap {"info_pkgs"}}
          \cup {dir \o <<"manifest", f>> : f \in used},
          {RepoPkg(s.repo, d) : d \in MovedTo(data, PkgKey(p))} \cup VirtualLinks(s, p) \cup LicenseLinks(p))

EbuildPage(s, p, used, v) ==
    LET dir == RepoPkg(s.repo, PkgKey(p))
    IN  NamingPage(EbuildPath(dir, v.pv), "ebuild_details.html",
          {Repo(s.repo), dir} \cup {<<"uses", f>> : f \in v.iuse}
          \cup {<<"uses_expand", x>> : x \in ExpandsOf(s, v)}
          \cup {Repo(s.repo) \o <<"licenses", sanitizeFilename(l)>> : l \in LinkedLicenses(v)}
          \cup {Repo(s.repo) \o <<"eclasses", e>> : e \in v.inherited}
          \cup {dir \o <<"manifest", f>> : f \in {g \in used : v.pv \in p.manifest[g]}},
          {Pkg(d) : d \in v.deps} \cup {<<"arches", a>> : a \in v.keywords} \cup VirtualLinks(s, p))

\* A package's page, then its Manifest's files, then its ebuilds.  The version
\* that names an ebuild's page has no revision.
RepoPackageTask(s, data, p) ==
    LET dir == RepoPkg(s.repo, PkgKey(p))
        used == {f \in DOMAIN p.manifest : p.manifest[f] # {}}
    IN  <<RepoPackagePage(s, data, p, used)>>
        \o Each(used, LAMBDA f : Page(dir \o <<"manifest", f>>, "repo_package_manifest.html",
                                      {dir} \cup {EbuildPath(dir, v) : v \in p.manifest[f]}))
        \o <<Page(dir \o <<"ebuild">>, "repo_package_ebuilds.html", {EbuildPath(dir, v.pv) : v \in p.versions})>>
        \o Each(p.versions, LAMBDA v : EbuildPage(s, p, used, v))

generateRepoPackagesPages(s, data) ==
    <<Page(Repo(s.repo) \o <<"packages">>, "repo_packages.html",
           {RepoPkg(s.repo, k) : k \in PkgMap(s)})>>
    \o EclassPages(s) \o RepoUsePages(s)
    \o <<Group(Each(s.packages, LAMBDA p : RepoPackageTask(s, data, p)))>>

RepoTask(s, data) ==
    generateRepoUseFlagsPages(s, data) \o generateRepoUseExpandsPages(s) \o generateRepoLicensesPages(s)
        \o generateRepoDeprecatedMaskedInfoPages(s) \o generateRepoMovedPackagesPages(s)
        \o generateRepoIndexAndStatsPages(s, data) \o generateRepoProfilesPages(s) \o generateRepoNewsPages(s)
        \o generateRepoCategoriesPages(s) \o generateRepoAuthorsPages(s) \o generateRepoPackagesPages(s, data)

generateRepoPages(sites, data) ==
    <<Page(<<"repos", "all">>, "overlays.html", {})>> \o generateRepoGroupPages(sites, data)
    \o <<Group(FoldLeft(LAMBDA acc, s : Append(acc, RepoTask(s, data)), <<>>, sites))>>

\* The whole program of a run.
generateSite(sites) ==
    LET data == prepareAggregatedData(sites)
    IN  <<[Page(<<"search">>, "search.html", {}) EXCEPT !.kind = "optional"]>>
        \o generateGlobalPages(sites, data) \o generateCategoryPages(sites, data)
        \o generatePackagePages(sites, data) \o generateOtherGlobalPages(sites, data)
        \o generateRepoPages(sites, data)
=============================================================================
