----------------------------- MODULE SiteServe -----------------------------
(***************************************************************************)
(* "site serve" (cmd/g2/site_serve.go): the repositories are parsed by an  *)
(* errgroup, then one handler answers every request from what was parsed.  *)
(* It is composed with SiteRender: the same trees were generated before,   *)
(* so each page of the server has the file of the same path beside it.     *)
(*                                                                         *)
(* The wait for memory in front of a parse is MemoryManager's; here a      *)
(* repository that was started may be parsed at any time.  An answer is    *)
(* the name of a template and whether its data were found: a template that *)
(* fails is answered with 500, which no data of the model make one do.     *)
(***************************************************************************)
EXTENDS SiteRender

CONSTANTS
    Concurrency,   \* -concurrency, 0 for no limit
    NoOverlay,     \* indices of the directories without profiles/
    ByTitle,       \* the indices of Trees in the order of their titles
    MaxBadParses   \* bound: repositories that do not parse

ASSUME SiteServeAssumption ==
    /\ Concurrency \in Nat /\ MaxBadParses \in Nat /\ NoOverlay \subseteq DOMAIN Trees
    /\ {ByTitle[i] : i \in DOMAIN ByTitle} = DOMAIN Trees /\ Len(ByTitle) = Len(Trees)

VARIABLES
    load,     \* repository |-> "listed", "parsing", "parsed", "bad" or "skipped"
    loaded,   \* the parsed repositories in the order they were appended
    server,   \* "off", "loading", "up" or "refused"
    answer    \* the last request and what was answered: [path, page, filled]

serveVars == <<load, loaded, server, answer>>

\* parseRepo is given no entry of the repository list here.
LiveSite(i) == parseRepo([Trees[i] EXCEPT !.listed = ""])

ServeInit ==
    /\ load = [i \in DOMAIN Trees |-> "listed"]
    /\ loaded = <<>>
    /\ server = "off"
    /\ answer = [path |-> <<>>, page |-> "none", filled |-> FALSE]

-----------------------------------------------------------------------------
(* Loading.                                                                *)

InState(s) == {i \in DOMAIN load : load[i] = s}

StartServer ==
    /\ server = "off"
    /\ result = "ok"
    /\ server' = "loading"
    /\ UNCHANGED <<load, loaded, answer>>

\* The loop takes the repositories in order and blocks in Go at the limit.
Start(i) ==
    /\ server = "loading"
    /\ load[i] = "listed" /\ \A j \in 1..(i - 1) : load[j] # "listed"
    /\ IF i \in NoOverlay THEN load' = [load EXCEPT ![i] = "skipped"]
       ELSE /\ Concurrency > 0 => Cardinality(InState("parsing")) < Concurrency
            /\ load' = [load EXCEPT ![i] = "parsing"]
    /\ UNCHANGED <<loaded, server, answer>>

Parse(i) ==
    /\ load[i] = "parsing"
    /\ load' = [load EXCEPT ![i] = "parsed"]
    /\ loaded' = Append(loaded, i)
    /\ UNCHANGED <<server, answer>>

\* A repository that does not parse is warned about and left out.
ParseBad(i) ==
    /\ load[i] = "parsing"
    /\ Cardinality(InState("bad")) < MaxBadParses
    /\ load' = [load EXCEPT ![i] = "bad"]
    /\ UNCHANGED <<loaded, server, answer>>

\* Bug variant: the order in which the parsers ended is kept.
AsLoaded(seq) == seq

InTitleOrder(S) ==
    LET UpTo[n \in 0 .. Len(ByTitle)] ==
            IF n = 0 THEN <<>>
            ELSE IF ByTitle[n] \in S THEN Append(UpTo[n - 1], ByTitle[n]) ELSE UpTo[n - 1]
    IN  UpTo[Len(ByTitle)]
SortByTitle(seq) == InTitleOrder({seq[k] : k \in DOMAIN seq})

AllParsed == InState("listed") \cup InState("parsing") = {}

ListenAndServe ==
    /\ server = "loading"
    /\ AllParsed
    /\ loaded' = SortByTitle(loaded)
    /\ server' = IF loaded = <<>> THEN "refused" ELSE "up"
    /\ UNCHANGED <<load, answer>>

-----------------------------------------------------------------------------
(* Routing: the template that answers a path, or "404".                    *)

FoundIf(condition, page) == IF condition THEN page ELSE "404"
LiveSites == [k \in DOMAIN loaded |-> LiveSite(loaded[k])]

TopPages ==
    [overlays |-> "overlays.html", categories |-> "categories.html", packages |-> "packages.html",
     uses |-> "uses.html", licenses |-> "licenses.html", projects |-> "projects.html",
     stats |-> "stats.html", help |-> "help.html"] @@ ("unsupported-licenses" :> "licenses.html")

\* newSiteServer never records who provides a licence, so all count as unsupported.
LiveLicenses(sites) == UNION {UsedLicenses(s) : s \in SitesOf(sites)}

\* Bug variant: the redirection is left to the picker.
LivePackageAlwaysPicked(sites, key) == FoundIf(ReposOf(sites, key) # {}, "package_picker.html")

\* A package of several repositories is a choice, one of a single one a redirection.
LivePackage(sites, key) ==
    CASE ReposOf(sites, key) = {} -> "404"
      [] Cardinality(ReposOf(sites, key)) = 1 -> "redirect.html"
      [] OTHER -> "package_picker.html"

GlobalRoute(sites, path) ==
    LET what == path[1]
        name == Last(path)
    IN  CASE Len(path) = 1 -> FoundIf(what \in DOMAIN TopPages, TopPages[what])
          [] Len(path) = 3 -> IF what = "packages" THEN LivePackage(sites, Tail(path)) ELSE "404"
          [] Len(path) = 2 /\ what = "categories" ->
                FoundIf(name \in aggregateCategories(sites), "category.html")
          [] Len(path) = 2 /\ what = "uses" -> FoundIf(name \in AggregateUseFlags(sites), "use.html")
          [] Len(path) = 2 /\ what = "unsupported-licenses" ->
                FoundIf(\E l \in LiveLicenses(sites) : sanitizeFilename(l) = name, "license.html")
          [] Len(path) = 2 /\ what = "projects" ->
                FoundIf(\E s \in SitesOf(sites) : name \in s.projects, "project.html")
          [] OTHER -> "404"

PackageRoute(s, key, rest) ==
    LET p == CHOOSE q \in s.packages : PkgKey(q) = key
    IN  CASE key \notin PkgMap(s) -> "404"
          [] rest = <<>> -> "repo_package.html"
          [] rest = <<"ebuild">> -> "repo_package_ebuilds.html"
          [] Len(rest) = 2 /\ rest[1] = "ebuild" ->
                FoundIf(\E v \in p.versions : v.pv = rest[2], "ebuild_details.html")
          [] Len(rest) = 2 /\ rest[1] = "manifest" ->
                FoundIf(rest[2] \in DOMAIN p.manifest, "repo_package_manifest.html")
          [] OTHER -> "404"

RepoTop ==
    [stats |-> "repo_stats.html", masked |-> "repo_masked.html", deprecated |-> "repo_deprecated.html",
     info_pkgs |-> "repo_info_pkgs.html", categories |-> "categories.html",
     packages |-> "repo_packages.html", profiles |-> "repo_profiles.html", uses |-> "repo_uses.html",
     licenses |-> "repo_licenses.html"]

ProfileRoute(s, path) ==
    CASE \E p \in s.profiles : p.path = path -> "repo_profile.html"
      [] \E p \in s.profiles : \E f \in p.files : p.path \o <<f \o ".html">> = path -> "repo_profile_file.html"
      [] OTHER -> "404"

RepoRoute(s, rest) ==
    CASE rest = <<>> -> "repo_index.html"
      [] Len(rest) = 1 -> FoundIf(rest[1] \in DOMAIN RepoTop, RepoTop[rest[1]])
      [] Len(rest) >= 2 /\ rest[1] = "profiles" -> ProfileRoute(s, Tail(rest))
      [] Len(rest) = 2 /\ rest[1] = "uses" -> FoundIf(rest[2] \in getRepoUseFlags(s), "repo_use.html")
      [] Len(rest) = 2 /\ rest[1] = "licenses" ->
            FoundIf(\E l \in getRepoLicenses(s) : sanitizeFilename(l) = rest[2], "repo_license.html")
      [] Len(rest) = 2 /\ rest[1] = "categories" -> FoundIf(rest[2] \in Categories(s), "category.html")
      [] Len(rest) >= 4 /\ rest[1] = "categories" /\ rest[3] = "packages" ->
            PackageRoute(s, <<rest[2], rest[4]>>, SubSeq(rest, 5, Len(rest)))
      [] OTHER -> "404"

ServeHTTP(sites, path) ==
    LET named == {k \in DOMAIN sites : Len(path) > 1 /\ sites[k].repo = path[2]}
    IN  CASE path = <<>> -> "dashboard.html"
          [] path # <<>> /\ path[1] # "repos" -> GlobalRoute(sites, path)
          [] Len(path) >= 2 /\ path[1] = "repos" /\ named # {} ->
                RepoRoute(sites[Max(named)], SubSeq(path, 3, Len(path)))
          [] OTHER -> "404"

\* The handlers name the data of these pages otherwise than the templates read them, "Package" for
\* RepoPackage and the like, so the pages show none.
Unfilled == {"packages.html", "use.html", "repo_use.html", "repo_package.html", "repo_packages.html",
             "ebuild_details.html", "repo_package_manifest.html", "repo_profile.html"}

Request(path) ==
    /\ server = "up"
    /\ LET page == ServeHTTP(LiveSites, path)
       IN  answer' = [path |-> path, page |-> page, filled |-> page \notin Unfilled]
    /\ UNCHANGED <<load, loaded, server>>

\* The pages a client may ask for: those of the generated site and of none.
RequestPaths == Written \cup {<<"nothing">>, <<"repos">>, <<"repos", "nobody">>, <<"licenses", "own">>,
                              <<"repos", "gentoo", "categories", "app", "packages", "one", "manifest", "old.tar">>}

Loading ==
    \/ StartServer
    \/ \E i \in DOMAIN Trees : Start(i) \/ Parse(i) \/ ParseBad(i)
    \/ ListenAndServe

Serving == Loading \/ \E path \in RequestPaths : Request(path)

siteVars == <<renderVars, serveVars>>
SiteInit == RenderInit /\ ServeInit
SiteNext == (Render /\ UNCHANGED serveVars) \/ (Serving /\ UNCHANGED renderVars)
SiteFairness == WF_siteVars(Render /\ UNCHANGED serveVars) /\ WF_siteVars(Loading /\ UNCHANGED renderVars)
SiteSpec == SiteInit /\ [][SiteNext]_siteVars /\ SiteFairness

-----------------------------------------------------------------------------
(* Properties.                                                             *)

\* What is served does not depend on which parser ended first, nor on luck:
\* exactly the repositories that parse, in the order of their titles
\* (site_serve.go:198, 209).
ServesWhatParses ==
    server \in {"up", "refused"} =>
        loaded = InTitleOrder(DOMAIN Trees \ (InState("bad") \cup InState("skipped")))

\* A path that both the server and the generated site have is answered with the
\* same template, whatever data it finds there (when all repositories were
\* loaded; a repository that is missing turns a choice of packages into a
\* redirection).
LiveAgreesWithStatic ==
    (/\ answer.page \notin {"none", "404"}
     /\ InState("bad") \cup InState("skipped") = {}
     /\ answer.path \in Written)
        => answer.page = LastWriter[answer.path].tmpl
=============================================================================
