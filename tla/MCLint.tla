------------------------------- MODULE MCLint -------------------------------
(* Lint on an overlay of three packages.  The first takes on a fault for each rule in turn, and *)
(* new ebuilds; the second loses the stable one of its two.                                     *)
EXTENDS Lint

MCLibDirs == {"lib", "lib64"}
MCStaticLibNames == {"libx.a", "libx.la"}
MCCountOptions == {"-1"}
MCValidSlots == {"0", "0/1"}
MCMalformedLicenses == {"a/b"}
MCSplitsOf == [python_targets_x |-> <<[prefix |-> "python_targets", value |-> "x"]>>, a_b |-> <<[prefix |-> "a", value |-> "b"]>>]
MCUnversionedOf == [gtk2 |-> "gtk"]
MCPythonEclasses == {"python-r1", "python-single-r1"}
MCPython2 == {"python2_7"}
MCMainCategories == {"app-misc", "virtual"}
MCMasterTrees == [gentoo |-> [deprecated |-> {"epatch"}, licenses |-> {"GPL-2", "MIT"}]]
MCUpstreamCategories == {"app-misc"}
MCHashes == {"BLAKE2B", "SHA512"}
MCRemoteIDTypes == {"github"}
MCVersionText == (1 :> <<<<1>>, <<2>>>>) @@ (2 :> <<<<1>>, <<1, 0>>>>) @@ (3 :> <<<<2>>>>) @@ (9999 :> <<<<9, 9, 9, 9>>>>)

-----------------------------------------------------------------------------
Call(cmd, args) == [cmd |-> cmd, args |-> args, in |-> {"function"}, subst |-> {}]
In(construct, c) == [c EXCEPT !.in = {construct}]
Assign(name, value) == [name |-> name, value |-> value, append |-> FALSE, refs |-> {}, lines |-> 1]
Keyword(arch, mark) == [arch |-> arch, mark |-> mark]
Dep(var, op) == [var |-> var, op |-> op, star |-> FALSE, revision |-> FALSE, anyOf |-> FALSE, slotOperator |-> FALSE]

E0 == [version |-> 1, parses |-> TRUE, shell |-> TRUE, digest |-> "as generated", traits |-> {},
       eapi |-> 8, numeric |-> TRUE, code |-> <<Call("doins", <<<<"usr", "x">>>>)>>, pipes |-> {}, assigns |-> <<>>,
       refs |-> {[name |-> "D", short |-> FALSE, fn |-> "src_install"]}, description |-> 20, homepage |-> <<"https://x">>,
       license |-> {"MIT"}, slot |-> "0", keywords |-> {Keyword("amd64", "")}, iuse |-> {}, properties |-> {},
       restrict |-> {}, distfiles |-> {"x.tar"}, inherited |-> {}, deps |-> {}, conds |-> {}, emptyAnyOf |-> {},
       pythonCompatSet |-> FALSE, pythonCompat |-> {}]

Coded(calls) == [E0 EXCEPT !.code = @ \o calls]
Assigned(assigns) == [E0 EXCEPT !.assigns = assigns]
Flags(flags) == [E0 EXCEPT !.iuse = flags]

Dist == [type |-> "DIST", name |-> "x.tar", hashes |-> {"BLAKE2B", "SHA512"}]
Someone == [type |-> "person", proxied |-> "no"]

P0 == [category |-> "app-misc", name |-> "p", ebuilds |-> {E0}, disk |-> {E0},
       manifest |-> [exists |-> TRUE, entries |-> {Dist}], files |-> {"p-1.2.ebuild"}, badFileNames |-> {},
       metadata |-> [state |-> "ok", maintainers |-> {Someone}, needed |-> FALSE, remoteIds |-> {"github"}, upstream |-> {},
                     flags |-> {"test", "multislot", "amd64", "python_targets_x", "a_b", "gtk", "gtk2", "gui", "opt"}]]

Of(ebuilds) == [P0 EXCEPT !.ebuilds = ebuilds, !.disk = ebuilds]
At(v, keywords) == [E0 EXCEPT !.version = v, !.keywords = keywords]

FaultyCode == <<
    Coded(<<Call("dosym", <<<<"/", "usr", "a">>, <<"b">>>>)>>), Coded(<<Call("dosym", <<<<"/", "proc", "a">>>>)>>),
    Coded(<<Call("insinto", <<<<"/", "etc", "init.d">>>>)>>), Coded(<<Call("into", <<<<"/", "usr", "games">>>>)>>),
    Coded(<<Call("dodir", <<<<"/", "usr", "bin", "x">>>>)>>), Coded(<<Call("dodir", <<<<"/", "home">>>>)>>),
    Coded(<<Call("dodir", <<<<"/", "usr", "lib">>>>)>>), Coded(<<Call("dodir", <<<<"/", "usr", "local">>>>)>>),
    Coded(<<Call("insinto", <<<<"/", "lib64">>>>), Call("doins", <<<<"libx.a">>>>)>>),
    Coded(<<In("useIf", Call("doman", <<<<"x.1">>>>))>>), Coded(<<In("useAnd", Call("systemd_dounit", <<<<"x">>>>))>>),
    Coded(<<Call("dolib.a", <<<<"libx.a">>>>)>>), [Coded(<<In("subst", Call("die", <<>>))>>) EXCEPT !.eapi = 6],
    Coded(<<Call("eval", <<<<"x">>>>)>>), Coded(<<In("if", Call("sed", <<>>))>>), Coded(<<Call("head", <<<<"-1">>>>)>>),
    Coded(<<[Call("tail", <<>>) EXCEPT !.subst = {"wc"}]>>), [E0 EXCEPT !.pipes = {<<"head", "sed">>}],
    Coded(<<Call("pkg-config", <<>>)>>), Coded(<<Call("addwrite", <<<<"/", "dev">>>>)>>),
    Coded(<<Call("addread", <<<<"/", "dev">>, <<"/", "sys">>>>)>>), Coded(<<Call("useq", <<<<"gui">>>>)>>),
    Coded(<<In("bareSubst", Call("use", <<<<"gui">>>>))>>), Coded(<<Call("dohtml", <<>>)>>),
    [Coded(<<Call("dohtml", <<>>)>>) EXCEPT !.eapi = 6], Coded(<<Call("append-cflags", <<<<"-Werror">>>>)>>),
    Coded(<<Call("enewuser", <<<<"x">>>>)>>), [E0 EXCEPT !.inherited = {"user"}],
    Coded(<<In("if", Call("inherit", <<<<"x">>>>))>>), Coded(<<In("and", Call("inherit", <<<<"x">>>>))>>),
    Coded(<<Call("test", <<>>)>>), [E0 EXCEPT !.refs = {[name |-> "PV", short |-> TRUE, fn |-> ""]}],
    [E0 EXCEPT !.refs = {[name |-> "D", short |-> FALSE, fn |-> "src_compile"]}],
    Assigned(<<Assign("PORTDIR", "x")>>), Assigned(<<Assign("PV", "x")>>), Assigned(<<Assign("S", "${WORKDIR}/${P}")>>),
    Assigned(<<Assign("CFLAGS", "-O3")>>), Assigned(<<[Assign("HOMEPAGE", "x") EXCEPT !.refs = {"PN"}]>>),
    Assigned(<<[Assign("LICENSE", "x") EXCEPT !.refs = {"PN"}]>>), Assigned(<<[Assign("SRC_URI", "x") EXCEPT !.refs = {"HOMEPAGE"}]>>),
    Assigned(<<[Assign("KEYWORDS", "x") EXCEPT !.lines = 2]>>), Assigned(<<Assign("KEYWORDS", "x"), Assign("KEYWORDS", "y")>>),
    [E0 EXCEPT !.traits = {"notUtf8"}], [E0 EXCEPT !.traits = {"noHeader"}], [E0 EXCEPT !.traits = {"longLine"}],
    [E0 EXCEPT !.traits = {"subshellBody"}], [E0 EXCEPT !.shell = FALSE]>>

FaultyVars == <<
    [E0 EXCEPT !.description = 9], [E0 EXCEPT !.homepage = <<>>], [E0 EXCEPT !.homepage = <<"https://www.gentoo.org">>],
    [E0 EXCEPT !.keywords = {}], [E0 EXCEPT !.slot = ""], [E0 EXCEPT !.slot = "+"], [E0 EXCEPT !.license = {}],
    [E0 EXCEPT !.license = {"a/b"}], [E0 EXCEPT !.traits = {"licenseProse"}], [E0 EXCEPT !.license = {"Unknown"}],
    [E0 EXCEPT !.eapi = 4], [E0 EXCEPT !.eapi = 6], [E0 EXCEPT !.eapi = 7],
    [E0 EXCEPT !.restrict = {[token |-> "network-sandbox", under |-> {}]}], [E0 EXCEPT !.properties = {"odd"}],
    Flags({"test"}), [Flags({"test"}) EXCEPT !.restrict = {[token |-> "test", under |-> {"!test?"}]}],
    Flags({"undocumented"}), Flags({"multislot"}), Flags({"amd64"}), Coded(<<Call("use", <<<<"amd64">>>>)>>),
    Flags({"python_targets_x"}), Flags({"a_b"}), Flags({"gtk"}), Flags({"gtk", "gtk2", "gui"}),
    [E0 EXCEPT !.deps = {Dep("DEPEND", "=")}], [E0 EXCEPT !.deps = {Dep("DEPEND", "!")}],
    [E0 EXCEPT !.deps = {[Dep("RDEPEND", "") EXCEPT !.anyOf = TRUE, !.slotOperator = TRUE]}],
    [E0 EXCEPT !.emptyAnyOf = {"RDEPEND"}], [Flags({"opt"}) EXCEPT !.conds = {[var |-> "RDEPEND", flag |-> "opt"]}],
    [E0 EXCEPT !.inherited = {"python-r1"}],
    [E0 EXCEPT !.inherited = {"python-r1"}, !.pythonCompatSet = TRUE, !.pythonCompat = {"python2_7"}],
    [E0 EXCEPT !.inherited = {"python-single-r1"}, !.pythonCompatSet = TRUE, !.traits = {"bareUsedep"}],
    [E0 EXCEPT !.inherited = {"epatch"}], [E0 EXCEPT !.digest = "changed"], [E0 EXCEPT !.parses = FALSE]>>

Meta(maintainers) == [P0 EXCEPT !.metadata.maintainers = maintainers]

FaultyPackages == <<
    [P0 EXCEPT !.metadata.state = "missing"], Meta({}), [P0 EXCEPT !.metadata.needed = TRUE],
    Meta({[Someone EXCEPT !.type = ""]}), Meta({[Someone EXCEPT !.proxied = "yes"]}),
    [P0 EXCEPT !.metadata.remoteIds = {"svn"}], [P0 EXCEPT !.metadata.upstream = {"restrict"}],
    [P0 EXCEPT !.manifest = [exists |-> FALSE, entries |-> {}]],
    [P0 EXCEPT !.manifest.entries = {[Dist EXCEPT !.hashes = {"BLAKE2B"}]}],
    [P0 EXCEPT !.manifest.entries = {[Dist EXCEPT !.hashes = @ \cup {"MD5"}]}],
    [P0 EXCEPT !.manifest.entries = @ \cup {[Dist EXCEPT !.type = "AUX", !.name = "gone.patch"]}],
    [P0 EXCEPT !.manifest.entries = @ \cup {[Dist EXCEPT !.name = "old.tar"]}],
    [P0 EXCEPT !.manifest.entries = {}], [P0 EXCEPT !.badFileNames = {"a:b"}],
    Of({At(1, {Keyword("amd64", ""), Keyword("x86", "")}), At(2, {Keyword("amd64", "")})}),
    Of({At(1, {Keyword("amd64", "")}), At(2, {Keyword("amd64", "~"), Keyword("x86", "")})}),
    Of({At(1, {Keyword("amd64", "~")}), At(2, {Keyword("amd64", "~")})}),
    Of({[At(v, {Keyword("amd64", "")}) EXCEPT !.slot = "+"] : v \in {1, 2, 3}}),
    Of({E0, [E0 EXCEPT !.version = LiveVersion, !.keywords = {}]}), Of({})>>

\* Wrapped in a concatenation, which builds the tuple once.
MCContents == [
    p |-> <<P0, Of({[E0 EXCEPT !.slot = ""]}), Of({E0, [E0 EXCEPT !.version = 2, !.slot = "+"]})>>
          \o [i \in DOMAIN FaultyCode |-> Of({FaultyCode[i]})] \o [i \in DOMAIN FaultyVars |-> Of({FaultyVars[i]})]
          \o FaultyPackages,
    q |-> [i \in 1 .. 2 |-> [Of({At(1, {Keyword("amd64", "")}), At(2, {Keyword("amd64", "~")})} \ IF i = 1 THEN {} ELSE {E0})
                               EXCEPT !.name = "q"]],
    v |-> <<[Of({[E0 EXCEPT !.homepage = <<>>, !.license = {}, !.distfiles = {}]}) EXCEPT
                !.category = "virtual", !.name = "v", !.manifest.entries = {}],
            [P0 EXCEPT !.category = "virtual", !.name = "v"]>>]

-----------------------------------------------------------------------------
Eclass0 == [name |-> "mine", tags |-> {"ECLASS", "MAINTAINER", "BLURB"}, deprecated |-> FALSE, digest |-> "as generated"]
MCEclassContents == <<{Eclass0}, {[Eclass0 EXCEPT !.tags = {"ECLASS"}, !.digest = "changed"]}>>

Cached == [malformed |-> FALSE, md5 |-> "as generated", eclasses |-> [mine |-> "as generated"]]
Layout0 == [exists |-> TRUE, hasMasters |-> TRUE, masters |-> {"gentoo"}, repoName |-> "x", unknownKey |-> FALSE,
            badValue |-> FALSE, hashes |-> MCHashes, requiredHashes |-> MCHashes, eapisBanned |-> {},
            eapisDeprecated |-> {}, propertiesAllowed |-> {}, restrictAllowed |-> {}]
Word == <<{}>>
Item == [prefix |-> "2024-01-01-x", badLines |-> FALSE, bodyFaults |-> {},
         headers |-> [Title |-> Word, Author |-> Word, Posted |-> Word, Revision |-> Word, NewsItemFormat |-> Word]]
News(item) == {[prefix |-> "2024-01-01-x", files |-> {item}]}
MaskLine(kind) == [kind |-> kind, traits |-> {}, says |-> "text"]

R0 == [qaPolicy |-> <<>>, categories |-> {"app-misc", "virtual"}, layout |-> Layout0, repoName |-> "x", arches |-> {"amd64", "x86"},
       useExpand |-> [python_targets |-> {"y"}], licenses |-> {"Own"}, projects |-> {[email |-> "a", subprojects |-> {}]},
       root |-> {[name |-> "app-misc", dir |-> TRUE], [name |-> "eclass", dir |-> TRUE]}, g2ignore |-> {}, layoutLint |-> TRUE,
       mask |-> <<MaskLine("header"), MaskLine("author"), MaskLine("comment"), MaskLine("package")>>,
       news |-> News(Item),
       md5Cache |-> [exists |-> TRUE, entries |->
           [k \in ({"app-misc", "virtual"} \X {"p", "q", "v"} \X {1, 2, 3, LiveVersion}) |-> Cached]]]

NoCache == [exists |-> FALSE, entries |-> <<>>]

MCRepoContents == <<R0,
    [R0 EXCEPT !.root = @ \cup {[name |-> "notes", dir |-> FALSE]}, !.qaPolicy = [PG0804 |-> "notice"]],
    [R0 EXCEPT !.news = News([Item EXCEPT !.headers.Title = <<{"long"}>>]), !.qaPolicy = [PG0804 |-> "ignore"]],
    [R0 EXCEPT !.qaPolicy = [Md5CacheMissing |-> "error"], !.md5Cache = NoCache],
    [R0 EXCEPT !.qaPolicy = [p \in {"PG0804", "PG0704", "PG1003"} |-> "ignore"], !.categories = {"dev-libs"}],
    [R0 EXCEPT !.qaPolicy = [p \in {"PG0701", "PG0702", "PG1001"} |-> "notice"], !.layout.restrictAllowed = {"test"}],
    [R0 EXCEPT !.layout = [Layout0 EXCEPT !.exists = FALSE, !.hasMasters = FALSE, !.masters = {}], !.repoName = ""],
    [R0 EXCEPT !.layout.hasMasters = FALSE, !.layout.masters = {}, !.categories = {"app-misc"}, !.layout.unknownKey = TRUE, !.layout.hashes = {"MD4"}],
    [R0 EXCEPT !.layout.eapisBanned = {8}, !.md5Cache.entries = <<>>], [R0 EXCEPT !.layout.propertiesAllowed = {"live"}],
    [R0 EXCEPT !.projects = {[email |-> "a", subprojects |-> {"b"}]}, !.categories = {}],
    [R0 EXCEPT !.mask = @ \o <<MaskLine("author")>>, !.news = {[prefix |-> "", files |-> {}]}],
    [R0 EXCEPT !.news = News([Item EXCEPT !.bodyFaults = {"tab"}, !.headers.NewsItemFormat = <<{"v1"}>>])],
    [R0 EXCEPT !.news = News([Item EXCEPT !.headers.NewsItemFormat = <<{"otherFormat"}>>, !.headers.Author = <<>>])]>>

MCLocations == {".", "/repo"}
MCTargetSets == {{}, {<<"p">>}, {<<"app-misc", "q">>, <<"eclass">>}, {<<"virtual">>}}
Query(op, v, wildcard) == [category |-> "app-misc", package |-> "p", op |-> op, version |-> v, wildcard |-> wildcard]
MCQueries == {Query(">", 1, <<>>), Query("<=", 1, <<>>), Query("=", 2, <<>>), Query("~", 1, <<>>), Query("", 0, <<1>>)}

-----------------------------------------------------------------------------
\* Of the rules about packages and about the repository each finds something in some content,
\* except TreeLayoutFiles, which never does.
RulesFound ==
    LET Trees == {[Clean EXCEPT !.pkgs[id] = 2] : id \in Ids}
                 \cup {[Clean EXCEPT !.pkgs.p = i] : i \in DOMAIN MCContents.p}
                 \cup {[Clean EXCEPT !.repo = i] : i \in DOMAIN MCRepoContents}
        Found(t) == LET pkgs == parseRepo(t)
                        repo == Repository(t)
                    IN  PerformRepoLintingResults(pkgs, repo)
                        \cup UNION {PerformLintingResults(PackageCopy(pkg, EveryVersion), repo) : pkg \in pkgs}
    IN  UNION {{f.rule : f \in Found(t)} : t \in Trees}
ASSUME RulesAssumption == Cardinality(RulesFound) = 85 /\ "TreeLayoutFiles" \notin RulesFound
=============================================================================
