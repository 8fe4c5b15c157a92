------------------------------- MODULE MCSite -------------------------------
(***************************************************************************)
(* Two repositories: the gentoo one with a virtual, a package of two       *)
(* ebuilds and everything a repository may have, and an overlay that       *)
(* shares a package, moves another and uses a licence nobody provides.     *)
(* Both are generated, then served.                                        *)
(***************************************************************************)
EXTENDS SiteServe

Ebuild(pv) ==
    [pv |-> pv, rev |-> "", parses |-> TRUE, licenses |-> {}, inherited |-> {}, iuse |-> {},
     required |-> {}, deps |-> {}, keywords |-> {}, distfiles |-> {}]
Package(cat, name, ebuilds) ==
    [cat |-> cat, name |-> name, ebuilds |-> ebuilds, flags |-> {}, maintainers |-> {}, files |-> {}]
EmptyTree ==
    [repo_name |-> "", listed |-> "", dir |-> "d", quality |-> "", status |-> "", masters |-> {},
     categories |-> {}, packages |-> {}, licenses |-> {}, projects |-> {}, profiles |-> {},
     eclasses |-> {}, news |-> {}, arch_list |-> {}, arches_desc |-> {}, moves |-> {},
     expands |-> {}, useDesc |-> {}, extras |-> {}]

Gentoo ==
    [EmptyTree EXCEPT
        !.repo_name = "gentoo", !.quality = "core", !.status = "official",
        !.categories = {"app"},
        !.packages = {[Package("app", "one",
                         {[Ebuild("1") EXCEPT !.licenses = {"GPL/2", "("}, !.iuse = {"ssl", "cpu_sse"},
                                              !.keywords = {"amd64", "m68k"},
                                              !.distfiles = {"one.tar"}, !.inherited = {"eutils"}],
                          [Ebuild("1") EXCEPT !.rev = "r1", !.licenses = {"GPL/2"}],
                          [Ebuild("2") EXCEPT !.parses = FALSE]})
                        EXCEPT !.files = {"one.tar", "old.tar"}, !.maintainers = {"p@g"}],
                      Package("app", "gone", {[Ebuild("3") EXCEPT !.parses = FALSE]}),
                      Package("virtual", "v", {[Ebuild("0") EXCEPT !.deps = {<<"app", "one">>, <<"app", "old">>, <<"x", "y">>}]}),
                      Package("scripts", "s", {Ebuild("1")}), Package("unlisted", "u", {Ebuild("1")})},
        !.licenses = {"GPL/2"}, !.projects = {"p@g"}, !.news = {"n1"}, !.extras = {"masked", "info_pkgs"},
        !.profiles = {[path |-> <<"base">>, files |-> {"eapi"}]}, !.arch_list = {"amd64"},
        !.useDesc = {"ssl"}, !.expands = {[prefix |-> "cpu", flags |-> {"sse", "mmx"}]}]

Overlay ==
    [EmptyTree EXCEPT
        !.dir = "overlay", !.masters = {"gentoo"},
        !.packages = {[Package("app", "one", {[Ebuild("9") EXCEPT !.licenses = {"own"}]}) EXCEPT !.flags = {"x"}]},
        !.moves = {[old |-> <<"app", "old">>, new |-> <<"app", "one">>],
                   [old |-> <<"app", "one">>, new |-> <<"app", "two">>],
                   [old |-> <<"odd">>, new |-> <<"app", "two">>]},
        !.news = {"n1"}, !.arches_desc = {"amd64"}, !.extras = {"authors"}]

TwoRepos == <<Gentoo, Overlay>>
MCSlugs == [n \in {"GPL/2"} |-> "GPL_2"]

MCByTitle == <<1, 2>>

\* The command has returned an error, or the server has been started or refused.
Terminated ==
    /\ result = "error" \/ server \in {"up", "refused"}
    /\ UNCHANGED siteVars
Next == SiteNext \/ Terminated
Spec == SiteInit /\ [][Next]_siteVars /\ SiteFairness
=============================================================================
