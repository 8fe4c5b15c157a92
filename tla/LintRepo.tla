------------------------------ MODULE LintRepo ------------------------------
(***************************************************************************)
(* The rules about metadata.xml, the Manifest and the md5-cache of a       *)
(* package, and those about eclasses, news and the repository as a whole   *)
(* (lints/metadata, md5cache, eclass, news, layout, and two of ebuild).    *)
(*                                                                         *)
(* metadata.xml of a package is "ok", "missing" or "broken"; of its        *)
(* maintainers and upstream the rules' questions are kept.  An ebuild and  *)
(* an eclass have a digest, and an entry of the md5-cache has the ones it  *)
(* was generated from.  A news item maps each header to its values, and a  *)
(* value is the set of the traits that a validator looks for.              *)
(***************************************************************************)
EXTENDS LintBase, LintMask

CONSTANTS
    MasterTrees,        \* master |-> [deprecated, licenses], for the masters found on this system
    UpstreamCategories, \* the categories of gentoo that the layout rule gets, by path or by API
    Hashes,             \* the hash algorithms that layout.conf may name
    RemoteIDTypes       \* the remote-id types of GLEP 68

-----------------------------------------------------------------------------
(* metadata.xml and Manifest.                                              *)

HasMetadata(pkg) == pkg.metadata.state = "ok"
OfPackage(holds) == IF holds THEN {WholePackage} ELSE {}

\* Without ebuilds nobody asks for the file, but a broken one is reported.
MetadataMissing(pkg, repo) ==
    Report(repo, "MetadataMissing", "PG0701", "Error",
        OfPackage(\/ pkg.metadata.state = "broken"
                  \/ pkg.metadata.state = "missing" /\ pkg.ebuilds # {}))

MaintainerMissing(pkg, repo) ==
    Report(repo, "MaintainerMissing", "PG0702", "Error",
        OfPackage(HasMetadata(pkg) /\ pkg.metadata.maintainers = {}))

\* The comment <!-- maintainer-needed --> stands in for the maintainers.
MaintainerNeeded(pkg, repo) ==
    Report(repo, "MaintainerNeeded", "PG0703", "Error",
        OfPackage(HasMetadata(pkg) /\ (pkg.metadata.maintainers # {} <=> pkg.metadata.needed)))

MaintainerType(pkg, repo) ==
    Report(repo, "MaintainerType", "GLEP67", "Error",
        OfPackage(HasMetadata(pkg) /\ \E m \in pkg.metadata.maintainers : m.type \notin {"person", "project"}))

ProxiedMaintainer(pkg, repo) ==
    LET Some(role) == \E m \in pkg.metadata.maintainers : m.proxied = role
    IN  Report(repo, "ProxiedMaintainer", "PG0704", "Error",
            OfPackage(HasMetadata(pkg) /\ Some("yes") # Some("proxy")))

RemoteIDType(pkg, repo) ==
    Result("RemoteIDType", "Error", OfPackage(HasMetadata(pkg) /\ ~(pkg.metadata.remoteIds \subseteq RemoteIDTypes)))

\* "upstream": what its maintainers have and must not, "description" or "restrict".
UpstreamMaintainer(pkg, repo) ==
    Report(repo, "UpstreamMaintainer", "GLEP68", "Error",
        OfPackage(HasMetadata(pkg) /\ pkg.metadata.upstream # {}))

\* Without layout.conf neither the hashes nor the files are looked at.
ManifestChecks(pkg, repo) ==
    LET layout == repo.layout
        Lacks(m) == ~(layout.requiredHashes \subseteq m.hashes)
        Other(m) == layout.hashes # {} /\ ~(m.hashes \subseteq layout.hashes)
        Gone(m) == m.type \in {"EBUILD", "MISC", "AUX"} /\ m.name \notin pkg.files
        entries == pkg.manifest.entries
    IN  CASE ~pkg.manifest.exists -> Result("ManifestChecks", "Error", OfPackage(pkg.ebuilds # {}))
          [] pkg.manifest.exists /\ ~layout.exists -> {}
          [] OTHER -> Result("ManifestChecks", "Error", OfPackage(\E m \in entries : Lacks(m) \/ Gone(m)))
                      \cup Result("ManifestChecks", "Warning", OfPackage(\E m \in entries : Other(m)))

-----------------------------------------------------------------------------
(* metadata/md5-cache.                                                     *)

CacheKey(pkg, e) == <<pkg.category, pkg.name, e.version>>

\* A policy, whatever it says, asks for the cache even where there is none.
MD5CacheMissing(pkg, repo) ==
    IF "Md5CacheMissing" \notin DOMAIN ParseQAPolicy(repo) /\ ~repo.md5Cache.exists THEN {}
    ELSE Report(repo, "Md5CacheMissing", "Md5CacheMissing", "Warning",
             Which(Ebuilds(pkg), LAMBDA e : CacheKey(pkg, e) \notin DOMAIN repo.md5Cache.entries))

\* An eclass that this repository does not have is not compared.
MD5CacheInvalid(pkg, repo) ==
    LET entry(e) == repo.md5Cache.entries[CacheKey(pkg, e)]
        Stale(e) == \E x \in repo.eclasses : x.name \in DOMAIN entry(e).eclasses
                                             /\ entry(e).eclasses[x.name] # x.digest
        Bad(e) == /\ CacheKey(pkg, e) \in DOMAIN repo.md5Cache.entries
                  /\ \/ entry(e).malformed    \* a line without "=", or an odd list of eclasses
                     \/ entry(e).md5 # e.digest
                     \/ Stale(e)
    IN  Report(repo, "Md5CacheInvalid", "Md5CacheInvalid", "Warning", Which(Ebuilds(pkg), Bad))

-----------------------------------------------------------------------------
(* News.                                                                   *)

\* What each header must satisfy: the traits its values may not have.
HeaderRules == [
    Title |-> {"required", "single", "empty", "long"},
    Author |-> {"required", "noEmail"},
    Translator |-> {"noEmail"},
    Posted |-> {"required", "single", "noDate"},
    Revision |-> {"required", "single", "noInteger"},
    ContentType |-> {"single", "notPlain"},
    NewsItemFormat |-> {"required", "single", "otherFormat"},
    DisplayIfInstalled |-> {"spaced", "noSlash"},
    DisplayIfKeyword |-> {"spaced"},
    DisplayIfProfile |-> {"spaced"}]

Values(item, header) == IF header \in DOMAIN item.headers THEN item.headers[header] ELSE <<>>

\* An unsupported format and an unknown header are warnings, and so are long lines and tabs.
HeaderFaults(item, header) ==
    LET found == (UNION ToSet(Values(item, header))) \cap HeaderRules[header]
        count == Len(Values(item, header))
        errors == \/ found \ {"otherFormat"} # {}
                  \/ count = 0 /\ "required" \in HeaderRules[header]
                  \/ count > 1 /\ "single" \in HeaderRules[header]
    IN  (IF errors THEN {"Error"} ELSE {}) \cup (IF "otherFormat" \in found THEN {"Warning"} ELSE {})

\* Format 1.0 makes the Content-Type mandatory.
FormatContentTypeCrossCheck(item) ==
    LET format == Values(item, "NewsItemFormat")
        content == Values(item, "ContentType")
    IN  IF format # <<>> /\ "v1" \in format[1] /\ (content = <<>> \/ "notPlain" \in content[1])
        THEN {"Error"} ELSE {}

lintNewsItem(item) ==
    (UNION {HeaderFaults(item, h) : h \in DOMAIN HeaderRules}) \cup FormatContentTypeCrossCheck(item)
    \cup (IF item.badLines THEN {"Error"} ELSE {})
    \cup (IF item.bodyFaults # {} \/ ~(DOMAIN item.headers \subseteq DOMAIN HeaderRules) THEN {"Warning"} ELSE {})

\* A directory and its files carry the same prefix; "" is a name without the right form.
NewsDirFaults(dir) ==
    (IF dir.prefix = "" \/ dir.files = {} THEN {"Error"} ELSE {})
    \cup UNION {(IF item.prefix = "" \/ (dir.prefix # "" /\ item.prefix # dir.prefix) THEN {"Error"} ELSE {})
                \cup lintNewsItem(item) : item \in dir.files}

NewsValidity(repo) ==
    UNION {Result("NewsValidity", severity, {WholePackage}) :
               severity \in UNION {NewsDirFaults(dir) : dir \in repo.news}}

-----------------------------------------------------------------------------
(* Eclasses and the repository.  The rules of the repository see its       *)
(* packages as parseRepo left them.                                        *)

EclassHeader(eclass, repo) ==
    Report(repo, "EclassHeader", "PG0804", "Warning",
        OfPackage(~({"ECLASS", "MAINTAINER", "BLURB"} \subseteq eclass.tags)))

Masters(repo) == repo.layout.masters \cap DOMAIN MasterTrees

EclassDeprecated(pkgs, repo) ==
    LET deprecated == {x.name : x \in {y \in repo.eclasses : y.deprecated}}
                      \cup UNION {MasterTrees[master].deprecated : master \in Masters(repo)}
        Heirs(pkg) == Which(Ebuilds(pkg), LAMBDA e : e.inherited \cap deprecated # {})
    IN  Report(repo, "EclassDeprecated", "PG1003", "Warning", UNION {Heirs(pkg) : pkg \in pkgs})

\* The groups of profiles/license_groups count as licenses.
LicenseExists(pkgs, repo) ==
    LET valid == repo.licenses \cup UNION {MasterTrees[master].licenses : master \in Masters(repo)}
        Unknown(pkg) == Which(Ebuilds(pkg), LAMBDA e : ~(e.license \subseteq valid))
    IN  Report(repo, "LicenseExists", "PG0704", "Error", UNION {Unknown(pkg) : pkg \in pkgs})

\* The values of the keys that have a fixed set of them: "badValue" is one outside of it.
LayoutConfRepo(pkgs, repo) ==
    LET layout == repo.layout
        BadValues == layout.badValue \/ ~(layout.hashes \cup layout.requiredHashes \subseteq Hashes)
    IN  IF ~layout.exists THEN Result("LayoutConfRepo", "Error", {WholePackage})
        ELSE Result("LayoutConfRepo", "Error", OfPackage(~layout.hasMasters \/ BadValues))
             \cup Result("LayoutConfRepo", "Notice", OfPackage(layout.unknownKey))

ProjectsXML(pkgs, repo) ==
    LET emails == {p.email : p \in repo.projects}
    IN  Result("ProjectsXML", "Error", OfPackage(\E p \in repo.projects : ~(p.subprojects \subseteq emails)))

\* Only with -enable-layout-lint.
RepoLayout(pkgs, repo) ==
    LET known == {"eclass", "licenses", "metadata", "profiles", "scripts", ".git", ".github"}
                 \cup repo.categories
                 \cup IF "gentoo" \in repo.layout.masters THEN UpstreamCategories ELSE {}
        Stray(x) == x.name \notin repo.g2ignore \cup {".g2ignore"} /\ (x.dir => x.name \notin known)
    IN  Result("RepoLayout", "Error", OfPackage(repo.layoutLint /\ \E x \in repo.root : Stray(x)))

Glep84Format(pkgs, repo) == Result("Glep84Format", "Error", OfPackage(Glep84Faults(repo.mask) # {}))

MetadataRules(pkg, repo) == UNION {
    MetadataMissing(pkg, repo), MaintainerMissing(pkg, repo), MaintainerNeeded(pkg, repo),
    MaintainerType(pkg, repo), ProxiedMaintainer(pkg, repo), RemoteIDType(pkg, repo),
    UpstreamMaintainer(pkg, repo), ManifestChecks(pkg, repo), MD5CacheMissing(pkg, repo),
    MD5CacheInvalid(pkg, repo)}

RepoRules(pkgs, repo) == UNION {
    EclassDeprecated(pkgs, repo), LicenseExists(pkgs, repo), LayoutConfRepo(pkgs, repo),
    ProjectsXML(pkgs, repo), RepoLayout(pkgs, repo), Glep84Format(pkgs, repo)}
=============================================================================
