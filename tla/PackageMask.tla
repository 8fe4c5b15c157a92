---------------------------- MODULE PackageMask ----------------------------
(***************************************************************************)
(* The files package.mask and package.unmask of a user, which "g2 masks"   *)
(* edits (cmd/g2/masks.go), and a repository's profiles/package.mask,      *)
(* which "g2 package masked" edits (cmd/g2/package_masked.go), with the    *)
(* parser and the serializer that they share (package_mask.go).            *)
(* package_deprecated.go and cmd/g2/package_deprecated.go are the same     *)
(* code with the names changed.                                            *)
(*                                                                         *)
(* A file is a sequence of lines: an author, another comment, an atom, or  *)
(* a blank line.  A comment is the sequence of its words; what a line is   *)
(* wrapped at is left out.  A file is written anew by truncating it first. *)
(***************************************************************************)
EXTENDS Naturals, Sequences, FiniteSets, SequencesExt

CONSTANTS
    MaskFiles,      \* the user's files with masks and
    UnmaskFiles,    \* those with unmasks, in the order of their names
    MaskTarget,     \* the one of each that masks are appended to: g2.conf in a directory,
    UnmaskTarget,   \* or the only one
    RepoFile,       \* profiles/package.mask of a repository
    Packages,       \* the atoms that the commands name
    InitialMasks,   \* what is there at first: functions from some of the files to lines
    MaxMaskCommands \* bound: how many commands are run

ASSUME PackageMaskAssumption ==
    /\ MaskTarget \in ToSet(MaskFiles)
    /\ UnmaskTarget \in ToSet(UnmaskFiles)
    /\ RepoFile \notin ToSet(MaskFiles \o UnmaskFiles)
    /\ MaxMaskCommands \in Nat

VARIABLES
    masks,       \* file |-> its lines, for the files that exist
    maskCommand  \* the command that was run last, and the files it was to change

maskVars == <<masks, maskCommand>>

Author(name) == [kind |-> "author", text |-> <<name>>]
Reason(words) == [kind |-> "comment", text |-> words]
Atom(package) == [kind |-> "atom", text |-> <<package>>]
BlankLine == [kind |-> "blank", text |-> <<>>]

-----------------------------------------------------------------------------
(* parsePackageMaskedReader: blocks of an author, a reason and atoms.  An  *)
(* atom without an author above it in its paragraph is not read.           *)

Start == [blocks |-> <<>>, author |-> "", reason |-> <<>>, entries |-> <<>>]

Flushed(st) ==
    IF st.entries = <<>> THEN st
    ELSE [st EXCEPT !.blocks = Append(@, [author |-> st.author, reason |-> st.reason,
                                          entries |-> st.entries]),
                    !.entries = <<>>]

\* Bug variant: an author's reason begins with that of the author before.
ReadLineAfter(st, line) ==
    CASE line.kind = "blank" -> [Flushed(st) EXCEPT !.author = "", !.reason = <<>>]
      [] line.kind = "author" -> [Flushed(st) EXCEPT !.author = line.text[1]]
      [] line.kind = "comment" -> IF st.author = "" THEN st ELSE [st EXCEPT !.reason = @ \o line.text]
      [] OTHER -> IF st.author = "" THEN st ELSE [st EXCEPT !.entries = Append(@, line.text[1])]

\* An author after atoms begins a block as a blank line does; one without atoms between takes
\* the place of the author before, and the reason stays.
ReadLine(st, line) ==
    CASE line.kind = "blank" -> [Flushed(st) EXCEPT !.author = "", !.reason = <<>>]
      [] line.kind = "author" -> [Flushed(st) EXCEPT
             !.author = line.text[1], !.reason = IF st.entries = <<>> THEN @ ELSE <<>>]
      [] line.kind = "comment" -> IF st.author = "" THEN st ELSE [st EXCEPT !.reason = @ \o line.text]
      [] OTHER -> IF st.author = "" THEN st ELSE [st EXCEPT !.entries = Append(@, line.text[1])]

ParsePackageMasked(lines) == Flushed(FoldLeft(ReadLine, Start, lines)).blocks

SerializePackageMasked(blocks) ==
    FlattenSeq([i \in DOMAIN blocks |->
        (IF i > 1 THEN <<BlankLine>> ELSE <<>>)
            \o <<Author(blocks[i].author)>>
            \o (IF blocks[i].reason = <<>> THEN <<>> ELSE <<Reason(blocks[i].reason)>>)
            \o [j \in DOMAIN blocks[i].entries |-> Atom(blocks[i].entries[j])]])

\* Blocks that keep no entry go.
RemoveFrom(blocks, packages) ==
    SelectSeq([i \in DOMAIN blocks |->
                  [blocks[i] EXCEPT !.entries = SelectSeq(@, LAMBDA e : e \notin packages)]],
              LAMBDA b : b.entries # <<>>)

-----------------------------------------------------------------------------
LinesOf(f) == IF f \in DOMAIN masks THEN masks[f] ELSE <<>>
Saved(files, f, lines) == [g \in DOMAIN files \cup {f} |-> IF g = f THEN lines ELSE files[g]]

Finishes(cmd, packages, files, ok) ==
    maskCommand' = [cmd |-> cmd, packages |-> packages, files |-> files, ok |-> ok,
                    count |-> maskCommand.count + 1]

\* os.Create empties the file before the blocks are written to it.
Create(f, blocks, cmd, packages) ==
    \/ masks' = Saved(masks, f, SerializePackageMasked(blocks)) /\ Finishes(cmd, packages, {f}, TRUE)
    \/ masks' \in {masks, Saved(masks, f, <<>>)} /\ Finishes(cmd, packages, {f}, FALSE)

\* A line is appended; the file is made when there is none.
AppendAtom(f, package, cmd) ==
    \/ masks' = Saved(masks, f, Append(LinesOf(f), Atom(package))) /\ Finishes(cmd, {package}, {f}, TRUE)
    \/ masks' \in {masks, Saved(masks, f, LinesOf(f))} /\ Finishes(cmd, {package}, {f}, FALSE)

cmdMasksMask(package) == AppendAtom(MaskTarget, package, "mask")
cmdMasksUnmask(package) == AppendAtom(UnmaskTarget, package, "unmask")

\* The files one after the other, each written only when the package was found in it; the first
\* that fails ends the command, with the later ones as they were.
cmdMasksReset(package) ==
    LET all == MaskFiles \o UnmaskFiles
        Before(f) == ParsePackageMasked(LinesOf(f))
        found == {f \in DOMAIN masks \cap ToSet(all) :
                      \E b \in ToSet(Before(f)) : package \in ToSet(b.entries)}
        Rewritten(f) == SerializePackageMasked(RemoveFrom(Before(f), {package}))
        UpTo(n) == [f \in DOMAIN masks |->
                       IF f \in found \cap ToSet(SubSeq(all, 1, n)) THEN Rewritten(f) ELSE masks[f]]
    IN  \/ masks' = UpTo(Len(all)) /\ Finishes("reset", {package}, ToSet(all), TRUE)
        \/ /\ \E n \in DOMAIN all :
                 masks' \in {UpTo(n - 1)}
                     \cup (IF all[n] \in found THEN {Saved(UpTo(n - 1), all[n], <<>>)} ELSE {})
           /\ Finishes("reset", {package}, ToSet(all), FALSE)

cmdMaskedAdd(packages) ==
    LET new == [author |-> "G2 User", reason |-> <<"Masked">>, entries |-> packages]
    IN  Create(RepoFile, Append(ParsePackageMasked(LinesOf(RepoFile)), new), "add", ToSet(packages))

\* The file is written also when nothing was found, and made when there is none.
cmdMaskedRemove(packages) ==
    Create(RepoFile, RemoveFrom(ParsePackageMasked(LinesOf(RepoFile)), packages), "remove", packages)

PackageMaskInit ==
    /\ masks \in InitialMasks
    /\ maskCommand = [cmd |-> "none", packages |-> {}, files |-> {}, ok |-> FALSE, count |-> 0]

PackageMaskNext ==
    /\ maskCommand.count < MaxMaskCommands
    /\ \/ \E package \in Packages :
              cmdMasksMask(package) \/ cmdMasksUnmask(package) \/ cmdMasksReset(package)
       \/ \E packages \in SetToAllKPermutations(Packages) \ {<<>>} :
              cmdMaskedAdd(packages) \/ cmdMaskedRemove(ToSet(packages))

-----------------------------------------------------------------------------
(* What a file says, read without the parser: the author of an atom is the *)
(* last one above it in its paragraph, the reason what the comments after  *)
(* that author say, up to the next author or the end of the paragraph.     *)

Breaks(lines, kinds) == {i \in DOMAIN lines : lines[i].kind \in kinds}
LastIn(set) == CHOOSE i \in set : \A j \in set : j <= i

AuthorLine(lines, i) ==
    LET above == {j \in Breaks(lines, {"author", "blank"}) : j < i}
    IN  IF above = {} \/ lines[LastIn(above)].kind = "blank" THEN 0 ELSE LastIn(above)

Said(lines) ==
    LET Of(a) == FlattenSeq([i \in DOMAIN lines |->
                     IF lines[i].kind = "comment" /\ AuthorLine(lines, i) = a THEN lines[i].text ELSE <<>>])
    IN  {<<lines[i].text[1], lines[AuthorLine(lines, i)].text[1], Of(AuthorLine(lines, i))>> :
             i \in {j \in Breaks(lines, {"atom"}) : AuthorLine(lines, j) # 0}}

\* An author line without atoms above it takes over the reason of the author before it
\* when the file is parsed: the atoms below, with their author, gain words that stood above.
Heirs(lines) ==
    LET Inherits(a) == \E i \in Breaks(lines, {"comment"}) :
            i < a /\ AuthorLine(lines, i) # 0 /\ Breaks(lines, {"atom", "blank"}) \cap i..a = {}
    IN  {<<lines[i].text[1], lines[AuthorLine(lines, i)].text[1]>> :
             i \in {j \in Breaks(lines, {"atom"}) : AuthorLine(lines, j) # 0 /\ Inherits(AuthorLine(lines, j))}}

\* A successful command changes what is said of the packages it names, in the files it works
\* on: the other atoms of all files keep the author and the reason they had, through any number
\* of rewrites, after a removal nothing is said of the named ones, and after an addition what
\* was asked for is (RemoveFrom, SerializePackageMasked).  Two kinds of atoms are left out.
\* Those without an author, which "masks mask" adds among others, are lost when a file is
\* rewritten and stay when they are to go; and heirs gain the reason of the author above.
MasksFollowCommands ==
    [][LET c == maskCommand'
           About(files, f) == IF f \in DOMAIN files THEN Said(files[f]) ELSE {}
           Others(files, f) == {s \in About(files, f) :
                                   s[1] \notin c.packages /\ <<s[1], s[2]>> \notin Heirs(LinesOf(f))}
           Named(files, f) == {s \in About(files, f) : s[1] \in c.packages}
       IN  c.ok => \A f \in ToSet(MaskFiles \o UnmaskFiles) \cup {RepoFile} :
               /\ Others(masks', f) = Others(masks, f)
               /\ c.cmd \in {"reset", "remove"} /\ f \in c.files => Named(masks', f) = {}
               /\ f \notin c.files => Named(masks', f) = Named(masks, f)
               /\ c.cmd = "add" /\ f \in c.files => \A package \in c.packages :
                      <<package, "G2 User", <<"Masked">>>> \in Named(masks', f)]_maskVars
=============================================================================
