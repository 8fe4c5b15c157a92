------------------------------ MODULE LintMask ------------------------------
(***************************************************************************)
(* The format of profiles/package.mask (lints/profiles/package_mask.go),   *)
(* for files that claim GLEP 84 in their header.                           *)
(*                                                                         *)
(* A line is a record: its kind, its traits and, for a comment, what it    *)
(* says.  The kinds are "header", "separator", "author", "comment",        *)
(* "empty" (a bare #), "package" and "blank".  The traits are "long",      *)
(* "noSpace" (no space after the #) and "padded" (a package with white     *)
(* space around it).  A comment says "text", or begins the last rites:     *)
(* "removal", or "badRemoval" or "badBugs" when these are malformed.       *)
(***************************************************************************)
EXTENDS Integers, Sequences, FiniteSets, SequencesExt

IsComment(line) == line.kind \in {"header", "separator", "author", "comment", "empty"}

\* The first line of a kind after a place, or the place after the last line.
FirstOf(lines, kind, after) ==
    LET found == {i \in after + 1 .. Len(lines) : lines[i].kind = kind}
    IN  IF found = {} THEN Len(lines) + 1 ELSE CHOOSE i \in found : \A j \in found : i <= j

\* Where the entries begin and end: behind the header, or between two separators.
EntryLines(lines) ==
    LET header == FirstOf(lines, "header", 0)
        first == FirstOf(lines, "separator", header)
        second == FirstOf(lines, "separator", first)
    IN  [from |-> IF first <= Len(lines) THEN first + 1 ELSE header + 1, to |-> second - 1]

-----------------------------------------------------------------------------
(* The entries, each the line it begins at and the numbers of its comment  *)
(* and package lines.                                                      *)

NoEntry == [start |-> 0, comments |-> <<>>, packages |-> <<>>]

\* A comment behind packages and an author line behind comments begin an entry.
EntryStep(lines, st, i) ==
    LET line == lines[i]
        current == IF st.open THEN st.current ELSE [NoEntry EXCEPT !.start = i]
        begins == IsComment(line)
                  /\ \/ current.packages # <<>>
                     \/ line.kind = "author" /\ current.comments # <<>>
    IN  CASE line.kind = "blank" -> st
          [] begins -> [open |-> TRUE, current |-> [NoEntry EXCEPT !.start = i, !.comments = <<i>>],
                        done |-> Append(st.done, current)]
          [] ~begins /\ IsComment(line) ->
                [st EXCEPT !.open = TRUE, !.current = [current EXCEPT !.comments = Append(@, i)]]
          [] OTHER -> [st EXCEPT !.open = TRUE, !.current = [current EXCEPT !.packages = Append(@, i)]]

Entries(lines) ==
    LET body == EntryLines(lines)
        step(st, i) == EntryStep(lines, st, i)
        read == FoldLeft(step, [open |-> FALSE, current |-> NoEntry, done |-> <<>>],
                         [k \in 1 .. body.to - body.from + 1 |-> body.from + k - 1])
    IN  IF read.open THEN Append(read.done, read.current) ELSE read.done

-----------------------------------------------------------------------------
(* What is reported, by line.                                              *)

\* The last paragraph of the explanation: the comments behind the last empty one.
LastParagraph(lines, explanation) ==
    {i \in explanation : \A j \in explanation : j >= i => lines[j].kind # "empty"}

\* Two empty comments without another comment between them.
DoubleEmpty(lines, explanation) ==
    {i \in explanation : lines[i].kind = "empty"
        /\ \E j \in explanation : j < i /\ lines[j].kind = "empty"
              /\ \A k \in explanation : ~(j < k /\ k < i)}

EntryFaults(lines, entry) ==
    LET explanation == ToSet(Tail(entry.comments))
        last == LastParagraph(lines, explanation)
        opening == {i \in last : \A j \in last : i <= j}
        packages == ToSet(entry.packages)
    IN  IF entry.comments = <<>> THEN {entry.start}
        ELSE {i \in {Head(entry.comments)} : lines[i].kind # "author"}
             \cup {i \in explanation : lines[i].traits \cap {"long", "noSpace"} # {}}
             \cup DoubleEmpty(lines, explanation)
             \cup {i \in opening : lines[i].says \in {"badRemoval", "badBugs"}}
             \cup IF packages = {} THEN {entry.start}
                  ELSE {i \in packages : "padded" \in lines[i].traits}
                       \cup {i \in {Head(entry.packages)} : i # Last(entry.comments) + 1}

\* An entry must begin two lines behind what the one before it ends with.
CrowdedEntries(entries) ==
    {entries[k + 1].start : k \in {j \in 1 .. Len(entries) - 1 :
        entries[j + 1].start <= 1 + (CASE entries[j].packages # <<>> -> Last(entries[j].packages)
                                       [] OTHER -> Last(entries[j].comments))}}

\* The numbers of the lines that the rule reports.
Glep84Faults(lines) ==
    IF \A i \in DOMAIN lines : lines[i].kind # "header" THEN {}
    ELSE LET entries == Entries(lines)
         IN  (UNION {EntryFaults(lines, entries[k]) : k \in DOMAIN entries}) \cup CrowdedEntries(entries)
=============================================================================
