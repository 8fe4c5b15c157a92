------------------------------- MODULE World -------------------------------
(***************************************************************************)
(* The world file: the commands of "g2 world" that read it, change it and  *)
(* write it back, its terminal editor, and writeWorldFile, which renames   *)
(* one temporary file of fixed name over it.  Several processes may run at *)
(* the same time, any of them may fail to write, and be killed.            *)
(*                                                                         *)
(* A line is the sequence of what stands between its "#" signs: <<e>> is   *)
(* the entry e, <<Blank, e>> the same commented out, and <<e, w>> has the  *)
(* words w behind it.  A piece is a package and a version, or words, or    *)
(* Blank; the white space around it is left out.  A text that is typed is  *)
(* chosen when Enter is pressed.                                           *)
(***************************************************************************)
EXTENDS TextLines, Integers, SequencesExt

CONSTANTS
    Commands,     \* the processes that run commands
    Editor,       \* the process that runs the editor
    Packages,     \* the packages
    VersionNames, \* the versions that may be asked for
    Initial,      \* the lines the file may hold at first
    Heights,      \* the rows the terminal may have
    MaxLines,     \* bound: the lines of a file
    MaxPieces,    \* bound: the pieces of a line
    MaxChanges    \* bound: the changes made in the editor and by commands

ASSUME WorldAssumption ==
    /\ IsFiniteSet(Commands) /\ Editor \notin Commands
    /\ Heights \subseteq Nat \ {0}
    /\ {MaxLines, MaxPieces, MaxChanges} \subseteq Nat

VARIABLES
    name,     \* the file of the world and of the temporary name, NoFile for none
    content,  \* what is in each file: lines, or Torn
    pc,       \* where each process is
    buf,      \* the lines each process is going to write
    fd,       \* the file each process has open for writing
    ed,       \* the locals of the editor, what they were when its screen was drawn included
    changes,  \* the changes so far
    saved,    \* history: what the last writer who succeeded meant to write
    together  \* history: whether two processes ever wrote at the same time

disk == <<name, content>>
vars == <<disk, pc, buf, fd, ed, changes, saved, together>>

Procs == Commands \cup {Editor}
NoFile == 0
Files == 1 .. Cardinality(Procs) + 2

Piece(p, v) == [pkg |-> p, ver |-> v]
Unversioned == "none"
Blank == Piece("", Unversioned)
Words == Piece("words", Unversioned)
Torn == <<<<Piece("torn", Unversioned)>>>>
Entries == {Piece(p, Unversioned) : p \in Packages}

\* A line is cut into one piece at least. The file begins with such lines.
Pieces == [pkg : Packages \cup {Blank.pkg, Words.pkg, "torn"}, ver : VersionNames \cup {Unversioned}]
Line == {line \in Seq(Pieces) : line # <<>>}
Lines == Seq(Line)

ASSUME LinesAssumption == Initial \subseteq Lines

-----------------------------------------------------------------------------
(* Lines.                                                                  *)

IsComment(line) == Len(line) > 1 /\ Head(line) = Blank
Uncommented(line) == Tail(line)
Commented(line) == <<Blank>> \o line

\* A "#" of the line's own is taken off before it is compared with a package.
Names(line, e) == line = <<e>> \/ line = <<Blank, e>>

deletePackage(lines, e) == LinesAt(lines, {i \in DOMAIN lines : ~Names(lines[i], e)})
addPackage(lines, e) == Append(lines, <<e>>)
enablePackage(lines, e) == [i \in DOMAIN lines |-> IF lines[i] = <<Blank, e>> THEN Uncommented(lines[i]) ELSE lines[i]]
disablePackage(lines, e) == [i \in DOMAIN lines |-> IF lines[i] = <<e>> THEN Commented(lines[i]) ELSE lines[i]]

Changed(lines, cmd, e) ==
    CASE cmd = "delete" -> deletePackage(lines, e)
      [] cmd = "add" -> addPackage(lines, e)
      [] cmd = "enable" -> enablePackage(lines, e)
      [] cmd = "disable" -> disablePackage(lines, e)

WithoutLine(lines, i) == SubSeq(lines, 1, i - 1) \o SubSeq(lines, i + 1, Len(lines))
WithLine(lines, i, line) == SubSeq(lines, 1, i - 1) \o <<line>> \o SubSeq(lines, i, Len(lines))

\* The comment stays behind every line, and of a line that is a comment nothing but the comment.
WithVersions(line, versions) ==
    IF versions = <<>> THEN <<<<Piece(Head(line).pkg, Unversioned)>> \o Tail(line)>>
    ELSE [i \in DOMAIN versions |-> <<Piece(Head(line).pkg, versions[i])>> \o Tail(line)]

-----------------------------------------------------------------------------
(* writeWorldFile.                                                         *)

Writing(p) == pc[p] \in {"create", "write", "flush", "rename"}

BeginWrite(p, lines) ==
    /\ pc' = [pc EXCEPT ![p] = "create"]
    /\ buf' = [buf EXCEPT ![p] = lines]
    /\ together' = (together \/ \E q \in Procs \ {p} : Writing(q))

Ends(p) ==
    /\ pc' = [pc EXCEPT ![p] = IF p = Editor THEN "ended" ELSE "idle"]
    /\ fd' = [fd EXCEPT ![p] = NoFile]

Free(f) == f \notin {name.world, name.tmp} \cup {fd[p] : p \in Procs}

\* Bug variant: the file itself is opened.
CreateInPlace(p) ==
    /\ pc[p] = "create"
    /\ \E f \in Files :
          /\ IF name.world = NoFile THEN Free(f) /\ \A g \in 1 .. f - 1 : ~Free(g) ELSE f = name.world
          /\ name' = [name EXCEPT !.world = f, !.tmp = f]
          /\ content' = [content EXCEPT ![f] = <<>>]
          /\ fd' = [fd EXCEPT ![p] = f]
    /\ pc' = [pc EXCEPT ![p] = "write"]
    /\ UNCHANGED <<buf, ed, changes, saved, together>>

\* os.Create empties the file that has the name, whoever is writing it.
Create(p) ==
    /\ pc[p] = "create"
    /\ \E f \in Files :
          /\ IF name.tmp = NoFile THEN Free(f) /\ \A g \in 1 .. f - 1 : ~Free(g) ELSE f = name.tmp
          /\ name' = [name EXCEPT !.tmp = f]
          /\ content' = [content EXCEPT ![f] = <<>>]
          /\ fd' = [fd EXCEPT ![p] = f]
    /\ pc' = [pc EXCEPT ![p] = "write"]
    /\ UNCHANGED <<buf, ed, changes, saved, together>>

CreateFails(p) ==
    /\ pc[p] = "create"
    /\ Ends(p)
    /\ UNCHANGED <<disk, buf, ed, changes, saved, together>>

\* What fills the buffer is written before the rest.
WriteString(p) ==
    /\ pc[p] = "write"
    /\ content' = [content EXCEPT ![fd[p]] = Torn]
    /\ pc' = [pc EXCEPT ![p] = "flush"]
    /\ UNCHANGED <<name, buf, fd, ed, changes, saved, together>>

\* Over what another process has written into the same file, a mixture may remain.
Flush(p) ==
    /\ pc[p] = "flush"
    /\ \E result \in {buf[p]} \cup IF together THEN {Torn} ELSE {} :
          content' = [content EXCEPT ![fd[p]] = result]
    /\ pc' = [pc EXCEPT ![p] = "rename"]
    /\ fd' = [fd EXCEPT ![p] = NoFile]
    /\ UNCHANGED <<name, buf, ed, changes, saved, together>>

\* An error removes what has the temporary name.
WriteFails(p) ==
    /\ pc[p] \in {"write", "flush"}
    /\ name' = [name EXCEPT !.tmp = NoFile]
    /\ Ends(p)
    /\ UNCHANGED <<content, buf, ed, changes, saved, together>>

Rename(p) ==
    /\ pc[p] = "rename" /\ name.tmp # NoFile
    /\ name' = [world |-> name.tmp, tmp |-> NoFile]
    /\ saved' = buf[p]
    /\ Ends(p)
    /\ UNCHANGED <<content, buf, ed, changes, together>>

\* Another process has renamed the file, or removed it; or the system refuses.
RenameFails(p) ==
    /\ pc[p] = "rename"
    /\ Ends(p)
    /\ UNCHANGED <<disk, buf, ed, changes, saved, together>>

Kill(p) ==
    /\ pc[p] \notin {"idle", "ended", "killed"}
    /\ pc' = [pc EXCEPT ![p] = "killed"]
    /\ fd' = [fd EXCEPT ![p] = NoFile]
    /\ UNCHANGED <<disk, buf, ed, changes, saved, together>>

writeWorldFile(p) ==
    \/ Create(p) \/ CreateFails(p) \/ WriteString(p) \/ Flush(p) \/ WriteFails(p) \/ Rename(p) \/ RenameFails(p)

-----------------------------------------------------------------------------
(* The commands.                                                           *)

\* Without the file there are no lines. What is made of a torn file is left out.
CanRead == name.world = NoFile \/ content[name.world] # Torn
readWorldFile == IF name.world = NoFile THEN <<>> ELSE content[name.world]

InBounds(lines) == Len(lines) <= MaxLines /\ \A i \in DOMAIN lines : Len(lines[i]) <= MaxPieces

cmdWorld(p, cmd, e) ==
    /\ pc[p] = "idle" /\ CanRead /\ changes < MaxChanges
    /\ LET lines == Changed(readWorldFile, cmd, e)
       IN  InBounds(lines) /\ BeginWrite(p, lines)
    /\ changes' = changes + 1
    /\ UNCHANGED <<disk, fd, ed, saved>>

-----------------------------------------------------------------------------
(* The editor.  rows are the places of the lines that the filter lets through (filteredIndices), *)
(* of which the screen shows those from scroll on, as many as list. cursor and scroll count from *)
(* 0. real is promptRealIdx.                                                                     *)

Prompts == {"prompt_version", "prompt_comment_after", "prompt_comment_before", "prompt_replace"}
Typing == Prompts \cup {"insert", "filter"}

\* The filter is a part of the name of one package, or of every line.
Everything == ""
Matches(line, query) == query = Everything \/ \E i \in DOMAIN line : line[i].pkg = query
filteredIndices(lines, query) == Ascending({i \in DOMAIN lines : Matches(lines[i], query)})

listHeight(e) ==
    LET left == e.height - 4 - IF e.mode \in Typing \/ e.query # Everything THEN 2 ELSE 0
    IN  IF left < 1 THEN 1 ELSE left

render(e) ==
    LET rows == filteredIndices(e.lines, e.query)
        cursor == IF rows = <<>> THEN 0 ELSE IF e.cursor >= Len(rows) THEN Len(rows) - 1 ELSE e.cursor
        list == listHeight(e)
        scroll == IF cursor < e.scroll THEN cursor
                  ELSE IF cursor >= e.scroll + list THEN cursor - list + 1 ELSE e.scroll
    IN  [e EXCEPT !.rows = rows, !.cursor = cursor, !.list = list, !.scroll = scroll]

Opened(lines, height) ==
    [lines |-> lines, cursor |-> 0, mode |-> "normal", query |-> Everything, rows |-> <<>>,
     scroll |-> 0, list |-> 1, real |-> 0, height |-> height]

Closed == Opened(<<>>, 1)

runWorldTUI ==
    /\ pc[Editor] = "idle" /\ CanRead
    /\ pc' = [pc EXCEPT ![Editor] = "editing"]
    /\ \E height \in Heights : ed' = render(Opened(readWorldFile, height))
    /\ UNCHANGED <<disk, buf, fd, changes, saved, together>>

\* Every key is followed by a new screen.
Key(mode, e) ==
    /\ pc[Editor] = "editing" /\ ed.mode = mode
    /\ InBounds(e.lines)
    /\ changes' = IF e.lines = ed.lines THEN changes ELSE changes + 1
    /\ changes' <= MaxChanges
    /\ ed' = render(e)
    /\ UNCHANGED <<disk, pc, buf, fd, saved, together>>

\* Any size may be found, and each is followed by a message in resizeChan.
Resize ==
    /\ pc[Editor] = "editing"
    /\ \E height \in Heights : ed' = render([ed EXCEPT !.height = height])
    /\ UNCHANGED <<disk, pc, buf, fd, changes, saved, together>>

OnRow == ed.cursor < Len(ed.rows)

\* Bug variant: the rows of the screen are taken for the lines of the file.
realIdxUnfiltered == ed.cursor + 1

\* The line of the row under the cursor.
realIdx == ed.rows[ed.cursor + 1]

Toggled(line) == IF IsComment(line) THEN Uncommented(line) ELSE Commented(line)

Bottom == Len(ed.rows) - 1
Down == Key("normal", [ed EXCEPT !.cursor = IF @ < Bottom THEN @ + 1 ELSE @])
Up == Key("normal", [ed EXCEPT !.cursor = IF @ > 0 THEN @ - 1 ELSE @])
PageUp == Key("normal", [ed EXCEPT !.cursor = IF @ < ed.list THEN 0 ELSE @ - ed.list])
PageDown == Key("normal", [ed EXCEPT !.cursor = IF @ + ed.list > Bottom /\ Bottom >= 0 THEN Bottom ELSE @ + ed.list])
Home == Key("normal", [ed EXCEPT !.cursor = 0])
End == Key("normal", [ed EXCEPT !.cursor = IF Bottom >= 0 THEN Bottom ELSE @])

ToggleComment == OnRow /\ Key("normal", [ed EXCEPT !.lines[realIdx] = Toggled(@)])
Delete ==
    /\ OnRow
    /\ Key("normal", [ed EXCEPT !.lines = WithoutLine(@, realIdx),
                                !.cursor = IF @ >= Bottom /\ @ > 0 THEN @ - 1 ELSE @])
Add == Key("normal", [ed EXCEPT !.mode = "insert"])
Edit == OnRow /\ Key("normal", [ed EXCEPT !.mode = "edit_modal"])
Filter == Key("normal", [ed EXCEPT !.mode = "filter"])

Quit ==
    /\ pc[Editor] = "editing" /\ ed.mode = "normal"
    /\ pc' = [pc EXCEPT ![Editor] = "ended"]
    /\ ed' = Closed
    /\ UNCHANGED <<disk, buf, fd, changes, saved, together>>

Save ==
    /\ pc[Editor] = "editing" /\ ed.mode = "normal"
    /\ BeginWrite(Editor, ed.lines)
    /\ ed' = Closed
    /\ UNCHANGED <<disk, fd, changes, saved>>

\* What the options of the modal do with the line they find.
CloseModal == Key("edit_modal", [ed EXCEPT !.mode = "normal"])

Prompt(mode) == [ed EXCEPT !.real = realIdx, !.mode = mode]
Done(lines) == [ed EXCEPT !.real = realIdx, !.mode = "normal", !.lines = lines]

EditOption(option) ==
    LET line == ed.lines[realIdx]
    IN  /\ OnRow
        /\ Key("edit_modal",
            CASE option = "comment" -> Done([ed.lines EXCEPT ![realIdx] = Toggled(line)])
              [] option = "version" -> Prompt("prompt_version")
              [] option = "comment after" ->
                    IF Len(line) > 1 /\ ~IsComment(line) THEN Done([ed.lines EXCEPT ![realIdx] = <<Head(line)>>])
                    ELSE Prompt("prompt_comment_after")
              [] option = "comment before" ->
                    IF realIdx > 1 /\ IsComment(ed.lines[realIdx - 1])
                    THEN Done(WithoutLine(ed.lines, realIdx - 1))
                    ELSE [Prompt("prompt_comment_before") EXCEPT !.lines = WithLine(@, realIdx, <<Blank>>)]
              [] option = "replace" -> Prompt("prompt_replace"))

\* Escape leaves the filter as it is.
Escape ==
    \E mode \in Typing :
        Key(mode, [ed EXCEPT !.mode = "normal",
                             !.lines = IF mode = "prompt_comment_before" THEN WithoutLine(@, ed.real) ELSE @])

\* Enter does not leave the filter.
TypeFilter(query) == Key("filter", [ed EXCEPT !.query = query, !.cursor = 0])

\* What Enter makes of the lines, with the line that was typed: a piece.
Entered(lines) == [ed EXCEPT !.lines = lines, !.mode = "normal"]

EnterInsert(piece) ==
    Key("insert", Entered(IF piece = Blank THEN ed.lines
                          ELSE IF OnRow THEN WithLine(ed.lines, realIdx, <<piece>>)
                          ELSE Append(ed.lines, <<piece>>)))

EnterVersions(versions) ==
    Key("prompt_version",
        Entered(SubSeq(ed.lines, 1, ed.real - 1) \o WithVersions(ed.lines[ed.real], versions)
                \o SubSeq(ed.lines, ed.real + 1, Len(ed.lines))))

EnterCommentAfter(piece) ==
    Key("prompt_comment_after",
        Entered(IF piece = Blank THEN ed.lines ELSE [ed.lines EXCEPT ![ed.real] = Append(@, piece)]))

EnterCommentBefore(piece) ==
    Key("prompt_comment_before",
        Entered(IF piece = Blank THEN WithoutLine(ed.lines, ed.real)
                ELSE [ed.lines EXCEPT ![ed.real] = <<Blank, piece>>]))

EnterReplace(piece) ==
    Key("prompt_replace",
        Entered(IF piece = Blank THEN WithoutLine(ed.lines, ed.real)
                ELSE [ed.lines EXCEPT ![ed.real] = <<piece>>]))

NormalKey ==
    \/ Down \/ Up \/ PageUp \/ PageDown \/ Home \/ End
    \/ ToggleComment \/ Delete \/ Add \/ Edit \/ Filter

Typed ==
    \/ Escape
    \/ \E query \in Packages \cup {Everything} : TypeFilter(query)
    \/ \E piece \in Entries \cup {Blank} : EnterInsert(piece) \/ EnterReplace(piece)
    \/ \E piece \in {Words, Blank} : EnterCommentAfter(piece) \/ EnterCommentBefore(piece)
    \/ \E versions \in BoundedSeq(VersionNames, 2) : EnterVersions(versions)

Modal ==
    \/ CloseModal
    \/ \E option \in {"comment", "version", "comment after", "comment before", "replace"} : EditOption(option)

-----------------------------------------------------------------------------
Init ==
    /\ \E lines \in Initial :
          /\ content = [f \in Files |-> IF f = 1 THEN lines ELSE <<>>]
          /\ saved = lines
    /\ name = [world |-> 1, tmp |-> NoFile]
    /\ pc = [p \in Procs |-> "idle"]
    /\ buf = [p \in Procs |-> <<>>]
    /\ fd = [p \in Procs |-> NoFile]
    /\ ed = Closed
    /\ changes = 0
    /\ together = FALSE

Next ==
    \/ runWorldTUI \/ NormalKey \/ Modal \/ Typed \/ Resize \/ Save \/ Quit
    \/ \E p \in Commands, cmd \in {"delete", "add", "enable", "disable"}, e \in Entries : cmdWorld(p, cmd, e)
    \/ \E p \in Procs : writeWorldFile(p) \/ Kill(p)

Spec == Init /\ [][Next]_vars

-----------------------------------------------------------------------------
\* No command locks the file, and all write through one temporary name. As long as no two of them
\* wrote at the same time, whatever was killed and whatever it left behind, the world file is what
\* the last writer who succeeded meant to write.
WorldWhole == ~together => name.world # NoFile /\ content[name.world] = saved

\* The lines apart from the one at i are as they were, but for a line before it that is a comment
\* or was put there for one.
OthersKept(old, new, i) ==
    LET kept == IF i > 1 /\ (IsComment(old[i - 1]) \/ old[i - 1] = <<Blank>>) THEN i - 2 ELSE i - 1
        rest == Len(old) - i
    IN  /\ Len(new) >= kept + rest
        /\ SubSeq(new, 1, kept) = SubSeq(old, 1, kept)
        /\ SubSeq(new, Len(new) - rest + 1, Len(new)) = SubSeq(old, i + 1, Len(old))

\* A key changes nothing but the line that the screen shows under the cursor and what is put
\* before it, whatever was filtered, scrolled, resized or begun and given up since.
EditorChangesShownLine ==
    [][pc[Editor] = "editing" /\ pc'[Editor] = "editing" /\ ed'.lines # ed.lines =>
          IF ed.rows = <<>> THEN ed'.lines = Append(ed.lines, ed'.lines[Len(ed'.lines)])
          ELSE /\ ed.scroll <= ed.cursor /\ ed.cursor < ed.scroll + ed.list
               /\ OthersKept(ed.lines, ed'.lines, ed.rows[ed.cursor + 1])]_vars
=============================================================================
