------------------------------- MODULE Shell --------------------------------
(***************************************************************************)
(* PShell: the command lines of the logged-in user.  A line is taken apart *)
(* by SplitCommandLine, executed by CommandMatch and, for changedir, the   *)
(* new path is brought to normal form by FixWorkingDirectory.  All of this *)
(* runs in the interrupt that delivers the Enter key, so a line is one     *)
(* step.                                                                   *)
(*                                                                         *)
(* The parsing is modelled on characters because the properties are about  *)
(* it.  The file system is FatFs as the shell uses it (FF_FS_RPATH = 1,    *)
(* FF_FS_LOCK = 0, a FAT volume); "SD:" is left out of the texts.          *)
(* The name buffers of the code are taken to be large enough.              *)
(***************************************************************************)
EXTENDS Naturals, Sequences, SequencesExt, FiniteSets

CONSTANTS
  HomeDir,  \* the directory of the shell after the login, a path of names
  ArgOne,   \* the first parameters typed
  ArgTwo,   \* the second parameters typed
  Older,    \* what earlier lines may have left in the input buffer
  EchoRoom, \* the cells for the text of echo, 251 in the code
  Faults,   \* whether an access to the card may fail
  MaxObjects, \* bound on the directories and files of the card
  MaxLines  \* bound on the lines of a file

\* A text is a sequence of characters, a path a sequence of names.
NUL == "NUL"
NoPath == << <<"?">> >>

ASSUME ShellAssumption ==
  /\ Faults \in BOOLEAN
  /\ MaxObjects \in Nat /\ MaxLines \in Nat /\ EchoRoom \in Nat
  /\ \A a \in ArgOne \cup ArgTwo : a \in Seq({"a", "b", ".", "/", "\\"})
  /\ \A left \in Older : left \in Seq({"a", "b", ".", "/", "\\", NUL})
  /\ HomeDir \in Seq(Seq({"a", "b", "h"}) \ {<<>>})

VARIABLES
  directory,   \* _directory: the text of the path the shell works in
  cwd,         \* the current directory of FatFs
  dirs,        \* the directories on the card
  files,       \* the files on the card and their lines
  p1,          \* _commandParameterOne: the cells of the buffer, NUL beyond
  halted,      \* LogPanic has stopped the system
  got,         \* history: what the last command got of the first parameter typed
  early,       \* history: the last command has returned early
  strayed      \* history: the last changedir took a path that is not regular

shellVars == <<directory, cwd, dirs, files, p1, halted, got, early, strayed>>

Parent(path) == SubSeq(path, 1, Len(path) - 1)

-----------------------------------------------------------------------------
(* FatFs.                                                                   *)

Dots(segment) == segment = <<".">> \/ segment = <<".", ".">>

\* The dots at the end of a name are no part of it.
Snip(segment) ==
  IF Dots(segment) THEN segment
  ELSE SubSeq(segment, 1, SelectLastInSeq(segment, LAMBDA c : c # "."))

Separators == {"/", "\\"}

\* The next character of a text of which the parts are known.  A separator
\* ends a part, further ones are skipped.
Separate(parts, c) ==
  IF c \notin Separators THEN [parts EXCEPT ![Len(parts)] = Append(@, c)]
  ELSE IF Last(parts) = <<>> THEN parts ELSE Append(parts, <<>>)

\* The names between the separators of a text.
Segments(text) ==
  LET parts == FoldLeft(Separate, << <<>> >>, text)
  IN IF Last(parts) = <<>> THEN Front(parts) ELSE parts

\* follow_path: one segment further.  The root has no parent and stays.
EnterSegment(path, segment) ==
  IF path \notin dirs THEN NoPath
  ELSE IF segment = <<".">> THEN path
  ELSE IF segment = <<".", ".">> THEN IF path = <<>> THEN path ELSE Parent(path)
  ELSE IF Snip(segment) = <<>> THEN NoPath ELSE Append(path, Snip(segment))

Follow(start, text) == FoldLeft(EnterSegment, start, Segments(text))

\* A text starts at the root if it starts with a separator, and is the root
\* if it is nothing else; after the last separator a name must come.
Find(text) ==
  IF Segments(text) = <<>> THEN IF text = <<>> THEN cwd ELSE <<>>
  ELSE IF Last(text) \in Separators THEN NoPath
  ELSE Follow(IF Head(text) \in Separators THEN <<>> ELSE cwd, text)

\* The object a text names, which need not exist; a dot entry is refused.
Object(text) ==
  LET names == Segments(text)
  IN IF names = <<>> \/ Dots(Last(names)) THEN NoPath ELSE Find(text)

Creatable(path) == path # NoPath /\ path \notin dirs /\ Parent(path) \in dirs
Removable(path) == /\ path \in (dirs \ {<<>>, cwd}) \cup DOMAIN files
                   /\ \A q \in dirs \cup DOMAIN files : q # <<>> => Parent(q) # path

PutFile(path, content) == [q \in DOMAIN files \cup {path} |-> IF q = path THEN content ELSE files[q]]
Room(path) == path \in DOMAIN files \/ Cardinality(dirs \cup DOMAIN files) < MaxObjects
Drop(f, path) == [q \in DOMAIN f \ {path} |-> f[q]]

\* What an f_open that creates and fails leaves of the files: it empties the
\* entry of a file before it frees the clusters.
Spoiled(path) == {files} \cup (IF Faults /\ path \in DOMAIN files THEN {PutFile(path, <<>>)} ELSE {})

\* What a write leaves of a content: all, or the lines before it failed.
Written(content) == {content} \cup (IF Faults THEN {SubSeq(content, 1, n) : n \in 0..Len(content)} ELSE {})

-----------------------------------------------------------------------------
(* The command line.                                                        *)

\* The text in a buffer ends at its first NUL.
TextIn(cells) ==
  LET ends == {i \in 1..Len(cells) : cells[i] = NUL}
  IN IF ends = {} THEN cells ELSE SubSeq(cells, 1, (CHOOSE i \in ends : \A j \in ends : i <= j) - 1)

\* strcpy (buffer, ""): only the first cell changes.
Emptied(cells) == IF cells = <<>> THEN <<>> ELSE [cells EXCEPT ![1] = NUL]

\* The names of the commands and their lengths; `other` stands for those of
\* Show, which clear the parameters, so that their length does not matter.
NameLength ==
  [changedir |-> 9, createfile |-> 10, createdir |-> 9, delete |-> 6, deletedir |-> 9,
   copy |-> 4, move |-> 4, writeto |-> 7, echo |-> 4, other |-> 1]

\* A line: the name of a command, its parameters, and what older lines have
\* left behind it in the input buffer.
ArgLists == {<<>>} \cup {<<a>> : a \in ArgOne} \cup {<<a, b>> : a \in ArgOne, b \in ArgTwo}
Lines == [name : DOMAIN NameLength, args : ArgLists, older : Older]

\* SplitCommandLine: the cells of parameter one for a line.  With one space it
\* copies as many cells as the whole line has: the text, its NUL and what is
\* behind it.  With two it copies the text only, over what the buffer holds.
\* In both cases the NUL goes to the index that the end has in the whole line.
Copies(line) ==
  IF Len(line.args) = 2 THEN line.args[1]
  ELSE line.args[1] \o <<NUL>> \o [i \in 1..NameLength[line.name] |->
                                   IF i <= Len(line.older) THEN line.older[i] ELSE NUL]

SplitCommandLine(line) ==
  IF line.args = <<>> THEN Emptied(p1)
  ELSE LET copied == Copies(line)
           end == NameLength[line.name] + Len(line.args[1]) + 2
       IN [i \in 1..(IF Len(p1) > Len(copied) THEN Len(p1) ELSE Len(copied)) |->
             IF i <= Len(copied) THEN copied[i] ELSE IF i = end THEN NUL ELSE Emptied(p1)[i]]

One(line) == TextIn(SplitCommandLine(line))
Two(line) == IF Len(line.args) = 2 THEN line.args[2] ELSE <<>>

\* The path a command makes of its first parameter.
Here(line) == directory \o <<"/">> \o One(line)

Typed(line) == IF line.args = <<>> THEN <<>> ELSE line.args[1]

\* The parameter a command gets, compared with the one that was typed.
Record(line) ==
  got' = IF One(line) = Typed(line) THEN "typed"
         ELSE IF IsPrefix(Typed(line), One(line)) THEN "longer" ELSE "other"

\* A mutant: the parameters are not cleared.
BugClearParameters(line) == p1' = SplitCommandLine(line) /\ early' = FALSE /\ Record(line)

\* The end of CommandMatch, which clears the parameters.
ClearParameters(line) == p1' = <<>> /\ early' = FALSE /\ Record(line)

\* An early return, which does not.
KeepParameters(line) == p1' = SplitCommandLine(line) /\ early' = TRUE /\ Record(line)

-----------------------------------------------------------------------------
(* The working directory.                                                   *)

Slashes(text) == {i \in 1..Len(text) : text[i] = "/"}
DotPairs(text) == {i \in 1..(Len(text) - 1) : text[i] = "." /\ text[i + 1] = "."}

\* The text before its n-th slash.
Before(text, n) ==
  LET at == CHOOSE i \in Slashes(text) : Cardinality({j \in Slashes(text) : j <= i}) = n
  IN SubSeq(text, 1, at - 1)

BugFixWorkingDirectory(text) ==
  LET s == Cardinality(Slashes(text))
      d == Cardinality(DotPairs(text))
  IN IF d = 0 \/ s < d THEN text
     ELSE IF s = d THEN <<>>
     ELSE Before(text, IF s - d > d THEN s - 2 * d ELSE 1)

\* The paths that FixWorkingDirectory is made for: first names, then `..`, with
\* one slash before each and no other separator; a name is not `.` and has no two dots in a row.
Regular(text) ==
  LET names == Segments(text) IN
  /\ \A i \in 1..Len(text) : text[i] # "\\"
  /\ \A i \in Slashes(text) : i + 1 \in (1..Len(text)) \ Slashes(text)
  /\ \A i \in DOMAIN names :
       \/ names[i] # <<".">> /\ DotPairs(names[i]) = {}
       \/ \A j \in i..Len(names) : names[j] = <<".", ".">>

\* Each pass of the loop cuts the text one slash earlier, until the first.
FixWorkingDirectory(text) ==
  LET s == Cardinality(Slashes(text))
      d == Cardinality(DotPairs(text))
  IN IF d = 0 \/ s < d THEN text
     ELSE IF s = d THEN <<>>
     ELSE Before(text, IF s - d >= d THEN s - 2 * d + 1 ELSE 1)

-----------------------------------------------------------------------------
(* The commands.                                                            *)

ShellInit ==
  /\ directory = FoldLeft(LAMBDA text, name : text \o <<"/">> \o name, <<>>, HomeDir)
  /\ cwd = HomeDir
  /\ dirs = {SubSeq(HomeDir, 1, n) : n \in 0..Len(HomeDir)}
  /\ files = <<>>
  /\ p1 = <<>>
  /\ halted = FALSE
  /\ got = "typed"
  /\ early = FALSE
  /\ strayed = FALSE

ChangeDir(line) ==
  LET path == Find(Here(line)) IN
  /\ line.name = "changedir"
  /\ \/ /\ One(line) # <<>> /\ path \in dirs
        /\ cwd' = path
        /\ directory' = FixWorkingDirectory(Here(line))
        /\ strayed' = ~Regular(Here(line))
     \/ /\ One(line) = <<>> \/ path \notin dirs
        /\ UNCHANGED <<directory, cwd, strayed>>
  /\ ClearParameters(line)
  /\ UNCHANGED <<dirs, files, halted>>

\* A failure is logged as LogPanic, which halts.
CreateFile(line) ==
  LET path == Object(Here(line)) IN
  /\ line.name = "createfile"
  /\ \/ /\ Creatable(path) /\ Room(path)
        /\ files' = PutFile(path, <<>>)
        /\ ClearParameters(line)
        /\ UNCHANGED halted
     \/ /\ ~Creatable(path) \/ Faults
        /\ \/ files' \in Spoiled(path)
           \/ Creatable(path) /\ Room(path) /\ files' = PutFile(path, <<>>)
        /\ halted' = TRUE
        /\ KeepParameters(line)
  /\ UNCHANGED <<directory, cwd, strayed, dirs>>

CreateDir(line) ==
  LET path == Object(Here(line)) IN
  /\ line.name = "createdir"
  /\ \/ /\ Creatable(path) /\ path \notin DOMAIN files /\ Room(path)
        /\ dirs' = dirs \cup {path}
     \/ /\ ~Creatable(path) \/ path \in DOMAIN files \/ Faults
        /\ UNCHANGED dirs
  /\ ClearParameters(line)
  /\ UNCHANGED <<directory, cwd, strayed, files, halted>>

\* delete and deletedir are one command.
Delete(line) ==
  LET path == Object(Here(line)) IN
  /\ line.name \in {"delete", "deletedir"}
  /\ \/ /\ Removable(path)
        /\ files' = Drop(files, path)
        /\ dirs' = dirs \ {path}
     \/ /\ ~Removable(path) \/ Faults
        /\ UNCHANGED <<dirs, files>>
  /\ ClearParameters(line)
  /\ UNCHANGED <<directory, cwd, strayed, halted>>

\* The source of copy and move is a file of the working directory, the
\* destination is opened relative to the current directory of FatFs.
Source(line) == Object(Here(line))
Target(line) == Object(Two(line) \o <<"/">> \o One(line))
Copyable(line) == LET source == Source(line) IN source \in DOMAIN files /\ Creatable(Target(line))

\* What the target gets.  A target that is the source is truncated before
\* it is read; then what remains is whatever the sector still held.
Copied(line) ==
  LET content == files[Source(line)]
  IN IF Target(line) = Source(line) THEN {SubSeq(content, 1, n) : n \in 0..Len(content)}
     ELSE Written(content)

Copy(line) ==
  /\ line.name = "copy"
  /\ Copyable(line) /\ Room(Target(line))
  /\ \E content \in Copied(line) : files' = PutFile(Target(line), content)
  /\ ClearParameters(line)
  /\ UNCHANGED <<directory, cwd, strayed, dirs, halted>>

\* Neither a failed write nor a target equal to the source keeps move from
\* its f_unlink of the source.
Move(line) ==
  /\ line.name = "move"
  /\ Copyable(line) /\ Room(Target(line))
  /\ \E content \in Copied(line) :
       LET copied == PutFile(Target(line), content) IN
       \/ files' = Drop(copied, Source(line))
       \/ Faults /\ files' = copied
  /\ ClearParameters(line)
  /\ UNCHANGED <<directory, cwd, strayed, dirs, halted>>

\* copy and move return at once when a file cannot be opened.
RefuseCopy(line) ==
  /\ line.name \in {"copy", "move"}
  /\ Faults \/ ~Copyable(line)
  /\ files' \in IF Source(line) \in DOMAIN files THEN Spoiled(Target(line)) ELSE {files}
  /\ KeepParameters(line)
  /\ UNCHANGED <<directory, cwd, strayed, dirs, halted>>

\* The text is appended as a line to the file, which is created if need be.
\* Any failure to open the file leads to the attempt that creates it, which
\* empties a file that exists.
WriteTo(line) ==
  LET path == Object(Here(line))
      old == IF path \in DOMAIN files THEN files[path] ELSE <<>> IN
  /\ line.name = "writeto"
  /\ \/ /\ Creatable(path) /\ Room(path)
        /\ \E start \in {old} \cup (IF Faults THEN {<<>>} ELSE {}), more \in Written(<<Two(line)>>) :
             /\ Len(start) < MaxLines
             /\ files' = PutFile(path, start \o more)
        /\ ClearParameters(line)
     \/ /\ ~Creatable(path) \/ Faults
        /\ files' \in Spoiled(path)
        /\ KeepParameters(line)
  /\ UNCHANGED <<directory, cwd, strayed, dirs, halted>>

\* echo returns early when its message has no room for a parameter.
EchoTooLong(line) ==
  \/ Len(One(line)) >= EchoRoom
  \/ Two(line) # <<>> /\ Len(One(line)) + 1 + Len(Two(line)) >= EchoRoom

Echo(line) ==
  /\ line.name = "echo"
  /\ \/ EchoTooLong(line) /\ KeepParameters(line)
     \/ ~EchoTooLong(line) /\ ClearParameters(line)
  /\ UNCHANGED <<directory, cwd, strayed, dirs, files, halted>>

\* The other commands that only print, reboot and power, which are the action
\* Shutdown of MainLoop, displaytasks and s, which switch the output of the
\* demo tasks, and the unknown ones.
Show(line) ==
  /\ line.name = "other"
  /\ ClearParameters(line)
  /\ UNCHANGED <<directory, cwd, strayed, dirs, files, halted>>

Halted == halted /\ UNCHANGED shellVars

CommandLineIn(line) ==
  \/ ChangeDir(line) \/ CreateFile(line) \/ CreateDir(line) \/ Delete(line) \/ Copy(line)
  \/ Move(line) \/ RefuseCopy(line) \/ WriteTo(line) \/ Echo(line) \/ Show(line)

ShellNext == (~halted /\ \E line \in Lines : CommandLineIn(line)) \/ Halted

ShellSpec == ShellInit /\ [][ShellNext]_shellVars

-----------------------------------------------------------------------------
(* Properties.                                                              *)

\* The variables have their types and every object has a parent directory.
ShellTypeOK ==
  /\ directory \in Seq({"a", "b", "h", ".", "/", "\\"})
  /\ cwd \in dirs
  /\ \A q \in (dirs \cup DOMAIN files) \ {<<>>} : Parent(q) \in dirs
  /\ dirs \cap DOMAIN files = {}
  /\ \A q \in DOMAIN files : Len(files[q]) <= MaxLines
  /\ got \in {"typed", "longer", "other"}
  /\ halted \in BOOLEAN /\ early \in BOOLEAN /\ strayed \in BOOLEAN

\* The path the shell shows and puts in front of every file name is the
\* current directory of FatFs, to which the target of copy and move is
\* relative: the text that FixWorkingDirectory cuts and the tree that
\* f_chdir walks agree whenever the last path was regular, whatever was
\* taken before it: FixWorkingDirectory counts slashes and pairs of dots,
\* and takes each pair for a `..`, and every `..` to be at the end.
DirectoryIsCwd == ~strayed => Follow(<<>>, directory) = cwd

\* A command takes the first parameter that was typed; only the command after
\* an early return may get more than that, which then still begins with it:
\* no command that ran to its end leaves anything to a later one, whatever
\* the buffers held.
ParameterAsTyped == [][got' # "typed" => got' = "longer" /\ early]_shellVars
=============================================================================
