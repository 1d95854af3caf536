----------------------------- MODULE IncludeSearch -----------------------------
(***************************************************************************)
(* Where the file of a %INCLUDE is looked for                              *)
(* (libpl1/src/ppIncludeFileUtils.c).                                      *)
(*                                                                         *)
(* A list of directories is a sequence of names and of the separators ':'   *)
(* and ';'.  A file is << directory, name, suffix >>, with the suffix "" if *)
(* there is none.  A result is << >> or << file >>.                         *)
(***************************************************************************)
EXTENDS Integers, SequencesExt

CONSTANTS
  PreviousByte,  \* whether the byte before what malloc returns may be a '/'
  Text           \* the character strings

ASSUME PreviousByteAssumption == PreviousByte \subseteq BOOLEAN /\ PreviousByte # {}

ASSUME TextAssumption == {"", ":", ";", "/", "./", "./include", "variable"} \subseteq Text

Separator == {":", ";"}

(* Between two names there is a separator, or they would be one name. *)
PathList(list) ==
  /\ list \in Seq(Text)
  /\ \A i \in 1..(Len(list) - 1) : list[i] \in Separator \/ list[i + 1] \in Separator

First(file, other, files) ==
  IF file \in files THEN << file >> ELSE IF other \in files THEN << other >> ELSE << >>

(* Behind the name of a directory that does not end in '/' one is added; for *)
(* an empty name the byte before the buffer is looked at: the file is in the *)
(* current directory or in the root.                                        *)
Directory(dir, slash) == IF dir # << >> THEN dir[1] ELSE IF slash THEN "./" ELSE "/"

(* With a suffix first, then without. *)
findFileInDir_SuffixLast(dir, name, suffix, files, slash) ==
  LET d == Directory(dir, slash)
  IN  First(<< d, name, "" >>, << d, name, suffix >>, files)

findFileInDir(dir, name, suffix, files, slash) ==
  LET d == Directory(dir, slash)
  IN  First(<< d, name, suffix >>, << d, name, "" >>, files)

(* A directory is searched when the separator behind it is met. *)
findFileInDirList(list, name, suffix, files, slash) ==
  LET Step(r, item) ==
        IF r.found # << >> THEN r
        ELSE IF item \in Separator
        THEN [buf |-> << >>, found |-> findFileInDir(r.buf, name, suffix, files, slash)]
        ELSE [r EXCEPT !.buf = Append(@, item)]
  IN  FoldLeft(Step, [buf |-> << >>, found |-> << >>], list).found

defaultSearchDirs == << "./", ":", "./include" >>

(* -I, then the default, then PL1SYSLIB.  No -I, and no PL1SYSLIB, are the   *)
(* same as an empty list.                                                   *)
findFile(name, includePath, suffix, env, files, slash) ==
  LET In(list) == findFileInDirList(list, name, suffix, files, slash)
      syslib   == IF "PL1SYSLIB" \in DOMAIN env THEN env["PL1SYSLIB"] ELSE << >>
  IN  IF In(includePath) # << >> THEN In(includePath)
      ELSE IF In(defaultSearchDirs) # << >> THEN In(defaultSearchDirs)
      ELSE In(syslib)

(* Only for a variable that is set. *)
findEnvFile(variable, name, suffix, env, files, slash) ==
  findFileInDirList(env[variable], name, suffix, files, slash)

-----------------------------------------------------------------------------
(* The directories of a list, each with whether a separator follows it. *)
Directories(list) ==
  LET Step(r, item) ==
        IF item \in Separator THEN [done |-> Append(r.done, r.buf), buf |-> << >>]
        ELSE [r EXCEPT !.buf = << item >>]
      r == FoldLeft(Step, [done |-> << >>, buf |-> << >>], list)
  IN  [closed |-> r.done, last |-> r.buf]

=============================================================================
