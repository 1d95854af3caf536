------------------------------- MODULE Compiler -------------------------------
(***************************************************************************)
(* One run of the compiler: options, input file, parse and result          *)
(* (pl11.c, libpl1/src/PLIParser.c, PLIMessage.c), with the files that       *)
(* %INCLUDE reads and the list that is kept of them.  What the scanner and  *)
(* the parser do with the text is the business of the other modules; here   *)
(* the text is any sequence of the events that reach the front end.         *)
(***************************************************************************)
EXTENDS IncludeSearch

CONSTANTS
  Name,           \* of %INCLUDE files and of ddnames
  PathLists,      \* what -I may have behind it
  SuffixList,       \* what -isuffix may have behind it
  Environments,   \* functions from environment variables to lists
  FileSystems,    \* sets of files
  MaxIncludes,    \* bound on the include files and values of variables
  MaxMessages     \* bound up to which messages are counted

ASSUME BoundAssumption == MaxIncludes \in Nat /\ MaxMessages \in Nat \ {0}

ASSUME NameAssumption == Name \subseteq Text /\ SuffixList \subseteq Text

ASSUME PathAssumption == \A list \in PathLists : PathList(list)

ASSUME EnvironmentAssumption ==
  \A env \in Environments : DOMAIN env \subseteq Text /\ \A v \in DOMAIN env : PathList(env[v])

ASSUME FileAssumption == \A files \in FileSystems : files \subseteq Text \X Text \X Text

NULL == 0

VARIABLES
  phase,               \* of the run
  env, files,          \* the environment variables and the files that exist
  parms,               \* pl1parserparms: what the options set
  messages,            \* msgErrors, msgWarns and msgInfos: how many
  includefilelist,     \* the files and values read so far
  count,               \* of each type, as the list keeps it
  currentIncludeFile,  \* in the list, or NULL for the main file
  buffers,             \* currentScannerBufferList: currentIncludeFile of the texts that wait
  scanner,             \* whether it goes on
  rc, errorcount,      \* of pl1_parser and of GCC
  wrong                \* whether something in the text was wrong

vars == << phase, env, files, parms, messages, includefilelist, count, currentIncludeFile, buffers,
           scanner, rc, errorcount, wrong >>
input == << env, files, parms >>
lists == << includefilelist, count, currentIncludeFile, buffers >>

-----------------------------------------------------------------------------
Type == {"FILE", "PPVAR"}
MessageKind == {"errors", "warns", "infos"}

Init ==
  /\ phase = "options"
  /\ env \in Environments /\ files \in FileSystems
  /\ parms = [includePath |-> << >>, includeSuffix |-> "", preprocessOnly |-> FALSE]
  /\ messages = [kind \in MessageKind |-> 0]
  /\ includefilelist = << >> /\ count = [t \in Type |-> 0]
  /\ currentIncludeFile = NULL /\ buffers = << >>
  /\ scanner = "none" /\ rc = 0 /\ errorcount = 0 /\ wrong = FALSE

(* The options that only make the compiler print more are left out. *)
pl1_handle_option ==
  /\ phase = "options"
  /\ \/ \E list \in PathLists : parms' = [parms EXCEPT !.includePath = list]
     \/ \E s \in SuffixList : parms' = [parms EXCEPT !.includeSuffix = s]
     \/ parms' = [parms EXCEPT !.preprocessOnly = TRUE]
  /\ UNCHANGED << phase, env, files, messages, lists, scanner, rc, errorcount, wrong >>

(* pl1_init and the start of pl1_parser; without the input file exit(1). *)
pl1_init(opens) ==
  /\ phase = "options"
  /\ phase' = IF opens THEN "parsing" ELSE "exit"
  /\ scanner' = IF opens THEN "ready" ELSE "none"
  /\ UNCHANGED << input, messages, lists, rc, errorcount, wrong >>

-----------------------------------------------------------------------------
(* Messages. *)

addMessage(m, kind) == [m EXCEPT ![kind] = IF @ < MaxMessages THEN @ + 1 ELSE @]

Errors(n) == messages' = IF n = 1 THEN addMessage(messages, "errors")
                         ELSE addMessage(addMessage(messages, "errors"), "errors")

(* A message after which the parse goes on. *)
Report(kind) ==
  /\ phase = "parsing" /\ scanner = "ready"
  /\ messages' = addMessage(messages, kind)
  /\ wrong' = (wrong \/ kind = "errors")
  /\ UNCHANGED << phase, input, lists, scanner, rc, errorcount >>

-----------------------------------------------------------------------------
(* Include files. *)

(* The new element of the list, with a copy of the one it is read from. *)
Numbered_OneCount(type) ==
  LET n == [t \in Type |-> count[t] + 1] IN [counts |-> n, refno |-> n[type]]

Numbered(type) ==
  LET n == IF includefilelist = << >> THEN [count EXCEPT ![type] = 1] ELSE [count EXCEPT ![type] = @ + 1]
  IN  [counts |-> n, refno |-> n[type]]

addIncludeFile(type, name) ==
  LET from == IF currentIncludeFile = NULL THEN << >>
              ELSE << [name  |-> includefilelist[currentIncludeFile].name,
                       refno |-> includefilelist[currentIncludeFile].refno] >>
  IN  /\ includefilelist' = Append(includefilelist,
           [type |-> type, name |-> name, refno |-> Numbered(type).refno, includedFrom |-> from])
      /\ count' = Numbered(type).counts
      /\ currentIncludeFile' = Len(includefilelist) + 1

stackCurrentBuffer == buffers' = Append(buffers, currentIncludeFile)

(* What evaluatePreprocessor does with the result of the search.  The file  *)
(* may be gone when it is opened: currentIncludeFile stays.                 *)
Included(found, opens) ==
  /\ Len(includefilelist) < MaxIncludes
  /\ IF found = << >>
     THEN Errors(2) /\ scanner' = "error" /\ UNCHANGED lists
     ELSE /\ addIncludeFile("FILE", found[1])
          /\ IF opens THEN stackCurrentBuffer /\ UNCHANGED << messages, scanner >>
                      ELSE Errors(1) /\ scanner' = "error" /\ UNCHANGED buffers
  /\ wrong' = (wrong \/ found = << >> \/ ~opens)
  /\ UNCHANGED << phase, input, rc, errorcount >>

(* %INCLUDE name. *)
Include(name, slash, opens) ==
  /\ phase = "parsing" /\ scanner = "ready"
  /\ Included(findFile(name, parms.includePath, parms.includeSuffix, env, files, slash), opens)

(* %INCLUDE ddname(name): ppSetIncludeStmt takes the file first, and gets   *)
(* the ddname there.  The other name is looked up in the environment; when  *)
(* it is not set, a null pointer is read.                                   *)
IncludeMember(ddname, name, slash, opens) ==
  /\ phase = "parsing" /\ scanner = "ready"
  /\ IF name \in DOMAIN env
     THEN Included(findEnvFile(name, ddname, parms.includeSuffix, env, files, slash), opens)
     ELSE /\ phase' = "crashed"
          /\ UNCHANGED << input, messages, lists, scanner, rc, errorcount, wrong >>

(* The value of a variable of the preprocessor is read like a file. *)
ExpandVariable ==
  /\ phase = "parsing" /\ scanner = "ready" /\ Len(includefilelist) < MaxIncludes
  /\ addIncludeFile("PPVAR", << "", "variable", "" >>) /\ stackCurrentBuffer
  /\ UNCHANGED << phase, input, messages, scanner, rc, errorcount, wrong >>

(* Case 2 of the end of a text. *)
switchToPreviousBuffer_Kept ==
  /\ currentIncludeFile' = Last(buffers)
  /\ UNCHANGED buffers

switchToPreviousBuffer_Oldest ==
  /\ currentIncludeFile' = Head(buffers)
  /\ buffers' = Front(buffers)

switchToPreviousBuffer ==
  /\ currentIncludeFile' = Last(buffers)
  /\ buffers' = Front(buffers)

EndOfBuffer ==
  /\ phase = "parsing" /\ scanner \in {"ready", "error"} /\ buffers # << >>
  /\ switchToPreviousBuffer
  /\ UNCHANGED << phase, input, messages, includefilelist, count, scanner, rc, errorcount, wrong >>

-----------------------------------------------------------------------------
(* The end of the parse. *)

(* The end of pl1_parser and of pl1_parse_file. *)
Result_Sum(result, msgErrors) == result + msgErrors
Result_ParserOnly(result, msgErrors) == result
Result(result, msgErrors) == IF msgErrors > 0 THEN 1 ELSE result

Finish(result) ==
  /\ phase' = "done"
  /\ rc' = Result(result, messages'.errors)
  /\ errorcount' = IF rc' # 0 THEN errorcount + 1 ELSE errorcount
  /\ scanner' = IF parms.preprocessOnly THEN scanner ELSE "destroyed"
  /\ UNCHANGED << input, lists >>

(* The main file ends.  A lookahead that is open returns what it saved.     *)
EndOfText ==
  /\ phase = "parsing" /\ scanner = "ready" /\ buffers = << >>
  /\ UNCHANGED << messages, wrong >>
  /\ Finish(0)

(* bison finds an error; the scanner returns its error token for one of its *)
(* own.  Either way it is the end of the parse.                             *)
SyntaxError ==
  /\ phase = "parsing" /\ ~parms.preprocessOnly /\ scanner \in {"ready", "error", "unfinished"}
  /\ Errors(1) /\ wrong' = TRUE
  /\ Finish(1)

(* The text ends in a statement of the preprocessor. *)
UnfinishedStatement ==
  /\ phase = "parsing" /\ scanner = "ready"
  /\ Errors(1) /\ scanner' = "unfinished" /\ wrong' = TRUE
  /\ UNCHANGED << phase, input, lists, rc, errorcount >>

(* With -pp-only another token is asked for after an error token.  Behind   *)
(* it there is a character, for which the scanner ends, or the end of the    *)
(* text; for an unfinished statement the error token comes again.            *)
NextTokenAfterError ==
  /\ phase = "parsing" /\ parms.preprocessOnly
  /\ \/ scanner = "error" /\ Errors(1) /\ Finish(0)
     \/ scanner = "error" /\ buffers = << >> /\ UNCHANGED messages /\ Finish(0)
     \/ scanner = "unfinished" /\ Errors(1)
        /\ UNCHANGED << phase, input, lists, scanner, rc, errorcount >>
  /\ UNCHANGED wrong

Next ==
  \/ pl1_handle_option
  \/ \E opens \in BOOLEAN :
       \/ pl1_init(opens)
       \/ \E name \in Name, slash \in PreviousByte :
            \/ Include(name, slash, opens)
            \/ \E ddname \in Name : IncludeMember(ddname, name, slash, opens)
  \/ \E kind \in MessageKind : Report(kind)
  \/ ExpandVariable
  \/ EndOfBuffer
  \/ EndOfText
  \/ SyntaxError
  \/ UnfinishedStatement
  \/ NextTokenAfterError

(* The texts are finite and are read on to their ends, or to an error; that *)
(* a text has an error is nothing to rely on.                               *)
Ends ==
  \/ EndOfBuffer
  \/ EndOfText
  \/ scanner # "ready" /\ SyntaxError
  \/ NextTokenAfterError

Spec == Init /\ [][Next]_vars /\ WF_vars(Ends)

-----------------------------------------------------------------------------
(* Type invariant. *)
Entry == [type : Type, name : Text \X Text \X Text, refno : Nat,
          includedFrom : Seq([name : Text \X Text \X Text, refno : Nat])]

TypeOK ==
  /\ phase \in {"options", "parsing", "done", "exit", "crashed"}
  /\ env \in Environments /\ files \in FileSystems
  /\ parms \in [includePath : PathLists \cup {<< >>}, includeSuffix : SuffixList \cup {""}, preprocessOnly : BOOLEAN]
  /\ messages \in [MessageKind -> 0..MaxMessages]
  /\ includefilelist \in Seq(Entry) /\ count \in [Type -> 0..MaxIncludes]
  /\ currentIncludeFile \in 0..Len(includefilelist) /\ buffers \in Seq(0..Len(includefilelist))
  /\ scanner \in {"none", "ready", "error", "unfinished", "destroyed"}
  /\ rc \in {0, 1} /\ errorcount \in {0, 1} /\ wrong \in BOOLEAN

(* A compilation fails for GCC if and only if something was wrong in the    *)
(* text, also where the parse went on or was not for compiling.             *)
FailsForErrors == phase = "done" => (errorcount > 0 <=> wrong)

(* The elements of the list are numbered for each type in the order in      *)
(* which they were met.                                                     *)
RefnosRight ==
  /\ \A t \in Type : count[t] = Cardinality({i \in DOMAIN includefilelist : includefilelist[i].type = t})
  /\ \A i \in DOMAIN includefilelist :
       includefilelist[i].refno =
         Cardinality({j \in 1..i : includefilelist[j].type = includefilelist[i].type})

(* As long as the scanner goes on, the texts that wait are those that the   *)
(* copies in the list lead to from the current one, to the main file.       *)
ChainRight ==
  LET chain == Append(buffers, currentIncludeFile)
  IN  /\ chain[1] = NULL
      /\ \A i \in 2..Len(chain) :
           /\ chain[i] # NULL
           /\ includefilelist[chain[i]].includedFrom =
                IF chain[i - 1] = NULL THEN << >>
                ELSE << [name  |-> includefilelist[chain[i - 1]].name,
                         refno |-> includefilelist[chain[i - 1]].refno] >>

IncludedFromRight == scanner = "ready" => ChainRight

(* The file that is found is the first one that exists, in the order of the *)
(* lists, of the directories with a separator in each, and of the suffix;   *)
(* when none is found, there is none in them.                               *)
Lists == << parms.includePath, defaultSearchDirs,
            IF "PL1SYSLIB" \in DOMAIN env THEN env["PL1SYSLIB"] ELSE << >> >>

Searched(slash) ==
  LET In(list) == LET closed == Directories(list).closed
                  IN  [k \in DOMAIN closed |-> Directory(closed[k], slash)]
  IN  In(Lists[1]) \o In(Lists[2]) \o In(Lists[3])

IsFirst(found, dirs, name, suffix) ==
  LET Candidate(k, s) == << dirs[k], name, s >>
      place == (DOMAIN dirs) \X {suffix, ""}
      Before(p, q) == p[1] < q[1] \/ (p[1] = q[1] /\ p[2] # "" /\ q[2] = "")
  IN  \/ found = << >> /\ \A p \in place : Candidate(p[1], p[2]) \notin files
      \/ \E p \in place : /\ found = << Candidate(p[1], p[2]) >>
                          /\ found[1] \in files
                          /\ \A q \in place : Before(q, p) => Candidate(q[1], q[2]) \notin files

SearchRight ==
  \A name \in Name, slash \in PreviousByte :
    IsFirst(findFile(name, parms.includePath, parms.includeSuffix, env, files, slash),
            Searched(slash), name, parms.includeSuffix)

(* A compilation ends, whatever files its text includes and whatever is     *)
(* wrong in it.  With -pp-only it need not: NextTokenAfterError.            *)
CompilationEnds == phase = "parsing" /\ ~parms.preprocessOnly ~> phase \in {"done", "crashed"}

-----------------------------------------------------------------------------
(* What INSTALL and INSTALL.cygwin say of the lists of directories, with the *)
(* examples PL1SYSLIB=mydir0/:mydir1/ and -Iinclude/: the files of every    *)
(* directory are found.                                                     *)
EveryDirectorySearched ==
  \A name \in Name, slash \in PreviousByte, i \in DOMAIN Lists :
    LET last == Directories(Lists[i]).last
    IN  last # << >> /\ << last[1], name, "" >> \in files =>
          findFile(name, parms.includePath, parms.includeSuffix, env, files, slash) # << >>

=============================================================================
