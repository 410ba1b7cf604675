------------------------------ MODULE KeyListReader ------------------------------
(***************************************************************************)
(* KeyListReader: readOesuKeys looks for a key list among the files of a   *)
(* directory, in whatever order directory_iterator gives them;             *)
(* readOesencKey looks for one line in a file.  Both take the first thing  *)
(* that will do.  XML is external: a document either has a root keyList    *)
(* with Chart elements, or none.                                           *)
(***************************************************************************)
EXTENDS Naturals, Sequences
Ext == INSTANCE SequencesExt

CONSTANTS
  File,      \* the files of the directory
  Chart,     \* Chart elements: [fileName, key]
  Key,
  None,      \* an element that is missing, or has no text
  MaxLength  \* bound: Chart elements of a file, lines of Chartinfo.txt

ASSUME KeyListConstants ==
  /\ \A chart \in Chart : chart.key \in Key \cup {None}
  /\ None \notin Key \cup File /\ MaxLength \in Nat

Line == [userKey : BOOLEAN, value : Key \cup {None}, carriageReturn : BOOLEAN]
Content == [xml : BOOLEAN, charts : Ext!SeqOf(Chart, MaxLength)]

VARIABLES
  contents,  \* of each file; a file that is no key list has no charts
  lines,     \* of Chartinfo.txt
  call,      \* "readOesuKeys", "readOesencKey" or "returned"
  unseen,    \* the files that the loop has not come to
  parsing,   \* the file parseFile is reading, None outside of it
  index,     \* of its next Chart element, or of the next line
  keys, key  \* what readOesuKeys and readOesencKey return, or will

result == <<keys, key>>
keyVars == <<contents, lines, call, unseen, parsing, index, result>>

NoKeys == [n \in {} |-> None]
NoList == [xml |-> FALSE, charts |-> << >>]
KeyInit ==
  /\ keys = NoKeys /\ key = None
  /\ \/ /\ call = "readOesuKeys"
        /\ contents \in [File -> Content] /\ lines = << >>
     \/ /\ call = "readOesencKey"
        /\ lines \in Ext!SeqOf(Line, MaxLength) /\ contents = [f \in File |-> NoList]
  /\ unseen = File /\ parsing = None /\ index = 1

\* The next file of the iterator, of either spelling of the extension.
NextFile(f) ==
  /\ call = "readOesuKeys" /\ parsing = None /\ f \in unseen
  /\ unseen' = unseen \ {f}
  /\ parsing' = IF contents[f].xml THEN f ELSE None
  /\ index' = 1
  /\ UNCHANGED <<contents, lines, call, result>>

Charts == contents[parsing].charts
AnyChart(chart) == chart.fileName # None   \* mutant: the key is not looked at
WellFormed(chart) == chart.fileName # None /\ chart.key # None
With(map, n, k) == [m \in DOMAIN map \cup {n} |-> IF m = n THEN k ELSE map[m]]

TakeChart ==
  /\ parsing # None /\ index <= Len(Charts) /\ WellFormed(Charts[index])
  /\ keys' = With(keys, Charts[index].fileName, Charts[index].key)
  /\ index' = index + 1
  /\ UNCHANGED <<contents, lines, call, unseen, parsing, key>>

\* parseFile is done, at the end or at a Chart that is not well formed: the
\* list is returned when there is anything in it.
ReadAll ==   \* mutants: the next file is read in any case, or in none
  /\ parsing # None
  /\ index <= Len(Charts) => ~WellFormed(Charts[index])
  /\ parsing' = None
  /\ UNCHANGED <<contents, lines, call, unseen, index, result>>
FirstXml ==
  /\ parsing # None
  /\ index <= Len(Charts) => ~WellFormed(Charts[index])
  /\ parsing' = None /\ call' = "returned"
  /\ UNCHANGED <<contents, lines, unseen, index, result>>
EndOfList ==
  /\ parsing # None
  /\ index <= Len(Charts) => ~WellFormed(Charts[index])
  /\ parsing' = None
  /\ call' = IF keys = NoKeys THEN call ELSE "returned"
  /\ UNCHANGED <<contents, lines, unseen, index, result>>

NoMoreFiles ==
  /\ call = "readOesuKeys" /\ parsing = None /\ unseen = {}
  /\ call' = "returned"
  /\ UNCHANGED <<contents, lines, unseen, parsing, index, result>>

\* ^UserKey:(.+)$ : a line that ends with a carriage return does not match, for
\* "." matches none.
Prefix(line) == line.userKey /\ line.value # None   \* mutant: "." matches any
Matches(line) == line.userKey /\ line.value # None /\ ~line.carriageReturn

NextLine ==
  /\ call = "readOesencKey" /\ index <= Len(lines)
  /\ \/ /\ Matches(lines[index])
        /\ call' = "returned" /\ key' = lines[index].value
        /\ UNCHANGED index
     \/ /\ ~Matches(lines[index])
        /\ index' = index + 1
        /\ UNCHANGED <<call, key>>
  /\ UNCHANGED <<contents, lines, unseen, parsing, keys>>

NoMoreLines ==
  /\ call = "readOesencKey" /\ index > Len(lines)
  /\ call' = "returned"
  /\ UNCHANGED <<contents, lines, unseen, parsing, index, result>>

KeyNext ==
  \/ \E f \in File : NextFile(f)
  \/ TakeChart \/ EndOfList \/ NoMoreFiles \/ NextLine \/ NoMoreLines

KeySpec == KeyInit /\ [][KeyNext]_keyVars

-----------------------------------------------------------------------------
\* The keys of a list as its reader should find them: up to the first Chart
\* that is not well formed, the last one of a name counting.
Good(charts) ==
  {i \in 1..Len(charts) : \A j \in 1..i : charts[j].fileName # None /\ charts[j].key # None}
KeysOf(charts) ==
  LET named(n) == {i \in Good(charts) : charts[i].fileName = n}
  IN [n \in {charts[i].fileName : i \in Good(charts)} |-> charts[Ext!Max(named(n))].key]

\* The keys that are returned are those of one list, and of no other file,
\* in whatever order the files come; those behind a Chart that is not well
\* formed are missing without a sign of it.
KeysOfOneList ==
  call = "returned" /\ keys # NoKeys =>
    \E f \in File : contents[f].xml /\ keys = KeysOf(contents[f].charts)

\* No key is returned only if no list starts with a well-formed Chart: a list
\* that is empty or damaged does not hide another one.
NoneOnlyIfNone ==
  call = "returned" /\ keys = NoKeys =>
    \A f \in File : contents[f].xml => Good(contents[f].charts) = {}

\* The key of Chartinfo.txt is that of its first UserKey line with a value,
\* and none if the lines end as they do on Windows, which the test's do not.
FirstUserKey ==
  call = "returned" /\ lines # << >> =>
    LET S == {i \in 1..Len(lines) :
                lines[i].userKey /\ lines[i].value # None /\ ~lines[i].carriageReturn}
    IN key = IF S = {} THEN None ELSE lines[Ext!Min(S)].value
\* What either call returns: the keys of one list, whatever else lies in the
\* directory, or the first user key (readOesuKeys, readOesencKey).
KeysAsListed == KeysOfOneList /\ NoneOnlyIfNone /\ FirstUserKey
=============================================================================
