----------------------------- MODULE References -----------------------------
(***************************************************************************)
(* scripts/extract-references.cpp: which places of the semantics refer to  *)
(* which section of a document.  A function of the file tree.              *)
(*                                                                         *)
(* A line is the sequence of its words.  A file is what the path names or  *)
(* what the directory iterator yields, a directory included; the iterator  *)
(* yields the members of a tree in an order of its own, which is given.    *)
(***************************************************************************)
EXTENDS Integers, Sequences, SequencesExt, FiniteSetsExt

(* The first match of @ref followed by two words.                          *)
refFromLine(line) ==
  LET matches == {i \in 1 .. Len(line) - 2 : line[i] = "@ref"}
  IN IF matches = {} THEN {}
     ELSE {[document |-> line[Min(matches) + 1], section |-> line[Min(matches) + 2]]}

(* What has been collected; thrown once a file could not be read.          *)
NoEntries == [thrown |-> FALSE, entries |-> <<>>]

Entry(path, line, ref) == <<path, line, ref>>
LineNumberOfMatches(fc, ref) == IF ref = {} THEN fc ELSE fc + 1
LineNumberNext(fc, ref) == fc + 1
addEntriesFromIstream(entries, path, lines) ==
  LET step(s, line) ==
        LET ref == refFromLine(line)
        IN [fc |-> LineNumberNext(s.fc, ref),
            entries |-> s.entries \o SetToSeq({Entry(path, s.fc, r) : r \in ref})]
  IN FoldLeft(step, [fc |-> 1, entries |-> entries], lines).entries

(* A directory opens like a file, and has no lines.                        *)
addEntriesFromRegularFile(s, file) ==
  CASE s.thrown \/ file.extension \notin {".k", ".C"} -> s
    [] ~s.thrown /\ file.extension \in {".k", ".C"} /\ ~file.readable -> [s EXCEPT !.thrown = TRUE]
    [] OTHER -> [s EXCEPT !.entries = addEntriesFromIstream(@, file.path, file.lines)]
addEntriesFromDirectory(s, files) == FoldLeft(addEntriesFromRegularFile, s, files)

(* Neither a file nor a directory: nothing.                                *)
addEntriesFromPath(s, path) ==
  CASE path.kind = "regular" -> addEntriesFromRegularFile(s, path.files[1])
    [] path.kind = "directory" -> addEntriesFromDirectory(s, path.files)
    [] OTHER -> s

(* The array is written with its separators.                               *)
Open == <<"[">>
Comma == <<",">>
Shut == <<"]">>
JsonArray(entries) ==
  IF entries = <<>> THEN <<Open, Shut>>
  ELSE <<Open>>
       \o FlattenSeq([i \in DOMAIN entries |->
            IF i < Len(entries) THEN <<entries[i], Comma>> ELSE <<entries[i]>>])
       \o <<Shut>>

(* Nothing is written when a file could not be read.                       *)
extractReferences(path) ==
  LET s == addEntriesFromPath(NoEntries, path)
  IN IF s.thrown THEN <<>> ELSE JsonArray(s.entries)

-----------------------------------------------------------------------------
(* The inputs: one file, a directory of up to two members, neither.        *)
SomeLines ==
  {<<>>, <<"@ref", "a">>, <<"@ref", "a", "b">>, <<"w", "@ref", "a", "b">>, <<"@ref", "@ref", "a">>}
Files(name) ==
  [path : {name}, extension : {".k", ".h"}, readable : BOOLEAN,
   lines : UNION {[1..n -> SomeLines] : n \in 0..2}]
Paths ==
  {[kind |-> "other", files |-> <<>>], [kind |-> "directory", files |-> <<>>]}
  \cup {[kind |-> kind, files |-> <<f>>] : kind \in {"regular", "directory"}, f \in Files("f")}
  \cup {[kind |-> "directory", files |-> <<f, g>>] : f \in Files("f"), g \in Files("g")}

Selected(file) == file.extension \in {".k", ".C"}
Expected(file) ==
  LET hits == {i \in DOMAIN file.lines : Selected(file) /\ refFromLine(file.lines[i]) # {}}
  IN [k \in 1..Cardinality(hits) |->
        LET i == CHOOSE i \in hits : Cardinality({j \in hits : j <= i}) = k
        IN Entry(file.path, i, CHOOSE r \in refFromLine(file.lines[i]) : TRUE)]
=============================================================================
