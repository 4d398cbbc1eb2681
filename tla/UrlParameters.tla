----------------------------- MODULE UrlParameters -----------------------------
(***************************************************************************)
(* extract_query and extract_path_parameters of the HTTP server stage.     *)
(* A string is the sequence of its characters.  std::string::find is       *)
(* Find, with 0 for npos; positions count from 1.                          *)
(***************************************************************************)
EXTENDS Maps, Integers, SequencesExt

Find(s, c, from) == SelectInSubSeq(s, from, Len(s), LAMBDA d : d = c)

\* Everything between two delimiters, from where the rest of the string starts.
\* A delimiter at the end opens no further piece: both loops stop at the end.
Pieces(s, delimiter) ==
  LET pieces[from \in 1 .. Len(s) + 1] ==
        IF from > Len(s) THEN <<>>
        ELSE LET next == Find(s, delimiter, from)
             IN  IF next = 0 THEN <<SubSeq(s, from, Len(s))>>
                 ELSE <<SubSeq(s, from, next - 1)>> \o pieces[next + 1]
  IN  pieces[1]

\* substr(0, npos) is the whole pair.
KeyOf(pair) == SubSeq(pair, 1, IF Find(pair, "=", 1) = 0 THEN Len(pair) ELSE Find(pair, "=", 1) - 1)

\* substr(npos + 1, length - 1) starts at the first character and leaves out
\* the last one; it is how a pair without '=' gets a value.
ValueOf(pair) ==
  IF Find(pair, "=", 1) = 0 THEN SubSeq(pair, 1, Len(pair) - 1)
  ELSE SubSeq(pair, Find(pair, "=", 1) + 1, Len(pair))

\* Mutant: insert() in place of operator[]: the first of two pairs with one key stays.
ExtractQueryInserts(query_url) ==
  FoldLeft(LAMBDA data, pair : AssignAll([k \in {KeyOf(pair)} |-> ValueOf(pair)], data),
           <<>>, Pieces(query_url, "&"))

ExtractQuery(query_url) ==
  FoldLeft(LAMBDA data, pair : Assign(data, KeyOf(pair), ValueOf(pair)), <<>>, Pieces(query_url, "&"))

\* The code appends a '/', so that each word ends in one.
ExtractPathParameters(resource_path) ==
  FoldLeft(LAMBDA params, word : IF word # <<>> /\ word[1] = ":" THEN Append(params, Tail(word)) ELSE params,
           <<>>, Pieces(Append(resource_path, "/"), "/"))
================================================================================
