-------------------------- MODULE MCRequestValidation --------------------------
EXTENDS RequestValidation, TLC

AllSites == {<<"header", "h">>, <<"path", "p">>, <<"query", "q">>}

Fields(names, value) == [n \in names |-> value]
Request(key, h, p, q) == [key |-> key, header |-> h, path |-> p, query |-> q]

\* Requests that pass, fail in the first and fail in the last section, one with
\* another key, one without the lookup field and one without a group.
SomeRequests ==
  {Request("k1", Fields({"h"}, "digits"), Fields({}, ""), Fields({"q"}, "decimal")),
   Request("k1", Fields({"h", "i"}, "text"), Fields({}, ""), Fields({}, "")),
   Request("k2", Fields({}, ""), Fields({"p"}, "digits"), Fields({"q"}, "digits")),
   Request(Absent, Fields({}, ""), Fields({}, ""), Fields({}, "")),
   Request("k2", Fields({"h"}, "digits"), Absent, Fields({}, ""))}
Interchangeable == Permutations(Threads) \cup Permutations(Specs)
=============================================================================
