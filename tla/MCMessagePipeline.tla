--------------------------- MODULE MCMessagePipeline ---------------------------
(***************************************************************************)
(* Texts over the two marks and one letter, which is a token: "g" good,    *)
(* "s" with a wrong signature, "e" expired, "n" good and with a header     *)
(* claim that is no string, "l" without an algorithm, "i" with a number in *)
(* its place, "t" with a time that is no date, "u" no base64, "o" no JSON  *)
(* object; "w" is no token.                                                *)
(***************************************************************************)
EXTENDS MessagePipeline

Claim(isString, value) == [string |-> isString, value |-> value]
Bare  == "x" :> Claim(TRUE, <<"h">>)
Plain == Bare @@ ("alg" :> Claim(TRUE, <<"i">>))
Odd   == Plain @@ ("a" :> Claim(FALSE, <<>>))
Body  == ("x" :> <<"p">>) @@ ("s" :> <<"q">>)
AToken(header, verdict) == [form |-> "jwt", header |-> header, payload |-> Body, verdict |-> verdict]
NoToken(form) == [form |-> form, header |-> <<>>, payload |-> <<>>, verdict |-> "none"]

MCJwt == ("g" :> AToken(Plain, "good")) @@ ("s" :> AToken(Odd, "signature"))
      @@ ("e" :> AToken(Plain, "token verification")) @@ ("n" :> AToken(Odd, "good"))
      @@ ("l" :> AToken(Bare, "uncaught")) @@ ("i" :> AToken(Bare @@ ("alg" :> Claim(FALSE, <<>>)), "uncaught"))
      @@ ("t" :> AToken(Plain, "uncaught")) @@ ("u" :> NoToken("garbled")) @@ ("o" :> NoToken("no object"))

Targets == << <<"auth", "token">>, <<"path", "second">>, <<"path", "third">> >>
Credentials == <<"http_info", "access_token">>

Extract(n, targets) ==
  [kind |-> "extract", field |-> Credentials, token_start |-> "[", token_end |-> "]",
   n_tokens |-> n, target_fields |-> SubSeq(Targets, 1, targets)]
Join(postfix) ==
  [kind |-> "concatenate", field_names |-> SubSeq(Targets, 1, 2), separator |-> <<"|">>,
   prefix |-> <<"!">>, postfix |-> postfix, target |-> <<"path", "joined">>]

Base ==
  [resource |-> <<"/", ":", "p", "/", "q", "/", ":", "p", "/", ":", "r">>,
   routers |-> << <<"HttpRequestMessage">>, <<"TaskExecutionMessage", "DynamicMessage">> >>,
   augmentors |-> <<Extract(1, 1)>>,
   outputs |-> <<"decoder", "validation">>, group |-> "token_info", key_loads |-> TRUE, unconnected |-> {}]

MCConfigs ==
  {[Base EXCEPT !.augmentors = <<Extract(n, t)>>] : n \in 0 .. 3, t \in 0 .. 3}
  \cup {[Base EXCEPT !.augmentors = <<Extract(2, 3), Join(p)>>] : p \in {<<>>, <<"!", "!">>}}
  \cup {[Base EXCEPT !.outputs = o, !.group = g] :
           o \in {<<"validation", "decoder">>, <<"decoder">>, <<"decoder", "validation">>},
           g \in {"token_info", "jwt decoding"}}
  \cup {[Base EXCEPT !.key_loads = FALSE],
        [Base EXCEPT !.routers = << <<"TaskExecutionMessage", "HttpRequestMessage", "DynamicMessage">> >>],
        [Base EXCEPT !.routers = << <<"TaskExecutionMessage", "HttpRequestMessage", "HttpRequestMessage">> >>],
        [Base EXCEPT !.unconnected = {"task_out", "remaining_source", "error_decoding_out", "expired_out"}]}

MCTexts ==
  UNION {BoundedSeq({"[", "]", c}, 4) : c \in {"s", "e", "n", "u", "w"}}
  \cup UNION {BoundedSeq({"[", "]", c}, 3) : c \in {"l", "i", "t", "o"}}
  \cup BoundedSeq({"[", "]", "g"}, 6)
  \cup {<<"[", "]", "[", "]", "[", "]", "[", "]">>}

Request(type, text, query) ==
  [type |-> type, text |-> text, query |-> query, values |-> << <<"1">>, <<"2">>, <<"3">> >>]

MCRequests ==
  {Request("HttpRequestMessage", t, <<>>) : t \in MCTexts}
  \cup {Request("HttpRequestMessage", <<"[", "g", "]">>, q) : q \in BoundedSeq({"a", "=", "&"}, 5)}
  \cup {Request("DynamicMessage", t, <<>>) : t \in BoundedSeq({"[", "]", "g"}, 3)}
  \cup {Request(t, <<>>, <<>>) : t \in {"TaskExecutionMessage", "AddRouteConfigMessage"}}
================================================================================
