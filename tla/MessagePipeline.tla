---------------------------- MODULE MessagePipeline ----------------------------
(***************************************************************************)
(* The stages that only look at a message or add to it, one behind the     *)
(* other: the HTTP server's handler makes a message, a cascade of routers  *)
(* sends it on by type, a MessageAugmentorStage works on its fields, and a *)
(* BroadcastingState hands the one object to the JWT stages in turn.  A    *)
(* source calls on_message of its sink, so "calls" is what the thread has  *)
(* still to call: a message is through when nothing is left.  No stage     *)
(* keeps anything between two messages, so a behaviour has one.            *)
(***************************************************************************)
EXTENDS Augmentors, JwtStages, UrlParameters

CONSTANTS
  Configs,  \* how the stages may be configured and connected
  Requests  \* what may come in: the type of the message, and what it is made from

DynamicTypes == {"DynamicMessage", "HttpRequestMessage"}

\* The pipelines in question: an extractor works on the credentials, with a
\* place of its own for each token, the first of them the one the JWT stages
\* read; what else augments a message joins such tokens, in a place of its own.
IsExtractor(e) ==
  /\ e.kind = "extract" /\ e.field = <<"http_info", "access_token">>
  /\ e.token_start = "[" /\ e.token_end = "]" /\ e.n_tokens \in Int
  /\ e.target_fields \in Seq((STRING \X STRING) \ {e.field})
  /\ \A k, l \in DOMAIN e.target_fields : e.target_fields[k] = e.target_fields[l] => k = l
  /\ e.target_fields # <<>> => e.target_fields[1] = <<"auth", "token">>

IsJoiner(j, e) ==
  /\ j.kind = "concatenate"
  /\ j.field_names \in Seq(ToSet(e.target_fields))
  /\ {j.separator, j.prefix, j.postfix} \subseteq Seq(STRING)
  /\ j.target \in (STRING \X STRING) \ ({<<"auth", "token">>, e.field} \cup ToSet(e.target_fields))

\* Routers have one, two or three types; and the group of the validation stage
\* is none that the message has before.
IsPipeline(c) ==
  /\ c.resource \in Seq(STRING)
  /\ c.routers \in Seq(Seq(STRING)) /\ c.routers # <<>>
  /\ \A k \in DOMAIN c.routers : Len(c.routers[k]) \in 1 .. 3
  /\ c.augmentors \in Seq(ToSet(c.augmentors)) /\ c.augmentors # <<>>
  /\ IsExtractor(c.augmentors[1])
  /\ \A k \in 2 .. Len(c.augmentors) : IsJoiner(c.augmentors[k], c.augmentors[1])
  /\ \A k, l \in 2 .. Len(c.augmentors) :
       c.augmentors[k].target = c.augmentors[l].target => c.augmentors[k] = c.augmentors[l]
  /\ c.outputs \in Seq({"decoder", "validation"})
  /\ c.key_loads \in BOOLEAN
  /\ c.group \notin {"http_info", "auth"} \cup {f[1] : f \in ToSet(c.augmentors[1].target_fields)}
                     \cup {c.augmentors[k].target[1] : k \in 2 .. Len(c.augmentors)}

ASSUME ConfigAssumption == \A c \in Configs : IsPipeline(c)
ASSUME RequestAssumption ==
  \A r \in Requests : r.type # "none" /\ r.text \in Seq(STRING) /\ r.query \in Seq(STRING)

VARIABLES
  config,   \* the configuration
  request,  \* what the message was made from
  message,  \* the message
  calls,    \* the stages still to be called with it, the first one next
  left,     \* where it left the pipeline, and with which fields
  running   \* "yes", or how the program ended

vars == <<config, request, message, calls, left, running>>

Nothing == [type |-> "none", text |-> <<>>, query |-> <<>>, values |-> <<>>]

Init ==
  /\ config \in Configs
  /\ request = Nothing
  /\ message = Message("none")
  /\ calls = <<>>
  /\ left = <<>>
  /\ running = "yes"

-----------------------------------------------------------------------------
\* ISource::get_sink()->on_message: a source that set_sink was never called on
\* holds a null pointer.
Connected(source) == source \notin config.unconnected

Leave(source, m) ==
  \/ Connected(source) /\ left' = Append(left, [to |-> source, fields |-> m.fields]) /\ UNCHANGED running
  \/ ~Connected(source) /\ running' = "undefined" /\ UNCHANGED left

Call(stages) == calls' = stages \o Tail(calls)

Calling(stage) == running = "yes" /\ calls # <<>> /\ Head(calls)[1] = stage

-----------------------------------------------------------------------------
\* The handler HttpServerStage installs for a route.  A name that occurs twice
\* in the resource path keeps the later value.
WithParameters(m, group, data) ==
  [CreateTypedGroup(m, "string", group) EXCEPT !.typed[group].fields = AssignAll(@, data)]

\* Of the fields in http_info the one that later stages read here.
WithCredentials(r) == SetField(Message(r.type), "http_info", "access_token", Str(r.text))

HandlerMessage(r) ==
  LET names  == ExtractPathParameters(config.resource)
      Put(data, k) == Assign(data, names[k], r.values[k])
      path   == FoldLeft(Put, <<>>, [k \in DOMAIN names |-> k])
  IN  WithParameters(WithParameters(WithCredentials(r), "query_parameters", ExtractQuery(r.query)),
                     "path_parameters", path)

\* A plain DynamicMessage, and messages without fields, come from other stages.
Arrive ==
  /\ request = Nothing
  /\ request' \in Requests
  /\ message' = CASE request'.type = "HttpRequestMessage" -> HandlerMessage(request')
                  [] request'.type = "DynamicMessage"     -> WithCredentials(request')
                  [] request'.type \notin DynamicTypes    -> Message(request'.type)
  /\ calls' = <<<<"router", 1>>>>
  /\ left' = <<>>
  /\ UNCHANGED <<config, running>>

-----------------------------------------------------------------------------
TwoWay(ids, type) == IF type = ids[1] THEN "source_1" ELSE "remaining_source"

ThreeWay(ids, type) ==
  CASE type = ids[1]                     -> "source_1"
    [] type = ids[2] /\ type # ids[1]    -> "source_2"
    [] type \notin {ids[1], ids[2]}      -> "remaining_source"

FourWay(ids, type) ==
  CASE type = ids[1]                                -> "source_1"
    [] type = ids[2] /\ type # ids[1]               -> "source_2"
    [] type = ids[3] /\ type \notin {ids[1], ids[2]} -> "source_3"
    [] type \notin {ids[1], ids[2], ids[3]}         -> "remaining_source"

SourceFor(ids, type) ==
  CASE Len(ids) = 1 -> TwoWay(ids, type)
    [] Len(ids) = 2 -> ThreeWay(ids, type)
    [] Len(ids) = 3 -> FourWay(ids, type)

\* The type a numbered source of a router emits, by which it is connected: what
\* is a DynamicMessage to the augmentors, the rest to a sink; and the remaining
\* messages to the next router of the cascade.
IdOf(ids, source) ==
  CASE source = "source_1" -> ids[1]
    [] source = "source_2" -> ids[2]
    [] source = "source_3" -> ids[3]

\* on_message of the routers.
Route ==
  LET k == Head(calls)[2]
      ids == config.routers[k]
      source == SourceFor(ids, message.type)
  IN
  /\ Calling("router")
  /\ \/ /\ source # "remaining_source" /\ IdOf(ids, source) \in DynamicTypes
        /\ Call(<<<<"augmentors", 1>>>>) /\ UNCHANGED <<left, running>>
     \/ /\ source # "remaining_source" /\ IdOf(ids, source) \notin DynamicTypes
        /\ Call(<<>>) /\ Leave("task_out", message)
     \/ /\ source = "remaining_source" /\ k < Len(config.routers)
        /\ Call(<<<<"router", k + 1>>>>) /\ UNCHANGED <<left, running>>
     \/ /\ source = "remaining_source" /\ k = Len(config.routers)
        /\ Call(<<>>) /\ Leave("remaining_source", message)
  /\ UNCHANGED <<config, request, message>>

\* MessageAugmentorStage::on_message casts without a look at the type.
Augment ==
  /\ Calling("augmentors")
  /\ IF message.type \in DynamicTypes
     THEN LET end == ApplyAll(config.augmentors, message) IN
          message' = end.message /\ running' = end.running
     ELSE message' = message /\ running' = "undefined"
  /\ Call(<<<<"broadcast", 1>>>>)
  /\ UNCHANGED <<config, request, left>>

\* BroadcastingState::on_message: every output in turn, with the same object.
Broadcast ==
  /\ Calling("broadcast")
  /\ Call([k \in DOMAIN config.outputs |-> <<config.outputs[k], k>>])
  /\ UNCHANGED <<config, request, message, left, running>>

Decode ==
  /\ Calling("decoder")
  /\ \E o \in DecoderOutcomes(message, "token") : message' = o.message /\ Leave(o.to, o.message)
  /\ Call(<<>>)
  /\ UNCHANGED <<config, request>>

Validate ==
  /\ Calling("validation")
  /\ \E o \in ValidationOutcomes(message, <<"auth", "token">>, config.group, config.key_loads) :
       /\ message' = o.message
       /\ \/ o.to = "terminate" /\ running' = "terminated" /\ UNCHANGED left
          \/ o.to # "terminate" /\ Leave(o.to, o.message)
  /\ Call(<<>>)
  /\ UNCHANGED <<config, request>>

Next == Arrive \/ Route \/ Augment \/ Broadcast \/ Decode \/ Validate

Spec == Init /\ [][Next]_vars

-----------------------------------------------------------------------------
(***************************************************************************)
(* What a text says, told without the extractor: a token is what stands    *)
(* between a '[' and the ']' that is the next mark, and a mark is out of   *)
(* place where the one before it is of the same kind, or a ']' where there *)
(* is none.  A token's rank is its number, from the left.                  *)
(***************************************************************************)
Marks(text) == {p \in DOMAIN text : text[p] \in {"[", "]"}}
LastMark(text, p) == Max({q \in Marks(text) : q < p} \cup {0})
Opened(text, p) == LastMark(text, p) # 0 /\ text[LastMark(text, p)] = "["
Faults(text) == {p \in Marks(text) : (text[p] = "[") = Opened(text, p)}
Closings(text) == {p \in Marks(text) : text[p] = "]" /\ \A f \in Faults(text) : p < f}
Rank(text, p) == Cardinality({q \in Closings(text) : q <= p})
Word(text, p) == SubSeq(text, LastMark(text, p) + 1, p - 1)

\* The tokens after which a configuration stops: n_tokens of them, if the
\* counter can show that number; 0 is shown again when it wraps.
Wanted(e, text) == CASE e.n_tokens = 0                         -> CounterSize
                     [] e.n_tokens \in 1 .. CounterSize - 1    -> e.n_tokens
                     [] e.n_tokens \notin 0 .. CounterSize - 1 -> Len(text) + 1

Taken(e, text) == {p \in Closings(text) : Rank(text, p) <= Wanted(e, text)}
Overruns(e, text) == \E p \in Taken(e, text) : Rank(text, p) > Len(e.target_fields)
Malformed(e, text) ==
  Faults(text) # {} /\ Rank(text, Len(text)) < Wanted(e, text) /\ ~Overruns(e, text)
Missing(e, j, text) == \E k \in DOMAIN j.field_names :
  \A p \in Taken(e, text) : e.target_fields[Rank(text, p)] # j.field_names[k]

(***************************************************************************)
(* What a query string says, told without the loop over it: the pair that  *)
(* starts at p stops before the next '&' and is split at its first '='; a  *)
(* pair without one is a key whose value lacks its last character.         *)
(***************************************************************************)
StopAt(s, delimiter, p) == Min({e \in p .. Len(s) : s[e] = delimiter} \cup {Len(s) + 1})
SplitAt(q, p) == Min({e \in p .. StopAt(q, "&", p) - 1 : q[e] = "="} \cup {StopAt(q, "&", p)})
KeyAt(q, p) == SubSeq(q, p, SplitAt(q, p) - 1)
ValueAt(q, p) == IF SplitAt(q, p) = StopAt(q, "&", p) THEN SubSeq(q, p, StopAt(q, "&", p) - 2)
                 ELSE SubSeq(q, SplitAt(q, p) + 1, StopAt(q, "&", p) - 1)

Text == request.text
Extractor == config.augmentors[1]
Joiners == {config.augmentors[k] : k \in 2 .. Len(config.augmentors)}
Fails == \/ Malformed(Extractor, Text)
         \/ ~Overruns(Extractor, Text) /\ \E j \in Joiners : Missing(Extractor, j, Text)

\* The first target is the field the JWT stages read.
HasToken == Taken(Extractor, Text) # {} /\ Extractor.target_fields # <<>>
Token == IF HasToken THEN Decoded(Word(Text, Min(Taken(Extractor, Text)))) ELSE Decoded(<<>>)
Readable == Token.form = "jwt" /\ StringClaims(Token) = DOMAIN Token.header
Verified == config.key_loads /\ Token.form = "jwt" /\ Token.verdict = "good"
Uncaught == config.key_loads /\ (Token.form = "no object" \/ Token.verdict = "uncaught")

\* What the validation stage throws out of its noexcept on_message for.
Unfit == ~HasToken \/ Uncaught \/ (Verified /\ ~Readable)

Routed == \E k \in DOMAIN config.routers : \E i \in DOMAIN config.routers[k] : config.routers[k][i] = request.type
Dynamic == request.type \in DynamicTypes /\ Routed
Through == request # Nothing /\ calls = <<>> /\ running = "yes"

\* Behind the augmentors every token of the text is in the field configured for
\* its place, and no other target is set; joined fields have the separator
\* before each of them and before a postfix.
AugmentedAsWritten ==
  running = "yes" /\ calls # <<>> /\ Head(calls)[1] = "broadcast" =>
    LET e == Extractor
        place(p) == e.target_fields[Rank(Text, p)]
    IN
    /\ \A p \in Taken(e, Text) : GetField(message, place(p)[1], place(p)[2]) = Word(Text, p)
    /\ \A k \in DOMAIN e.target_fields :
         (\A p \in Taken(e, Text) : Rank(Text, p) # k) => e.target_fields[k] \notin DOMAIN message.fields
    /\ \A j \in Joiners :
         GetField(message, j.target[1], j.target[2]) =
           j.prefix \o FlattenSeq([k \in DOMAIN j.field_names |->
                                     j.separator \o message.fields[j.field_names[k]].value])
                    \o (IF j.postfix = <<>> THEN <<>> ELSE j.separator \o j.postfix)

\* The parameters of a request are those its text names: of the pairs between
\* the '&'s the last one with a key.  A name in the resource path has the
\* value of its last occurrence.
ParametersAsWritten ==
  request.type = "HttpRequestMessage" =>
    LET q == request.query
        starts == {p \in DOMAIN q : p = 1 \/ q[p - 1] = "&"}
        names == ExtractPathParameters(config.resource)
    IN
    /\ {KeyAt(q, p) : p \in starts} = {d[1] : d \in GetTypedGroup(message, "query_parameters")}
    /\ \A p \in starts : (\A r \in starts : r > p => KeyAt(q, r) # KeyAt(q, p)) =>
         GetTypedField(message, "query_parameters", KeyAt(q, p)) = ValueAt(q, p)
    /\ \A k \in DOMAIN names : (\A l \in k + 1 .. Len(names) : names[l] # names[k]) =>
         GetTypedField(message, "path_parameters", names[k]) = request.values[k]

\* The source a message leaves by tells what its text held: a token that
\* verified, one that did not, one that is late, or none.  A message of a
\* type some router names leaves every output behind the broadcast once, in
\* order; any other leaves as remaining.
OutputsTellTheToken ==
  /\ \A k \in DOMAIN left :
       LET to == left[k].to IN
       /\ to = "remaining_source" => ~Routed
       /\ to = "task_out" => Routed /\ ~Dynamic
       /\ to = "decoded_token_out" => HasToken /\ Readable
       /\ to = "error_decoding_out" =>
            ~Readable /\ <<DecoderGroup, "jwt_decoder_error_description">> \in DOMAIN left[k].fields
       /\ to = "valid_out" => HasToken /\ Verified
       /\ to = "expired_out" => config.key_loads /\ Token.verdict = "token verification"
       /\ to = "non_jwt_out" => config.key_loads /\ Token.form = "no jwt"
       /\ to = "invalid_out" => ~config.key_loads \/ Token.form = "garbled" \/ Token.verdict = "signature"
  /\ Through => Len(left) = IF Dynamic THEN Len(config.outputs) ELSE 1

\* The group of the validation stage holds claims of a verified token only,
\* unless it is also the decoder's; and a message that leaves as valid has
\* all of them, those of the payload before those of the header.
ClaimsAreVerified ==
  /\ (\E k \in DOMAIN message.fields : k[1] = config.group) /\ config.group # DecoderGroup => Verified
  /\ \A k \in DOMAIN left : left[k].to = "valid_out" =>
       \A c \in DOMAIN Token.header \cup DOMAIN Token.payload :
         left[k].fields[<<config.group, c>>].value =
           IF c \in DOMAIN Token.payload THEN Token.payload[c] ELSE Token.header[c].value

\* The program ends for a cause that is in the request or in the configuration:
\* a text with marks out of place or with fewer tokens than another stage
\* reads, more tokens than targets where the count does not stop in time, a
\* token to validate that is a JSON value but no object, that names no
\* algorithm or has a time that is no date, whether signed or not, or a
\* verified one with a header claim that is no string, or an output that
\* nothing is connected to; and a message that gives such a cause is never
\* through.
StopsForCause ==
  LET Lacks == "validation" \in ToSet(config.outputs) /\ Unfit IN
  /\ running = "undefined" => (Dynamic /\ Overruns(Extractor, Text)) \/ config.unconnected # {}
  /\ running = "terminated" => Dynamic /\ (Fails \/ Lacks)
  /\ Through => ~(Dynamic /\ (Overruns(Extractor, Text) \/ Fails \/ Lacks))

===============================================================================
