-------------------------------- MODULE Fields --------------------------------
(***************************************************************************)
(* The parts of a request, as sequences of characters (see Tokens).        *)
(*                                                                         *)
(* The address in the request line: the decoded path and the queries       *)
(* (RequestHeaderParser::parse_absolute_path()), and what the path says of *)
(* the file and its directory (server_utils).  The fields: what            *)
(* RequestHeaderParser makes of the value of each.                         *)
(***************************************************************************)
EXTENDS Tokens

CONSTANT MaxLength    \* the greatest content length, 2^64 - 1 in the code

-----------------------------------------------------------------------------
(* The address.                                                                *)

\* Characters that is_pchar() refuses.
Reserved == {"/", "?", "%", "#", "\"", "\\", "<", ">", "^", "|", "[", "]", "{", "}"}

is_pchar(c) == c \notin Reserved

\* The loops of parse_absolute_path() and parse_absolute_path_queries(): characters are
\* taken as they are or decoded up to one that ends the part, or is none of both.
Decoded(s, start, plain, ends) ==
  LET go[i \in Nat, out \in Seq(STRING)] ==
        IF i > Len(s) \/ (i =< Len(s) /\ s[i] \in ends) THEN [text |-> out, next |-> i, ok |-> TRUE]
        ELSE IF s[i] \in plain \/ is_pchar(s[i]) THEN go[i + 1, Append(out, s[i])]
        ELSE IF ~is_pos_hex(s, i) THEN [text |-> out, next |-> i, ok |-> TRUE]
        ELSE LET c == utf8_char_decoder(s, i)
             IN  IF c.ok THEN go[i + c.consumed, out \o c.decoded] ELSE [text |-> out, next |-> i, ok |-> FALSE]
  IN  go[start, <<>>]

\* An empty query is refused; so is what ends a query and is no '&', since the next one
\* is then empty.
parse_absolute_path_queries(s, start) ==
  LET go[i \in Nat, out \in Seq(Seq(STRING))] ==
        IF i > Len(s) THEN [queries |-> out, ok |-> TRUE]
        ELSE LET q == Decoded(s, i, {"/", "?"}, {"&"})
             IN  IF ~q.ok \/ q.text = <<>> THEN [queries |-> <<>>, ok |-> FALSE]
                 ELSE go[IF q.next =< Len(s) /\ s[q.next] = "&" THEN q.next + 1 ELSE q.next, Append(out, q.text)]
  IN  go[start, <<>>]

NoPath == [ok |-> FALSE, path |-> <<>>, queries |-> <<>>]

parse_absolute_path(s) ==
  IF s = <<>> \/ s[1] # "/" THEN NoPath
  ELSE LET p == Decoded(s, 1, {"/"}, {"?"})
           q == parse_absolute_path_queries(s, p.next + 1)
       IN  IF ~p.ok \/ (p.next =< Len(s) /\ s[p.next] # "?") THEN NoPath
           ELSE IF p.next > Len(s) THEN [ok |-> TRUE, path |-> p.text, queries |-> <<>>]
           ELSE IF q.ok THEN [ok |-> TRUE, path |-> p.text, queries |-> q.queries]
           ELSE NoPath

-----------------------------------------------------------------------------
Places(s, c) == {i \in DOMAIN s : s[i] = c}

\* server_utils::get_filename(): what is behind the last '/'.
get_filename(path) == IF Places(path, "/") = {} THEN <<>> ELSE From(path, Max(Places(path, "/")) + 1)

\* get_directory_path(): what is before the last '/', which may be the last character.
get_directory_path(path) ==
  IF path = <<>> THEN <<"/">>
  ELSE IF Places(path, "/") = {} THEN <<>>
  ELSE IF Max(Places(path, "/")) = 1 THEN <<"/">>
  ELSE SubSeq(path, 1, Max(Places(path, "/")) - 1)

\* get_file_extension(): from the last dot of the path on, a '/' at the end included.
get_file_extension(path) ==
  LET last == IF Last(path) = "/" THEN Len(path) - 1 ELSE Len(path)
      dot  == Max(Places(path, "."))
  IN  IF Len(path) < 3 \/ Places(path, ".") = {} \/ dot = last THEN <<>> ELSE From(path, dot)

-----------------------------------------------------------------------------
(* A config is [cgi, max, locations], a location [path, cgi, max]; cgi maps the *)
(* extensions of scripts to what runs them.                                     *)

\* The first location of exactly this directory.
LocationOf(dir, config) ==
  LET S == {i \in DOMAIN config.locations : config.locations[i].path = dir}
  IN  IF S = {} THEN <<>> ELSE <<config.locations[Min(S)]>>

\* get_cgi_bin(): what runs the script of this path, none for <<>>.
get_cgi_bin(path, config) ==
  LET ext   == get_file_extension(path)
      dir   == get_directory_path(path)
      there == LocationOf(dir, config)
      bins  == IF dir = <<"/">> THEN config.cgi ELSE IF there = <<>> THEN << >> ELSE there[1].cgi
  IN  IF ext = <<>> \/ dir = <<>> \/ ext \notin DOMAIN bins THEN <<>> ELSE <<bins[ext]>>

\* get_location_max_body_size(): 0 is no limit.
get_location_max_body_size(path, config) ==
  LET dir   == get_directory_path(path)
      there == LocationOf(dir, config)
  IN  IF dir = <<"/">> THEN config.max ELSE IF there = <<>> THEN 0 ELSE there[1].max

-----------------------------------------------------------------------------
(* The fields.                                                                 *)

CRLF    == <<"\r", "\n">>
HeadEnd == CRLF \o CRLF

\* A parser of a field takes the request and the value and gives the request, or a status
\* from 400 on in its place.

NoType  == [type |-> <<"*">>, subtype |-> <<"*">>, parameters |-> <<>>]
Request == [method |-> "", path |-> <<>>, queries |-> <<>>, mime |-> <<>>, host |-> <<>>, length |-> 0,
            type |-> NoType, connection |-> "keep-alive", session |-> <<>>, encodings |-> <<>>, cgi |-> FALSE]

Good(r)   == [code |-> 200, request |-> r]
Bad(r, n) == [code |-> n, request |-> r]

Digit == "0" :> 0 @@ "1" :> 1 @@ "2" :> 2 @@ "9" :> 9

\* parse_uint(): -1 for what is no number or is greater than the type holds.
parse_uint(s) ==
  LET add(n, d) == IF n = -1 \/ n > (MaxLength - Digit[d]) \div 10 THEN -1 ELSE n * 10 + Digit[d]
  IN  IF s = <<>> \/ \E i \in DOMAIN s : s[i] \notin DOMAIN Digit THEN -1 ELSE FoldLeft(add, 0, s)

\* Blanks before the number are passed over, those behind it are not.
parse_content_length(r, v) ==
  LET n == parse_uint(From(v, skip_ws(v, 1)))
  IN  IF v = <<>> \/ n = -1 THEN Bad(r, 400) ELSE Good([r EXCEPT !.length = n])

Families == {"text", "image", "audio", "video", "application", "multipart", "message", "font", "plain"}

\* parse_media_type() from start on: the type, the separator behind it is not passed.
parse_media_type(v, start) ==
  LET t     == get_token_with_delims(v, start, {";", ","}, TRUE)
      slash == Find(t.text, <<"/">>, 1)
      type  == SubSeq(t.text, 1, slash - 1)
      known == Len(type) = 1 /\ type[1] \in Families
  IN  [ok   |-> t.text # <<>> /\ slash # 0,
       next |-> IF t.next > Len(v) THEN t.next ELSE t.next - 1,
       type |-> IF known THEN [NoType EXCEPT !.type = type, !.subtype = From(t.text, slash + 1)] ELSE NoType]

\* parse_parameter(): behind a quoted value one goes on at its opening quote.
parse_parameter(v, i) ==
  IF i =< Len(v) /\ v[i] = "\"" THEN [value |-> Unquoted(v, i), next |-> i, ok |-> TRUE]
  ELSE LET t == get_token_with_delims(v, i, {";", ","}, FALSE) IN [value |-> t.text, next |-> t.next, ok |-> t.text # <<>>]

\* The first value a parameter is given stays, as std::map::insert() has it.
Insert(parameters, name, value) ==
  IF \E i \in DOMAIN parameters : parameters[i][1] = name THEN parameters ELSE Append(parameters, <<name, value>>)

\* The loop of parse_content_type() over "; name=value".  A quoted value that is cut
\* short is no error, and nothing is stored.
parse_content_type(r, v) ==
  LET m == parse_media_type(v, 1)
      go[i \in Nat, p \in Seq(Seq(Seq(STRING)))] ==
        IF i > Len(v) \/ (i =< Len(v) /\ v[i] # ";") THEN Good([r EXCEPT !.type = [m.type EXCEPT !.parameters = p]])
        ELSE LET at == skip_ws(v, i + 1)
                 eq == Find(v, <<"=">>, at)
                 q  == parse_parameter(v, eq + 1)
             IN  IF eq = 0 \/ ~q.ok THEN Bad(r, 400)
                 ELSE IF q.value = <<>> THEN Good(r)
                 ELSE go[q.next, Insert(p, SubSeq(v, at, eq - 1), q.value)]
  IN  IF v = <<>> \/ ~m.ok THEN Bad(r, 400) ELSE go[skip_ws(v, m.next), <<>>]

QValues == {"0.5", "1"}

\* parse_parameters(): of several weights the first one counts.
parse_parameters(v, start) ==
  LET go[i \in Nat, weighed \in BOOLEAN] ==
        IF i > Len(v) \/ (i =< Len(v) /\ v[i] # ";") THEN [next |-> i, ok |-> TRUE]
        ELSE LET at == skip_ws(v, i + 1)
                 eq == Find(v, <<"=">>, at)
                 p  == parse_parameter(v, eq + 1)
                 n  == get_token_with_delims(v, eq + 1, {";", ","}, FALSE)
             IN  IF eq = 0 THEN [next |-> i, ok |-> FALSE]
                 ELSE IF SubSeq(v, at, eq - 1) # <<"q">>
                 THEN IF p.value # <<>> THEN go[p.next, weighed] ELSE [next |-> i, ok |-> FALSE]
                 ELSE IF weighed \/ (Len(n.text) = 1 /\ n.text[1] \in QValues)
                 THEN go[n.next, TRUE]
                 ELSE [next |-> i, ok |-> FALSE]
  IN  go[skip_ws(v, start), FALSE]

\* parse_accept(): nobody reads what is accepted, but it may be a reason to refuse.
parse_accept(r, v) ==
  LET go[i \in Nat] ==
        i > Len(v) \/
          LET m == parse_media_type(v, i)
              p == parse_parameters(v, m.next)
          IN  m.ok /\ p.ok /\ go[IF p.next =< Len(v) /\ v[p.next] = "," THEN p.next + 1 ELSE p.next]
  IN  IF v # <<>> /\ go[1] THEN Good(r) ELSE Bad(r, 400)

parse_connection(r, v) ==
  IF v \in {<<"keep-alive">>, <<"transfer-encoding">>, <<"close">>}
  THEN Good([r EXCEPT !.connection = v[1]]) ELSE Bad(r, 400)

\* parse_cookie(): the value of session_id up to a ';', without the blanks around it.
parse_cookie(r, v) ==
  LET at    == Find(v, <<"session_id", "=">>, 1)
      value == get_token_with_delim(v, at + 2, <<";">>, FALSE).text
      words == {i \in DOMAIN value : value[i] \notin Blank}
  IN  IF at = 0 THEN Good(r)
      ELSE Good([r EXCEPT !.session = IF words = {} THEN <<>> ELSE SubSeq(value, Min(words), Max(words))])

\* parse_transfer_encoding()
parse_transfer_encoding(r, v) ==
  LET go[i \in Nat, out \in Seq(Seq(STRING))] ==
        IF i > Len(v) THEN Good([r EXCEPT !.encodings = out])
        ELSE LET t == get_token_with_delim(v, i, <<",">>, TRUE)
             IN  IF t.text = <<>> THEN Bad(r, 400) ELSE go[t.next, Append(out, t.text)]
  IN  IF v = <<>> THEN Bad(r, 400) ELSE go[1, <<>>]

\* get_field_parser_by_field_type(): names are given in lower case, as the code makes them.
ParseField(r, name, v) ==
  CASE name = <<"host">>              -> Good([r EXCEPT !.host = v])
    [] name = <<"content-length">>    -> parse_content_length(r, v)
    [] name = <<"content-type">>      -> parse_content_type(r, v)
    [] name = <<"accept">>            -> parse_accept(r, v)
    [] name = <<"connection">>        -> parse_connection(r, v)
    [] name = <<"cookie">>            -> parse_cookie(r, v)
    [] name = <<"transfer-encoding">> -> parse_transfer_encoding(r, v)
    [] name \in {<<"user-agent">>, <<"accept-language">>} -> IF v = <<>> THEN Bad(r, 400) ELSE Good(r)
    [] OTHER -> Good(r)
===============================================================================
