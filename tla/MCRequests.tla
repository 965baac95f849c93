----------------------------- MODULE MCRequests -----------------------------
(* What webserv does one request at a time.  As in MCPrograms, the initial state *)
(* chooses one of the models.  Sessions has its own variables here, the others   *)
(* have s1, s2, ... for theirs.                                                  *)
EXTENDS Sessions, Sequences, SequencesExt, TLC

CONSTANTS HEAD, NL, BB, DD, NONE, FILE, PAGE     \* the text of an upload and the files

VARIABLES program, s1, s2, s3, s4, s5, s6, s7, s8, s9

Unused == "unused"

Own   == <<s1, s2, s3, s4, s5, s6, s7, s8, s9>>
Rest  == <<s8, s9>>
NoRest == s8 = Unused /\ s9 = Unused
LdRest == s4 = Unused /\ s5 = Unused /\ s6 = Unused /\ s7 = Unused /\ NoRest


-----------------------------------------------------------------------------
(* Requests: addresses and fields with what they mean.                           *)

Ok(fields) == [code |-> 200, fields |-> fields]
No(code)   == [code |-> code, fields |-> << >>]

\* A header of a first line and of fields, each a name and a value.
Line(m, u, p)   == <<m, " ">> \o u \o <<" ", p>>
HeadText(line, fs)  == line \o FlattenSeq([i \in DOMAIN fs |-> <<"\r", "\n", fs[i].name, ":", " ">> \o fs[i].value]) \o <<"\r", "\n", "\r", "\n">>
\* Two fields are meant together, the first refusal counts.
Both(m, n)      == IF m.code # 200 THEN m ELSE IF n.code # 200 THEN n ELSE Ok(n.fields @@ m.fields)
Said(line, fs, m, body) == [head |-> HeadText(line, fs), body |-> body, meant |-> FoldLeft(LAMBDA all, f : Both(all, f.meant), m, fs)]

At(uri, fields) == [uri |-> uri, meant |-> Ok(fields)]
Off(uri)        == [uri |-> uri, meant |-> No(400)]
P(path)         == "path" :> path
Addresses == {
  At(<<"/">>, P(<<"/">>)),
  At(<<"/", "a", ".", "html">>, P(<<"/", "a", ".", "html">>) @@ "mime" :> <<".", "html">>),
  At(<<"/", "%", "2", "F", "d", "%", "2", "E", "x">>, P(<<"/", "/", "d", ".", "x">>) @@ "mime" :> <<".", "x">>),
  At(<<"/", "%", "C", "3", "%", "A", "9">>, P(<<"/", "195", "169">>)),
  At(<<"/", "%", "E", "2", "%", "A", "2", "%", "A", "9", "d">>, P(<<"/", "226", "162", "169", "d">>)),
  At(<<"/", "%", "F", "0", "%", "9", "F", "%", "9", "9", "%", "9", "4">>, P(<<"/", "240", "159", "153", "148">>)),
  At(<<"/", "a", "?", "q", "=", "1", "&", "r", "/", "?">>, P(<<"/", "a">>) @@ "queries" :> <<<<"q", "=", "1">>, <<"r", "/", "?">>>>),
  At(<<"/", "a", "?", "%", "C", "3", "%", "A", "9", "&">>, P(<<"/", "a">>) @@ "queries" :> <<<<"195", "169">>>>),
  At(<<"/", "?">>, P(<<"/">>)),
  At(<<"/", "cgi-bin", "/", "a", ".", "py">>, P(<<"/", "cgi-bin", "/", "a", ".", "py">>) @@ "mime" :> <<".", "py">> @@ "cgi" :> TRUE),
  At(<<"/", "cgi-bin", "/", "a", ".">>, P(<<"/", "cgi-bin", "/", "a", ".">>) @@ "mime" :> <<".">>),
  At(<<"/", "up", "/", "a", ".", "py">>, P(<<"/", "up", "/", "a", ".", "py">>) @@ "mime" :> <<".", "py">>),
  Off(<<"a">>), Off(<<"/", "%", "C", "3">>), Off(<<"/", "%", "C", "3", "a">>), Off(<<"/", "%", "4", "g">>), Off(<<"/", "#">>),
  Off(<<"/", "?", "q", "&", "&", "r">>), Off(<<"/", "?", "q", "#">>), Off(<<"/", "?", "%", "C", "3">>)}

F(name, value, fields) == [name |-> name, value |-> value, meant |-> Ok(fields)]
N(name, value)         == [name |-> name, value |-> value, meant |-> No(400)]

Type(t, s, ps)  == "type" :> [type |-> <<t>>, subtype |-> <<s>>, parameters |-> ps]
FormData        == <<"multipart", "/", "form-data">>
Boundary        == <<<<"boundary">>, <<"b">>>>
ContentTypes == {
  F("content-type", <<"text", "/", "plain">>, Type("text", "plain", << >>)),
  F("content-type", <<"x", "/", "plain">>, Type("*", "*", << >>)),
  F("content-type", <<"text", "/", "html", ";", "charset", "=", "u">>, Type("text", "html", <<<<<<"charset">>, <<"u">>>>>>)),
  F("content-type", FormData \o <<";", "boundary", "=", "b">>, Type("multipart", "form-data", <<Boundary>>)),
  F("content-type", FormData \o <<";", " ", "boundary", "=", "\"", "b", "\"">>, Type("multipart", "form-data", <<Boundary>>)),
  F("content-type", FormData \o <<";", " ", "x", "=", "1", ";", " ", "boundary", "=", "b">>,
    Type("multipart", "form-data", <<<<<<"x">>, <<"1">>>>, Boundary>>)),
  N("content-type", FormData), N("content-type", <<"text">>), N("content-type", <<"text", "/", "html", ";", "charset">>),
  N("content-type", <<"text", "/", "html", ";", "charset", "=">>)}

LengthFields == {F("content-length", <<"9">>, "length" :> 9), F("content-length", <<"\t", "1", "2">>, "length" :> 12),
                 F("content-length", <<"0", "2", "1">>, "length" :> 21),
                 F("content-length", <<"2", "2">>, "length" :> 22), N("content-length", <<"9", "2">>), N("content-length", <<"1", ".", "2">>), N("content-length", <<"\t">>)}

OtherFields == {
  F("host", <<"h">>, "host" :> <<"h">>), F("unknown", <<"x">>, << >>), F("user-agent", <<"x">>, << >>),
  F("accept", <<"text", "/", "html", ",", "text", "/", "*", ";", "q", "=", "0.5", ";", "level", "=", "1", ",", " ", "*", "/", "*", ";", "q", "=", "1", ";", "q", "=", "x">>, << >>),
  N("accept", <<"text">>), N("accept", <<"text", "/", "html", ";", "q", "=", "x">>), N("accept", <<"text", "/", "html", ";", "q">>),
  N("accept", <<"text", "/", "html", ";", "p", "=">>),
  F("connection", <<"close">>, "connection" :> "close"), N("connection", <<"x">>),
  F("cookie", <<"a", "=", "1", ";", " ", "session_id", "=", "s", " ", ";", "b">>, "session" :> <<"s">>),
  F("cookie", <<"session_id", "=", " ", "s">>, "session" :> <<"s">>), F("cookie", <<"a">>, << >>), F("cookie", <<"session_id", "=">>, "session" :> <<>>),
  F("transfer-encoding", <<"gzip", ",", "chunked">>, "encodings" :> <<<<"gzip">>, <<"chunked">>>>), N("transfer-encoding", <<",", "x">>)}

Get(a, fs)  == Said(Line("GET", a.uri, "HTTP/1.1"), fs, Both(Ok("method" :> "GET"), a.meant), <<>>)
Post(a, fs, body) == Said(Line("POST", a.uri, "HTTP/1.0"), fs, Both(Ok("method" :> "POST"), a.meant), body)
Root  == At(<<"/">>, P(<<"/">>))
Up    == At(<<"/", "up", "/", "a">>, P(<<"/", "up", "/", "a">>))
SignIn == At(<<"/", "login">>, P(<<"/", "login">>))
Cgi   == At(<<"/", "cgi-bin", "/", "a", ".", "py">>, P(<<"/", "cgi-bin", "/", "a", ".", "py">>) @@ "mime" :> <<".", "py">> @@ "cgi" :> TRUE)
Host  == F("host", <<"h">>, "host" :> <<"h">>)
Body(n) == [i \in 1 .. n |-> IF i % 3 = 0 THEN "\n" ELSE "\r"]
LengthOf(f) == IF f.meant.code = 200 THEN f.meant.fields["length"] ELSE 3

\* A body that is greater than its place allows.
Allowed(a, f, r) == IF r.meant.code = 200 /\ LengthOf(f) > (IF a = Up THEN 12 ELSE 21) THEN [r EXCEPT !.meant = No(413)] ELSE r

Gets  == {Get(a, <<Host>>) : a \in Addresses} \cup {Get(Root, <<f>>) : f \in OtherFields \cup ContentTypes \cup LengthFields}
Pairs == {Get(Root, <<f, g>>) : f \in OtherFields, g \in {x \in OtherFields : x.name \in {"cookie", "connection"}}}
\* The lengths that an int can count, 15 here.
Counts == {l \in LengthFields : l.meant.code = 200 => l.meant.fields["length"] =< 15}
Posts == {Allowed(a, l, Post(a, <<t, l>>, Body(LengthOf(l)))) : a \in {Root, Up, SignIn}, t \in ContentTypes, l \in LengthFields}
         \cup {Post(Cgi, <<t, l>>, Body(LengthOf(l))) : t \in ContentTypes, l \in Counts}
         \cup {[Post(Root, <<Host>>, <<>>) EXCEPT !.meant = No(400)]}
Lines == {Said(Line("PUT", <<"/">>, "HTTP/1.1"), <<>>, No(501), <<>>), Said(Line("GET", <<"/">>, "HTTP/2.0"), <<Host>>, No(505), <<>>),
          Said(Line("GET", <<"/">>, "HTTP"), <<>>, No(400), <<>>), Said(<<"GET">>, <<>>, No(400), <<>>),
          Said(<<"GET", " ", "/">>, <<Host>>, No(400), <<>>), Said(<<" ", "GET", " ", "/">>, <<Host>>, No(400), <<>>)}
Folds == {[Get(Root, <<F("host", <<"h", "\r", "\n", " ", "i">>, "host" :> <<"h", " ", "i">>)>>) EXCEPT !.body = <<>>]}
Two   == F("content-length", <<"2">>, "length" :> 2)
Few   == {Get(Root, <<Host>>), Post(Up, <<Two>>, Body(2)), Get(Cgi, <<>>)}

Talks == {<<r>> : r \in Gets \cup Pairs \cup Posts \cup Lines \cup Folds} \cup {<<q, r>> : q \in Few, r \in Few \cup {Post(SignIn, <<Two>>, Body(2))}} \cup {<<Get(Root, <<>>), q, r>> : q, r \in Few}

Blocks == [cgi |-> << >>, max |-> 21, locations |-> <<[path |-> <<"/", "cgi-bin">>, cgi |-> (<<".", "py">> :> "python"), max |-> 0],
                                                     [path |-> <<"/", "up">>, cgi |-> << >>, max |-> 12]>>]

Rd == INSTANCE Reading WITH
  Dialogues <- Talks, Config <- Blocks, MaxLength <- 63, INT_MAX <- 15, Pieces <- {1, 2, 5},
  asked <- s1, patient <- s2, taken <- s3, c <- s4, status <- s5, answers <- s6, phase <- s7

\* The dialogues are those that the proof is about.
ASSUME RdAssumption == Rd!ConstantsAssumption

RdInit == program = "reading" /\ NoRest /\ Rd!Init
RdNext == program = "reading" /\ Rd!Next /\ UNCHANGED Rest

\* Every request is understood as it is meant and answered (Reading).
RequestIsAnswered == program = "reading" => Rd!RequestIsAnswered

\* A header with a folded line is read like any other (Reading).
FoldedIsRead == program = "reading" => Rd!FoldedIsRead

\* No more is counted of a body than has come (Reading).
BodyIsCountedOnce == program = "reading" => Rd!BodyIsCountedOnce
-----------------------------------------------------------------------------
(* Two servers and a browser that is signed in and out.                          *)

SeInit == program = "sessions" /\ s1 = Unused /\ s2 = Unused /\ s3 = Unused /\ LdRest
SeNext == program = "sessions" /\ Next /\ UNCHANGED Own
-----------------------------------------------------------------------------
(* Locations that lie in each other, and that return to each other.              *)

Place(path, root, methods, auto, to) ==
  [path |-> path, root |-> root, index |-> <<>>, methods |-> methods, auto_index |-> auto, max |-> 0, returnPath |-> to]
Both3 == {"GET", "POST", "DELETE"}
A  == <<"/", "a">>
AB == <<"/", "a", "/", "b">>
X  == <<"/", "x">>
Y  == <<"/", "y">>
Block(pages, locations) == [root |-> <<"r">>, index |-> <<>>, pages |-> pages, locations |-> locations]
Sites == {
  Block({404}, <<Place(<<"/">>, <<>>, {"GET"}, FALSE, <<>>), [Place(A, <<"s">>, Both3, TRUE, <<>>) EXCEPT !.max = 1],
                 [Place(AB, <<>>, {"DELETE"}, TRUE, <<>>) EXCEPT !.index = <<<<"f">>, <<"g">>>>]>>),
  Block({404}, <<Place(X, <<>>, {"DELETE"}, FALSE, Y), Place(Y, <<>>, {"POST"}, FALSE, AB), Place(A, <<"s">>, {"GET"}, TRUE, <<>>)>>),
  Block({}, <<Place(X, <<>>, Both3, FALSE, Y), Place(Y, <<>>, Both3, FALSE, X), Place(A, <<>>, Both3, TRUE, <<"q">>)>>)}

Asked == [method : {"GET", "POST", "DELETE"}, uri : {<<"/">>, A, AB, X, Y, AB \o <<"/">>, <<"/", "a", "c">>}, mime : {<<>>, <<".", "json">>}, plain : {FALSE}, data : {-1, 2}]

An == INSTANCE Answers WITH
  Characters <- STRING,
  Configs <- Sites, Requests <- Asked \cup {[method |-> "POST", uri |-> A, mime |-> <<>>, plain |-> TRUE, data |-> 1]},
  Dirs <- {<<"r">>, <<"s">>, <<"r", "/", "a">>, <<"s", "/", "a">>},
  Files <- {<<"r", "/", "index">>, <<"r", "/", "a", "/", "b">>, <<"s", "/", "a", "/", "b">>, <<"r", "/", "y">>}, Locked <- {<<"r", "/", "y">>}, REWRITES <- 3,
  config <- s1, files <- s2, request <- s3, answer <- s4

\* The constants are those that the proof is about.
ASSUME AnAssumption == An!ConstantsAssumption

AnInit == program = "answers" /\ NoRest /\ An!Init /\ s5 = Unused /\ s6 = Unused /\ s7 = Unused
AnNext == program = "answers" /\ An!Next /\ UNCHANGED <<s5, s6, s7, Rest>>

\* What is given or deleted is what the locations allow (Answers).
AnsweredByItsLocation == [][program = "answers" /\ (s3' # s3 \/ s4' # s4) => An!AnsweredRightly]_Own
-----------------------------------------------------------------------------
(* Scripts: with a status or none, with bodies that begin with a letter, with no *)
(* header, with a status that is none.                                           *)

Eol    == <<"\r", "\n">>
Status == <<"status", ":", " ", "201", " ", "made">>
Kind   == <<"content-type", ":", " ", "text", "/", "plain">>
Made   == <<"201", " ", "made">>
Script(head, body, code) == [text |-> head \o Eol \o Eol \o body, ends |-> "well", headed |-> TRUE, status |-> code, body |-> body]
NoHead(text) == [text |-> text, ends |-> "well", headed |-> FALSE, status |-> <<"200">>, body |-> <<>>]
Texts  == {Script(Status \o Eol \o Kind, <<"a", "\n", "b">>, Made), Script(Kind \o Eol \o Status, <<"a">> \o Eol \o <<"b">>, Made),
           Script(Kind, <<"a", ":", " ", "b", "\r", "\n">>, <<"200">>), Script(Status, <<"\n", "\n", "a">>, Made), Script(Status, <<>>, Made),
           NoHead(<<"status", ":", " ", "99">> \o Eol \o Eol \o <<"a">>), NoHead(<<"content-type", ":", " ", "text">> \o Eol \o Eol \o <<"a">>),
           NoHead(<<"a", "b">>), NoHead(<<>>)}

Sa == INSTANCE ScriptAnswer WITH
  Scripts <- {[t EXCEPT !.ends = e] : t \in Texts, e \in {"well", "badly", "killed", "never"}}, Parts <- {1, 5}, MaxLength <- 21,
  script <- s1, life <- s2, wrote <- s3, got <- s4, parser <- s5, step <- s6, finished <- s7, expired <- s8, answer <- s9

\* The texts are those that the proof is about.
ASSUME SaAssumption == Sa!ConstantsAssumption

SaInit == program = "script" /\ Sa!Init
SaNext == program = "script" /\ Sa!Next

\* The client is told what the script said, or that there was no time (ScriptAnswer).
ScriptIsHeard == program = "script" => Sa!ScriptIsHeard
-----------------------------------------------------------------------------
(* Configurations: directives with what they mean, before, in and behind a       *)
(* location, with blanks and comments between them.                              *)

D(text, field, value) == [text |-> text, says |-> field :> value]
Wrong(text)           == D(text, "wrong", 0)
Sp(words)             == FlattenSeq([i \in DOMAIN words |-> IF i = 1 THEN <<words[i]>> ELSE <<" ", words[i]>>]) \o <<";">>
Page404               == <<"p", "/", "404", ".", "html">>

InAny == {
  D(<<"root", " ", "p", "/", ";">>, "root", <<"p", "/">>), D(<<"root", " ", "/", "p", " ", "q", ";">>, "root", <<"/", "p", "q">>),
  D(<<"index", " ", "i", ".", "html", " ", ".", "j", ";">>, "index", <<<<"i", ".", "html">>, <<".", "j">>>>),
  D(Sp(<<"methods", "GET", "DELETE">>), "methods", {"GET", "DELETE"}), D(Sp(<<"methods">>), "methods", {}),
  D(Sp(<<"auto_index", "on">>), "auto_index", TRUE), D(Sp(<<"auto_index", "off">>), "auto_index", FALSE),
  D(<<"error_page", " ", "404", " ", "500", "\n">> \o Page404 \o <<";">>, "pages", 404 :> Page404 @@ 500 :> Page404),
  D(<<"error_page", " ", "404", "\t", "/", "x", ";">>, "pages", 404 :> <<"/", "x">>),
  D(<<"error_page", " ", "404", " ", " ">> \o Page404 \o <<";">>, "pages", << >>),
  D(Sp(<<"return", "404">>), "code", 404), D(<<"cgi", " ", ".", "py", " ", "/", "usr", "/", "python", ";">>, "cgi", <<".", "py">> :> <<"/", "usr", "/", "python">>),
  D(Sp(<<"max_client_body_size", "1k">>), "max", 1024), D(Sp(<<"max_client_body_size", "42">>), "max", 42),
  Wrong(Sp(<<"error_page", "600", "x">>)), Wrong(Sp(<<"methods", "PUT">>)), Wrong(Sp(<<"auto_index", "x">>)), Wrong(<<"root", " ", "p">>),
  Wrong(<<"root", " ", "index", ";">>), Wrong(Sp(<<"max_client_body_size", "1x">>)), Wrong(Sp(<<"cgi", "py", "x">>)), Wrong(<<"x">>), Wrong(<<"index", " ", "i">>)}
InServers == InAny \cup {
  D(<<"listen", " ", "0", ".", "0", ".", "0", ".", "0", ":", "42", ";">>, "listen", <<[host |-> <<"0", ".", "0", ".", "0", ".", "0">>, port |-> 42]>>),
  D(<<"listen", " ", "localhost", ":", "80", " ", "42", ";">>, "listen",
    <<[host |-> <<"127", ".", "0", ".", "0", ".", "1">>, port |-> 80], [host |-> <<"0", ".", "0", ".", "0", ".", "0">>, port |-> 42]>>),
  D(<<"listen", " ", "1", ".", "1", ".", "1", ".", "1", ";">>, "listen", <<[host |-> <<"1", ".", "1", ".", "1", ".", "1">>, port |-> -1]>>),
  D(<<"server_name", " ", "a", ".", "b", " ", "c", ";">>, "names", <<<<"a", ".", "b">>, <<"c">>>>), D(Sp(<<"keepalive_timeout", "42">>), "timeout", 42),
  Wrong(Sp(<<"listen", "80">>)), Wrong(Sp(<<"listen", "70000">>)), Wrong(<<"listen", " ", "256", ".", "1", ".", "1", ".", "1", ";">>), Wrong(<<"listen", " ", "80", ":", "80", ";">>),
  Wrong(<<"listen", " ", "1", ".", "1", ";">>), Wrong(Sp(<<"server_name">>)), Wrong(Sp(<<"keepalive_timeout", "x">>)), Wrong(Sp(<<"chunked_size", "42">>)), Wrong(Sp(<<"host", "a">>))}
InPlaces == InAny \cup {D(Sp(<<"chunked_transfer_encoding", "on">>), "chunked", TRUE), D(Sp(<<"chunked_threshold", "42">>), "threshold", 42),
  D(Sp(<<"chunked_size", "80">>), "size", 80), Wrong(Sp(<<"chunked_size", "x">>)), Wrong(Sp(<<"listen", "42">>))}

Written(ds, gap)  == FlattenSeq([i \in DOMAIN ds |-> ds[i].text \o gap])
Says(d, S)        == DOMAIN d.says \subseteq S
Means(b, d)       == [x \in DOMAIN b |-> IF ~Says(d, {x}) THEN b[x]
                                         ELSE IF x \in {"index", "listen", "names"} THEN b[x] \o d.says[x]
                                         ELSE IF x \in {"pages", "cgi"} THEN b[x] @@ d.says[x] ELSE d.says[x]]
Base == <<D(Sp(<<"server_name", "n">>), "names", <<<<"n">>>>), D(Sp(<<"listen", "80">>), "listen", <<[host |-> <<"0", ".", "0", ".", "0", ".", "0">>, port |-> 80]>>)>>
Plain == [root |-> <<>>, index |-> <<>>, methods |-> {}, auto_index |-> FALSE, pages |-> << >>, code |-> -1, to |-> <<>>, cgi |-> << >>, max |-> 0]

\* A server with ds, a location with es, and fs behind it.
Meant(ds, es, fs, to) ==
  LET above == FoldLeft(Means, [Plain EXCEPT !.to = to] @@ [names |-> <<>>, listen |-> <<>>, timeout |-> 0, locations |-> <<>>], ds)
      place == FoldLeft(Means, [Plain EXCEPT !.max = above.max, !.index = above.index, !.auto_index = IF above.auto_index THEN NONE ELSE FALSE]
                               @@ [path |-> <<"/", "l">>, chunked |-> FALSE, threshold |-> 0, size |-> 0], es)
  IN  FoldLeft(Means, [above EXCEPT !.locations = <<place>>], fs)
ServerText(ds, es, fs, gap) == <<"server", " ", "{">> \o gap \o Written(ds, gap) \o <<"location", " ", "/", "l", "{">> \o Written(es, gap) \o <<"}">> \o Written(fs, gap) \o <<"}">>
File(ds, es, fs, gap) ==
  [text |-> ServerText(ds, es, fs, gap), meant |-> IF \E d \in ToSet(ds \o es \o fs) : Says(d, {"wrong"}) THEN <<>> ELSE <<Meant(ds, es, fs, <<>>)>>]

Return == D(<<"return", " ", "/", "x", ";">>, "to", <<"/", "x">>)
\* The server and the location /api/files of goodconfig.conf, as far as they matter here.
Listing == D(Sp(<<"auto_index", "on">>), "auto_index", TRUE)
OfFiles == <<D(Sp(<<"methods", "GET">>), "methods", {"GET"}), D(Sp(<<"max_client_body_size", "42">>), "max", 42), D(Sp(<<"return", "404">>), "code", 404)>>
Gaps == {<<"\n">>, <<" ", "#", "}", "\n", "\t">>}
ConfigTexts ==
  {File(Base \o <<d>>, <<e>>, <<>>, g) : d \in InServers, e \in InPlaces, g \in Gaps} \cup {File(Base, <<e>>, <<f>>, <<" ">>) : e \in InPlaces, f \in InAny}
  \cup {File(Base, <<e, f>>, <<>>, <<" ">>) : e, f \in {d \in InAny : Says(d, {"index", "pages", "auto_index"})}}
  \cup {File(Base \o <<Listing>>, OfFiles, <<>>, <<"\n">>)}
  \cup {[text |-> ServerText(Base \o <<Return>>, <<Return>>, <<>>, <<" ">>) \o ServerText(Base, <<>>, <<>>, <<" ">>),
         meant |-> <<Meant(Base \o <<Return>>, <<Return>>, <<>>, <<>>), Meant(Base, <<>>, <<>>, <<"/", "x">>)>>],
        [text |-> <<"server">>, meant |-> <<>>], [text |-> <<"server", "{", "}">>, meant |-> <<>>], [text |-> <<"location", "{", "}">>, meant |-> <<>>]}

Cf == INSTANCE ConfigFile WITH
  Documents <- ConfigTexts, NoConfigs <- <<>>, Unsaid <- NONE,
  document <- s1, tokens <- s2, at <- s3, tempConfig <- s4, location <- s5, block <- s6, configs <- s7, phase <- s8

CfInit == program = "config" /\ Cf!Init /\ s9 = Unused
CfNext == program = "config" /\ Cf!Next /\ UNCHANGED s9

\* What is read is what is written, and what makes no sense is refused (ConfigFile).
ConfigIsAsWritten == program = "config" => Cf!ConfigIsAsWritten
-----------------------------------------------------------------------------
(* Two clients that upload the same file or another, and one that deletes it.    *)

Part(name, data) == <<[file |-> name, data |-> data]>>
Forms == ("c1" :> {Part(FILE, <<11>>), Part(FILE, <<11, 12, 13, 14, 15>>)}) @@ ("c2" :> {Part(FILE, <<21, 22>>), Part(PAGE, <<21, 22>>)})

Ld == INSTANCE Upload WITH
  Clients <- {"c1", "c2"}, Files <- {FILE, PAGE}, Bodies <- Forms, OLD <- <<0>>, Deletes <- 1,
  up <- s1, disk <- s2, deletes <- s3

\* The forms are those that the proof is about.
ASSUME LdAssumption == Ld!ConstantsAssumption

LdInit == program = "upload" /\ LdRest /\ Ld!Init
LdNext == program = "upload" /\ Ld!Next /\ UNCHANGED <<s4, s5, s6, s7, Rest>>

\* A file of the disk is an old one or the begin of one that was sent, an upload that was
\* answered 200 is there, whole, and a client gets one answer to it (Upload).
UploadsAreKept == program = "upload" => Ld!PrefixOnDisk /\ Ld!AcceptedIsWhole /\ Ld!OneReply
-----------------------------------------------------------------------------
Chosen == RdInit \/ SeInit \/ AnInit \/ SaInit \/ CfInit \/ LdInit
Others == RdNext \/ AnNext \/ SaNext \/ CfNext \/ LdNext

AllInit == Init /\ Chosen
AllNext == SeNext \/ (Others /\ UNCHANGED vars)
AllSpec == AllInit /\ [][AllNext /\ UNCHANGED program]_<<program, vars, Own>>
=============================================================================
