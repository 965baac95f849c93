------------------------------ MODULE ConfigFile ------------------------------
(***************************************************************************)
(* The parser of webserv's configuration: a text is cut into tokens, and   *)
(* the directives are read one by one into the server that is being built  *)
(* (tempConfig), or into one of its locations.  A step is one directive.   *)
(*                                                                         *)
(* A text is a sequence of words, of signs and of blanks; a word counts as *)
(* one column.                                                             *)
(***************************************************************************)
EXTENDS Integers, FiniteSetsExt, SequencesExt, TLC

CONSTANTS
  Documents,    \* texts with what they mean: [text, meant], meant is what configs should be
                \* in the end, or NoConfigs for a text to refuse
  NoConfigs,
  Unsaid        \* what is meant with the auto_index of a location that says nothing of it,
                \* while it is on in the server above

VARIABLES
  document,     \* the text
  tokens,       \* _tokens
  at,           \* _currentToken
  tempConfig,   \* the server that is being read
  location,     \* the location that is being read
  block,        \* where: "file", "server" or "location"
  configs,      \* _configVector
  phase         \* "reading", "read" or "refused", for an exception

vars == <<document, tokens, at, tempConfig, location, block, configs, phase>>

-----------------------------------------------------------------------------
(* Tokens.                                                                       *)

Keywords == {"server", "listen", "host", "server_name", "methods", "GET", "POST", "DELETE", "auto_index", "on", "off", "index", "root",
             "error_page", "location", "cgi", "max_client_body_size", "return", "chunked_transfer_encoding", "chunked_threshold",
             "chunked_size", "keepalive_timeout"}
Signs    == {"{", "}", ".", "-", "/", ":", ";"}
Blanks   == {" ", "\r", "\t", "\n"}
Ignored  == {"\"", "'"}
\* What goes on an identifier once it has begun with a word.
Inner    == {"-", ".", "#", "/", "'", "\""}
IsWord(c) == c \notin Signs \cup Blanks \cup Ignored \cup {"#"}

Token(text, i) ==
  [type |-> IF Len(text) = 1 /\ text[1] \in Keywords \cup Signs THEN text[1] ELSE "identifier", text |-> text, column |-> i]

EndToken == [type |-> "end", text |-> <<>>, column |-> -1]

\* scanToken() and identifier(): word is what has been read of an identifier, from where on.
Scanned(x, c) ==
  LET done == IF x.word = <<>> THEN x.out ELSE Append(x.out, Token(x.word, x.from))
      rest == [x EXCEPT !.i = @ + 1, !.out = done, !.word = <<>>]
  IN  IF x.comment THEN [x EXCEPT !.i = @ + 1, !.comment = (c # "\n")]
      ELSE IF x.word # <<>> /\ (IsWord(c) \/ c \in Inner) THEN [x EXCEPT !.i = @ + 1, !.word = Append(@, c)]
      ELSE IF c = "#" THEN [rest EXCEPT !.comment = TRUE]
      ELSE IF c \in Signs THEN [rest EXCEPT !.out = Append(@, Token(<<c>>, x.i))]
      ELSE IF IsWord(c) THEN [rest EXCEPT !.word = <<c>>, !.from = x.i]
      ELSE rest

scanTokens(text) ==
  Append(FoldLeft(Scanned, [i |-> 0, word |-> <<>>, from |-> 0, comment |-> FALSE, out |-> <<>>], Append(text, "\n")).out, EndToken)

Type(i) == tokens[i].type
Text(i) == tokens[i].text
Is(i, t) == Type(i) = t

\* isSpaceBetween(): there is exactly one character between them.
isSpaceBetween(i, j) == Len(Text(i)) + tokens[i].column + 1 = tokens[j].column

-----------------------------------------------------------------------------
(* What directives are made of: each gives [ok, next, value].                    *)

Got(value, next) == [ok |-> TRUE, next |-> next, value |-> value]
Fails            == [ok |-> FALSE, next |-> 0, value |-> <<>>]

\* consume(SEMICOLON)
Closed(g) == IF g.ok /\ Is(g.next, ";") THEN [g EXCEPT !.next = @ + 1] ELSE Fails

Until(i, types) == Min({j \in i .. Len(tokens) : Type(j) \notin types})
Joined(i, j)    == FlattenSeq([k \in 1 .. j - i |-> Text(i + k - 1)])

\* parsePath(): what belongs to a path, blanks in between or not.
parsePath(i) == LET end == Until(i, {"identifier", "/", ".", "-", ":"}) IN Got(Joined(i, end), end)

Numbers == "0" :> 0 @@ "1" :> 1 @@ "42" :> 42 @@ "80" :> 80 @@ "127" :> 127 @@ "256" :> 256 @@ "404" :> 404 @@ "500" :> 500 @@ "600" :> 600 @@ "70000" :> 70000
IsNumber(text) == Len(text) = 1 /\ text[1] \in DOMAIN Numbers
Number(text)   == Numbers[text[1]]

\* parseListen(): one address; a port that is missing is -1.
AnyHost   == <<"0", ".", "0", ".", "0", ".", "0">>
Localhost == <<"127", ".", "0", ".", "0", ".", "1">>
IsHost(text) ==
  /\ \A k \in DOMAIN text : text[k] \in DOMAIN Numbers \cup {"."}
  /\ Cardinality({k \in DOMAIN text : text[k] = "."}) = 3
  /\ \A k \in DOMAIN text : text[k] \in DOMAIN Numbers => Numbers[text[k]] =< 255

Listen(i) ==
  LET name == IF Text(i) = <<"localhost">> THEN Localhost ELSE Text(i)
      full == Is(i + 1, ":")
      host == full \/ "." \in ToSet(name)
      port == IF full THEN Text(i + 2) ELSE IF host THEN <<>> ELSE name
  IN  IF (host /\ ~IsHost(name)) \/ (full /\ ~Is(i + 2, "identifier")) \/ (port # <<>> /\ (~IsNumber(port) \/ Number(port) > 65535)) THEN Fails
      ELSE Got([host |-> IF name = port THEN AnyHost ELSE name, port |-> IF port = <<>> THEN -1 ELSE Number(port)], IF full THEN i + 3 ELSE i + 1)

parseListen(i, known) ==
  LET add(g, k) ==
        IF ~g.ok \/ ~Is(g.next, "identifier") THEN g
        ELSE LET one == Listen(g.next)
             IN  IF one.ok /\ one.value \notin ToSet(g.value) THEN Got(Append(g.value, one.value), one.next) ELSE Fails
  IN  Closed(FoldLeft(add, Got(known, i), tokens))

\* parseIndex(): names, each with a dot before it or none.
parseIndex(i, known) ==
  LET add(g, k) ==
        LET j == IF Is(g.next, ".") THEN g.next + 1 ELSE g.next
        IN  IF ~g.ok \/ Is(g.next, ";") THEN g
            ELSE IF Is(j, "identifier") THEN Got(Append(g.value, Joined(g.next, j + 1)), j + 1) ELSE Fails
  IN  Closed(FoldLeft(add, Got(known, i), tokens))

\* parseServerName(): a name goes on behind a dot.
parseServerName(i, known) ==
  LET add(g, k) ==
        IF ~g.ok THEN g
        ELSE IF Is(g.next, "identifier") THEN Got(Append(g.value, Text(g.next)), g.next + 1)
        ELSE IF Is(g.next, ".") /\ g.next > i
        THEN IF Is(g.next + 1, "identifier") THEN Got(Append(Front(g.value), Last(g.value) \o Joined(g.next, g.next + 2)), g.next + 2) ELSE Fails
        ELSE g
  IN  IF Is(i, "identifier") THEN Closed(FoldLeft(add, Got(known, i), tokens)) ELSE Fails

\* parseMethods()
parseMethods(i) == LET end == Until(i, {"GET", "POST", "DELETE"}) IN Closed(Got({Type(k) : k \in i .. end - 1}, end))

\* parseAutoIndex(), chunked_transfer_encoding
parseSwitch(i) == IF Type(i) \in {"on", "off"} THEN Closed(Got(Is(i, "on"), i + 1)) ELSE Fails

\* parseErrorPage(): what stands behind one blank and is a number is a code; a number that
\* does not have exactly one blank behind it is the beginning of the path.
Codes_any(i, j) == IsNumber(Text(j))                    \* mutant: the blank does not matter
Codes(i, j) == IsNumber(Text(j)) /\ isSpaceBetween(j, j + 1)

parseErrorPage(i) ==
  LET end   == Min({j \in i .. Len(tokens) : ~(Is(j, "identifier") /\ Codes(i, j))})
      codes == {Number(Text(k)) : k \in i .. end - 1}
      path  == parsePath(end)
  IN  IF \E n \in codes : n \notin 400 .. 599 THEN Fails ELSE Closed(Got([n \in codes |-> path.value], path.next))

\* parseReturn(): a code and a path, one of them or both.
parseReturn(i, code, to) ==
  LET coded == IsNumber(Text(i))
      j     == IF coded THEN i + 1 ELSE i
      path  == parsePath(j)
  IN  IF Is(i, "end") THEN Fails
      ELSE IF coded /\ Is(j, ";") THEN Closed(Got([code |-> Number(Text(i)), to |-> to], j))
      ELSE Closed(Got([code |-> IF coded THEN Number(Text(i)) ELSE code, to |-> path.value], path.next))

\* cgi
parseCgi(i) ==
  LET path == parsePath(i + 2)
  IN  IF Is(i, ".") /\ Is(i + 1, "identifier") THEN Closed(Got(Joined(i, i + 2) :> path.value, path.next)) ELSE Fails

\* parseMaxClientBody(): a number, in bytes or in a unit.
Sizes == Numbers @@ "1k" :> 1024 @@ "1m" :> 1048576 @@ "k" :> 0
parseMaxClientBody(i) ==
  IF Is(i, "identifier") /\ Len(Text(i)) = 1 /\ Text(i)[1] \in DOMAIN Sizes THEN Closed(Got(Sizes[Text(i)[1]], i + 1)) ELSE Fails

\* parseTimeout(), chunked_threshold, chunked_size
parseNumber(i) == IF Is(i, "identifier") /\ IsNumber(Text(i)) THEN Closed(Got(Number(Text(i)), i + 1)) ELSE Fails

-----------------------------------------------------------------------------
(* Blocks.                                                                       *)

Common == [root |-> <<>>, index |-> <<>>, methods |-> {}, auto_index |-> FALSE, pages |-> << >>, code |-> -1, to |-> <<>>, cgi |-> << >>, max |-> 0]

\* fillDefaultValues(): returnPath stays as the server before has left it.
fillDefaultValues(to) == [Common EXCEPT !.to = to] @@ [names |-> <<>>, listen |-> <<>>, timeout |-> 0, locations |-> <<>>]

\* The beginning of parseLocation(): what it takes over are the values above it.
Inherited(path) ==
  [Common EXCEPT !.max = tempConfig.max, !.index = tempConfig.index, !.auto_index = tempConfig.auto_index]
  @@ [path |-> path, chunked |-> FALSE, threshold |-> 0, size |-> 0]

\* A directive of a server or of a location, read into the block b: the first of two values
\* for one code or one extension stays, and an index is put behind the ones there are.
With(g, b) == [ok |-> g.ok, next |-> g.next, value |-> IF g.ok THEN b ELSE <<>>]

InAnyBlock(b) ==
  LET i == at + 1
  IN CASE Is(at, "root")       -> LET g == Closed(parsePath(i)) IN With(g, [b EXCEPT !.root = g.value])
       [] Is(at, "index")      -> LET g == parseIndex(i, b.index) IN With(g, [b EXCEPT !.index = g.value])
       [] Is(at, "methods")    -> LET g == parseMethods(i) IN With(g, [b EXCEPT !.methods = g.value])
       [] Is(at, "auto_index") -> LET g == parseSwitch(i) IN With(g, [b EXCEPT !.auto_index = g.value])
       [] Is(at, "error_page") -> LET g == parseErrorPage(i) IN With(g, [b EXCEPT !.pages = @ @@ g.value])
       [] Is(at, "return")     -> LET g == parseReturn(i, b.code, b.to) IN With(g, [b EXCEPT !.code = g.value.code, !.to = g.value.to])
       [] Is(at, "cgi")        -> LET g == parseCgi(i) IN With(g, [b EXCEPT !.cgi = @ @@ g.value])
       [] Is(at, "max_client_body_size") -> LET g == parseMaxClientBody(i) IN With(g, [b EXCEPT !.max = g.value])
       [] OTHER -> Fails

InServer(b) ==
  LET i == at + 1
  IN CASE Is(at, "listen")      -> LET g == parseListen(i, b.listen) IN With(g, [b EXCEPT !.listen = g.value])
       [] Is(at, "server_name") -> LET g == parseServerName(i, b.names) IN With(g, [b EXCEPT !.names = g.value])
       [] Is(at, "keepalive_timeout") -> LET g == parseNumber(i) IN With(g, [b EXCEPT !.timeout = g.value])
       [] OTHER -> InAnyBlock(b)

InLocation(b) ==
  LET i == at + 1
  IN CASE Is(at, "chunked_transfer_encoding") -> LET g == parseSwitch(i) IN With(g, [b EXCEPT !.chunked = g.value])
       [] Is(at, "chunked_threshold") -> LET g == parseNumber(i) IN With(g, [b EXCEPT !.threshold = g.value])
       [] Is(at, "chunked_size")      -> LET g == parseNumber(i) IN With(g, [b EXCEPT !.size = g.value])
       [] OTHER -> InAnyBlock(b)

-----------------------------------------------------------------------------
(* parseConfig()                                                                 *)

Refuse == phase' = "refused" /\ UNCHANGED <<document, tokens, at, tempConfig, location, block, configs>>

OpenServer ==
  /\ block = "file" /\ ~Is(at, "end")
  /\ IF Is(at, "server") /\ Is(at + 1, "{")
     THEN /\ tempConfig' = fillDefaultValues(tempConfig.to) /\ block' = "server" /\ at' = at + 2
          /\ UNCHANGED <<document, tokens, location, configs, phase>>
     ELSE Refuse

OpenLocation ==
  /\ block = "server" /\ Is(at, "location")
  /\ LET path == parsePath(at + 1)
     IN  IF path.value # <<>> /\ Is(path.next, "{")
         THEN /\ location' = Inherited(path.value) /\ block' = "location" /\ at' = path.next + 1
              /\ UNCHANGED <<document, tokens, tempConfig, configs, phase>>
         ELSE Refuse

ServerDirective ==
  /\ block = "server" /\ Type(at) \notin {"location", "}", "end"}
  /\ LET g == InServer(tempConfig)
     IN  IF g.ok THEN tempConfig' = g.value /\ at' = g.next /\ UNCHANGED <<document, tokens, location, block, configs, phase>> ELSE Refuse

LocationDirective ==
  /\ block = "location" /\ ~Is(at, "}")
  /\ LET g == InLocation(location)
     IN  IF g.ok THEN location' = g.value /\ at' = g.next /\ UNCHANGED <<document, tokens, tempConfig, block, configs, phase>> ELSE Refuse

CloseLocation ==
  /\ block = "location" /\ Is(at, "}")
  /\ tempConfig' = [tempConfig EXCEPT !.locations = Append(@, location)] /\ block' = "server" /\ at' = at + 1
  /\ UNCHANGED <<document, tokens, location, configs, phase>>

\* checkForEmpty(): a server has a name and an address.
CloseServer ==
  /\ block = "server" /\ Type(at) \in {"}", "end"}
  /\ IF Is(at, "}") /\ tempConfig.names # <<>> /\ tempConfig.listen # <<>>
     THEN /\ configs' = Append(configs, tempConfig) /\ block' = "file" /\ at' = at + 1
          /\ UNCHANGED <<document, tokens, tempConfig, location, phase>>
     ELSE Refuse

End ==
  /\ block = "file" /\ Is(at, "end") /\ phase' = "read"
  /\ UNCHANGED <<document, tokens, at, tempConfig, location, block, configs>>

Init ==
  /\ document \in Documents
  /\ tokens = scanTokens(document.text) /\ at = 1
  /\ tempConfig = [to |-> <<>>] /\ location = <<>>
  /\ block = "file" /\ configs = <<>> /\ phase = "reading"

Next ==
  /\ phase = "reading"
  /\ OpenServer \/ OpenLocation \/ ServerDirective \/ LocationDirective \/ CloseLocation \/ CloseServer \/ End

-----------------------------------------------------------------------------
\* Where auto_index is not compared.
LeftUnsaid(k, l) ==
  k \in DOMAIN document.meant /\ l \in DOMAIN document.meant[k].locations /\ document.meant[k].locations[l].auto_index = Unsaid

Read(k) ==
  [configs[k] EXCEPT !.locations =
     [l \in DOMAIN @ |-> IF LeftUnsaid(k, l) THEN [configs[k].locations[l] EXCEPT !.auto_index = Unsaid] ELSE configs[k].locations[l]]]

\* What is read is what is written, directive by directive, in whatever order and with
\* whatever blanks and comments in between, and what makes no sense is refused
\* (parseConfig()).  A location has the greatest body that stands above it in the server, and
\* an index of its own behind the ones of the server; of codes that are not followed by one
\* single blank nothing is kept.  Nothing is said of an auto_index that is left out: a location
\* has that of its server (Parser.cpp:343), and parser_test.cpp:44 expects that it has none.
ConfigIsAsWritten ==
  /\ phase = "read" => [k \in DOMAIN configs |-> Read(k)] = document.meant
  /\ phase = "refused" => document.meant = NoConfigs
===============================================================================
