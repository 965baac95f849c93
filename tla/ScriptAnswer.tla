----------------------------- MODULE ScriptAnswer -----------------------------
(***************************************************************************)
(* One CGI script, from its start to the answer: the script writes into a  *)
(* pipe and ends; IOCGIHandler reads the pipe and looks whether it has     *)
(* ended; CGIResponseParser makes a status and a body of what it wrote;    *)
(* and the client's handler answers when that is done or time is up.       *)
(* The script and the clock go on between any two steps of the server.     *)
(***************************************************************************)
EXTENDS Fields

CONSTANTS
  Scripts,      \* [text, ends, headed, status, body]: what it writes, how it ends ("well",
                \* "badly", "killed" or "never"), whether it has a header that is one, and
                \* the status and body that it means
  Parts         \* how much the script writes at once, unless it writes the rest

VARIABLES
  script,
  life,         \* "runs", "leaves" (the pipe is closed), "zombie" or "reaped"
  wrote,        \* how much the script has written
  got,          \* how much of it the handler has read, its _buffer
  parser,       \* the parser: [buffer, headed, ok, status, data]
  step,         \* where the handler is: "idle", "read" or "wait", and with EPOLLHUP or not
  finished,     \* is_cgi_request_finished, and by what
  expired,      \* five seconds are over
  answer        \* what was answered: [status, body, late]

vars == <<script, life, wrote, got, parser, step, finished, expired, answer>>

Idle    == [at |-> "idle", hup |-> FALSE]
Fresh   == [buffer |-> <<>>, headed |-> FALSE, ok |-> TRUE, status |-> <<"200">>, data |-> <<>>]
Pending == [status |-> <<>>, body |-> <<>>, late |-> FALSE]

-----------------------------------------------------------------------------
(* CGIResponseParser.                                                            *)

\* is_valid_status_code()
Codes == {"201", "500", "504"}

\* parse_status(): the value is kept as it is.
parse_status(p, v) ==
  LET code == get_token_with_delim(v, skip_ws(v, 1), <<" ">>, TRUE).text
  IN  IF Len(code) = 1 /\ code[1] \in Codes THEN [p EXCEPT !.status = v] ELSE [p EXCEPT !.ok = FALSE]

\* parse_content_type() of the same text as the one of a request; the value is not used.
IsContentType(v) == parse_content_type(Request, v).code = 200

parse_field(p, name, v) ==
  CASE name = <<"status">>       -> parse_status(p, v)
    [] name = <<"content-type">> -> [p EXCEPT !.ok = IsContentType(v)]
    [] OTHER                     -> p

\* What is behind the fields is left, if none of them was refused.
Headed(x) == IF ~x.p.ok THEN x.p ELSE [x.p EXCEPT !.headed = TRUE, !.buffer = From(@, x.at)]

\* parse_header(): what is skipped behind the last field takes the empty line with it, and
\* the line ends the body begins with.
parse_header(p) ==
  LET s   == p.buffer
      end == Find(s, HeadEnd, 1)
      next(at, q) ==
        LET n == get_token_with_delim(s, at, <<":", " ">>, TRUE)
            v == get_token_with_delim(s, n.next, CRLF, TRUE)
        IN  [at |-> v.next, p |-> parse_field(q, n.text, v.text)]
      more(x, k) == IF x.p.ok /\ (x.at = 1 \/ x.at < end) THEN next(x.at, x.p) ELSE x
  IN  IF end = 0 THEN [p EXCEPT !.ok = FALSE]
      ELSE Headed(FoldLeft(more, [at |-> 1, p |-> [p EXCEPT !.ok = TRUE]], s))

\* parse_body()
parse_body(p) == IF ~p.headed THEN p ELSE [p EXCEPT !.data = @ \o p.buffer, !.buffer = <<>>]

\* parse()
parse(p, content) ==
  LET all == [p EXCEPT !.buffer = @ \o content] IN parse_body(IF p.headed THEN all ELSE parse_header(all))

-----------------------------------------------------------------------------
(* The script.                                                                   *)

Server == <<got, parser, step, finished, answer>>

Write(n) ==
  /\ life = "runs" /\ n > 0 /\ wrote + n =< Len(script.text)
  /\ wrote' = wrote + n
  /\ UNCHANGED <<script, life, expired, Server>>

\* It ends when it has written everything, or is killed by a signal before that.
Leave ==
  /\ life = "runs" /\ script.ends # "never"
  /\ wrote = Len(script.text) \/ script.ends = "killed"
  /\ life' = "leaves"
  /\ UNCHANGED <<script, wrote, expired, Server>>

End == life = "leaves" /\ life' = "zombie" /\ UNCHANGED <<script, wrote, expired, Server>>

Expire == ~expired /\ expired' = TRUE /\ UNCHANGED <<script, life, wrote, Server>>

-----------------------------------------------------------------------------
(* IOCGIHandler::handle()                                                        *)

Text504 == <<"status", ":", " ", "504", "\r", "\n", "\r", "\n", "timeout">>
Text500 == <<"status", ":", " ", "500", "\r", "\n", "\r", "\n", "error">>

\* handle_timeout(): the script is killed, and nobody waits for it.
Timeout ==
  /\ parser' = parse(parser, Text504) /\ finished' = "timeout"
  /\ life' = IF life = "runs" THEN "zombie" ELSE life

\* The pipe has something to read or was closed.
Woken ==
  /\ step = Idle /\ finished = "no"
  /\ got < wrote \/ life # "runs"
  /\ IF expired THEN Timeout /\ UNCHANGED step
     ELSE step' = [at |-> "read", hup |-> life # "runs"] /\ UNCHANGED <<life, parser, finished>>
  /\ UNCHANGED <<script, wrote, got, expired, answer>>

ReadPipe ==
  /\ step.at = "read"
  /\ got' = wrote /\ step' = [step EXCEPT !.at = "wait"]
  /\ UNCHANGED <<script, life, wrote, parser, finished, expired, answer>>

WhatItWrote_failed == SubSeq(script.text, 1, got)       \* mutant: nobody looks at the exit status
\* What is parsed when the script has ended: WEXITSTATUS is 0 for one that was killed.
WhatItWrote == IF script.ends = "badly" THEN Text500 ELSE SubSeq(script.text, 1, got)

\* waitpid() with WNOHANG.  The timer is asked once more, and what there is is parsed
\* when it has run out since the handler was called.
Wait ==
  /\ step.at = "wait" /\ step' = Idle
  /\ IF life = "zombie"
     THEN life' = "reaped" /\ parser' = parse(parser, WhatItWrote) /\ finished' = IF step.hup THEN "closed" ELSE "ended"
     ELSE IF expired THEN parser' = parse(parser, SubSeq(script.text, 1, got)) /\ finished' = "cut" /\ UNCHANGED life
     ELSE UNCHANGED <<life, parser, finished>>
  /\ UNCHANGED <<script, wrote, got, expired, answer>>

\* handle_cgi_request() of the client: when time is up before it can write, the text of
\* the timeout is parsed behind what is there.
ClientTurn ==
  /\ step = Idle /\ answer = Pending
  /\ expired \/ finished # "no"
  /\ IF expired THEN Timeout ELSE UNCHANGED <<life, parser, finished>>
  /\ answer' = [status |-> parser'.status, body |-> parser'.data, late |-> expired /\ finished # "no"]
  /\ UNCHANGED <<script, wrote, got, step, expired>>

Init ==
  /\ script \in Scripts
  /\ life = "runs" /\ wrote = 0 /\ got = 0
  /\ parser = Fresh /\ step = Idle /\ finished = "no" /\ expired = FALSE /\ answer = Pending

Next ==
  \/ (\E n \in Parts \cup {Len(script.text) - wrote} : Write(n)) \/ Leave \/ End \/ Expire
  \/ (answer = Pending /\ (Woken \/ ReadPipe \/ Wait)) \/ ClientTurn

Spec == Init /\ [][Next]_vars

-----------------------------------------------------------------------------
\* However the script, the clock and the server's events fall together, a client that can
\* be written to in time is told what the script said: its status and its whole body when
\* the pipe was closed before the last read, that it failed, or that time was up
\* (IOCGIHandler::handle(), CGIResponseParser::parse()).  What a script writes between
\* the last read and its end, or while its time runs out, is lost, and so is what one had
\* left to write that was killed: then the body is a beginning of what it said.
Says(a, status, body) == a.status = <<status>> /\ a.body = <<body>>

\* The line ends a body begins with are taken for those behind the header, and those of a
\* header with nothing behind it for the body.
Told(body) == IF NotOf(body, Chars(CRLF), 1) = 0 THEN HeadEnd \o body ELSE From(body, NotOf(body, Chars(CRLF), 1))

Whole(a, s) == a.status = s.status /\ a.body = IF s.headed THEN Told(s.body) ELSE <<>>

Beginning(a, s) ==
  /\ a.status \in {s.status, Fresh.status}
  /\ a.body = <<>> \/ \E k \in 0 .. Len(s.body) : a.body = Told(SubSeq(s.body, 1, k))

ScriptIsHeard ==
  answer # Pending /\ ~answer.late =>
    CASE finished = "timeout"   -> Says(answer, "504", "timeout")
      [] script.ends = "badly" /\ finished \notin {"timeout", "cut"} -> Says(answer, "500", "error")
      [] finished = "closed" /\ script.ends = "well" -> Whole(answer, script)
      [] OTHER                  -> Beginning(answer, script)

\* What the parser makes of a text that is all there is, and that it makes of the texts of
\* the handler and of a script, and of each beginning of it, what is meant.
Answered(text) == LET p == parse(Fresh, text) IN [status |-> p.status, body |-> p.data]

ScriptOK(s) ==
  /\ Len(s.text) \in Nat /\ s.text = SubSeq(s.text, 1, Len(s.text))
  /\ s.ends = "well" => Whole(Answered(s.text), s)
  /\ \A k \in 0 .. Len(s.text) : Beginning(Answered(SubSeq(s.text, 1, k)), s)

ConstantsAssumption ==
  /\ Parts \subseteq Nat
  /\ Says(Answered(Text504), "504", "timeout") /\ Says(Answered(Text500), "500", "error")
  /\ \A s \in Scripts : ScriptOK(s)
===============================================================================
