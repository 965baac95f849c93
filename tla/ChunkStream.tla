------------------------------ MODULE ChunkStream ------------------------------
(***************************************************************************)
(* A file that webserv sends in chunks: one call of                        *)
(* HTTPResponseSender::send(), with stream_file_chunked() in it, each time *)
(* the client's socket can be written to, until the last chunk is out.     *)
(* Requests of one connection follow one another; a file does not change   *)
(* while it is sent.                                                       *)
(*                                                                         *)
(* A step is one call.  What write() takes is up to the socket: all, a     *)
(* part, or nothing (an error, EAGAIN included).  peer is a client that    *)
(* decodes what it gets, chunk by chunk.                                   *)
(***************************************************************************)
EXTENDS Integers

CONSTANTS
  Lengths,    \* sizes of the files that are asked for
  ChunkSize,  \* chunked_size of the location
  Wire,       \* what an encoded chunk is on the wire, in units write() can take
  NONE        \* stream_pending_data.empty()

Chunks == [from : Nat, to : Nat]

ASSUME SizesAssumption == Lengths \subseteq Nat /\ ChunkSize \in Nat \ {0} /\ Wire \in Nat \ {0}
ASSUME NoneAssumption == NONE \notin Chunks

VARIABLES
  state,      \* "idle", "asked" (a request is being answered) or "closed"
  length,     \* size of the file
  streaming,  \* is_streaming and stream_headers_sent, set and reset together
  offset,     \* stream_offset
  pending,    \* stream_pending_data
  sent,       \* stream_pending_sent
  peer,       \* what the client has decoded of this answer
  cut         \* a data chunk of this answer was not taken whole

request == <<streaming, offset, pending, sent>>
vars    == <<state, length, request, peer, cut>>

\* A chunk, by the bytes of the file in it; the empty one, "0\r\n\r\n", is the last.
DataTo(from) == IF from + ChunkSize < length THEN from + ChunkSize ELSE length
Data         == [from |-> offset, to |-> DataTo(offset)]
Final        == [from |-> 0, to |-> 0]
IsFinal(c)   == c.from = c.to

-----------------------------------------------------------------------------
(* The client: units of chunk at have come; all of the file below upto is in  *)
(* whole chunks.                                                              *)

NewPeer == [head |-> FALSE, upto |-> 0, at |-> Final, units |-> 0, torn |-> FALSE,
            twice |-> FALSE, ended |-> FALSE]

\* Units done+1 .. done+w of chunk c arrive at client r.
Arrive(r, c, done, w) ==
  LET whole == done + w = Wire
  IN  [head  |-> r.head,
       upto  |-> IF whole /\ c.from <= r.upto /\ r.upto < c.to THEN c.to ELSE r.upto,
       at    |-> c,
       units |-> IF whole THEN 0 ELSE done + w,
       torn  |-> r.torn \/ ~r.head \/ r.ended \/ r.units # done \/ (done > 0 /\ r.at # c),
       twice |-> r.twice \/ (whole /\ ~IsFinal(c) /\ c.to <= r.upto),
       ended |-> r.ended \/ (whole /\ IsFinal(c))]

-----------------------------------------------------------------------------
(* send() up to the chunks *)

\* The headers go out in the first call only.
Headed == IF streaming THEN peer
          ELSE [peer EXCEPT !.head = TRUE, !.torn = peer.torn \/ peer.head]

\* is_streaming is not set yet: the offset and what is pending are reset.
Offset == IF streaming THEN offset ELSE 0
Kept   == IF streaming THEN pending ELSE NONE

-----------------------------------------------------------------------------
(* stream_file_chunked().  Units 0 stands for a failed write() as well: it    *)
(* returns Status::OK() and keeps the text.                                   *)

Rest == Wire - sent

PartOfPending ==
  /\ Kept # NONE
  /\ \E w \in 0 .. Rest - 1 :
       /\ sent' = sent + w
       /\ peer' = IF w = 0 THEN peer ELSE Arrive(peer, pending, sent, w)
  /\ UNCHANGED <<state, length, streaming, offset, pending, cut>>

\* The last chunk is out: finished, and handle_default_request() resets the request.
IsLast == Kept # NONE /\ IsFinal(pending)

Finished ==
  /\ IsLast
  /\ peer' = Arrive(peer, pending, sent, Rest)
  /\ state' = "idle"
  /\ streaming' = FALSE
  /\ offset' = 0
  /\ pending' = NONE
  /\ sent' = 0
  /\ UNCHANGED <<length, cut>>

\* What the client has once the pending text, if there is any, is out.
Flushed == IF Kept = NONE THEN Headed ELSE Arrive(Headed, pending, sent, Rest)

\* Nothing is left to read: the last chunk waits for the next call.
AtEnd == Offset >= length

NoChunk ==
  /\ AtEnd
  /\ peer' = Flushed
  /\ offset' = Offset
  /\ pending' = Final
  /\ sent' = 0
  /\ UNCHANGED cut

\* The socket takes a part of the next chunk: it is kept whole, the offset stays.
Keep_all(w) == pending' = Data /\ sent' = 0     \* mutant: the part is sent again
Keep(w) == pending' = Data /\ sent' = w

PartOfChunk ==
  /\ ~AtEnd
  /\ \E w \in 0 .. Wire - 1 :
       /\ Keep(w)
       /\ peer' = IF w = 0 THEN Flushed ELSE Arrive(Flushed, Data, 0, w)
  /\ offset' = Offset
  /\ cut' = TRUE

\* It takes all of it.
Advance_full ==                         \* mutant: a short last chunk is not counted
  IF Offset + ChunkSize > length THEN Offset ELSE DataTo(Offset)
Advance == DataTo(Offset)

WholeChunk ==
  /\ ~AtEnd
  /\ peer' = Arrive(Flushed, Data, 0, Wire)
  /\ offset' = Advance
  /\ pending' = IF Advance >= length THEN Final ELSE NONE
  /\ sent' = 0
  /\ UNCHANGED cut

NextChunk ==
  /\ ~IsLast
  /\ NoChunk \/ PartOfChunk \/ WholeChunk
  /\ streaming' = TRUE
  /\ UNCHANGED <<state, length>>

-----------------------------------------------------------------------------

Send == state = "asked" /\ (PartOfPending \/ Finished \/ NextChunk)

\* The headers cannot be written or the file not be opened: the connection closes.
Fail ==
  /\ state = "asked"
  /\ state' = "closed"
  /\ UNCHANGED <<length, request, peer, cut>>

\* The next request of the connection.
Ask ==
  /\ state = "idle"
  /\ state' = "asked"
  /\ length' \in Lengths
  /\ peer' = NewPeer
  /\ cut' = FALSE
  /\ UNCHANGED request

Closed == state = "closed" /\ UNCHANGED vars

Init ==
  /\ state = "idle"
  /\ length \in Lengths
  /\ streaming = FALSE
  /\ offset = 0
  /\ pending = NONE
  /\ sent = 0
  /\ peer = NewPeer
  /\ cut = FALSE

Next == Send \/ Fail \/ Ask \/ Closed

Spec == Init /\ [][Next]_vars

\* Again and again the socket takes all it is offered in a call.
AllTaken == state = "asked" /\ (Finished \/ (NextChunk /\ (NoChunk \/ WholeChunk)))

FairSpec == Spec /\ WF_vars(AllTaken)

-----------------------------------------------------------------------------
PeerType == [head : BOOLEAN, upto : Nat, at : Chunks, units : 0 .. Wire - 1,
             torn : BOOLEAN, twice : BOOLEAN, ended : BOOLEAN]

\* Types; the offset stays inside the file.
TypeOK ==
  /\ state \in {"idle", "asked", "closed"}
  /\ length \in Lengths
  /\ streaming \in BOOLEAN
  /\ offset \in 0 .. length
  /\ pending \in Chunks \cup {NONE}
  /\ sent \in 0 .. Wire - 1
  /\ peer \in PeerType
  /\ cut \in BOOLEAN

\* The client is never lost: headers once and first, then chunks, each of them to
\* its end before the next begins, however the writes of the calls were cut.
NeverTorn == ~peer.torn

\* A request is only over (and its state reset for the next one) when the client has
\* the file to its end and the last chunk after it.
AnsweredIsWhole ==
  state = "idle" => peer = NewPeer \/ (peer.ended /\ peer.upto = length)

\* Both: a client can tell the chunks apart, and has them all when it is told so.
ClientIsServed == NeverTorn /\ AnsweredIsWhole

\* Without a short or failed write the client gets each chunk once.  (With one it
\* gets that chunk again: the offset is not moved when the rest of it is out.)
OnceUnlessCut == peer.twice => cut

\* A stream comes to its end when the socket takes whole chunks often enough.
StreamEnds == (state = "asked") ~> (state # "asked")

-----------------------------------------------------------------------------
(* What the invariants above need to be inductive. *)

\* The client is where the request says: it waits for the rest of what is pending,
\* and has the file up to the offset, or one chunk more when a write was cut.
InStep ==
  /\ state = "idle" => ~streaming
  /\ ~streaming => offset = 0 /\ pending = NONE
  /\ pending = NONE => sent = 0
  /\ state = "asked" =>
       /\ ~peer.ended
       /\ (peer.head <=> streaming)
       /\ peer.units = sent
       /\ sent > 0 => peer.at = pending
       /\ pending # NONE => \/ IsFinal(pending) /\ offset = length
                            \/ ~IsFinal(pending) /\ cut /\ pending = Data
       /\ offset <= peer.upto /\ peer.upto <= length
       /\ ~cut => peer.upto = offset
=============================================================================
