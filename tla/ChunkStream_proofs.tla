--------------------------- MODULE ChunkStream_proofs ---------------------------
(* What a client gets of a file that is sent in chunks, for files and chunks of  *)
(* any size and any sequence of short and failed writes; and what is kept of the *)
(* files that clients send (Upload), for any number of clients, any forms of one *)
(* file and any pieces in which they arrive.                                     *)
EXTENDS ChunkStream, Sequences, WellFoundedInduction, TLAPS

IInv == TypeOK /\ NeverTorn /\ AnsweredIsWhole /\ OnceUnlessCut /\ InStep

\* Every formula below is read with these.
LEMMA Sizes == Lengths \subseteq Nat /\ ChunkSize \in Nat \ {0} /\ Wire \in Nat \ {0} /\ NONE \notin Chunks
  BY SizesAssumption, NoneAssumption

\* A chunk that is read is not empty and lies inside the file.
LEMMA DataInFile ==
  ASSUME TypeOK, InStep, ~AtEnd
  PROVE  /\ Data \in Chunks /\ Data # NONE
         /\ Data.from = Offset /\ Data.to = DataTo(Offset) /\ Offset < Data.to
         /\ Data.to \in 0 .. length /\ ~IsFinal(Data)
<1> length \in Nat /\ Offset \in Nat /\ Offset < length
  BY Sizes DEF TypeOK, AtEnd, Offset
<1>1. DataTo(Offset) \in 0 .. length /\ Offset < DataTo(Offset)
  BY Sizes DEF DataTo
<1>2. Offset = offset
  BY DEF InStep, Offset
<1> QED BY <1>1, <1>2, Sizes DEF Data, Chunks, IsFinal

\* A client that has just asked has seen no head and no unit of the answer yet.
LEMMA NewPeerFields ==
  /\ NewPeer \in PeerType
  /\ ~NewPeer.head /\ ~NewPeer.torn /\ ~NewPeer.twice /\ ~NewPeer.ended
  /\ NewPeer.upto = 0 /\ NewPeer.units = 0
  BY Sizes DEF NewPeer, PeerType, Final, Chunks

\* The inductive invariant holds of a handler that was asked nothing yet.
LEMMA InvInit == Init => IInv
<1> SUFFICES ASSUME Init PROVE IInv
  OBVIOUS
<1>1. length \in Nat
  BY Sizes DEF Init
<1>2. TypeOK
  <2>1. offset \in 0 .. length /\ sent \in 0 .. Wire - 1
    BY Sizes, <1>1 DEF Init
  <2>2. peer \in PeerType /\ streaming \in BOOLEAN /\ cut \in BOOLEAN
    BY NewPeerFields DEF Init
  <2> QED BY <2>1, <2>2 DEF Init, TypeOK
<1>3. NeverTorn /\ AnsweredIsWhole /\ OnceUnlessCut
  BY NewPeerFields DEF Init, NeverTorn, AnsweredIsWhole, OnceUnlessCut
<1>4. InStep
  <2>1. ~streaming /\ state # "asked" /\ offset = 0 /\ pending = NONE /\ sent = 0
    BY DEF Init
  <2> QED BY <2>1 DEF InStep
<1> QED BY <1>2, <1>3, <1>4 DEF IInv

\* What a client has when units of a chunk arrive.
LEMMA Arrives ==
  ASSUME NEW r \in PeerType, NEW c \in Chunks, NEW done \in Nat, NEW w \in Nat \ {0},
         done + w <= Wire
  PROVE  LET a == Arrive(r, c, done, w) IN
         /\ a \in PeerType
         /\ a.head <=> r.head
         /\ a.at = c
         /\ a.units = IF done + w = Wire THEN 0 ELSE done + w
         /\ a.torn <=> r.torn \/ ~r.head \/ r.ended \/ r.units # done \/ (done > 0 /\ r.at # c)
         /\ a.upto = IF done + w = Wire /\ c.from <= r.upto /\ r.upto < c.to THEN c.to ELSE r.upto
         /\ a.twice <=> r.twice \/ (done + w = Wire /\ ~IsFinal(c) /\ c.to <= r.upto)
         /\ a.ended <=> r.ended \/ (done + w = Wire /\ IsFinal(c))
<1> DEFINE whole == done + w = Wire
           up    == IF whole /\ c.from <= r.upto /\ r.upto < c.to THEN c.to ELSE r.upto
           un    == IF whole THEN 0 ELSE done + w
           to    == r.torn \/ ~r.head \/ r.ended \/ r.units # done \/ (done > 0 /\ r.at # c)
           tw    == r.twice \/ (whole /\ ~IsFinal(c) /\ c.to <= r.upto)
           en    == r.ended \/ (whole /\ IsFinal(c))
<1>1. up \in Nat /\ un \in 0 .. Wire - 1
  BY Sizes DEF PeerType, Chunks
<1>2. to \in BOOLEAN /\ tw \in BOOLEAN /\ en \in BOOLEAN /\ r.head \in BOOLEAN
  BY DEF PeerType
<1>3. Arrive(r, c, done, w) = [head |-> r.head, upto |-> up, at |-> c, units |-> un,
                               torn |-> to, twice |-> tw, ended |-> en]
  BY DEF Arrive
<1> HIDE DEF whole, up, un, to, tw, en
<1>4. Arrive(r, c, done, w) \in PeerType
  BY <1>1, <1>2, <1>3 DEF PeerType
<1>5. LET a == Arrive(r, c, done, w) IN
      a.head = r.head /\ a.upto = up /\ a.at = c /\ a.units = un
        /\ a.torn = to /\ a.twice = tw /\ a.ended = en
  BY <1>3
<1> QED BY <1>4, <1>5 DEF whole, up, un, to, tw, en

\* The client of an answer that has been begun, once what is pending is out.
LEMMA FlushedFields ==
  ASSUME IInv, state = "asked", ~IsLast
  PROVE  /\ Flushed \in PeerType
         /\ Flushed.head /\ Flushed.units = 0 /\ ~Flushed.torn /\ ~Flushed.ended
         /\ Flushed.twice => cut
         /\ Offset <= Flushed.upto /\ Flushed.upto <= length
         /\ ~cut => Flushed.upto = Offset
         /\ Offset = offset
<1> TypeOK /\ InStep /\ NeverTorn /\ OnceUnlessCut
  BY DEF IInv
<1>0. Offset = offset
  BY DEF Offset, InStep
<1>1. CASE Kept = NONE
  <2>1. pending = NONE /\ Flushed = Headed
    BY <1>1 DEF Flushed, Kept, InStep
  <2>2. CASE streaming
    <3>1. Headed = peer
      BY <2>2 DEF Headed
    <3> QED BY <1>0, <2>1, <2>2, <3>1 DEF TypeOK, InStep, NeverTorn, OnceUnlessCut
  <2>3. CASE ~streaming
    <3>1. Headed = [peer EXCEPT !.head = TRUE, !.torn = peer.torn \/ peer.head]
      BY <2>3 DEF Headed
    <3>2. peer \in PeerType /\ ~peer.torn /\ ~peer.head /\ ~peer.ended /\ peer.units = 0
      BY <2>1, <2>3 DEF TypeOK, NeverTorn, InStep
    <3>3. Headed = [peer EXCEPT !.head = TRUE, !.torn = FALSE]
      BY <3>1, <3>2
    <3>4. /\ Headed \in PeerType /\ Headed.head /\ ~Headed.torn
          /\ Headed.units = peer.units /\ Headed.ended = peer.ended
          /\ Headed.twice = peer.twice /\ Headed.upto = peer.upto
      BY <3>2, <3>3 DEF PeerType
    <3> QED BY <1>0, <2>1, <3>2, <3>4 DEF TypeOK, InStep, OnceUnlessCut
  <2> QED BY <2>2, <2>3
<1>2. CASE Kept # NONE
  <2>1. streaming /\ Kept = pending /\ pending # NONE /\ ~IsFinal(pending) /\ Headed = peer
    BY <1>2 DEF Kept, Headed, IsLast
  <2>2. /\ cut /\ pending = Data /\ pending \in Chunks
        /\ peer \in PeerType /\ peer.head /\ ~peer.torn /\ ~peer.ended
        /\ peer.units = sent /\ (sent > 0 => peer.at = pending)
        /\ offset <= peer.upto /\ peer.upto <= length
    BY <2>1 DEF InStep, TypeOK, NeverTorn
  <2>3. sent \in Nat /\ Rest \in Nat \ {0} /\ sent + Rest = Wire
    BY Sizes DEF TypeOK, Rest
  <2>4. ~AtEnd
    BY <1>0, <2>1, <2>2, Sizes DEF AtEnd, IsFinal, Data, DataTo, TypeOK
  <2>5. Data.from = offset /\ offset < Data.to /\ Data.to \in 0 .. length
    BY <2>4, <1>0, DataInFile
  <2>6. Flushed = Arrive(peer, pending, sent, Rest)
    BY <1>2, <2>1 DEF Flushed
  <2>7. offset \in Nat /\ length \in Nat /\ peer.upto \in Nat
    BY Sizes, <2>2 DEF TypeOK, PeerType
  <2> QED BY <1>0, <2>1, <2>2, <2>3, <2>5, <2>6, <2>7, Arrives
<1> QED BY <1>1, <1>2

\* The types arithmetic needs.
LEMMA Typed ==
  ASSUME TypeOK
  PROVE  /\ length \in Nat /\ offset \in Nat /\ sent \in Nat /\ Rest \in Nat \ {0}
         /\ sent + Rest = Wire /\ peer \in PeerType /\ peer.upto \in Nat
  BY Sizes DEF TypeOK, Rest, PeerType

\* It survives a send that writes only part of the chunk kept from before.
LEMMA PartOfPendingStep == IInv /\ state = "asked" /\ PartOfPending => IInv'
<1> SUFFICES ASSUME IInv, state = "asked", PartOfPending PROVE IInv'
  OBVIOUS
<1> TypeOK /\ InStep /\ NeverTorn /\ OnceUnlessCut
  BY DEF IInv
<1>1. streaming /\ pending # NONE /\ pending \in Chunks
  BY DEF PartOfPending, Kept, TypeOK
<1>2. /\ peer \in PeerType /\ peer.head /\ ~peer.torn /\ ~peer.ended
      /\ peer.units = sent /\ (sent > 0 => peer.at = pending)
      /\ offset <= peer.upto /\ peer.upto <= length /\ (peer.twice => cut)
      /\ (~cut => peer.upto = offset)
  BY <1>1 DEF InStep, TypeOK, NeverTorn, OnceUnlessCut
<1>3. PICK w \in 0 .. Rest - 1 :
        /\ sent' = sent + w
        /\ peer' = IF w = 0 THEN peer ELSE Arrive(peer, pending, sent, w)
  BY DEF PartOfPending
<1>4. sent + w \in 0 .. Wire - 1 /\ sent + w # Wire
  BY <1>3, Typed
<1>5. /\ peer' \in PeerType /\ peer'.head /\ ~peer'.torn /\ ~peer'.ended
      /\ peer'.units = sent + w /\ (sent + w > 0 => peer'.at = pending)
      /\ peer'.upto = peer.upto /\ (peer'.twice <=> peer.twice)
  <2>1. CASE w = 0
    BY <1>2, <1>3, <2>1, Typed
  <2>2. CASE w # 0
    <3>1. peer' = Arrive(peer, pending, sent, w) /\ w \in Nat \ {0} /\ sent + w <= Wire
      BY <1>3, <1>4, <2>2, Typed
    <3> QED BY <1>1, <1>2, <1>4, <3>1, Arrives, Typed
  <2> QED BY <2>1, <2>2
<1>6. UNCHANGED <<state, length, streaming, offset, pending, cut>>
  BY DEF PartOfPending
<1>7. TypeOK'
  BY <1>3, <1>4, <1>5, <1>6 DEF TypeOK
<1>8. NeverTorn' /\ OnceUnlessCut' /\ AnsweredIsWhole'
  BY <1>2, <1>5, <1>6 DEF NeverTorn, OnceUnlessCut, AnsweredIsWhole
<1>9. InStep'
  <2>1. Data' = Data
    BY <1>6 DEF Data, DataTo, Offset
  <2> QED BY <1>1, <1>2, <1>3, <1>5, <1>6, <2>1 DEF InStep
<1> QED BY <1>7, <1>8, <1>9 DEF IInv

\* It survives the send that writes the rest of the kept terminating chunk
\* and clears the streaming state.
LEMMA FinishedStep == IInv /\ state = "asked" /\ Finished => IInv'
<1> SUFFICES ASSUME IInv, state = "asked", Finished PROVE IInv'
  OBVIOUS
<1> TypeOK /\ InStep /\ NeverTorn /\ OnceUnlessCut
  BY DEF IInv
<1>1. streaming /\ pending # NONE /\ pending \in Chunks /\ IsFinal(pending)
  BY DEF Finished, IsLast, Kept, TypeOK
<1>2. /\ peer \in PeerType /\ peer.head /\ ~peer.torn /\ ~peer.ended
      /\ peer.units = sent /\ (sent > 0 => peer.at = pending)
      /\ offset = length /\ peer.upto = length /\ (peer.twice => cut)
  <2>1. offset = length /\ offset <= peer.upto /\ peer.upto <= length
    BY <1>1 DEF InStep
  <2>2. peer.upto = length
    BY <2>1, Typed
  <2> QED BY <1>1, <2>1, <2>2 DEF InStep, TypeOK, NeverTorn, OnceUnlessCut
<1>3. peer' = Arrive(peer, pending, sent, Rest)
  BY DEF Finished
<1>4. /\ peer' \in PeerType /\ ~peer'.torn /\ peer'.ended
      /\ (peer'.twice => cut)
  BY <1>1, <1>2, <1>3, Arrives, Typed
<1>5. peer'.upto = length
  <2>1. pending.from = pending.to /\ pending.to \in Nat
    BY <1>1 DEF IsFinal, Chunks
  <2> QED BY <1>1, <1>2, <1>3, <2>1, Arrives, Typed
<1>6. /\ state' = "idle" /\ ~streaming' /\ offset' = 0 /\ pending' = NONE /\ sent' = 0
      /\ streaming' \in BOOLEAN /\ length' = length /\ cut' = cut
  BY DEF Finished
<1>7. TypeOK'
  BY <1>4, <1>6, Typed, Sizes DEF TypeOK
<1>8. NeverTorn' /\ OnceUnlessCut' /\ AnsweredIsWhole' /\ InStep'
  BY <1>4, <1>5, <1>6 DEF NeverTorn, OnceUnlessCut, AnsweredIsWhole, InStep
<1> QED BY <1>7, <1>8 DEF IInv

\* It survives a send at the end of the file of which nothing is written: the
\* terminating chunk is kept.
LEMMA NoChunkStep == IInv /\ state = "asked" /\ NextChunk /\ NoChunk => IInv'
<1> SUFFICES ASSUME IInv, state = "asked", NextChunk, NoChunk PROVE IInv'
  OBVIOUS
<1> TypeOK /\ InStep
  BY DEF IInv
<1>1. /\ peer' = Flushed /\ offset' = offset /\ pending' = Final /\ sent' = 0 /\ cut' = cut
      /\ state' = "asked" /\ length' = length /\ streaming' /\ streaming' \in BOOLEAN
      /\ Offset >= length
  BY FlushedFields DEF NextChunk, NoChunk, AtEnd
<1>2. /\ peer' \in PeerType /\ peer'.head /\ peer'.units = 0 /\ ~peer'.torn /\ ~peer'.ended
      /\ (peer'.twice => cut) /\ offset <= peer'.upto /\ peer'.upto <= length
      /\ (~cut => peer'.upto = offset) /\ offset >= length
  BY <1>1, FlushedFields DEF NextChunk
<1>3. Final \in Chunks /\ IsFinal(Final) /\ Final # NONE
  BY Sizes DEF Final, Chunks, IsFinal
<1>4. offset = length
  BY <1>2, Typed DEF TypeOK
<1>5. TypeOK'
  BY <1>1, <1>2, <1>3, Sizes DEF TypeOK
<1>6. NeverTorn' /\ OnceUnlessCut' /\ AnsweredIsWhole'
  BY <1>1, <1>2 DEF NeverTorn, OnceUnlessCut, AnsweredIsWhole
<1>7. InStep'
  BY <1>1, <1>2, <1>3, <1>4 DEF InStep
<1> QED BY <1>5, <1>6, <1>7 DEF IInv

\* It survives a send of which part of a fresh chunk is written and the rest kept.
LEMMA PartOfChunkStep == IInv /\ state = "asked" /\ NextChunk /\ PartOfChunk => IInv'
<1> SUFFICES ASSUME IInv, state = "asked", NextChunk, PartOfChunk PROVE IInv'
  OBVIOUS
<1> TypeOK /\ InStep
  BY DEF IInv
<1>0. Offset = offset /\ ~AtEnd /\ ~IsLast
  BY FlushedFields DEF NextChunk, PartOfChunk
<1>1. PICK w \in 0 .. Wire - 1 :
        /\ pending' = Data /\ sent' = w
        /\ peer' = IF w = 0 THEN Flushed ELSE Arrive(Flushed, Data, 0, w)
  BY DEF PartOfChunk, Keep
<1>2. /\ offset' = offset /\ cut' /\ cut' \in BOOLEAN /\ state' = "asked" /\ length' = length
      /\ streaming' /\ streaming' \in BOOLEAN
  BY <1>0 DEF NextChunk, PartOfChunk
<1>3. /\ Data \in Chunks /\ Data # NONE /\ ~IsFinal(Data)
  BY <1>0, DataInFile
<1>4. /\ peer' \in PeerType /\ peer'.head /\ ~peer'.torn /\ ~peer'.ended
      /\ peer'.units = w /\ (w > 0 => peer'.at = Data)
      /\ offset <= peer'.upto /\ peer'.upto <= length
  <2>1. CASE w = 0
    BY <1>0, <1>1, <2>1, FlushedFields
  <2>2. CASE w # 0
    <3>1. peer' = Arrive(Flushed, Data, 0, w) /\ w \in Nat \ {0} /\ 0 + w <= Wire /\ 0 + w # Wire
      BY <1>1, <2>2, Sizes
    <3> QED BY <1>0, <1>3, <3>1, FlushedFields, Arrives
  <2> QED BY <2>1, <2>2
<1>5. TypeOK'
  BY <1>1, <1>2, <1>3, <1>4 DEF TypeOK
<1>6. NeverTorn' /\ OnceUnlessCut' /\ AnsweredIsWhole'
  BY <1>2, <1>4 DEF NeverTorn, OnceUnlessCut, AnsweredIsWhole
<1>7. InStep'
  <2>1. Data' = Data
    BY <1>0, <1>2 DEF Data, DataTo, Offset
  <2> QED BY <1>1, <1>2, <1>3, <1>4, <2>1 DEF InStep
<1> QED BY <1>5, <1>6, <1>7 DEF IInv

\* It survives the send of a whole chunk, after which the offset moves on.
LEMMA WholeChunkStep == IInv /\ state = "asked" /\ NextChunk /\ WholeChunk => IInv'
<1> SUFFICES ASSUME IInv, state = "asked", NextChunk, WholeChunk PROVE IInv'
  OBVIOUS
<1> TypeOK /\ InStep
  BY DEF IInv
<1>0. Offset = offset /\ ~AtEnd /\ ~IsLast
  BY FlushedFields DEF NextChunk, WholeChunk
<1>1. /\ peer' = Arrive(Flushed, Data, 0, Wire) /\ offset' = Data.to /\ sent' = 0
      /\ pending' = (IF Data.to >= length THEN Final ELSE NONE) /\ cut' = cut
      /\ state' = "asked" /\ length' = length /\ streaming' /\ streaming' \in BOOLEAN
  BY <1>0, DataInFile DEF NextChunk, WholeChunk, Advance
<1>2. /\ Data \in Chunks /\ ~IsFinal(Data) /\ Data.from = offset /\ offset < Data.to
      /\ Data.to \in 0 .. length /\ Data.to \in Nat
  BY <1>0, DataInFile DEF Chunks
<1>3. /\ Flushed \in PeerType /\ Flushed.head /\ Flushed.units = 0 /\ ~Flushed.torn
      /\ ~Flushed.ended /\ (Flushed.twice => cut) /\ offset <= Flushed.upto
      /\ Flushed.upto <= length /\ (~cut => Flushed.upto = offset) /\ Flushed.upto \in Nat
  BY <1>0, FlushedFields DEF PeerType
<1>4. Wire \in Nat \ {0} /\ 0 + Wire <= Wire /\ 0 + Wire = Wire /\ ~(0 > 0)
  BY Sizes
<1>5. /\ peer' \in PeerType /\ peer'.head /\ ~peer'.torn /\ ~peer'.ended /\ peer'.units = 0
      /\ peer'.upto = IF Data.from <= Flushed.upto /\ Flushed.upto < Data.to
                      THEN Data.to ELSE Flushed.upto
      /\ (peer'.twice <=> Flushed.twice \/ Data.to <= Flushed.upto)
  BY <1>1, <1>2, <1>3, <1>4, Arrives
<1>6. /\ Data.to <= peer'.upto /\ peer'.upto <= length
      /\ (~cut => peer'.upto = Data.to) /\ (peer'.twice => cut)
  BY <1>2, <1>3, <1>5, Typed
<1>7. Final \in Chunks /\ IsFinal(Final) /\ Final # NONE
  BY Sizes DEF Final, Chunks, IsFinal
<1>8. TypeOK'
  BY <1>1, <1>2, <1>5, <1>7, Sizes DEF TypeOK
<1>9. NeverTorn' /\ OnceUnlessCut' /\ AnsweredIsWhole'
  BY <1>1, <1>5, <1>6 DEF NeverTorn, OnceUnlessCut, AnsweredIsWhole
<1>10. InStep'
  <2>1. pending' # NONE => IsFinal(pending') /\ offset' = length'
    BY <1>1, <1>2, <1>7, Typed
  <2> QED BY <1>1, <1>5, <1>6, <2>1 DEF InStep
<1> QED BY <1>8, <1>9, <1>10 DEF IInv

\* It survives a new request of the client: the state of the last answer is gone.
LEMMA AskStep == IInv /\ Ask => IInv'
<1> SUFFICES ASSUME IInv, Ask PROVE IInv'
  OBVIOUS
<1> TypeOK /\ InStep
  BY DEF IInv
<1>1. /\ state' = "asked" /\ length' \in Lengths /\ peer' = NewPeer /\ ~cut' /\ cut' \in BOOLEAN
      /\ UNCHANGED <<streaming, offset, pending, sent>>
  BY DEF Ask, request
<1>2. ~streaming /\ offset = 0 /\ pending = NONE /\ sent = 0
  BY DEF InStep, Ask
<1>3. length' \in Nat
  BY <1>1, Sizes
<1>4. TypeOK'
  BY <1>1, <1>2, <1>3, NewPeerFields DEF TypeOK
<1>5. NeverTorn' /\ OnceUnlessCut' /\ AnsweredIsWhole'
  BY <1>1, NewPeerFields DEF NeverTorn, OnceUnlessCut, AnsweredIsWhole
<1>6. InStep'
  BY <1>1, <1>2, <1>3, NewPeerFields DEF InStep
<1> QED BY <1>4, <1>5, <1>6 DEF IInv

\* It is inductive: every step of the handler, and a step that fails, keeps it.
LEMMA InvStep == IInv /\ [Next]_vars => IInv'
<1> SUFFICES ASSUME IInv, [Next]_vars PROVE IInv'
  OBVIOUS
<1>1. CASE Fail
  BY <1>1 DEF Fail, IInv, TypeOK, NeverTorn, AnsweredIsWhole, OnceUnlessCut, InStep, request
<1>2. CASE UNCHANGED vars
  BY <1>2 DEF IInv, TypeOK, NeverTorn, AnsweredIsWhole, OnceUnlessCut, InStep, vars, request,
     Data, DataTo, Offset
<1>3. CASE Send
  BY <1>3, PartOfPendingStep, FinishedStep, NoChunkStep, PartOfChunkStep, WholeChunkStep
     DEF Send, NextChunk
<1> QED BY <1>1, <1>2, <1>3, AskStep DEF Next, Closed

\* The strengthening holds in every reachable state.
THEOREM Invariance == Spec => []IInv
  BY InvInit, InvStep, PTL DEF Spec

\* Types.
THEOREM TypeCorrect == Spec => []TypeOK
<1>1. IInv => TypeOK
  BY DEF IInv
<1> QED BY <1>1, Invariance, PTL

\* However the writes are cut, a client finds where each chunk begins and ends, and an
\* answer that is over has brought the whole file.
THEOREM WholeAnswers == Spec => []ClientIsServed
<1>1. IInv => ClientIsServed
  BY DEF IInv, ClientIsServed
<1> QED BY <1>1, Invariance, PTL

\* A socket that takes what it is offered gets each chunk once.
THEOREM NothingTwice == Spec => []OnceUnlessCut
<1>1. IInv => OnceUnlessCut
  BY DEF IInv
<1> QED BY <1>1, Invariance, PTL

-----------------------------------------------------------------------------
(* Numbers and sequences.                                                     *)

\* A set of numbers has a least one.
LEMMA LeastOf ==
  ASSUME NEW T \in SUBSET Nat, T # {}
  PROVE  \E n \in T : \A m \in T : n =< m
<1>1. PICK n \in T : \A m \in T : ~(<<m, n>> \in OpToRel(<, Nat))
  BY NatLessThanWellFounded, WFMin
<1>2. ASSUME NEW m \in T PROVE ~(m < n)
  <2>1. n \in Nat /\ m \in Nat /\ ~(<<m, n>> \in OpToRel(<, Nat))
    BY <1>1
  <2> QED BY <2>1, Zenon DEF OpToRel
<1>3. \A m \in T : n =< m
  BY <1>2
<1> QED BY <1>3

\* What holds of 0, and of n + 1 when it holds of n, holds of every number.
LEMMA AllNumbers ==
  ASSUME NEW T, 0 \in T, \A n \in Nat : n \in T => n + 1 \in T
  PROVE  Nat \subseteq T
<1> SUFFICES ASSUME Nat \ T # {} PROVE FALSE
  OBVIOUS
<1>1. PICK n \in Nat \ T : \A m \in Nat \ T : n =< m
  BY LeastOf
<1>2. n - 1 \in Nat /\ n - 1 \in T
  BY <1>1
<1>3. n - 1 + 1 \in T
  BY <1>2
<1> QED BY <1>1, <1>3

\* A part of a sequence.
LEMMA PartIs ==
  ASSUME NEW S, NEW s \in Seq(S), NEW i \in Nat, NEW j \in Nat, 1 =< i, i =< j + 1, j =< Len(s), NEW u, u = SubSeq(s, i, j)
  PROVE  u \in Seq(S) /\ Len(u) \in Nat /\ Len(u) = j - i + 1 /\ \A x \in 1 .. Len(u) : u[x] = s[i + x - 1]
<1>1. CASE i = j + 1
  <2>1. u = << >>
    BY <1>1
  <2> QED BY <1>1, <2>1
<1>2. CASE i =< j
  <2>1. u \in Seq(S) /\ Len(u) = j - i + 1
    BY <1>2
  <2>2. \A x \in 1 .. Len(u) : u[x] = s[i + x - 1]
    BY <1>2, <2>1
  <2> QED BY <1>2, <2>1, <2>2
<1> QED BY <1>1, <1>2

\* One sequence behind the other.
AreJoined(u, s, t) ==
  /\ Len(u) = Len(s) + Len(t)
  /\ \A i \in 1 .. Len(s) : u[i] = s[i]
  /\ \A i \in 1 .. Len(t) : u[Len(s) + i] = t[i]

\* So they are joined.
LEMMA Joining ==
  ASSUME NEW S, NEW s \in Seq(S), NEW t \in Seq(S)
  PROVE  s \o t \in Seq(S) /\ AreJoined(s \o t, s, t)
BY DEF AreJoined

\* Sequences with the same elements are the same.
LEMMA SameTexts ==
  ASSUME NEW S, NEW s \in Seq(S), NEW t \in Seq(S), Len(s) = Len(t), \A i \in 1 .. Len(s) : s[i] = t[i]
  PROVE  s = t
OBVIOUS

\* What is behind t in s, up to r.
IsPiece(v, s, t, r) == Len(v) = r - t /\ \A i \in 1 .. Len(v) : v[i] = s[t + i]

\* It is a part.
LEMMA PieceIs ==
  ASSUME NEW S, NEW s \in Seq(S), NEW t \in Nat, NEW r \in Nat, t =< r, r =< Len(s)
  PROVE  SubSeq(s, t + 1, r) \in Seq(S) /\ IsPiece(SubSeq(s, t + 1, r), s, t, r)
<1>1. PICK u : u = SubSeq(s, t + 1, r)
  OBVIOUS
<1>2. u \in Seq(S) /\ Len(u) = r - t /\ \A i \in 1 .. Len(u) : u[i] = s[t + 1 + i - 1]
  BY <1>1, PartIs
<1>3. \A i \in 1 .. Len(u) : t + 1 + i - 1 = t + i
  BY <1>2
<1> QED BY <1>1, <1>2, <1>3 DEF IsPiece

\* Two such pieces, one behind the other, are one.
LEMMA PieceBehind ==
  ASSUME NEW S, NEW s \in Seq(S), NEW o \in Nat, NEW t \in Nat, NEW r \in Nat, o =< t, t =< r, r =< Len(s)
  PROVE  SubSeq(s, o + 1, t) \o SubSeq(s, t + 1, r) = SubSeq(s, o + 1, r)
<1>0. PICK u, v, w : u = SubSeq(s, o + 1, t) /\ v = SubSeq(s, t + 1, r) /\ w = SubSeq(s, o + 1, r)
  OBVIOUS
<1>1. Len(s) \in Nat /\ t =< Len(s) /\ o =< r
  OBVIOUS
<1>2. u \in Seq(S) /\ Len(u) = t - o /\ \A i \in 1 .. Len(u) : u[i] = s[o + i]
  BY <1>0, <1>1, PieceIs DEF IsPiece
<1>3. v \in Seq(S) /\ Len(v) = r - t /\ \A i \in 1 .. Len(v) : v[i] = s[t + i]
  BY <1>0, <1>1, PieceIs DEF IsPiece
<1>4. w \in Seq(S) /\ Len(w) = r - o /\ \A i \in 1 .. Len(w) : w[i] = s[o + i]
  BY <1>0, <1>1, PieceIs DEF IsPiece
<1>5. PICK z : z = u \o v
  OBVIOUS
<1>6. z \in Seq(S) /\ Len(z) = Len(u) + Len(v) /\ (\A i \in 1 .. Len(u) : z[i] = u[i]) /\ \A i \in 1 .. Len(v) : z[Len(u) + i] = v[i]
  <2>1. u \o v \in Seq(S) /\ AreJoined(u \o v, u, v)
    BY <1>2, <1>3, Joining
  <2> QED BY <1>5, <2>1 DEF AreJoined
<1>7. Len(z) = Len(w)
  BY <1>2, <1>3, <1>4, <1>6
<1>8. ASSUME NEW i \in 1 .. Len(z) PROVE z[i] = w[i]
  <2>1. i \in Nat /\ i \in 1 .. Len(w)
    BY <1>4, <1>7
  <2>2. CASE i =< Len(u)
    <3>1. i \in 1 .. Len(u)
      BY <1>2, <2>1, <2>2
    <3> QED BY <1>2, <1>4, <1>6, <2>1, <3>1
  <2>3. CASE i > Len(u)
    <3>1. PICK x : x = i - Len(u)
      OBVIOUS
    <3>2. x \in 1 .. Len(v) /\ Len(u) + x = i /\ t + x = o + i
      BY <1>2, <1>3, <1>6, <2>1, <2>3, <3>1
    <3>3. z[i] = v[x] /\ v[x] = s[o + i]
      BY <1>3, <1>6, <3>2
    <3> QED BY <1>4, <2>1, <3>3
  <2> QED BY <1>2, <2>1, <2>2, <2>3
<1>9. z = w
  BY <1>4, <1>6, <1>7, <1>8, SameTexts
<1> QED BY <1>0, <1>5, <1>9

-----------------------------------------------------------------------------
(* Upload: the text of a form of one file, and what is found in a piece of it.  *)

CONSTANTS Clients, Files, Bodies, OLD, Deletes, HEAD, NL, BB, DD, NoFile
VARIABLES up, disk, deletes

Ld == INSTANCE Upload WITH NONE <- NoFile

\* The text of a form of the file f with content d.
IsForm(t, f, d) ==
  /\ Len(t) = Len(d) + 10
  /\ t[2] = BB /\ t[3] = NL /\ t[4] = f /\ t[5] = NL /\ t[6] = NL
  /\ \A i \in 1 .. Len(d) : t[6 + i] = d[i]
  /\ t[Len(d) + 7] = NL /\ t[Len(d) + 8] = BB /\ t[Len(d) + 9] = DD /\ t[Len(d) + 10] = NL

\* Neither the name nor the content can be taken for a boundary.
Clear(f, d) ==
  /\ NL # BB /\ NL # DD /\ BB # DD /\ f # NL /\ f # BB
  /\ Len(d) \in Nat /\ Len(d) > 0 /\ \A i \in 1 .. Len(d) : d[i] # BB

\* What a client sends is the text of a form.
LEMMA FormText ==
  ASSUME NEW body, Ld!FormOK(body), NL # BB, NL # DD, BB # DD
  PROVE  \E S : /\ Ld!Text(body) \in Seq(S) /\ body[1].data \in Seq(S)
                /\ IsForm(Ld!Text(body), body[1].file, body[1].data) /\ Clear(body[1].file, body[1].data)
<1>1. PICK f, d : f = body[1].file /\ d = body[1].data
  OBVIOUS
<1>2. PICK R : R = Ld!Range(d)
  OBVIOUS
<1>3. body = <<[file |-> f, data |-> d]>> /\ d \in Seq(R) /\ d # << >> /\ BB \notin R /\ f # NL /\ f # BB
  BY <1>1, <1>2 DEF Ld!FormOK
<1>4. PICK S : S = R \cup {HEAD, NL, BB, DD, f}
  OBVIOUS
<1>5. d \in Seq(S) /\ Len(d) \in Nat /\ Len(d) > 0
  BY <1>3, <1>4
<1>6. \A i \in 1 .. Len(d) : d[i] # BB
  BY <1>2, <1>3 DEF Ld!Range
<1>7. PICK a : a = <<HEAD>>
  OBVIOUS
<1>8. PICK b : b = <<BB, NL, f, NL, NL>> /\ b = Ld!StartBoundary \o <<f, NL, NL>>
  <2>1. <<BB, NL, f, NL, NL>> = <<BB, NL>> \o <<f, NL, NL>>
    <3>1. PICK u, v : u = <<BB, NL>> /\ v = <<f, NL, NL>>
      OBVIOUS
    <3>2. u \in Seq(S) /\ v \in Seq(S) /\ Len(u) = 2 /\ Len(v) = 3
      BY <1>4, <3>1
    <3>3. PICK w : w = u \o v
      OBVIOUS
    <3>4. w \in Seq(S) /\ AreJoined(w, u, v)
      BY <3>2, <3>3, Joining
    <3>5. Len(w) = 5 /\ w[1] = u[1] /\ w[2] = u[2] /\ w[2 + 1] = v[1] /\ w[2 + 2] = v[2] /\ w[2 + 3] = v[3]
      BY <3>2, <3>4 DEF AreJoined
    <3>6. w = <<BB, NL, f, NL, NL>>
      BY <3>1, <3>4, <3>5
    <3> QED BY <3>1, <3>3, <3>6
  <2> QED BY <2>1 DEF Ld!StartBoundary
<1>9. PICK z, y : z = <<NL>> /\ y = <<BB, DD, NL>>
  OBVIOUS
<1>10. PICK m : m = b \o d /\ m \in Seq(S) /\ AreJoined(m, b, d)
  <2>1. b \in Seq(S)
    BY <1>4, <1>8
  <2> QED BY <1>5, <2>1, Joining
<1>11. PICK p : p = m \o z /\ p \in Seq(S) /\ AreJoined(p, m, z)
  <2>1. z \in Seq(S)
    BY <1>4, <1>9
  <2> QED BY <1>10, <2>1, Joining
<1>12. Ld!PartText(body[1]) = p
  BY <1>3, <1>8, <1>9, <1>10, <1>11 DEF Ld!PartText
<1>13. PICK ts : ts = [i \in DOMAIN body |-> Ld!PartText(body[i])]
  OBVIOUS
<1>14. ts = <<p>>
  BY <1>3, <1>12, <1>13
<1>15. Ld!FlattenSeq(ts) = p
  <2>1. Len(ts) = 1 /\ ts[1] = p
    BY <1>14
  <2>2. Ld!FlattenSeq(ts) = (CHOOSE g : g = [i \in 1 .. 1 |-> IF i = 1 THEN ts[i] ELSE g[i - 1] \o ts[i]])[1]
    <3>1. Len(ts) # 0
      BY <2>1
    <3>2. Ld!FlattenSeq(ts) = (CHOOSE g : g = [i \in 1 .. Len(ts) |-> IF i = 1 THEN ts[i] ELSE g[i - 1] \o ts[i]])[Len(ts)]
      BY <3>1, Zenon DEF Ld!FlattenSeq
    <3> QED BY <2>1, <3>2, Zenon
  <2>3. PICK h : h = [i \in 1 .. 1 |-> p]
    OBVIOUS
  <2>4. h = [i \in 1 .. 1 |-> IF i = 1 THEN ts[i] ELSE h[i - 1] \o ts[i]]
    BY <2>1, <2>3
  <2>5. PICK g : g = CHOOSE e : e = [i \in 1 .. 1 |-> IF i = 1 THEN ts[i] ELSE e[i - 1] \o ts[i]]
    OBVIOUS
  <2>6. g = [i \in 1 .. 1 |-> IF i = 1 THEN ts[i] ELSE g[i - 1] \o ts[i]]
    BY <2>4, <2>5, Zenon
  <2>7. g[1] = p
    BY <2>1, <2>6
  <2> QED BY <2>2, <2>5, <2>7, Zenon
<1>16. PICK q : q = a \o p /\ q \in Seq(S) /\ AreJoined(q, a, p)
  <2>1. a \in Seq(S)
    BY <1>4, <1>7
  <2> QED BY <1>11, <2>1, Joining
<1>17. PICK t : t = q \o y /\ t \in Seq(S) /\ AreJoined(t, q, y)
  <2>1. y \in Seq(S)
    BY <1>4, <1>9
  <2> QED BY <1>16, <2>1, Joining
<1>18. Ld!Text(body) = t
  BY <1>7, <1>9, <1>13, <1>15, <1>16, <1>17 DEF Ld!Text
<1>19. PICK n : n = Len(d)
  OBVIOUS
<1>20. Len(m) = n + 5 /\ Len(p) = n + 6 /\ Len(q) = n + 7 /\ Len(t) = n + 10 /\ n \in Nat
  BY <1>5, <1>7, <1>8, <1>9, <1>10, <1>11, <1>16, <1>17, <1>19 DEF AreJoined
<1>21. ASSUME NEW i \in 1 .. n + 7 PROVE t[i] = q[i]
  BY <1>17, <1>20 DEF AreJoined
<1>22. ASSUME NEW i \in 1 .. n + 6 PROVE t[1 + i] = p[i]
  <2>1. q[1 + i] = p[i]
    BY <1>7, <1>16, <1>20 DEF AreJoined
  <2> QED BY <1>20, <1>21, <2>1
<1>23. ASSUME NEW i \in 1 .. n + 5 PROVE t[1 + i] = m[i]
  <2>1. p[i] = m[i]
    BY <1>11, <1>20 DEF AreJoined
  <2> QED BY <1>20, <1>22, <2>1
<1>24. t[2] = BB /\ t[3] = NL /\ t[4] = f /\ t[5] = NL /\ t[6] = NL
  <2>1. \A i \in 1 .. 5 : m[i] = b[i]
    BY <1>8, <1>10 DEF AreJoined
  <2>2. \A i \in 1 .. 5 : t[1 + i] = b[i]
    BY <1>20, <1>23, <2>1
  <2> QED BY <1>8, <2>2
<1>25. ASSUME NEW i \in 1 .. n PROVE t[6 + i] = d[i]
  <2>1. m[5 + i] = d[i]
    BY <1>8, <1>10, <1>19 DEF AreJoined
  <2>2. 5 + i \in 1 .. n + 5 /\ 1 + (5 + i) = 6 + i
    BY <1>20
  <2> QED BY <1>23, <2>1, <2>2
<1>26. t[n + 7] = NL
  <2>1. p[n + 6] = NL
    BY <1>9, <1>11, <1>20 DEF AreJoined
  <2>2. n + 6 \in 1 .. n + 6 /\ 1 + (n + 6) = n + 7
    BY <1>20
  <2> QED BY <1>22, <2>1, <2>2
<1>27. t[n + 8] = BB /\ t[n + 9] = DD /\ t[n + 10] = NL
  <2>1. \A i \in 1 .. 3 : t[n + 7 + i] = y[i]
    BY <1>9, <1>17, <1>20 DEF AreJoined
  <2>2. t[n + 7 + 1] = y[1] /\ t[n + 7 + 2] = y[2] /\ t[n + 7 + 3] = y[3]
    BY <2>1
  <2>3. n + 7 + 1 = n + 8 /\ n + 7 + 2 = n + 9 /\ n + 7 + 3 = n + 10
    BY <1>20
  <2> QED BY <1>9, <2>2, <2>3
<1>28. IsForm(t, f, d)
  BY <1>19, <1>20, <1>24, <1>25, <1>26, <1>27 DEF IsForm
<1>29. Clear(f, d)
  BY <1>3, <1>5, <1>6 DEF Clear
<1> QED BY <1>1, <1>5, <1>17, <1>18, <1>28, <1>29

\* Where in it there are boundaries, and the end of the header of the part.
LEMMA BoundariesAre ==
  ASSUME NEW t, NEW f, NEW d, IsForm(t, f, d), Clear(f, d), NEW i \in 1 .. Len(t)
  PROVE  /\ i < Len(t) => (t[i] = BB /\ t[i + 1] = NL <=> i = 2)
         /\ i + 3 =< Len(t) => (t[i] = NL /\ t[i + 1] = BB /\ t[i + 2] = DD /\ t[i + 3] = NL <=> i = Len(d) + 7)
         /\ 2 =< i /\ i < 5 => ~(t[i] = NL /\ t[i + 1] = NL)
         /\ t[5] = NL /\ t[6] = NL
<1>1. PICK n \in Nat : n = Len(d) /\ n > 0
  BY DEF Clear
<1>2. Len(t) = n + 10 /\ i \in Nat
  BY <1>1 DEF IsForm
<1>3. NL # BB /\ NL # DD /\ BB # DD /\ f # NL /\ f # BB
  BY DEF Clear
<1>4. t[2] = BB /\ t[3] = NL /\ t[4] = f /\ t[5] = NL /\ t[6] = NL /\ t[n + 7] = NL /\ t[n + 8] = BB /\ t[n + 9] = DD /\ t[n + 10] = NL
  BY <1>1 DEF IsForm
<1>5. ASSUME NEW j \in 7 .. n + 6 PROVE t[j] # BB
  <2>1. PICK x : x = j - 6
    OBVIOUS
  <2>2. x \in 1 .. Len(d) /\ 6 + x = j
    BY <1>1, <2>1
  <2>3. t[6 + x] = d[x] /\ d[x] # BB
    BY <2>2 DEF IsForm, Clear
  <2> QED BY <2>2, <2>3
<1>6. ASSUME NEW j \in 2 .. n + 10, t[j] = BB PROVE j = 2 \/ j = n + 8
  <2>1. j \in 2 .. 6 \/ j \in 7 .. n + 6 \/ j = n + 7 \/ j = n + 8 \/ j = n + 9 \/ j = n + 10
    BY <1>1
  <2>2. j \in 2 .. 6 => j = 2 \/ j = 3 \/ j = 4 \/ j = 5 \/ j = 6
    OBVIOUS
  <2> QED BY <1>3, <1>4, <1>5, <1>6, <2>1, <2>2
<1>7. i < Len(t) => (t[i] = BB /\ t[i + 1] = NL <=> i = 2)
  <2>1. ASSUME i < Len(t), t[i] = BB, t[i + 1] = NL PROVE i = 2
    <3>1. i # 1
      <4>1. i = 1 => t[i + 1] = BB
        BY <1>4
      <4> QED BY <1>3, <2>1, <4>1
    <3>2. i \in 2 .. n + 10
      BY <1>2, <3>1
    <3>3. i # n + 8
      <4>1. i = n + 8 => i + 1 = n + 9
        BY <1>1
      <4> QED BY <1>3, <1>4, <2>1, <4>1
    <3> QED BY <1>6, <2>1, <3>2, <3>3
  <2>2. 2 + 1 = 3
    OBVIOUS
  <2> QED BY <1>4, <2>1, <2>2
<1>8. i + 3 =< Len(t) => (t[i] = NL /\ t[i + 1] = BB /\ t[i + 2] = DD /\ t[i + 3] = NL <=> i = n + 7)
  <2>1. ASSUME i + 3 =< Len(t), t[i + 1] = BB, t[i + 2] = DD PROVE i = n + 7
    <3>1. i + 1 \in 2 .. n + 10
      BY <1>2, <2>1
    <3>2. i + 1 = 2 \/ i + 1 = n + 8
      BY <1>6, <2>1, <3>1
    <3>3. i + 1 # 2
      <4>1. i + 1 = 2 => i + 2 = 3
        BY <1>2
      <4> QED BY <1>3, <1>4, <2>1, <4>1
    <3> QED BY <1>1, <1>2, <3>2, <3>3
  <2>2. n + 7 + 1 = n + 8 /\ n + 7 + 2 = n + 9 /\ n + 7 + 3 = n + 10
    BY <1>1
  <2> QED BY <1>4, <2>1, <2>2
<1>9. 2 =< i /\ i < 5 => ~(t[i] = NL /\ t[i + 1] = NL)
  <2>1. 2 =< i /\ i < 5 => i = 2 \/ i = 3 \/ i = 4
    BY <1>2
  <2>2. 3 + 1 = 4
    OBVIOUS
  <2> QED BY <1>3, <1>4, <2>1, <2>2
<1> QED BY <1>1, <1>4, <1>7, <1>8, <1>9

\* The text, with its characters.
TextOK(t, S, f, d) == t \in Seq(S) /\ d \in Seq(S) /\ IsForm(t, f, d) /\ Clear(f, d)

\* What is behind o in it, up to k.
Piece(t, o, k) == SubSeq(t, o + 1, k)

\* Where a text of two is found.
LEMMA OccursTwo ==
  ASSUME NEW S, NEW b \in Seq(S), NEW x, NEW y
  PROVE  Ld!Occurs(b, <<x, y>>) = {i \in 1 .. Len(b) - 1 : b[i] = x /\ b[i + 1] = y}
<1>1. Len(b) - Len(<<x, y>>) + 1 = Len(b) - 1 /\ Len(b) \in Nat
  OBVIOUS
<1>2. ASSUME NEW i \in 1 .. Len(b) - 1 PROVE SubSeq(b, i, i + Len(<<x, y>>) - 1) = <<x, y>> <=> b[i] = x /\ b[i + 1] = y
  <2>1. PICK u, j : u = SubSeq(b, i, j) /\ j = i + 1
    OBVIOUS
  <2>2. u \in Seq(S) /\ Len(u) = 2 /\ \A k \in 1 .. Len(u) : u[k] = b[i + k - 1]
    <3>1. i \in Nat /\ j \in Nat /\ 1 =< i /\ i =< j + 1 /\ j =< Len(b) /\ j - i + 1 = 2
      BY <1>1, <2>1
    <3> QED BY <2>1, <3>1, PartIs
  <2>3. u[1] = b[i] /\ u[2] = b[i + 1]
    <3>1. 1 \in 1 .. Len(u) /\ 2 \in 1 .. Len(u) /\ i + 1 - 1 = i /\ i + 2 - 1 = i + 1
      BY <2>2
    <3> QED BY <2>2, <3>1
  <2>4. u = <<x, y>> <=> u[1] = x /\ u[2] = y
    BY <2>2
  <2>5. i + Len(<<x, y>>) - 1 = j
    BY <2>1
  <2> QED BY <2>1, <2>3, <2>4, <2>5
<1>3. PICK B : B = 1 .. Len(b) - 1
  OBVIOUS
<1>4. Ld!Occurs(b, <<x, y>>) = {i \in B : SubSeq(b, i, i + Len(<<x, y>>) - 1) = <<x, y>>}
  BY <1>1, <1>3, Zenon DEF Ld!Occurs
<1> QED BY <1>2, <1>3, <1>4

\* And where the end is found.
LEMMA OccursFour ==
  ASSUME NEW S, NEW b \in Seq(S)
  PROVE  Ld!Occurs(b, Ld!EndBoundary) = {i \in 1 .. Len(b) - 3 : b[i] = NL /\ b[i + 1] = BB /\ b[i + 2] = DD /\ b[i + 3] = NL}
<1>0. PICK x, y, z, w : x = NL /\ y = BB /\ z = DD /\ w = NL
  OBVIOUS
<1>1. Len(b) - Len(<<x, y, z, w>>) + 1 = Len(b) - 3 /\ Len(b) \in Nat
  OBVIOUS
<1>2. ASSUME NEW i \in 1 .. Len(b) - 3
      PROVE  SubSeq(b, i, i + Len(<<x, y, z, w>>) - 1) = <<x, y, z, w>> <=> b[i] = x /\ b[i + 1] = y /\ b[i + 2] = z /\ b[i + 3] = w
  <2>1. PICK u, j : u = SubSeq(b, i, j) /\ j = i + 3
    OBVIOUS
  <2>2. u \in Seq(S) /\ Len(u) = 4 /\ \A k \in 1 .. Len(u) : u[k] = b[i + k - 1]
    <3>1. i \in Nat /\ j \in Nat /\ 1 =< i /\ i =< j + 1 /\ j =< Len(b) /\ j - i + 1 = 4
      BY <1>1, <2>1
    <3> QED BY <2>1, <3>1, PartIs
  <2>3. u[1] = b[i] /\ u[2] = b[i + 1] /\ u[3] = b[i + 2] /\ u[4] = b[i + 3]
    <3>1. 1 \in 1 .. Len(u) /\ 2 \in 1 .. Len(u) /\ i + 1 - 1 = i /\ i + 2 - 1 = i + 1
      BY <2>2
    <3>2. 3 \in 1 .. Len(u) /\ 4 \in 1 .. Len(u) /\ i + 3 - 1 = i + 2 /\ i + 4 - 1 = i + 3
      BY <2>2
    <3> QED BY <2>2, <3>1, <3>2
  <2>4. u = <<x, y, z, w>> <=> u[1] = x /\ u[2] = y /\ u[3] = z /\ u[4] = w
    BY <2>2
  <2>5. i + Len(<<x, y, z, w>>) - 1 = j
    BY <2>1
  <2> QED BY <2>1, <2>3, <2>4, <2>5
<1>3. PICK B : B = 1 .. Len(b) - 3
  OBVIOUS
<1>4. Ld!Occurs(b, <<x, y, z, w>>) = {i \in B : SubSeq(b, i, i + Len(<<x, y, z, w>>) - 1) = <<x, y, z, w>>}
  BY <1>1, <1>3, Zenon DEF Ld!Occurs
<1>5. Ld!EndBoundary = <<x, y, z, w>>
  BY <1>0 DEF Ld!EndBoundary
<1>6. Ld!Occurs(b, Ld!EndBoundary) = {i \in B : b[i] = x /\ b[i + 1] = y /\ b[i + 2] = z /\ b[i + 3] = w}
  BY <1>2, <1>3, <1>4, <1>5
<1> QED BY <1>0, <1>3, <1>6

\* A piece is a text.
LEMMA PieceHas ==
  ASSUME NEW S, NEW t \in Seq(S), NEW o \in Nat, NEW k \in Nat, o =< k, k =< Len(t)
  PROVE  /\ Piece(t, o, k) \in Seq(S) /\ Len(Piece(t, o, k)) = k - o
         /\ \A i \in 1 .. k - o : Piece(t, o, k)[i] = t[o + i]
BY PieceIs DEF Piece, IsPiece

\* A piece of a piece is a piece.
GoesThrough(t, o, k, a, e) == SubSeq(Piece(t, o, k), a + 1, e) = Piece(t, o + a, o + e)

\* So it is everywhere.
LEMMA PieceOfPiece ==
  ASSUME NEW S, NEW t \in Seq(S), NEW o \in Nat, NEW k \in Nat, o =< k, k =< Len(t),
         NEW a \in Nat, NEW e \in Nat, a =< e, e =< k - o
  PROVE  GoesThrough(t, o, k, a, e)
<1>1. PICK b : b = Piece(t, o, k)
  OBVIOUS
<1>2. b \in Seq(S) /\ Len(b) = k - o /\ \A i \in 1 .. k - o : b[i] = t[o + i]
  BY <1>1, PieceHas
<1>3. PICK u : u = Piece(b, a, e)
  OBVIOUS
<1>4. u \in Seq(S) /\ Len(u) = e - a /\ \A i \in 1 .. e - a : u[i] = b[a + i]
  <2>1. e =< Len(b)
    BY <1>2
  <2>2. Piece(b, a, e) \in Seq(S) /\ Len(Piece(b, a, e)) = e - a /\ \A i \in 1 .. e - a : Piece(b, a, e)[i] = b[a + i]
    <3>1. b \in Seq(S)
      BY <1>2
    <3> HIDE <1>2
    <3> QED BY <2>1, <3>1, PieceHas
  <2> QED BY <1>3, <2>2
<1>5. PICK p, q : p = o + a /\ q = o + e
  OBVIOUS
<1>6. PICK v : v = Piece(t, p, q)
  OBVIOUS
<1>7. p \in Nat /\ q \in Nat /\ p =< q /\ q =< Len(t) /\ q - p = e - a
  BY <1>5
<1>8. v \in Seq(S) /\ Len(v) = e - a /\ \A i \in 1 .. e - a : v[i] = t[p + i]
  <2>1. v \in Seq(S) /\ Len(v) = q - p /\ \A i \in 1 .. q - p : v[i] = t[p + i]
    BY <1>6, <1>7, PieceHas
  <2> QED BY <1>7, <2>1
<1>9. ASSUME NEW i \in 1 .. e - a PROVE u[i] = v[i]
  <2>1. a + i \in 1 .. k - o /\ o + (a + i) = p + i
    BY <1>5
  <2> QED BY <1>2, <1>4, <1>8, <2>1
<1>10. u = v
  BY <1>4, <1>8, <1>9, SameTexts
<1> QED BY <1>1, <1>3, <1>5, <1>6, <1>10 DEF Piece, GoesThrough

\* Two pieces, one behind the other, are one.
LEMMA PiecesJoin ==
  ASSUME NEW S, NEW t \in Seq(S), NEW o \in Nat, NEW e \in Nat, NEW k \in Nat, o =< e, e =< k, k =< Len(t)
  PROVE  Piece(t, o, e) \o Piece(t, e, k) = Piece(t, o, k)
BY PieceBehind DEF Piece

\* The boundary before the part is found when it is there.
LEMMA StartIs ==
  ASSUME NEW t, NEW S, NEW f, NEW d, TextOK(t, S, f, d), NEW o \in Nat, NEW k \in Nat, 1 =< o, o =< k, k =< Len(t)
  PROVE  /\ o = 1 /\ k >= 3 => Ld!Occurs(Piece(t, o, k), Ld!StartBoundary) = {1}
         /\ ~(o = 1 /\ k >= 3) => Ld!Occurs(Piece(t, o, k), Ld!StartBoundary) = {}
<1>1. PICK b : b = Piece(t, o, k)
  OBVIOUS
<1>2. b \in Seq(S) /\ Len(b) = k - o /\ \A i \in 1 .. k - o : b[i] = t[o + i]
  BY <1>1, PieceHas DEF TextOK
<1>3. PICK T : T = Ld!Occurs(b, Ld!StartBoundary)
  OBVIOUS
<1>4. T = {i \in 1 .. Len(b) - 1 : b[i] = BB /\ b[i + 1] = NL}
  BY <1>2, <1>3, OccursTwo DEF Ld!StartBoundary
<1>5. Len(t) \in Nat
  BY DEF TextOK
<1>6. ASSUME NEW i \in 1 .. Len(b) - 1 PROVE b[i] = BB /\ b[i + 1] = NL <=> o = 1 /\ i = 1
  <2>1. PICK j : j = o + i
    OBVIOUS
  <2>2. j \in 1 .. Len(t) /\ j < Len(t) /\ i \in 1 .. k - o /\ i + 1 \in 1 .. k - o /\ o + (i + 1) = j + 1
    BY <1>2, <1>5, <2>1
  <2>3. b[i] = t[j] /\ b[i + 1] = t[j + 1]
    BY <1>2, <2>1, <2>2
  <2>4. t[j] = BB /\ t[j + 1] = NL <=> j = 2
    BY <2>2, BoundariesAre DEF TextOK
  <2> QED BY <2>1, <2>2, <2>3, <2>4
<1>7. ASSUME o = 1, k >= 3 PROVE T = {1}
  <2>1. 1 \in 1 .. Len(b) - 1
    BY <1>2, <1>7
  <2> QED BY <1>4, <1>6, <1>7, <2>1
<1>8. ASSUME ~(o = 1 /\ k >= 3) PROVE T = {}
  <2>1. ASSUME NEW i \in T PROVE FALSE
    <3>1. i \in 1 .. Len(b) - 1 /\ o = 1 /\ i = 1
      BY <1>4, <1>6, <2>1
    <3> QED BY <1>2, <1>8, <3>1
  <2> QED BY <2>1
<1> QED BY <1>1, <1>3, <1>7, <1>8

\* The boundary at the end is found when all has come, behind the content.
LEMMA EndIs ==
  ASSUME NEW t, NEW S, NEW f, NEW d, TextOK(t, S, f, d), NEW o \in Nat, NEW k \in Nat, 1 =< o, o =< k, k =< Len(t)
  PROVE  /\ k < Len(t) => Ld!Occurs(Piece(t, o, k), Ld!EndBoundary) = {}
         /\ k = Len(t) /\ o =< Len(d) + 6 => Ld!Occurs(Piece(t, o, k), Ld!EndBoundary) = {Len(d) + 7 - o}
<1>1. PICK b : b = Piece(t, o, k)
  OBVIOUS
<1>2. b \in Seq(S) /\ Len(b) = k - o /\ \A i \in 1 .. k - o : b[i] = t[o + i]
  BY <1>1, PieceHas DEF TextOK
<1>3. PICK T : T = Ld!Occurs(b, Ld!EndBoundary)
  OBVIOUS
<1>4. T = {i \in 1 .. Len(b) - 3 : b[i] = NL /\ b[i + 1] = BB /\ b[i + 2] = DD /\ b[i + 3] = NL}
  BY <1>2, <1>3, OccursFour
<1>5. PICK n \in Nat : n = Len(d) /\ Len(t) = n + 10
  BY DEF TextOK, Clear, IsForm
<1>6. ASSUME NEW i \in 1 .. Len(b) - 3 PROVE b[i] = NL /\ b[i + 1] = BB /\ b[i + 2] = DD /\ b[i + 3] = NL <=> o + i = n + 7
  <2>1. PICK j : j = o + i
    OBVIOUS
  <2>2. j \in 1 .. Len(t) /\ j + 3 =< Len(t) /\ i \in 1 .. k - o /\ i + 1 \in 1 .. k - o /\ i + 2 \in 1 .. k - o /\ i + 3 \in 1 .. k - o
    BY <1>2, <1>5, <2>1
  <2>3. o + (i + 1) = j + 1 /\ o + (i + 2) = j + 2 /\ o + (i + 3) = j + 3
    BY <2>1
  <2>4. b[i] = t[j] /\ b[i + 1] = t[j + 1] /\ b[i + 2] = t[j + 2] /\ b[i + 3] = t[j + 3]
    BY <1>2, <2>1, <2>2, <2>3
  <2>5. t[j] = NL /\ t[j + 1] = BB /\ t[j + 2] = DD /\ t[j + 3] = NL <=> j = Len(d) + 7
    BY <2>2, BoundariesAre DEF TextOK
  <2> QED BY <1>5, <2>1, <2>4, <2>5
<1>7. ASSUME k < Len(t) PROVE T = {}
  <2>1. ASSUME NEW i \in T PROVE FALSE
    <3>1. i \in 1 .. Len(b) - 3 /\ o + i = n + 7
      BY <1>4, <1>6, <2>1
    <3> QED BY <1>2, <1>5, <1>7, <3>1
  <2> QED BY <2>1
<1>8. ASSUME k = Len(t), o =< Len(d) + 6 PROVE T = {Len(d) + 7 - o}
  <2>1. PICK e : e = n + 7 - o
    OBVIOUS
  <2>2. e \in 1 .. Len(b) - 3 /\ o + e = n + 7
    BY <1>2, <1>5, <1>8, <2>1
  <2>3. e \in T
    BY <1>4, <1>6, <2>2
  <2>4. ASSUME NEW i \in T PROVE i = e
    <3>1. i \in 1 .. Len(b) - 3 /\ o + i = n + 7
      BY <1>4, <1>6, <2>4
    <3> QED BY <2>1, <3>1
  <2> QED BY <1>5, <2>1, <2>3, <2>4
<1> QED BY <1>1, <1>3, <1>7, <1>8

\* The header of the part ends when it has come, and the content is behind it.
LEMMA HeaderIs ==
  ASSUME NEW t, NEW S, NEW f, NEW d, TextOK(t, S, f, d), NEW k \in Nat, 1 =< k, k =< Len(t)
  PROVE  /\ k < 6 => Ld!Occurs(Piece(t, 1, k), <<NL, NL>>) = {}
         /\ k >= 6 => /\ Ld!Occurs(Piece(t, 1, k), <<NL, NL>>) # {}
                      /\ Ld!Min(Ld!Occurs(Piece(t, 1, k), <<NL, NL>>)) = 4
                      /\ Piece(t, 1, k)[3] = f
<1>1. PICK b : b = Piece(t, 1, k)
  OBVIOUS
<1>2. b \in Seq(S) /\ Len(b) = k - 1 /\ \A i \in 1 .. k - 1 : b[i] = t[1 + i]
  <2>1. PICK o \in Nat : o = 1
    OBVIOUS
  <2>2. t \in Seq(S) /\ o =< k
    BY <2>1 DEF TextOK
  <2>3. Piece(t, o, k) \in Seq(S) /\ Len(Piece(t, o, k)) = k - o /\ \A i \in 1 .. k - o : Piece(t, o, k)[i] = t[o + i]
    BY <2>2, PieceHas
  <2> QED BY <1>1, <2>1, <2>3
<1>3. PICK T : T = Ld!Occurs(b, <<NL, NL>>)
  OBVIOUS
<1>4. T = {i \in 1 .. Len(b) - 1 : b[i] = NL /\ b[i + 1] = NL}
  BY <1>2, <1>3, OccursTwo
<1>5. Len(t) \in Nat
  BY DEF TextOK
<1>6. ASSUME NEW i \in T PROVE i >= 4
  <2>1. PICK j : j = 1 + i
    OBVIOUS
  <2>2. i \in 1 .. Len(b) - 1 /\ b[i] = NL /\ b[i + 1] = NL
    BY <1>4, <1>6
  <2>3. j \in 1 .. Len(t) /\ 2 =< j /\ i \in 1 .. k - 1 /\ i + 1 \in 1 .. k - 1 /\ 1 + (i + 1) = j + 1
    BY <1>2, <1>5, <2>1, <2>2
  <2>4. t[j] = NL /\ t[j + 1] = NL
    BY <1>2, <2>1, <2>2, <2>3
  <2>5. ~(j < 5)
    BY <2>3, <2>4, BoundariesAre DEF TextOK
  <2> QED BY <2>1, <2>2, <2>5
<1>7. ASSUME k < 6 PROVE T = {}
  <2>1. ASSUME NEW i \in T PROVE FALSE
    <3>1. i \in 1 .. Len(b) - 1 /\ i >= 4
      BY <1>4, <1>6, <2>1
    <3> QED BY <1>2, <1>7, <3>1
  <2> QED BY <2>1
<1>8. ASSUME k >= 6 PROVE 4 \in T /\ b[3] = f
  <2>1. 3 \in 1 .. k - 1 /\ 4 \in 1 .. k - 1 /\ 5 \in 1 .. k - 1 /\ 4 \in 1 .. Len(b) - 1
    BY <1>2, <1>8
  <2>2. b[3] = t[1 + 3] /\ b[4] = t[1 + 4] /\ b[5] = t[1 + 5]
    BY <1>2, <2>1
  <2>3. t[4] = f /\ t[5] = NL /\ t[6] = NL
    BY DEF TextOK, IsForm
  <2>4. b[4] = NL /\ b[4 + 1] = NL
    BY <2>2, <2>3
  <2> QED BY <1>4, <2>1, <2>2, <2>3, <2>4
<1>9. ASSUME k >= 6 PROVE Ld!Min(T) = 4
  <2>1. 4 \in T /\ \A i \in T : 4 =< i
    BY <1>6, <1>8, <1>9
  <2>2. PICK m : m = Ld!Min(T)
    OBVIOUS
  <2>3. m = CHOOSE x \in T : \A y \in T : x =< y
    BY <2>2 DEF Ld!Min
  <2>4. m \in T /\ \A y \in T : m =< y
    BY <2>1, <2>3, Zenon
  <2>5. m =< 4 /\ 4 =< m /\ m \in Nat
    BY <1>4, <2>1, <2>4
  <2> QED BY <2>2, <2>5
<1> QED BY <1>1, <1>3, <1>7, <1>8, <1>9

-----------------------------------------------------------------------------
(* Upload: the parser.                                                         *)

\* A parser, with the fields of its part.
IsParser(q, b, first, finis) ==
  /\ DOMAIN q = {"buffer", "parts", "first", "finished", "status"}
  /\ q.buffer = b /\ q.first = first /\ q.finished = finis

IsPart(p, f, g, fin, new) ==
  /\ DOMAIN p = {"file", "data", "fin", "created"}
  /\ p.file = f /\ p.data = g /\ p.fin = fin /\ p.created = new

OnePart(ps, f, g, fin, new) == \E p : ps = <<p>> /\ IsPart(p, f, g, fin, new)

\* One that has no part yet, and one that has one, with the content g.
Waits0(q, b)           == IsParser(q, b, FALSE, FALSE) /\ q.parts = << >>
Holds1(q, b, f, g, fin) == IsParser(q, b, TRUE, fin) /\ OnePart(q.parts, f, g, fin, FALSE)

\* One turn.
LEMMA OneTurn ==
  ASSUME NEW q, NEW stale
  PROVE  /\ Ld!Occurs(q.buffer, Ld!StartBoundary) # {} /\ ~Ld!LastIsOpen(q, stale)
            => Ld!FeedOnce(q, stale) = Ld!BodyWithHeader(q, Ld!Min(Ld!Occurs(q.buffer, Ld!StartBoundary)))
         /\ Ld!Occurs(q.buffer, Ld!StartBoundary) = {} /\ Ld!Occurs(q.buffer, Ld!EndBoundary) # {}
            => Ld!FeedOnce(q, stale) = Ld!EndFound(q)
         /\ /\ Ld!Occurs(q.buffer, Ld!StartBoundary) = {} /\ Ld!Occurs(q.buffer, Ld!EndBoundary) = {}
            /\ q.first \/ ~(Len(q.buffer) >= 2)
            => Ld!FeedOnce(q, stale) = Ld!BodyWithoutBoundary(q)
<1>1. PICK a, e : a = Ld!Occurs(q.buffer, Ld!StartBoundary) /\ e = Ld!Occurs(q.buffer, Ld!EndBoundary)
  OBVIOUS
<1>2. Len(Ld!StartBoundary) = 2
  BY DEF Ld!StartBoundary
<1>3. Ld!FeedOnce(q, stale) =
        IF a # {} THEN IF Ld!LastIsOpen(q, stale) THEN Ld!FinishContent(q, Ld!Min(a)) ELSE Ld!BodyWithHeader(q, Ld!Min(a))
        ELSE IF e # {} THEN Ld!EndFound(q)
        ELSE IF ~q.first /\ Len(q.buffer) >= 2 THEN [q EXCEPT !.status = "bad"]
        ELSE Ld!BodyWithoutBoundary(q)
  BY <1>1, <1>2, Zenon DEF Ld!FeedOnce
<1>4. a # {} /\ ~Ld!LastIsOpen(q, stale) => Ld!FeedOnce(q, stale) = Ld!BodyWithHeader(q, Ld!Min(a))
  BY <1>3, Zenon
<1>5. a = {} /\ e # {} => Ld!FeedOnce(q, stale) = Ld!EndFound(q)
  BY <1>3, Zenon
<1>6. a = {} /\ e = {} /\ (q.first \/ ~(Len(q.buffer) >= 2)) => Ld!FeedOnce(q, stale) = Ld!BodyWithoutBoundary(q)
  BY <1>3, Zenon
<1> QED BY <1>1, <1>4, <1>5, <1>6, Zenon

\* A parser that is not ready is what it was.
LEMMA NotReadyIs ==
  ASSUME NEW q, NEW b, NEW first, NEW finis, IsParser(q, b, first, finis), NEW r, r = [q EXCEPT !.status = "not ready"]
  PROVE  IsParser(r, b, first, finis) /\ r.parts = q.parts /\ r.status = "not ready"
<1>1. DOMAIN r = DOMAIN q /\ r.buffer = q.buffer /\ r.parts = q.parts /\ r.status = "not ready"
  BY DEF IsParser
<1>2. r.first = q.first /\ r.finished = q.finished
  BY DEF IsParser
<1> QED BY <1>1, <1>2 DEF IsParser

\* As long as the header of the part has not come, the parser waits.
LEMMA TurnWaits ==
  ASSUME NEW t, NEW S, NEW f, NEW d, TextOK(t, S, f, d), NEW k \in Nat, 1 =< k, k =< Len(t), k < 6, NEW stale,
         NEW q, Waits0(q, Piece(t, 1, k))
  PROVE  Waits0(Ld!FeedOnce(q, stale), Piece(t, 1, k)) /\ Ld!FeedOnce(q, stale).status = "not ready"
<1>1. PICK b : b = Piece(t, 1, k)
  OBVIOUS
<1>2. b \in Seq(S) /\ Len(b) = k - 1
  <2>1. t \in Seq(S) /\ 1 \in Nat
    BY DEF TextOK
  <2> QED BY <1>1, <2>1, PieceHas
<1>3. q.buffer = b /\ q.parts = << >> /\ IsParser(q, b, FALSE, FALSE)
  BY <1>1 DEF Waits0, IsParser
<1>4. ~q.first
  BY <1>3, Zenon DEF IsParser
<1>5. PICK r : r = [q EXCEPT !.status = "not ready"]
  OBVIOUS
<1>6. Waits0(r, b) /\ r.status = "not ready"
  BY <1>3, <1>5, NotReadyIs DEF Waits0
<1>7. CASE k >= 3
  <2>1. Ld!Occurs(b, Ld!StartBoundary) # {}
    <3>1. 1 \in Nat
      OBVIOUS
    <3> QED BY <1>1, <1>7, <3>1, StartIs
  <2>2. ~Ld!LastIsOpen(q, stale)
    BY <1>3, <1>4, Zenon DEF Ld!LastIsOpen
  <2>3. PICK i : i = Ld!Min(Ld!Occurs(b, Ld!StartBoundary))
    OBVIOUS
  <2>4. Ld!FeedOnce(q, stale) = Ld!BodyWithHeader(q, i)
    BY <1>3, <2>1, <2>2, <2>3, OneTurn, Zenon
  <2>5. Ld!Occurs(b, <<NL, NL>>) = {}
    BY <1>1, HeaderIs
  <2>6. Ld!BodyWithHeader(q, i) = r
    BY <1>3, <1>5, <2>5, Zenon DEF Ld!BodyWithHeader
  <2> QED BY <1>1, <1>6, <2>4, <2>6
<1>8. CASE ~(k >= 3)
  <2>1. Ld!Occurs(b, Ld!StartBoundary) = {}
    <3>1. 1 \in Nat
      OBVIOUS
    <3> QED BY <1>1, <1>8, <3>1, StartIs
  <2>2. Ld!Occurs(b, Ld!EndBoundary) = {}
    <3>1. 1 \in Nat /\ k < Len(t)
      BY DEF TextOK, IsForm, Clear
    <3> QED BY <1>1, <3>1, EndIs
  <2>3. ~(Len(b) >= 2) /\ 4 > Len(b)
    BY <1>2, <1>8
  <2>4. Ld!FeedOnce(q, stale) = Ld!BodyWithoutBoundary(q)
    BY <1>3, <2>1, <2>2, <2>3, OneTurn, Zenon
  <2>5. Ld!Window = 4
    BY DEF Ld!Window, Ld!EndBoundary
  <2>6. Ld!BodyWithoutBoundary(q) = r
    BY <1>3, <1>5, <2>3, <2>5, Zenon DEF Ld!BodyWithoutBoundary
  <2> QED BY <1>1, <1>6, <2>4, <2>6
<1> QED BY <1>7, <1>8

\* When it has come, the part begins.
LEMMA TurnBegins ==
  ASSUME NEW t, NEW S, NEW f, NEW d, TextOK(t, S, f, d), NEW k \in Nat, k =< Len(t), 6 =< k, NEW stale,
         NEW q, Waits0(q, Piece(t, 1, k)), q.status = "ok"
  PROVE  Holds1(Ld!FeedOnce(q, stale), Piece(t, 6, k), f, << >>, FALSE) /\ Ld!FeedOnce(q, stale).status = "ok"
<1>1. PICK b : b = Piece(t, 1, k)
  OBVIOUS
<1>2. b \in Seq(S) /\ Len(b) = k - 1
  <2>1. t \in Seq(S) /\ 1 \in Nat /\ 1 =< k
    BY DEF TextOK
  <2> QED BY <1>1, <2>1, PieceHas
<1>3. q.buffer = b /\ q.parts = << >> /\ IsParser(q, b, FALSE, FALSE)
  BY <1>1 DEF Waits0, IsParser
<1>4. ~q.first
  BY <1>3, Zenon DEF IsParser
<1>5. Ld!Occurs(b, Ld!StartBoundary) = {1}
  <2>1. PICK o \in Nat : o = 1
    OBVIOUS
  <2>2. 1 =< o /\ o =< k /\ k >= 3
    BY <2>1
  <2> QED BY <1>1, <2>1, <2>2, StartIs
<1>6. Ld!Min({1}) = 1
  BY DEF Ld!Min
<1>7. ~Ld!LastIsOpen(q, stale)
  BY <1>3, <1>4, Zenon DEF Ld!LastIsOpen
<1>8. Ld!FeedOnce(q, stale) = Ld!BodyWithHeader(q, 1)
  <2>1. Ld!Occurs(b, Ld!StartBoundary) # {}
    BY <1>5
  <2> QED BY <1>3, <1>5, <1>6, <1>7, <2>1, OneTurn, Zenon
<1>9. PICK X : X = Ld!Occurs(b, <<NL, NL>>)
  OBVIOUS
<1>10. X # {} /\ Ld!Min(X) = 4 /\ b[3] = f
  <2>1. 1 =< k /\ k >= 6
    OBVIOUS
  <2> QED BY <1>1, <1>9, <2>1, HeaderIs
<1>11. Ld!From(b, 4 + 2) = Piece(t, 6, k)
  <2>1. PICK o \in Nat : o = 1
    OBVIOUS
  <2>2. PICK a \in Nat : a = 5
    OBVIOUS
  <2>3. PICK e \in Nat : e = k - 1
    OBVIOUS
  <2>4. t \in Seq(S) /\ o =< k /\ a =< e /\ e =< k - o
    BY <2>1, <2>2, <2>3 DEF TextOK
  <2>5. SubSeq(Piece(t, o, k), a + 1, e) = Piece(t, o + a, o + e)
    <3>1. GoesThrough(t, o, k, a, e)
      BY <2>4, PieceOfPiece
    <3> QED BY <3>1 DEF GoesThrough
  <2>6. o + a = 6 /\ o + e = k /\ a + 1 = 4 + 2 /\ e = Len(b)
    BY <1>2, <2>1, <2>2, <2>3
  <2> QED BY <1>1, <2>1, <2>5, <2>6 DEF Ld!From
<1>12. Len(Ld!StartBoundary) = 2 /\ 1 + 2 = 3
  BY DEF Ld!StartBoundary
<1>13. PICK p : p = Ld!NewPart(b[3])
  OBVIOUS
<1>14. PICK r : r = [q EXCEPT !.parts = Append(@, p), !.buffer = Ld!From(@, 6), !.first = TRUE]
  OBVIOUS
<1>15. Ld!BodyWithHeader(q, 1) = r
  <2>1. Ld!BodyWithHeader(q, 1) = [q EXCEPT !.parts = Append(@, Ld!NewPart(b[1 + 2])), !.buffer = Ld!From(@, Ld!Min(Ld!Occurs(@, <<NL, NL>>)) + 2), !.first = TRUE]
    BY <1>3, <1>9, <1>10, <1>12, Zenon DEF Ld!BodyWithHeader
  <2>2. 4 + 2 = 6
    OBVIOUS
  <2> QED BY <1>3, <1>9, <1>10, <1>12, <1>13, <1>14, <2>1, <2>2, Zenon
<1>16. DOMAIN r = DOMAIN q /\ r.buffer = Ld!From(b, 6) /\ r.parts = Append(<< >>, p) /\ r.status = "ok" /\ r.finished = q.finished
  BY <1>3, <1>14 DEF IsParser
<1>17. r.first = TRUE
  BY <1>3, <1>14, Zenon DEF IsParser
<1>18. OnePart(r.parts, f, << >>, FALSE, FALSE)
  <2>1. r.parts = <<p>>
    BY <1>16
  <2>2. IsPart(p, f, << >>, FALSE, FALSE)
    <3>1. DOMAIN p = {"file", "data", "fin", "created"} /\ p.file = f /\ p.data = << >>
      BY <1>10, <1>13 DEF Ld!NewPart
    <3>2. p.fin = FALSE /\ p.created = FALSE
      BY <1>13, Zenon DEF Ld!NewPart
    <3> QED BY <3>1, <3>2 DEF IsPart
  <2> QED BY <2>1, <2>2 DEF OnePart
<1>19. Ld!From(b, 6) = Piece(t, 6, k)
  <2>1. 4 + 2 = 6
    OBVIOUS
  <2> QED BY <1>11, <2>1
<1> QED BY <1>3, <1>8, <1>15, <1>16, <1>17, <1>18, <1>19 DEF Holds1, IsParser

\* One part, and another one in its place.
LEMMA LastOfOne ==
  ASSUME NEW p, NEW w
  PROVE  Ld!Last(<<p>>) = p /\ Ld!WithLast(<<p>>, w) = <<w>>
<1>1. PICK s : s = <<p>>
  OBVIOUS
<1>2. Len(s) = 1 /\ s[1] = p
  BY <1>1
<1>3. Ld!Last(s) = p
  BY <1>2 DEF Ld!Last
<1>4. [s EXCEPT ![1] = w] = <<w>>
  BY <1>1
<1>5. Ld!WithLast(s, w) = <<w>>
  BY <1>2, <1>4 DEF Ld!WithLast
<1> QED BY <1>1, <1>3, <1>5

\* A part that had nothing, with some content.
LEMMA ExtendIs ==
  ASSUME NEW S, NEW x \in Seq(S), NEW p, NEW f, NEW new, NEW fin, IsPart(p, f, << >>, fin, new)
  PROVE  IsPart(Ld!Extend(p, x), f, x, fin, new)
<1>1. PICK w : w = Ld!Extend(p, x)
  OBVIOUS
<1>2. w = [p EXCEPT !.data = << >> \o x]
  BY <1>1 DEF Ld!Extend, IsPart
<1>3. << >> \o x = x
  OBVIOUS
<1>4. DOMAIN w = DOMAIN p /\ w.file = p.file /\ w.data = x
  BY <1>2, <1>3 DEF IsPart
<1>5. w.fin = p.fin /\ w.created = p.created
  BY <1>2 DEF IsPart
<1> QED BY <1>1, <1>4, <1>5 DEF IsPart

\* And one that ends.
LEMMA FinishIs ==
  ASSUME NEW p, NEW f, NEW x, NEW new, NEW fin, IsPart(p, f, x, fin, new)
  PROVE  IsPart(Ld!Finish(p), f, x, TRUE, new)
<1>1. PICK w : w = Ld!Finish(p)
  OBVIOUS
<1>2. w = [p EXCEPT !.fin = TRUE]
  BY <1>1 DEF Ld!Finish
<1>3. DOMAIN w = DOMAIN p /\ w.file = p.file /\ w.data = p.data
  BY <1>2 DEF IsPart
<1>4. w.created = p.created
  BY <1>2 DEF IsPart
<1>5. w.fin = TRUE
  BY <1>2, Zenon DEF IsPart
<1> QED BY <1>1, <1>3, <1>4, <1>5 DEF IsPart

\* The parser has content up to e, all that can be no boundary.
HoldsTo(r, t, f, o, e, k) == Holds1(r, Piece(t, e, k), f, Piece(t, o, e), FALSE)

\* It has come up to k, the content from o on in this call.
Takes(r, t, f, n, o, k) == \E e \in Nat : o =< e /\ e =< k /\ e =< n + 6 /\ HoldsTo(r, t, f, o, e, k)

\* What has come of the content is taken, but for what may be the begin of a boundary.
LEMMA TurnTakes ==
  ASSUME NEW t, NEW S, NEW f, NEW d, TextOK(t, S, f, d), NEW o \in Nat, NEW k \in Nat, 6 =< o, o =< Len(d) + 6, o =< k, k < Len(t),
         NEW stale, NEW q, Holds1(q, Piece(t, o, k), f, << >>, FALSE), NEW r, r = Ld!FeedOnce(q, stale)
  PROVE  r.status = "not ready" /\ Takes(r, t, f, Len(d), o, k)
<1>1. PICK b : b = Piece(t, o, k)
  OBVIOUS
<1>2. PICK n \in Nat : n = Len(d) /\ Len(t) = n + 10
  BY DEF TextOK, Clear, IsForm
<1>3. b \in Seq(S) /\ Len(b) = k - o
  <2>1. t \in Seq(S) /\ k =< Len(t)
    BY <1>2 DEF TextOK
  <2> QED BY <1>1, <2>1, PieceHas
<1>4. IsParser(q, b, TRUE, FALSE) /\ q.buffer = b
  BY <1>1 DEF Holds1, IsParser
<1>5. PICK p : q.parts = <<p>> /\ IsPart(p, f, << >>, FALSE, FALSE)
  BY DEF Holds1, OnePart
<1>6. q.first
  BY <1>4, Zenon DEF IsParser
<1>7. r = Ld!BodyWithoutBoundary(q)
  <2>1. 1 =< o /\ k =< Len(t) /\ o # 1
    BY <1>2
  <2>2. Ld!Occurs(b, Ld!StartBoundary) = {}
    BY <1>1, <2>1, StartIs
  <2>3. Ld!Occurs(b, Ld!EndBoundary) = {}
    BY <1>1, <2>1, EndIs
  <2> QED BY <1>4, <1>6, <2>2, <2>3, OneTurn, Zenon
<1>8. Ld!Window = 4
  BY DEF Ld!Window, Ld!EndBoundary
<1>9. CASE 4 > Len(b)
  <2>1. r = [q EXCEPT !.status = "not ready"]
    BY <1>4, <1>7, <1>8, <1>9, Zenon DEF Ld!BodyWithoutBoundary
  <2>2. IsParser(r, b, TRUE, FALSE) /\ r.parts = q.parts /\ r.status = "not ready"
    BY <1>4, <2>1, NotReadyIs
  <2>3. Piece(t, o, o) = << >>
    BY DEF Piece
  <2>4. HoldsTo(r, t, f, o, o, k)
    BY <1>1, <1>5, <2>2, <2>3 DEF HoldsTo, Holds1, OnePart
  <2>5. o =< o
    OBVIOUS
  <2> QED BY <2>2, <2>4, <2>5, Zenon DEF Takes
<1>10. CASE ~(4 > Len(b))
  <2>1. PICK e \in Nat : e = k - 4
    BY <1>3, <1>10
  <2>2. PICK m \in Nat : m = Len(b) - 4
    BY <1>3, <1>10
  <2>3. o + m = e /\ m =< Len(b) /\ o =< e /\ e =< k /\ e =< n + 6 /\ e =< Len(t) /\ k =< Len(t)
    BY <1>2, <1>3, <1>10, <2>1, <2>2
  <2>4. t \in Seq(S)
    BY DEF TextOK
  <2>5. SubSeq(b, 1, m) = Piece(t, o, e)
    <3>1. PICK z \in Nat : z = 0
      OBVIOUS
    <3>2. z =< m /\ m =< k - o
      BY <1>3, <2>3, <3>1
    <3>3. GoesThrough(t, o, k, z, m)
      BY <2>3, <2>4, <3>2, PieceOfPiece
    <3>4. o + z = o /\ z + 1 = 1
      BY <3>1
    <3> QED BY <1>1, <2>3, <3>3, <3>4 DEF GoesThrough
  <2>6. Ld!From(b, m + 1) = Piece(t, e, k)
    <3>1. PICK y \in Nat : y = k - o
      OBVIOUS
    <3>2. m =< y /\ y =< k - o
      BY <1>3, <2>3, <3>1
    <3>3. GoesThrough(t, o, k, m, y)
      BY <2>3, <2>4, <3>2, PieceOfPiece
    <3>4. o + y = k /\ y = Len(b)
      BY <1>3, <3>1
    <3> QED BY <1>1, <2>3, <3>3, <3>4 DEF GoesThrough, Ld!From
  <2>7. PICK x : x = Piece(t, o, e)
    OBVIOUS
  <2>8. x \in Seq(S)
    BY <2>3, <2>4, <2>7, PieceHas
  <2>9. PICK w : w = Ld!Extend(p, x)
    OBVIOUS
  <2>10. IsPart(w, f, x, FALSE, FALSE)
    BY <1>5, <2>8, <2>9, ExtendIs
  <2>11. r = [q EXCEPT !.parts = <<w>>, !.buffer = Piece(t, e, k), !.status = "not ready"]
    <3>1. r = [q EXCEPT !.parts = Ld!WithLast(@, Ld!Extend(Ld!Last(@), SubSeq(q.buffer, 1, m))), !.buffer = Ld!From(@, m + 1), !.status = "not ready"]
      BY <1>4, <1>7, <1>8, <1>10, <2>2, Zenon DEF Ld!BodyWithoutBoundary
    <3>2. Ld!WithLast(<<p>>, w) = <<w>> /\ Ld!Last(<<p>>) = p
      BY LastOfOne
    <3> QED BY <1>4, <1>5, <2>5, <2>6, <2>7, <2>9, <3>1, <3>2, Zenon
  <2>12. DOMAIN r = DOMAIN q /\ r.parts = <<w>> /\ r.buffer = Piece(t, e, k) /\ r.status = "not ready"
    BY <1>4, <2>11 DEF IsParser
  <2>13. r.first = q.first /\ r.finished = q.finished
    BY <1>4, <2>11 DEF IsParser
  <2>14. HoldsTo(r, t, f, o, e, k)
    BY <1>4, <2>7, <2>10, <2>12, <2>13 DEF HoldsTo, Holds1, OnePart, IsParser
  <2> QED BY <1>2, <2>3, <2>12, <2>14 DEF Takes
<1> QED BY <1>9, <1>10

\* With the end of the form all of the content is taken, and the part ends.
LEMMA TurnEnds ==
  ASSUME NEW t, NEW S, NEW f, NEW d, TextOK(t, S, f, d), NEW o \in Nat, 6 =< o, o =< Len(d) + 6,
         NEW stale, NEW q, Holds1(q, Piece(t, o, Len(t)), f, << >>, FALSE), q.status = "ok", NEW r, r = Ld!FeedOnce(q, stale)
  PROVE  r.status = "ok" /\ Holds1(r, << >>, f, Piece(t, o, Len(d) + 6), TRUE)
<1>1. PICK n \in Nat : n = Len(d) /\ Len(t) = n + 10
  BY DEF TextOK, Clear, IsForm
<1>2. PICK k \in Nat : k = Len(t)
  BY <1>1
<1>3. PICK b : b = Piece(t, o, k)
  OBVIOUS
<1>4. t \in Seq(S) /\ o =< k /\ k =< Len(t) /\ 1 =< o /\ o # 1 /\ o =< n + 6
  BY <1>1, <1>2 DEF TextOK
<1>5. b \in Seq(S) /\ Len(b) = k - o
  BY <1>3, <1>4, PieceHas
<1>6. IsParser(q, b, TRUE, FALSE) /\ q.buffer = b
  BY <1>2, <1>3 DEF Holds1, IsParser
<1>7. PICK p : q.parts = <<p>> /\ IsPart(p, f, << >>, FALSE, FALSE)
  BY DEF Holds1, OnePart
<1>8. PICK e \in Nat : e = n + 6 - o
  BY <1>4
<1>9. Ld!Occurs(b, Ld!StartBoundary) = {}
  BY <1>3, <1>4, StartIs
<1>10. Ld!Occurs(b, Ld!EndBoundary) = {e + 1}
  <2>1. Ld!Occurs(b, Ld!EndBoundary) = {Len(d) + 7 - o}
    BY <1>2, <1>3, <1>4, EndIs
  <2>2. Len(d) + 7 - o = e + 1
    BY <1>1, <1>8
  <2> QED BY <2>1, <2>2
<1>11. Ld!Min({e + 1}) = e + 1
  BY DEF Ld!Min
<1>12. r = Ld!EndFound(q)
  <2>1. Ld!Occurs(b, Ld!EndBoundary) # {}
    BY <1>10
  <2> QED BY <1>6, <1>9, <2>1, OneTurn, Zenon
<1>13. PICK x : x = Piece(t, o, n + 6)
  OBVIOUS
<1>14. x \in Seq(S)
  <2>1. n + 6 \in Nat /\ n + 6 =< Len(t)
    BY <1>1
  <2> QED BY <1>4, <1>13, <2>1, PieceHas
<1>15. Ld!Before(b, e + 1) = x
  <2>1. PICK z \in Nat : z = 0
    OBVIOUS
  <2>2. z =< e /\ e =< k - o
    BY <1>1, <1>2, <1>8, <2>1
  <2>3. GoesThrough(t, o, k, z, e)
    BY <1>4, <2>2, PieceOfPiece
  <2>4. o + z = o /\ z + 1 = 1 /\ o + e = n + 6 /\ e + 1 - 1 = e
    BY <1>8, <2>1
  <2> QED BY <1>3, <1>13, <2>3, <2>4 DEF GoesThrough, Ld!Before
<1>16. PICK w : w = Ld!Finish(Ld!Extend(p, x))
  OBVIOUS
<1>17. IsPart(w, f, x, TRUE, FALSE)
  <2>1. PICK v : v = Ld!Extend(p, x)
    OBVIOUS
  <2>2. IsPart(v, f, x, FALSE, FALSE)
    BY <1>7, <1>14, <2>1, ExtendIs
  <2> QED BY <1>16, <2>1, <2>2, FinishIs
<1>18. r = [q EXCEPT !.parts = <<w>>, !.buffer = << >>, !.finished = TRUE]
  <2>1. r = [q EXCEPT !.parts = Ld!WithLast(@, Ld!Finish(Ld!Extend(Ld!Last(@), Ld!Before(q.buffer, Ld!Min(Ld!Occurs(q.buffer, Ld!EndBoundary)))))),
                      !.buffer = << >>, !.finished = TRUE]
    BY <1>12, Zenon DEF Ld!EndFound
  <2>2. Ld!WithLast(<<p>>, w) = <<w>> /\ Ld!Last(<<p>>) = p
    BY LastOfOne
  <2> QED BY <1>6, <1>7, <1>10, <1>11, <1>15, <1>16, <2>1, <2>2, Zenon
<1>19. DOMAIN r = DOMAIN q /\ r.parts = <<w>> /\ r.buffer = << >> /\ r.status = "ok"
  BY <1>6, <1>18 DEF IsParser
<1>20. r.first = q.first
  BY <1>6, <1>18 DEF IsParser
<1>21. r.finished = TRUE
  BY <1>6, <1>18, Zenon DEF IsParser
<1> QED BY <1>1, <1>6, <1>13, <1>17, <1>19, <1>20, <1>21 DEF Holds1, OnePart, IsParser

\* The turns of a feed: f[k] is what there is after k of them, at most.
Fed1(g, q, stale, n) ==
  g = [k \in 1 .. n |-> IF k = 1 THEN Ld!FeedOnce(q, stale) ELSE IF Ld!GoesOn(g[k - 1]) THEN Ld!FeedOnce(g[k - 1], stale) ELSE g[k - 1]]

\* The recursion has a solution for each number of turns.
LEMMA TurnsExist ==
  ASSUME NEW q, NEW stale
  PROVE  \A n \in Nat : \E g : Fed1(g, q, stale, n)
<1> DEFINE T == {n \in Nat : \E g : Fed1(g, q, stale, n)}
<1>1. 0 \in T
  <2>1. PICK g : g = [k \in 1 .. 0 |-> q]
    OBVIOUS
  <2>2. Fed1(g, q, stale, 0)
    BY <2>1 DEF Fed1
  <2> QED BY <2>2
<1>2. ASSUME NEW n \in Nat, n \in T PROVE n + 1 \in T
  <2>1. PICK g : Fed1(g, q, stale, n)
    BY <1>2
  <2>2. PICK a : a = IF n = 0 THEN Ld!FeedOnce(q, stale) ELSE IF Ld!GoesOn(g[n]) THEN Ld!FeedOnce(g[n], stale) ELSE g[n]
    OBVIOUS
  <2>3. PICK h : h = [k \in 1 .. n + 1 |-> IF k = n + 1 THEN a ELSE g[k]]
    OBVIOUS
  <2>4. \A k \in 1 .. n : g[k] = IF k = 1 THEN Ld!FeedOnce(q, stale) ELSE IF Ld!GoesOn(g[k - 1]) THEN Ld!FeedOnce(g[k - 1], stale) ELSE g[k - 1]
    BY <2>1 DEF Fed1
  <2>5. \A k \in 1 .. n + 1 : h[k] = IF k = 1 THEN Ld!FeedOnce(q, stale) ELSE IF Ld!GoesOn(h[k - 1]) THEN Ld!FeedOnce(h[k - 1], stale) ELSE h[k - 1]
    <3>1. ASSUME NEW k \in 1 .. n
          PROVE  h[k] = IF k = 1 THEN Ld!FeedOnce(q, stale) ELSE IF Ld!GoesOn(h[k - 1]) THEN Ld!FeedOnce(h[k - 1], stale) ELSE h[k - 1]
      <4>1. h[k] = g[k] /\ (k # 1 => h[k - 1] = g[k - 1])
        BY <2>3
      <4> QED BY <2>4, <4>1
    <3>2. h[n + 1] = IF n + 1 = 1 THEN Ld!FeedOnce(q, stale) ELSE IF Ld!GoesOn(h[n]) THEN Ld!FeedOnce(h[n], stale) ELSE h[n]
      <4>1. n # 0 => h[n] = g[n]
        BY <2>3
      <4>2. h[n + 1] = a
        BY <2>3
      <4> QED BY <2>2, <4>1, <4>2
    <3>3. \A k \in 1 .. n + 1 : k \in 1 .. n \/ (k = n + 1 /\ k - 1 = n)
      OBVIOUS
    <3> QED BY <3>1, <3>2, <3>3
  <2>6. h = [k \in 1 .. n + 1 |-> IF k = 1 THEN Ld!FeedOnce(q, stale) ELSE IF Ld!GoesOn(h[k - 1]) THEN Ld!FeedOnce(h[k - 1], stale) ELSE h[k - 1]]
    <3>1. PICK e : e = [k \in 1 .. n + 1 |-> IF k = 1 THEN Ld!FeedOnce(q, stale) ELSE IF Ld!GoesOn(h[k - 1]) THEN Ld!FeedOnce(h[k - 1], stale) ELSE h[k - 1]]
      OBVIOUS
    <3>2. \A k \in 1 .. n + 1 : h[k] = e[k]
      BY <2>5, <3>1
    <3>3. DOMAIN h = 1 .. n + 1 /\ DOMAIN e = 1 .. n + 1 /\ h = [k \in DOMAIN h |-> h[k]] /\ e = [k \in DOMAIN e |-> e[k]]
      BY <2>3, <3>1
    <3>4. h = e
      BY <3>2, <3>3
    <3> QED BY <3>1, <3>4
  <2>7. Fed1(h, q, stale, n + 1)
    BY <2>6 DEF Fed1
  <2> QED BY <2>7
<1>3. Nat \subseteq T
  <2> HIDE DEF T
  <2> QED BY <1>1, <1>2, AllNumbers
<1> QED BY <1>3

\* A feed is one turn, if no other follows.
LEMMA FeedIsOne ==
  ASSUME NEW q, NEW stale, Len(q.buffer) \in Nat, NEW r, r = Ld!FeedOnce(q, stale), ~Ld!GoesOn(r)
  PROVE  Ld!FeedLoop(q, stale) = r
<1>1. PICK n \in Nat : n = Len(q.buffer) + 1 /\ n >= 1
  OBVIOUS
<1>2. PICK g : g = CHOOSE h : Fed1(h, q, stale, n)
  OBVIOUS
<1>3. Ld!FeedLoop(q, stale) = g[n]
  <2>1. Ld!FeedLoop(q, stale) = (CHOOSE h : h = [k \in 1 .. Len(q.buffer) + 1 |->
          IF k = 1 THEN Ld!FeedOnce(q, stale) ELSE IF Ld!GoesOn(h[k - 1]) THEN Ld!FeedOnce(h[k - 1], stale) ELSE h[k - 1]])[Len(q.buffer) + 1]
    BY Zenon DEF Ld!FeedLoop
  <2> QED BY <1>1, <1>2, <2>1, Zenon DEF Fed1
<1>4. Fed1(g, q, stale, n)
  <2>1. \E h : Fed1(h, q, stale, n)
    BY TurnsExist
  <2> QED BY <1>2, <2>1, Zenon
<1>5. \A k \in 1 .. n : g[k] = IF k = 1 THEN r ELSE IF Ld!GoesOn(g[k - 1]) THEN Ld!FeedOnce(g[k - 1], stale) ELSE g[k - 1]
  BY <1>4 DEF Fed1
<1> DEFINE T == {k \in Nat : k + 1 \in 1 .. n => g[k + 1] = r}
<1>6. 0 \in T
  BY <1>1, <1>5
<1>7. ASSUME NEW k \in Nat, k \in T PROVE k + 1 \in T
  <2>1. CASE k + 2 \in 1 .. n
    <3>1. g[k + 1] = r
      BY <1>1, <1>7, <2>1
    <3>2. k + 2 # 1 /\ k + 2 - 1 = k + 1
      OBVIOUS
    <3>3. g[k + 2] = IF Ld!GoesOn(g[k + 1]) THEN Ld!FeedOnce(g[k + 1], stale) ELSE g[k + 1]
      BY <1>5, <2>1, <3>2
    <3>4. g[k + 2] = r
      BY <3>1, <3>3
    <3>5. k + 1 + 1 = k + 2
      OBVIOUS
    <3> QED BY <3>4, <3>5
  <2>2. CASE k + 2 \notin 1 .. n
    BY <2>2
  <2> QED BY <2>1, <2>2
<1>8. Nat \subseteq T
  <2> HIDE DEF T
  <2> QED BY <1>6, <1>7, AllNumbers
<1>9. PICK k \in Nat : k + 1 = n
  BY <1>1
<1>10. g[n] = r
  BY <1>1, <1>8, <1>9
<1> QED BY <1>3, <1>10

\* And two, if one follows and none after that.
LEMMA FeedIsTwo ==
  ASSUME NEW q, NEW stale, Len(q.buffer) \in Nat, Len(q.buffer) > 0, NEW r, r = Ld!FeedOnce(q, stale), Ld!GoesOn(r),
         NEW z, z = Ld!FeedOnce(r, stale), ~Ld!GoesOn(z)
  PROVE  Ld!FeedLoop(q, stale) = z
<1>1. PICK n \in Nat : n = Len(q.buffer) + 1 /\ n >= 2
  OBVIOUS
<1>2. PICK g : g = CHOOSE h : Fed1(h, q, stale, n)
  OBVIOUS
<1>3. Ld!FeedLoop(q, stale) = g[n]
  <2>1. Ld!FeedLoop(q, stale) = (CHOOSE h : h = [k \in 1 .. Len(q.buffer) + 1 |->
          IF k = 1 THEN Ld!FeedOnce(q, stale) ELSE IF Ld!GoesOn(h[k - 1]) THEN Ld!FeedOnce(h[k - 1], stale) ELSE h[k - 1]])[Len(q.buffer) + 1]
    BY Zenon DEF Ld!FeedLoop
  <2> QED BY <1>1, <1>2, <2>1, Zenon DEF Fed1
<1>4. Fed1(g, q, stale, n)
  <2>1. \E h : Fed1(h, q, stale, n)
    BY TurnsExist
  <2> QED BY <1>2, <2>1, Zenon
<1>5. \A k \in 1 .. n : g[k] = IF k = 1 THEN r ELSE IF Ld!GoesOn(g[k - 1]) THEN Ld!FeedOnce(g[k - 1], stale) ELSE g[k - 1]
  BY <1>4 DEF Fed1
<1>6. g[2] = z
  <2>1. g[1] = r
    BY <1>1, <1>5
  <2>2. 2 \in 1 .. n /\ 2 # 1 /\ 2 - 1 = 1
    BY <1>1
  <2>3. g[2] = IF Ld!GoesOn(g[1]) THEN Ld!FeedOnce(g[1], stale) ELSE g[1]
    BY <1>5, <2>2
  <2> QED BY <2>1, <2>3
<1> DEFINE T == {k \in Nat : k + 2 \in 1 .. n => g[k + 2] = z}
<1>7. 0 \in T
  BY <1>6
<1>8. ASSUME NEW k \in Nat, k \in T PROVE k + 1 \in T
  <2>1. CASE k + 3 \in 1 .. n
    <3>1. g[k + 2] = z
      BY <1>1, <1>8, <2>1
    <3>2. k + 3 # 1 /\ k + 3 - 1 = k + 2
      OBVIOUS
    <3>3. g[k + 3] = IF Ld!GoesOn(g[k + 2]) THEN Ld!FeedOnce(g[k + 2], stale) ELSE g[k + 2]
      BY <1>5, <2>1, <3>2
    <3>4. g[k + 3] = z
      BY <3>1, <3>3
    <3>5. k + 1 + 2 = k + 3
      OBVIOUS
    <3> QED BY <3>4, <3>5
  <2>2. CASE k + 3 \notin 1 .. n
    BY <2>2
  <2> QED BY <2>1, <2>2
<1>9. Nat \subseteq T
  <2> HIDE DEF T
  <2> QED BY <1>7, <1>8, AllNumbers
<1>10. PICK k \in Nat : k + 2 = n
  BY <1>1
<1>11. g[n] = z
  BY <1>1, <1>9, <1>10
<1> QED BY <1>3, <1>11

\* What has come up to k has been fed, the content from o on in this call.
Came(r, t, f, n, o, k) ==
  /\ r.status # "bad"
  /\ k < Len(t) => Takes(r, t, f, n, o, k)
  /\ k = Len(t) => Holds1(r, << >>, f, Piece(t, o, n + 6), TRUE)

\* The parser that a feed begins with.
Begun(w, q, x) == w = [q EXCEPT !.buffer = @ \o x, !.status = "ok"]

\* It is as it was, with more in its buffer.
LEMMA FeedBegins ==
  ASSUME NEW q, NEW b, NEW first, NEW finis, IsParser(q, b, first, finis), NEW x, NEW w, Begun(w, q, x)
  PROVE  IsParser(w, b \o x, first, finis) /\ w.parts = q.parts /\ w.status = "ok"
<1>1. DOMAIN w = DOMAIN q /\ w.buffer = q.buffer \o x /\ w.parts = q.parts /\ w.status = "ok"
  BY DEF IsParser, Begun
<1>2. w.first = q.first /\ w.finished = q.finished
  BY DEF IsParser, Begun
<1> QED BY <1>1, <1>2 DEF IsParser

\* A turn in which the parser waits or ends is the last.
LEMMA NoTurnFollows ==
  ASSUME NEW r
  PROVE  /\ r.status # "ok" => ~Ld!GoesOn(r)
         /\ r.finished => ~Ld!GoesOn(r)
BY Zenon DEF Ld!GoesOn

\* The content that comes.
LEMMA FeedMore ==
  ASSUME NEW t, NEW S, NEW f, NEW d, TextOK(t, S, f, d), NEW o \in Nat, 6 =< o, o =< Len(d) + 6, NEW k \in Nat, o =< k, k =< Len(t),
         NEW stale, NEW w, Holds1(w, Piece(t, o, k), f, << >>, FALSE), w.status = "ok"
  PROVE  ~Ld!GoesOn(Ld!FeedOnce(w, stale)) /\ Came(Ld!FeedOnce(w, stale), t, f, Len(d), o, k)
<1>1. PICK r : r = Ld!FeedOnce(w, stale)
  OBVIOUS
<1>4. Len(t) \in Nat /\ (k < Len(t) \/ k = Len(t))
  BY DEF TextOK
<1>2. CASE k < Len(t)
  <2>1. r.status = "not ready" /\ Takes(r, t, f, Len(d), o, k)
    BY <1>1, <1>2, TurnTakes
  <2>2. ~Ld!GoesOn(r)
    <3>1. r.status # "ok"
      BY <2>1
    <3> QED BY <3>1, NoTurnFollows, Zenon
  <2>3. k # Len(t)
    BY <1>2, <1>4
  <2>4. r.status # "bad"
    BY <2>1
  <2>5. Came(r, t, f, Len(d), o, k)
    BY <2>1, <2>3, <2>4 DEF Came
  <2> QED BY <1>1, <2>2, <2>5
<1>3. CASE k = Len(t)
  <2>1. r.status = "ok" /\ Holds1(r, << >>, f, Piece(t, o, Len(d) + 6), TRUE)
    BY <1>1, <1>3, TurnEnds
  <2>2. ~Ld!GoesOn(r)
    <3>1. r.finished
      BY <2>1, Zenon DEF Holds1, IsParser
    <3> QED BY <3>1, NoTurnFollows, Zenon
  <2>3. ~(k < Len(t))
    BY <1>3, <1>4
  <2>4. r.status # "bad"
    BY <2>1
  <2>5. Came(r, t, f, Len(d), o, k)
    BY <1>3, <2>1, <2>3, <2>4 DEF Came
  <2> QED BY <1>1, <2>2, <2>5
<1> QED BY <1>2, <1>3, <1>4

\* A later read.
LEMMA LaterFeed ==
  ASSUME NEW t, NEW S, NEW f, NEW d, TextOK(t, S, f, d), NEW o \in Nat, 6 =< o, o =< Len(d) + 6, NEW k \in Nat, o =< k,
         NEW m \in Nat, k =< m, m =< Len(t),
         NEW stale, NEW q, Holds1(q, Piece(t, o, k), f, << >>, FALSE)
  PROVE  Came(Ld!Feed(q, Piece(t, k, m), stale), t, f, Len(d), o, m)
<1>1. PICK b, x : b = Piece(t, o, k) /\ x = Piece(t, k, m)
  OBVIOUS
<1>2. PICK w : Begun(w, q, x)
  BY DEF Begun
<1>3. t \in Seq(S) /\ o =< m /\ Len(t) \in Nat
  BY DEF TextOK
<1>4. b \o x = Piece(t, o, m)
  BY <1>1, <1>3, PiecesJoin
<1>5. IsParser(w, Piece(t, o, m), TRUE, FALSE) /\ w.parts = q.parts /\ w.status = "ok"
  <2>1. IsParser(q, b, TRUE, FALSE)
    BY <1>1 DEF Holds1
  <2>2. IsParser(w, b \o x, TRUE, FALSE) /\ w.parts = q.parts /\ w.status = "ok"
    BY <1>2, <2>1, FeedBegins
  <2> QED BY <1>4, <2>2
<1>6. Holds1(w, Piece(t, o, m), f, << >>, FALSE)
  BY <1>5 DEF Holds1
<1>7. ~Ld!GoesOn(Ld!FeedOnce(w, stale)) /\ Came(Ld!FeedOnce(w, stale), t, f, Len(d), o, m)
  BY <1>3, <1>5, <1>6, FeedMore
<1>8. Len(w.buffer) \in Nat
  <2>1. Piece(t, o, m) \in Seq(S)
    BY <1>3, PieceHas
  <2>2. w.buffer = Piece(t, o, m)
    BY <1>5 DEF IsParser
  <2> QED BY <2>1, <2>2
<1>9. Ld!FeedLoop(w, stale) = Ld!FeedOnce(w, stale)
  BY <1>7, <1>8, FeedIsOne
<1>10. Ld!Feed(q, x, stale) = Ld!FeedLoop(w, stale)
  BY <1>2, Zenon DEF Ld!Feed, Begun
<1> QED BY <1>1, <1>7, <1>9, <1>10

\* The first read.
LEMMA FirstFeed ==
  ASSUME NEW t, NEW S, NEW f, NEW d, TextOK(t, S, f, d), NEW k \in Nat, 1 =< k, k =< Len(t), NEW stale, NEW q, Waits0(q, << >>)
  PROVE  /\ k < 6 => Ld!Feed(q, Piece(t, 1, k), stale).status = "not ready" /\ Waits0(Ld!Feed(q, Piece(t, 1, k), stale), Piece(t, 1, k))
         /\ k >= 6 => Came(Ld!Feed(q, Piece(t, 1, k), stale), t, f, Len(d), 6, k)
<1>1. PICK x : x = Piece(t, 1, k)
  OBVIOUS
<1>2. PICK w : Begun(w, q, x)
  BY DEF Begun
<1>3. PICK n \in Nat : n = Len(d) /\ Len(t) = n + 10 /\ n > 0
  BY DEF TextOK, Clear, IsForm
<1>4. x \in Seq(S) /\ Len(x) = k - 1
  <2>1. t \in Seq(S) /\ 1 \in Nat
    BY DEF TextOK
  <2> QED BY <1>1, <2>1, PieceHas
<1>5. << >> \o x = x
  BY <1>4
<1>6. Waits0(w, x) /\ w.status = "ok"
  <2>1. IsParser(q, << >>, FALSE, FALSE)
    BY DEF Waits0
  <2>2. IsParser(w, << >> \o x, FALSE, FALSE) /\ w.parts = q.parts /\ w.status = "ok"
    BY <1>2, <2>1, FeedBegins
  <2> QED BY <1>5, <2>2 DEF Waits0
<1>7. Ld!Feed(q, x, stale) = Ld!FeedLoop(w, stale)
  BY <1>2, Zenon DEF Ld!Feed, Begun
<1>8. w.buffer = x
  BY <1>6 DEF Waits0, IsParser
<1>9. Len(w.buffer) \in Nat /\ Len(w.buffer) = k - 1
  BY <1>4, <1>8
<1>10. PICK r : r = Ld!FeedOnce(w, stale)
  OBVIOUS
<1>11. CASE k < 6
  <2>1. Waits0(r, x) /\ r.status = "not ready"
    BY <1>1, <1>6, <1>10, <1>11, TurnWaits
  <2>2. ~Ld!GoesOn(r)
    <3>1. r.status # "ok"
      BY <2>1
    <3> QED BY <3>1, NoTurnFollows, Zenon
  <2>3. Ld!FeedLoop(w, stale) = r
    BY <1>9, <1>10, <2>2, FeedIsOne
  <2>5. ~(k >= 6)
    BY <1>11
  <2>6. Ld!Feed(q, x, stale) = r
    BY <1>7, <2>3
  <2> QED BY <1>1, <2>1, <2>5, <2>6
<1>12. CASE k >= 6
  <2>1. Holds1(r, Piece(t, 6, k), f, << >>, FALSE) /\ r.status = "ok"
    <3>1. 6 =< k
      BY <1>12
    <3> QED BY <1>1, <1>6, <1>10, <3>1, TurnBegins
  <2>2. PICK o \in Nat : o = 6
    OBVIOUS
  <2>3. 6 =< o /\ o =< Len(d) + 6 /\ o =< k /\ t \in Seq(S)
    BY <1>3, <1>12, <2>2 DEF TextOK
  <2>4. r.buffer = Piece(t, o, k) /\ Len(Piece(t, o, k)) = k - o
    <3>1. r.buffer = Piece(t, o, k)
      BY <2>1, <2>2 DEF Holds1, IsParser
    <3>2. Len(Piece(t, o, k)) = k - o
      BY <2>3, PieceHas
    <3> QED BY <3>1, <3>2
  <2>5. ~r.finished
    BY <2>1, Zenon DEF Holds1, IsParser
  <2>6. Len(Ld!EndBoundary) = 4
    BY DEF Ld!EndBoundary
  <2>7. CASE k - o > 4
    <3>1. Ld!GoesOn(r)
      <4>1. Ld!More(r.buffer)
        BY <2>4, <2>6, <2>7 DEF Ld!More
      <4> QED BY <2>1, <2>5, <4>1, Zenon DEF Ld!GoesOn
    <3>2. PICK z : z = Ld!FeedOnce(r, stale)
      OBVIOUS
    <3>3. Holds1(r, Piece(t, o, k), f, << >>, FALSE)
      BY <2>1, <2>2
    <3>4. ~Ld!GoesOn(z) /\ Came(z, t, f, Len(d), o, k)
      BY <2>1, <2>3, <3>2, <3>3, FeedMore
    <3>5. Len(w.buffer) > 0
      BY <1>9, <1>12
    <3>6. Ld!FeedLoop(w, stale) = z
      BY <1>9, <1>10, <3>1, <3>2, <3>4, <3>5, FeedIsTwo
    <3>7. Ld!Feed(q, x, stale) = z
      BY <1>7, <3>6
    <3>8. ~(k < 6) /\ Came(z, t, f, Len(d), 6, k)
      BY <1>12, <2>2, <3>4
    <3> QED BY <1>1, <3>7, <3>8
  <2>8. CASE ~(k - o > 4)
    <3>1. ~Ld!GoesOn(r)
      <4>1. ~Ld!More(r.buffer)
        BY <2>4, <2>6, <2>8 DEF Ld!More
      <4> QED BY <4>1, Zenon DEF Ld!GoesOn
    <3>2. Ld!FeedLoop(w, stale) = r
      BY <1>9, <1>10, <3>1, FeedIsOne
    <3>3. k < Len(t) /\ k # Len(t)
      BY <1>3, <1>12, <2>2, <2>8
    <3>4. Piece(t, o, o) = << >>
      <4>1. o + 1 > o
        OBVIOUS
      <4> QED BY <4>1 DEF Piece
    <3>5. HoldsTo(r, t, f, o, o, k)
      BY <2>1, <2>2, <3>4 DEF HoldsTo
    <3>6. o =< o /\ o =< k /\ o =< Len(d) + 6
      BY <2>3
    <3>7. r.status # "bad"
      BY <2>1
    <3>8. Came(r, t, f, Len(d), o, k)
      BY <3>3, <3>5, <3>6, <3>7, Zenon DEF Came, Takes
    <3>9. Ld!Feed(q, x, stale) = r
      BY <1>7, <3>2
    <3>10. ~(k < 6) /\ Came(r, t, f, Len(d), 6, k)
      BY <1>12, <2>2, <3>8
    <3> QED BY <1>1, <3>9, <3>10
  <2> QED BY <2>7, <2>8
<1> QED BY <1>11, <1>12

\* A fold over one.
AddedOne(g, p) == g = [s \in SUBSET {1} |-> IF s = {} THEN << >> ELSE Ld!AddNew(g[s \ {Ld!Max(s)}], <<p>>[Ld!Max(s)])]

\* The first part is taken over.
LEMMA OneIsAdded ==
  ASSUME NEW p
  PROVE  Ld!FoldLeft(Ld!AddNew, << >>, <<p>>) = <<p>>
<1>1. PICK ps : ps = <<p>>
  OBVIOUS
<1>2. DOMAIN ps = {1} /\ ps[1] = p
  BY <1>1
<1>3. PICK g : g = CHOOSE h : AddedOne(h, p)
  OBVIOUS
<1>4. Ld!FoldLeft(Ld!AddNew, << >>, ps) = g[{1}]
  <2>1. Ld!FoldLeft(Ld!AddNew, << >>, ps) =
          (CHOOSE h : h = [s \in SUBSET {1} |-> IF s = {} THEN << >> ELSE Ld!AddNew(h[s \ {Ld!Max(s)}], ps[Ld!Max(s)])])[{1}]
    BY <1>2, Zenon DEF Ld!FoldLeft, Ld!MapThenFoldSet
  <2> QED BY <1>1, <1>3, <2>1, Zenon DEF AddedOne
<1>5. Ld!Max({1}) = 1
  BY DEF Ld!Max
<1>6. Ld!AddNew(<< >>, p) = <<p>>
  <2>1. PICK e : e = << >>
    OBVIOUS
  <2>2. ~\E i \in DOMAIN e : e[i].file = p.file
    BY <2>1
  <2>3. Ld!AddNew(e, p) = Append(e, p)
    BY <2>2, Zenon DEF Ld!AddNew
  <2>4. Append(e, p) = <<p>>
    BY <2>1
  <2> QED BY <2>1, <2>3, <2>4
<1>7. PICK h : h = [s \in SUBSET {1} |-> IF s = {} THEN << >> ELSE <<p>>]
  OBVIOUS
<1>8. \A s \in SUBSET {1} : s = {} \/ s = {1}
  OBVIOUS
<1>9. AddedOne(h, p)
  <2>1. PICK e : e = [s \in SUBSET {1} |-> IF s = {} THEN << >> ELSE Ld!AddNew(h[s \ {Ld!Max(s)}], <<p>>[Ld!Max(s)])]
    OBVIOUS
  <2>2. h[{}] = << >> /\ h[{1}] = <<p>> /\ {1} \ {1} = {}
    BY <1>7
  <2>3. e[{}] = << >>
    BY <2>1
  <2>4. e[{1}] = Ld!AddNew(h[{1} \ {1}], <<p>>[1])
    BY <1>5, <2>1
  <2>5. e[{1}] = <<p>>
    BY <1>1, <1>2, <1>6, <2>2, <2>4
  <2>6. \A s \in SUBSET {1} : h[s] = e[s]
    BY <1>8, <2>2, <2>3, <2>5
  <2>7. h = e
    <3>1. DOMAIN h = SUBSET {1} /\ DOMAIN e = SUBSET {1} /\ h = [s \in DOMAIN h |-> h[s]] /\ e = [s \in DOMAIN e |-> e[s]]
      BY <1>7, <2>1
    <3> QED BY <2>6, <3>1
  <2> QED BY <2>1, <2>7 DEF AddedOne
<1>10. AddedOne(g, p)
  BY <1>3, <1>9, Zenon
<1>11. g[{}] = << >>
  BY <1>10 DEF AddedOne
<1>12. g[{1}] = Ld!AddNew(g[{1} \ {1}], <<p>>[1])
  BY <1>5, <1>10 DEF AddedOne
<1>13. g[{1}] = <<p>>
  <2>1. {1} \ {1} = {}
    OBVIOUS
  <2> QED BY <1>1, <1>2, <1>6, <1>11, <1>12, <2>1
<1> QED BY <1>1, <1>4, <1>13

\* A part without its content.
LEMMA EmptiedIs ==
  ASSUME NEW p, NEW f, NEW x, NEW fin, NEW new, IsPart(p, f, x, fin, new), NEW w, w = [p EXCEPT !.data = << >>]
  PROVE  IsPart(w, f, << >>, fin, new)
<1>1. DOMAIN w = DOMAIN p /\ w.file = p.file /\ w.data = << >>
  BY DEF IsPart
<1>2. w.fin = p.fin /\ w.created = p.created
  BY DEF IsPart
<1> QED BY <1>1, <1>2 DEF IsPart

\* What apply() makes of no part, of the first and of one that goes on.
LEMMA NothingApplied ==
  ASSUME NEW items
  PROVE  Ld!Applied(<< >>, items).items = items /\ Ld!Applied(<< >>, items).parts = << >>
<1>1. Ld!Applied(<< >>, items) = [parts |-> << >>, items |-> items]
  BY Zenon DEF Ld!Applied
<1> QED BY <1>1

\* Of the first, a copy is taken.
LEMMA FirstApplied ==
  ASSUME NEW ps, NEW f, NEW x, NEW fin \in BOOLEAN, OnePart(ps, f, x, fin, FALSE), NEW a, a = Ld!Applied(ps, << >>)
  PROVE  OnePart(a.items, f, x, fin, FALSE) /\ (~fin => OnePart(a.parts, f, << >>, FALSE, FALSE))
<1>1. PICK p : ps = <<p>> /\ IsPart(p, f, x, fin, FALSE)
  BY DEF OnePart
<1>2. ps # << >> /\ ~Ld!Merges(<< >>)
  BY <1>1 DEF Ld!Merges
<1>3. a = [parts |-> Ld!Cleared(ps), items |-> Ld!FoldLeft(Ld!AddNew, << >>, ps)]
  BY <1>2, Zenon DEF Ld!Applied
<1>4. a.items = <<p>>
  BY <1>1, <1>3, OneIsAdded
<1>5. ASSUME ~fin PROVE OnePart(a.parts, f, << >>, FALSE, FALSE)
  <2>1. PICK w : w = [p EXCEPT !.data = << >>]
    OBVIOUS
  <2>2. Ld!Last(ps) = p
    BY <1>1, LastOfOne
  <2>3. ~p.fin
    BY <1>1, <1>5, Zenon DEF IsPart
  <2>4. Ld!Cleared(ps) = <<w>>
    BY <1>2, <2>1, <2>2, <2>3, Zenon DEF Ld!Cleared
  <2>5. fin = FALSE
    BY <1>5
  <2>6. IsPart(w, f, << >>, FALSE, FALSE)
    BY <1>1, <2>1, <2>5, EmptiedIs
  <2>7. a.parts = <<w>>
    BY <1>3, <2>4
  <2> QED BY <2>6, <2>7 DEF OnePart
<1> QED BY <1>1, <1>4, <1>5 DEF OnePart

\* One that goes on gets what has come.
LEMMA MoreApplied ==
  ASSUME NEW S, NEW x \in Seq(S), NEW ps, NEW f, NEW fin \in BOOLEAN, OnePart(ps, f, x, fin, FALSE),
         NEW items, OnePart(items, f, << >>, FALSE, TRUE), NEW a, a = Ld!Applied(ps, items)
  PROVE  OnePart(a.items, f, x, fin, TRUE) /\ (~fin => OnePart(a.parts, f, << >>, FALSE, FALSE))
<1>1. PICK p : ps = <<p>> /\ IsPart(p, f, x, fin, FALSE)
  BY DEF OnePart
<1>2. PICK i : items = <<i>> /\ IsPart(i, f, << >>, FALSE, TRUE)
  BY DEF OnePart
<1>3. Ld!Last(items) = i
  BY <1>2, LastOfOne
<1>4. ps # << >> /\ Ld!Merges(items)
  <2>1. ps # << >> /\ items # << >>
    BY <1>1, <1>2
  <2>2. ~i.fin
    BY <1>2, Zenon DEF IsPart
  <2> QED BY <1>3, <2>1, <2>2, Zenon DEF Ld!Merges
<1>5. a = [parts |-> Ld!LeftOf(ps), items |-> Ld!Merged(items, ps[1])]
  BY <1>4, Zenon DEF Ld!Applied
<1>6. ps[1] = p
  BY <1>1
<1>7. PICK v : v = Ld!Extend(i, x)
  OBVIOUS
<1>8. IsPart(v, f, x, FALSE, TRUE)
  BY <1>2, <1>7, ExtendIs
<1>9. PICK w : w = [v EXCEPT !.fin = p.fin]
  OBVIOUS
<1>10. IsPart(w, f, x, fin, TRUE)
  <2>1. DOMAIN w = DOMAIN v /\ w.file = v.file /\ w.data = v.data /\ w.created = v.created
    BY <1>8, <1>9 DEF IsPart
  <2>2. w.fin = p.fin
    BY <1>8, <1>9 DEF IsPart
  <2> QED BY <1>1, <1>8, <2>1, <2>2 DEF IsPart
<1>11. Ld!Merged(items, p) = <<w>>
  <2>1. p.data = x
    BY <1>1 DEF IsPart
  <2>2. Ld!WithLast(<<i>>, w) = <<w>>
    BY LastOfOne
  <2> QED BY <1>2, <1>3, <1>7, <1>9, <2>1, <2>2, Zenon DEF Ld!Merged
<1>12. OnePart(a.items, f, x, fin, TRUE)
  <2>1. a.items = <<w>>
    BY <1>5, <1>6, <1>11
  <2> QED BY <1>10, <2>1 DEF OnePart
<1>13. ASSUME ~fin PROVE OnePart(a.parts, f, << >>, FALSE, FALSE)
  <2>1. PICK y : y = [p EXCEPT !.data = << >>]
    OBVIOUS
  <2>2. ~p.fin
    BY <1>1, <1>13, Zenon DEF IsPart
  <2>3. fin = FALSE
    BY <1>13
  <2>4. IsPart(y, f, << >>, FALSE, FALSE)
    BY <1>1, <2>1, <2>3, EmptiedIs
  <2>5. Ld!LeftOf(ps) = [ps EXCEPT ![1] = [@ EXCEPT !.data = << >>]]
    BY <1>6, <2>2, Zenon DEF Ld!LeftOf
  <2>6. [ps EXCEPT ![1] = [@ EXCEPT !.data = << >>]] = [ps EXCEPT ![1] = y]
    BY <1>6, <2>1
  <2>7. [ps EXCEPT ![1] = y] = <<y>>
    BY <1>1
  <2>8. a.parts = <<y>>
    BY <1>5, <2>5, <2>6, <2>7
  <2> QED BY <2>4, <2>8 DEF OnePart
<1> QED BY <1>12, <1>13

-----------------------------------------------------------------------------
(* Upload: what is saved.                                                      *)

\* What handle_multipart_upload() begins with.
Before1(items) == [items |-> items, disk |-> disk, status |-> 100, stop |-> FALSE]

SavedOne(g, i, broken) ==
  g = [s \in SUBSET {1} |-> IF s = {} THEN Before1(<<i>>) ELSE Ld!Save(g[s \ {Ld!Max(s)}], <<i>>[Ld!Max(s)], broken)]

\* It is over after one turn.
LEMMA OneIsSaved ==
  ASSUME NEW i, NEW broken
  PROVE  Ld!FileUpload(<<i>>, broken) = Ld!Save(Before1(<<i>>), i, broken)
<1>1. PICK its : its = <<i>>
  OBVIOUS
<1>2. DOMAIN its = {1} /\ its[1] = i /\ its # << >>
  BY <1>1
<1>3. PICK g : g = CHOOSE h : SavedOne(h, i, broken)
  OBVIOUS
<1>4. Ld!FileUpload(its, broken) = g[{1}]
  <2>1. Ld!MultipartUpload(its, broken) =
          (CHOOSE h : h = [s \in SUBSET {1} |-> IF s = {} THEN [items |-> its, disk |-> disk, status |-> 100, stop |-> FALSE]
                                                ELSE Ld!Save(h[s \ {Ld!Max(s)}], its[Ld!Max(s)], broken)])[{1}]
    BY <1>2, Zenon DEF Ld!MultipartUpload, Ld!FoldLeft, Ld!MapThenFoldSet
  <2>2. Ld!FileUpload(its, broken) = Ld!MultipartUpload(its, broken)
    BY <1>2, Zenon DEF Ld!FileUpload
  <2>3. g = CHOOSE h : h = [s \in SUBSET {1} |-> IF s = {} THEN Before1(<<i>>) ELSE Ld!Save(h[s \ {Ld!Max(s)}], <<i>>[Ld!Max(s)], broken)]
    BY <1>3, Zenon DEF SavedOne
  <2>4. g = CHOOSE h : h = [s \in SUBSET {1} |-> IF s = {} THEN [items |-> its, disk |-> disk, status |-> 100, stop |-> FALSE]
                                                 ELSE Ld!Save(h[s \ {Ld!Max(s)}], its[Ld!Max(s)], broken)]
    BY <1>1, <2>3 DEF Before1
  <2> QED BY <2>1, <2>2, <2>4, Zenon
<1>5. Ld!Max({1}) = 1
  BY DEF Ld!Max
<1>6. PICK b : b = Before1(<<i>>)
  OBVIOUS
<1>7. PICK a : a = Ld!Save(b, i, broken)
  OBVIOUS
<1>8. PICK h : h = [s \in SUBSET {1} |-> IF s = {} THEN b ELSE a]
  OBVIOUS
<1>9. \A s \in SUBSET {1} : s = {} \/ s = {1}
  OBVIOUS
<1>10. SavedOne(h, i, broken)
  <2>1. PICK e : e = [s \in SUBSET {1} |-> IF s = {} THEN Before1(<<i>>) ELSE Ld!Save(h[s \ {Ld!Max(s)}], <<i>>[Ld!Max(s)], broken)]
    OBVIOUS
  <2>2. h[{}] = b /\ h[{1}] = a /\ {1} \ {1} = {}
    BY <1>8
  <2>3. e[{}] = b
    BY <1>6, <2>1
  <2>4. e[{1}] = Ld!Save(h[{1} \ {1}], <<i>>[1], broken)
    BY <1>5, <2>1
  <2>5. e[{1}] = a
    BY <1>1, <1>2, <1>7, <2>2, <2>4
  <2>6. \A s \in SUBSET {1} : h[s] = e[s]
    BY <1>9, <2>2, <2>3, <2>5
  <2>7. h = e
    <3>1. DOMAIN h = SUBSET {1} /\ DOMAIN e = SUBSET {1} /\ h = [s \in DOMAIN h |-> h[s]] /\ e = [s \in DOMAIN e |-> e[s]]
      BY <1>8, <2>1
    <3> QED BY <2>6, <3>1
  <2> QED BY <2>1, <2>7 DEF SavedOne
<1>11. SavedOne(g, i, broken)
  BY <1>3, <1>10, Zenon
<1>12. g[{}] = b
  BY <1>6, <1>11 DEF SavedOne
<1>13. g[{1}] = Ld!Save(g[{1} \ {1}], <<i>>[1], broken)
  BY <1>5, <1>11 DEF SavedOne
<1>14. g[{1}] = a
  <2>1. {1} \ {1} = {}
    OBVIOUS
  <2> QED BY <1>1, <1>2, <1>7, <1>12, <1>13, <2>1
<1> QED BY <1>1, <1>4, <1>6, <1>7, <1>14

\* The disk when x has been written to f.
Written(f, x) == [disk EXCEPT ![f] = IF @ = NoFile THEN x ELSE @ \o x]

\* Somebody else has the file.
Refused1(s) == s.disk = disk /\ s.status = 409

\* The file was written to, or could not be opened.
Wrote1(s, f, x, fin, broken) ==
  /\ s.disk = IF f \in broken THEN disk ELSE Written(f, x)
  /\ fin => s.status = IF f \in broken THEN 400 ELSE 200
  /\ ~fin => s.status = 100 /\ OnePart(s.items, f, << >>, FALSE, TRUE)

\* What comes of one item.
LEMMA UploadIs ==
  ASSUME NEW items, NEW f, NEW x, NEW fin \in BOOLEAN, NEW new \in BOOLEAN, OnePart(items, f, x, fin, new), NEW broken,
         NEW s, s = Ld!FileUpload(items, broken)
  PROVE  /\ disk[f] # NoFile /\ ~new => Refused1(s)
         /\ ~(disk[f] # NoFile /\ ~new) => Wrote1(s, f, x, fin, broken)
<1>1. PICK i : items = <<i>> /\ IsPart(i, f, x, fin, new)
  BY DEF OnePart
<1>2. PICK b : b = Before1(<<i>>)
  OBVIOUS
<1>3. s = Ld!Save(b, i, broken)
  BY <1>1, <1>2, OneIsSaved
<1>4. DOMAIN b = {"items", "disk", "status", "stop"} /\ b.items = <<i>> /\ b.disk = disk /\ b.status = 100
  BY <1>2 DEF Before1
<1>5. ~b.stop
  BY <1>2, Zenon DEF Before1
<1>6. i.file = f /\ i.data = x
  BY <1>1 DEF IsPart
<1>7. i.fin <=> fin
  BY <1>1, Zenon DEF IsPart
<1>8. i.created <=> new
  BY <1>1, Zenon DEF IsPart
<1>9. PICK after : after = IF f \in broken THEN disk ELSE Written(f, x)
  OBVIOUS
<1>10. (IF i.file \notin broken THEN Ld!Saved(i, disk) ELSE disk) = after
  <2>1. Ld!Saved(i, disk) = Written(f, x)
    BY <1>6, Zenon DEF Ld!Saved, Written
  <2> QED BY <1>6, <1>9, <2>1
<1>11. Ld!Conflict(i, disk) <=> disk[f] # NoFile /\ ~new
  BY <1>6, <1>8, Zenon DEF Ld!Conflict
<1>12. PICK k : k = Ld!Kept(i)
  OBVIOUS
<1>13. s = IF Ld!Conflict(i, disk) THEN [b EXCEPT !.status = 409, !.stop = TRUE]
           ELSE IF fin THEN [b EXCEPT !.disk = after, !.items = Tail(@), !.status = IF f \notin broken THEN 200 ELSE 400]
           ELSE [b EXCEPT !.disk = after, !.items = <<k>>, !.status = 100, !.stop = TRUE]
  BY <1>3, <1>4, <1>5, <1>6, <1>7, <1>10, <1>12, Zenon DEF Ld!Save
<1>14. ASSUME disk[f] # NoFile /\ ~new PROVE Refused1(s)
  <2>1. s = [b EXCEPT !.status = 409, !.stop = TRUE]
    BY <1>11, <1>13, <1>14, Zenon
  <2>2. s.disk = b.disk /\ s.status = 409
    BY <1>4, <2>1
  <2> QED BY <1>4, <2>2 DEF Refused1
<1>15. ASSUME ~(disk[f] # NoFile /\ ~new) PROVE Wrote1(s, f, x, fin, broken)
  <2>1. CASE fin
    <3>1. PICK st : st = IF f \notin broken THEN 200 ELSE 400
      OBVIOUS
    <3>2. s = [b EXCEPT !.disk = after, !.items = Tail(@), !.status = st]
      BY <1>11, <1>13, <1>15, <2>1, <3>1, Zenon
    <3>3. s.disk = after /\ s.status = st
      BY <1>4, <3>2
    <3>4. st = IF f \in broken THEN 400 ELSE 200
      BY <3>1
    <3> QED BY <1>9, <2>1, <3>3, <3>4 DEF Wrote1
  <2>2. CASE ~fin
    <3>1. s = [b EXCEPT !.disk = after, !.items = <<k>>, !.status = 100, !.stop = TRUE]
      BY <1>11, <1>13, <1>15, <2>2, Zenon
    <3>2. s.disk = after /\ s.items = <<k>> /\ s.status = 100
      BY <1>4, <3>1
    <3>3. k = [i EXCEPT !.created = TRUE, !.data = << >>]
      BY <1>12 DEF Ld!Kept
    <3>4. DOMAIN k = DOMAIN i /\ k.file = i.file /\ k.data = << >> /\ k.fin = i.fin
      BY <1>1, <3>3 DEF IsPart
    <3>5. k.created = TRUE
      BY <1>1, <3>3, Zenon DEF IsPart
    <3>6. fin = FALSE
      BY <2>2
    <3>7. IsPart(k, f, << >>, FALSE, TRUE)
      BY <1>1, <3>4, <3>5, <3>6 DEF IsPart
    <3> QED BY <1>9, <2>2, <3>2, <3>7 DEF Wrote1, OnePart
  <2> QED BY <2>1, <2>2
<1> QED BY <1>14, <1>15

\* Nothing to be saved is an error.
LEMMA NothingToSave ==
  ASSUME NEW broken, NEW s, s = Ld!FileUpload(<< >>, broken)
  PROVE  s.disk = disk /\ s.status = 400
<1>1. s = [items |-> << >>, disk |-> disk, status |-> 400, stop |-> TRUE]
  BY Zenon DEF Ld!FileUpload
<1> QED BY <1>1

-----------------------------------------------------------------------------
(* Upload: the connections.                                                    *)

IsUp(u, body) ==
  /\ DOMAIN u = {"state", "body", "left", "head", "parser", "items", "replies", "lost"}
  /\ u.body = body

\* One that is open and has not been answered, of which the text behind k is left.
IsOpen(u, body, k) ==
  /\ IsUp(u, body) /\ u.state = "open" /\ u.replies = << >>
  /\ u.left = Piece(Ld!Text(body), k, Len(Ld!Text(body)))

\* Nothing of it has been read.
Begins(u, body) == IsOpen(u, body, 0) /\ u.head = FALSE /\ Waits0(u.parser, << >>) /\ u.items = << >>

\* Where the content is, of which e is a place, when the text has come up to k.
Within(body, e, k) ==
  /\ e \in Nat /\ k \in Nat /\ 6 =< e /\ e =< k /\ e =< Len(body[1].data) + 6 /\ k =< Len(Ld!Text(body))

\* The header has come, and the content up to e has been saved.
GoesUp(u, body, e, k) ==
  /\ Within(body, e, k) /\ k < Len(Ld!Text(body)) /\ IsOpen(u, body, k) /\ u.head = TRUE
  /\ Holds1(u.parser, Piece(Ld!Text(body), e, k), body[1].file, << >>, FALSE)
  /\ OnePart(u.items, body[1].file, << >>, FALSE, TRUE)

\* More has come: the content from o up to e is to be saved, or all that is left.
SavesTo(u, body, o, e, k, new) ==
  /\ Within(body, e, k) /\ o =< e
  /\ Holds1(u.parser, Piece(Ld!Text(body), e, k), body[1].file, << >>, FALSE)
  /\ OnePart(u.items, body[1].file, Piece(Ld!Text(body), o, e), FALSE, new)

SavesAll(u, body, o, new) ==
  OnePart(u.items, body[1].file, Piece(Ld!Text(body), o, Len(body[1].data) + 6), TRUE, new)

HasArrived(u, body, o, k, new) ==
  /\ Within(body, o, k) /\ IsOpen(u, body, k) /\ u.head = TRUE
  /\ k < Len(Ld!Text(body)) => \E e : SavesTo(u, body, o, e, k, new)
  /\ k = Len(Ld!Text(body)) => SavesAll(u, body, o, new)

\* The header of the part was not in the first read.
TooShort(u, body) == IsUp(u, body) /\ u.replies = << >> /\ u.items = << >>

\* What has been read of it.
ReadText(u, n) == IF u.head THEN SubSeq(u.left, 1, n) ELSE Tail(SubSeq(u.left, 1, n))

\* What parse() makes of a connection; a is what apply() has made, b the text the parser keeps.
WasParsed(w, u, body, n, a, b, first, finis) ==
  /\ IsUp(w, body) /\ w.state = u.state /\ w.replies = u.replies /\ w.lost = u.lost
  /\ w.left = Ld!From(u.left, n + 1) /\ w.head = TRUE /\ w.items = a.items
  /\ IsParser(w.parser, b, first, finis) /\ w.parser.parts = a.parts

\* So it is when what has been fed is not refused.
LEMMA ParsedIs ==
  ASSUME NEW u, NEW body, IsUp(u, body), NEW n, NEW stale,
         NEW q, q = Ld!Feed(u.parser, ReadText(u, n), stale), q.status # "bad", NEW b, NEW first, NEW finis, IsParser(q, b, first, finis),
         NEW a, a = Ld!Applied(q.parts, u.items), NEW w, w = Ld!Parsed(u, n, stale)
  PROVE  WasParsed(w, u, body, n, a, b, first, finis) /\ w.parser.status # "bad"
<1>1. PICK r : r = [q EXCEPT !.parts = a.parts]
  OBVIOUS
<1>2. w = [u EXCEPT !.left = Ld!From(@, n + 1), !.head = TRUE, !.parser = r, !.items = a.items]
  BY <1>1, Zenon DEF Ld!Parsed, ReadText
<1>3. DOMAIN w = DOMAIN u /\ w.body = u.body /\ w.state = u.state /\ w.replies = u.replies
  BY <1>2 DEF IsUp
<1>4. w.left = Ld!From(u.left, n + 1) /\ w.items = a.items /\ w.parser = r
  BY <1>2 DEF IsUp
<1>5. w.lost = u.lost
  BY <1>2 DEF IsUp
<1>6. w.head = TRUE
  BY <1>2, Zenon DEF IsUp
<1>7. DOMAIN r = DOMAIN q /\ r.buffer = q.buffer /\ r.parts = a.parts /\ r.status = q.status
  BY <1>1 DEF IsParser
<1>8. r.first = q.first /\ r.finished = q.finished
  BY <1>1 DEF IsParser
<1> QED BY <1>3, <1>4, <1>5, <1>6, <1>7, <1>8 DEF IsUp, IsParser, WasParsed

\* What is sent is the text of a form.
LEMMA FormIs ==
  ASSUME NEW body, Ld!FormOK(body), NL # BB, NL # DD, BB # DD
  PROVE  \E S : TextOK(Ld!Text(body), S, body[1].file, body[1].data)
BY FormText, Zenon DEF TextOK

\* What is read of what is left, and what is left then.
LEMMA ReadIs ==
  ASSUME NEW S, NEW t \in Seq(S), NEW k \in Nat, NEW n \in Nat, k + n =< Len(t), NEW b, b = Piece(t, k, Len(t))
  PROVE  /\ SubSeq(b, 1, n) = Piece(t, k, k + n)
         /\ Ld!From(b, n + 1) = Piece(t, k + n, Len(t))
<1>1. PICK m \in Nat : m = Len(t)
  OBVIOUS
<1>2. k =< m /\ m =< Len(t) /\ b = Piece(t, k, m)
  BY <1>1
<1>3. Len(b) = m - k
  BY <1>2, PieceHas
<1>4. SubSeq(b, 1, n) = Piece(t, k, k + n)
  <2>1. PICK z \in Nat : z = 0
    OBVIOUS
  <2>2. z =< n /\ n =< m - k
    BY <1>1, <2>1
  <2>3. GoesThrough(t, k, m, z, n)
    BY <1>2, <2>2, PieceOfPiece
  <2>4. k + z = k /\ z + 1 = 1
    BY <2>1
  <2> QED BY <1>2, <2>3, <2>4 DEF GoesThrough
<1>5. Ld!From(b, n + 1) = Piece(t, k + n, m)
  <2>1. PICK y \in Nat : y = m - k
    BY <1>2
  <2>2. n =< y /\ y =< m - k
    BY <1>1, <2>1
  <2>3. GoesThrough(t, k, m, n, y)
    BY <1>2, <2>2, PieceOfPiece
  <2>4. k + y = m /\ y = Len(b)
    BY <1>3, <2>1
  <2> QED BY <1>2, <2>3, <2>4 DEF GoesThrough, Ld!From
<1> QED BY <1>1, <1>4, <1>5

\* A parser that holds a part is one, whatever its status.
LEMMA HoldsKept ==
  ASSUME NEW r, NEW ps, NEW b, NEW f, IsParser(r, b, TRUE, FALSE), r.parts = ps, OnePart(ps, f, << >>, FALSE, FALSE)
  PROVE  Holds1(r, b, f, << >>, FALSE)
BY DEF Holds1

\* What there was of the part before: the item that waits for more, or nothing.
HasSaved(its, f, new) == IF new THEN OnePart(its, f, << >>, FALSE, TRUE) ELSE its = << >>

\* The text behind k is left when n has been read.
LeavesFrom(u, n, t, k) == Ld!From(u.left, n + 1) = Piece(t, k, Len(t))

\* What has come of it, and has not been refused.
IsReadTo(w, u, body, o, k, new) == w.parser.status # "bad" /\ HasArrived(w, body, o, k, new) /\ w.lost = u.lost

\* More of it has been fed: the content from o on, when the text has come up to k.
FeedsTo(u, body, n, stale, o, k, new) ==
  /\ Within(body, o, k) /\ IsUp(u, body) /\ u.state = "open" /\ u.replies = << >>
  /\ HasSaved(u.items, body[1].file, new) /\ LeavesFrom(u, n, Ld!Text(body), k)
  /\ Came(Ld!Feed(u.parser, ReadText(u, n), stale), Ld!Text(body), body[1].file, Len(body[1].data), o, k)

\* What has been fed is applied to what there was.
LEMMA FedIsSaved ==
  ASSUME NEW body, NEW S, TextOK(Ld!Text(body), S, body[1].file, body[1].data), NEW o, NEW k, NEW u, NEW n, NEW stale,
         NEW new \in BOOLEAN, FeedsTo(u, body, n, stale, o, k, new), NEW w, w = Ld!Parsed(u, n, stale)
  PROVE  IsReadTo(w, u, body, o, k, new)
<1>0. /\ Within(body, o, k) /\ IsUp(u, body) /\ u.state = "open" /\ u.replies = << >>
      /\ HasSaved(u.items, body[1].file, new) /\ LeavesFrom(u, n, Ld!Text(body), k)
      /\ Came(Ld!Feed(u.parser, ReadText(u, n), stale), Ld!Text(body), body[1].file, Len(body[1].data), o, k)
  BY DEF FeedsTo
<1>1. PICK t, f, d : t = Ld!Text(body) /\ f = body[1].file /\ d = body[1].data
  OBVIOUS
<1>2. PICK q : q = Ld!Feed(u.parser, ReadText(u, n), stale)
  OBVIOUS
<1>3. Came(q, t, f, Len(d), o, k) /\ q.status # "bad"
  BY <1>0, <1>1, <1>2 DEF Came
<1>4. PICK a : a = Ld!Applied(q.parts, u.items)
  OBVIOUS
<1>5. t \in Seq(S) /\ Len(t) \in Nat /\ Len(d) \in Nat /\ Len(t) = Len(d) + 10
  BY <1>1 DEF TextOK, IsForm, Clear
<1>6. o \in Nat /\ k \in Nat /\ 6 =< o /\ o =< k /\ o =< Len(d) + 6 /\ k =< Len(t)
  BY <1>0, <1>1 DEF Within
<1>7. ASSUME NEW y \in Seq(S), NEW fin \in BOOLEAN, OnePart(q.parts, f, y, fin, FALSE)
      PROVE  OnePart(a.items, f, y, fin, new) /\ (~fin => OnePart(a.parts, f, << >>, FALSE, FALSE))
  <2>1. CASE new
    <3>1. OnePart(u.items, f, << >>, FALSE, TRUE) /\ new = TRUE
      BY <1>0, <1>1, <2>1 DEF HasSaved
    <3>2. PICK ps, its : ps = q.parts /\ its = u.items
      OBVIOUS
    <3>3. OnePart(ps, f, y, fin, FALSE) /\ OnePart(its, f, << >>, FALSE, TRUE) /\ a = Ld!Applied(ps, its)
      BY <1>4, <1>7, <3>1, <3>2
    <3>4. OnePart(a.items, f, y, fin, TRUE) /\ (~fin => OnePart(a.parts, f, << >>, FALSE, FALSE))
      BY <3>3, MoreApplied
    <3> QED BY <3>1, <3>4
  <2>2. CASE ~new
    <3>1. u.items = << >> /\ new = FALSE
      BY <1>0, <2>2 DEF HasSaved
    <3>2. PICK ps : ps = q.parts
      OBVIOUS
    <3>3. OnePart(ps, f, y, fin, FALSE) /\ a = Ld!Applied(ps, << >>)
      BY <1>4, <1>7, <3>1, <3>2
    <3>4. OnePart(a.items, f, y, fin, FALSE) /\ (~fin => OnePart(a.parts, f, << >>, FALSE, FALSE))
      BY <3>3, FirstApplied
    <3> QED BY <3>1, <3>4
  <2> QED BY <2>1, <2>2
<1>8. CASE k < Len(t)
  <2>1. PICK e \in Nat : o =< e /\ e =< k /\ e =< Len(d) + 6 /\ HoldsTo(q, t, f, o, e, k)
    BY <1>3, <1>8 DEF Came, Takes
  <2>2. IsParser(q, Piece(t, e, k), TRUE, FALSE) /\ OnePart(q.parts, f, Piece(t, o, e), FALSE, FALSE)
    BY <2>1 DEF HoldsTo, Holds1
  <2>3. Piece(t, o, e) \in Seq(S)
    <3>1. e =< Len(t)
      BY <1>5, <1>6, <2>1
    <3> QED BY <1>5, <1>6, <2>1, <3>1, PieceHas
  <2>4. OnePart(a.items, f, Piece(t, o, e), FALSE, new) /\ OnePart(a.parts, f, << >>, FALSE, FALSE)
    BY <1>7, <2>2, <2>3
  <2>5. WasParsed(w, u, body, n, a, Piece(t, e, k), TRUE, FALSE) /\ w.parser.status # "bad"
    BY <1>0, <1>2, <1>3, <1>4, <2>2, ParsedIs
  <2>6. IsOpen(w, body, k)
    BY <1>0, <2>5 DEF IsOpen, WasParsed, LeavesFrom
  <2>7. Holds1(w.parser, Piece(t, e, k), f, << >>, FALSE)
    BY <2>4, <2>5, HoldsKept DEF WasParsed
  <2>8. Within(body, e, k)
    <3>1. 6 =< e
      BY <1>6, <2>1
    <3> QED BY <1>1, <1>6, <2>1, <3>1 DEF Within
  <2>9. SavesTo(w, body, o, e, k, new)
    BY <1>1, <2>1, <2>4, <2>5, <2>7, <2>8 DEF SavesTo, WasParsed
  <2>10. k # Len(t)
    BY <1>5, <1>8
  <2>11. HasArrived(w, body, o, k, new)
    BY <1>0, <1>1, <2>5, <2>6, <2>9, <2>10 DEF HasArrived, WasParsed
  <2> QED BY <2>5, <2>11 DEF WasParsed, IsReadTo
<1>9. CASE k = Len(t)
  <2>1. Holds1(q, << >>, f, Piece(t, o, Len(d) + 6), TRUE)
    BY <1>3, <1>9 DEF Came
  <2>2. IsParser(q, << >>, TRUE, TRUE) /\ OnePart(q.parts, f, Piece(t, o, Len(d) + 6), TRUE, FALSE)
    BY <2>1 DEF Holds1
  <2>3. Piece(t, o, Len(d) + 6) \in Seq(S)
    <3>1. Len(d) + 6 \in Nat /\ Len(d) + 6 =< Len(t)
      BY <1>5
    <3> QED BY <1>5, <1>6, <3>1, PieceHas
  <2>4. OnePart(a.items, f, Piece(t, o, Len(d) + 6), TRUE, new)
    BY <1>7, <2>2, <2>3
  <2>5. WasParsed(w, u, body, n, a, << >>, TRUE, TRUE) /\ w.parser.status # "bad"
    BY <1>0, <1>2, <1>3, <1>4, <2>2, ParsedIs
  <2>6. IsOpen(w, body, k)
    BY <1>0, <2>5 DEF IsOpen, WasParsed, LeavesFrom
  <2>7. SavesAll(w, body, o, new)
    BY <1>1, <2>4, <2>5 DEF SavesAll, WasParsed
  <2>8. ~(k < Len(t))
    BY <1>5, <1>9
  <2>9. HasArrived(w, body, o, k, new)
    BY <1>0, <1>1, <2>5, <2>6, <2>7, <2>8 DEF HasArrived, WasParsed
  <2> QED BY <2>5, <2>9 DEF WasParsed, IsReadTo
<1>10. k < Len(t) \/ k = Len(t)
  BY <1>5, <1>6
<1> QED BY <1>8, <1>9, <1>10

\* A later read.
LEMMA LaterRead ==
  ASSUME NEW body, NEW S, TextOK(Ld!Text(body), S, body[1].file, body[1].data),
         NEW u, NEW e, NEW k, GoesUp(u, body, e, k), NEW n \in 1 .. Len(u.left), NEW stale, NEW w, w = Ld!Parsed(u, n, stale)
  PROVE  \A m : m = k + n => IsReadTo(w, u, body, e, m, TRUE)
<1>1. PICK t, f, d : t = Ld!Text(body) /\ f = body[1].file /\ d = body[1].data
  OBVIOUS
<1>2. t \in Seq(S) /\ Len(t) \in Nat /\ TextOK(t, S, f, d)
  BY <1>1 DEF TextOK
<1>3. e \in Nat /\ k \in Nat /\ 6 =< e /\ e =< k /\ e =< Len(d) + 6 /\ k =< Len(t)
  BY <1>1 DEF GoesUp, Within
<1>4. /\ IsUp(u, body) /\ u.state = "open" /\ u.replies = << >> /\ u.left = Piece(t, k, Len(t)) /\ u.head = TRUE
      /\ Holds1(u.parser, Piece(t, e, k), f, << >>, FALSE) /\ OnePart(u.items, f, << >>, FALSE, TRUE)
  BY <1>1 DEF GoesUp, IsOpen
<1>5. Len(u.left) = Len(t) - k
  <2>1. PICK m \in Nat : m = Len(t)
    BY <1>2
  <2>2. k =< m /\ m =< Len(t)
    BY <1>3, <2>1
  <2>3. Len(Piece(t, k, m)) = m - k
    BY <1>2, <1>3, <2>2, PieceHas
  <2> QED BY <1>4, <2>1, <2>3
<1>6. n \in Nat /\ k + n =< Len(t) /\ k =< k + n /\ k + n \in Nat
  BY <1>2, <1>3, <1>5
<1>7. SubSeq(u.left, 1, n) = Piece(t, k, k + n) /\ Ld!From(u.left, n + 1) = Piece(t, k + n, Len(t))
  BY <1>2, <1>3, <1>4, <1>6, ReadIs
<1>8. PICK x : x = ReadText(u, n)
  OBVIOUS
<1>9. x = Piece(t, k, k + n)
  BY <1>4, <1>7, <1>8 DEF ReadText
<1>10. PICK m \in Nat : m = k + n
  BY <1>6
<1>11. Came(Ld!Feed(u.parser, x, stale), t, f, Len(d), e, m)
  <2>1. k =< m /\ m =< Len(t)
    BY <1>6, <1>10
  <2>2. Came(Ld!Feed(u.parser, Piece(t, k, m), stale), t, f, Len(d), e, m)
    BY <1>2, <1>3, <1>4, <2>1, LaterFeed
  <2> QED BY <1>9, <1>10, <2>2
<1>12. Within(body, e, m)
  BY <1>1, <1>3, <1>6, <1>10 DEF Within
<1>13. PICK new \in BOOLEAN : new = TRUE
  OBVIOUS
<1>14. HasSaved(u.items, body[1].file, new)
  BY <1>1, <1>4, <1>13 DEF HasSaved
<1>16. LeavesFrom(u, n, Ld!Text(body), m)
  BY <1>1, <1>7, <1>10 DEF LeavesFrom
<1>17. Came(Ld!Feed(u.parser, ReadText(u, n), stale), Ld!Text(body), body[1].file, Len(body[1].data), e, m)
  BY <1>1, <1>8, <1>11
<1>15. IsReadTo(w, u, body, e, m, new)
  <2>1. FeedsTo(u, body, n, stale, e, m, new)
    BY <1>4, <1>12, <1>14, <1>16, <1>17 DEF FeedsTo
  <2> QED BY <2>1, FedIsSaved
<1> QED BY <1>10, <1>13, <1>15

\* What comes of the first read.
IsReadFirst(w, u, body, n) ==
  w.parser.status # "bad" /\ w.lost = u.lost /\ (TooShort(w, body) \/ HasArrived(w, body, 6, n, FALSE))

\* The first read.
LEMMA FirstRead ==
  ASSUME NEW body, NEW S, TextOK(Ld!Text(body), S, body[1].file, body[1].data),
         NEW u, Begins(u, body), NEW n \in 1 .. Len(u.left), NEW stale, NEW w, w = Ld!Parsed(u, n, stale)
  PROVE  IsReadFirst(w, u, body, n)
<1>1. PICK t, f, d : t = Ld!Text(body) /\ f = body[1].file /\ d = body[1].data
  OBVIOUS
<1>2. t \in Seq(S) /\ Len(t) \in Nat /\ TextOK(t, S, f, d) /\ Len(d) \in Nat
  BY <1>1 DEF TextOK, Clear
<1>3. /\ IsUp(u, body) /\ u.state = "open" /\ u.replies = << >> /\ u.left = Piece(t, 0, Len(t)) /\ u.head = FALSE
      /\ Waits0(u.parser, << >>) /\ u.items = << >>
  BY <1>1 DEF Begins, IsOpen
<1>4. PICK z \in Nat : z = 0
  OBVIOUS
<1>5. Len(u.left) = Len(t)
  <2>1. z =< Len(t) /\ Len(t) =< Len(t)
    BY <1>2, <1>4
  <2>2. Len(Piece(t, z, Len(t))) = Len(t) - z
    BY <1>2, <2>1, PieceHas
  <2> QED BY <1>2, <1>3, <1>4, <2>2
<1>6. n \in Nat /\ 1 =< n /\ n =< Len(t) /\ z + n =< Len(t) /\ z + n = n
  BY <1>2, <1>4, <1>5
<1>7. SubSeq(u.left, 1, n) = Piece(t, 0, n) /\ Ld!From(u.left, n + 1) = Piece(t, n, Len(t))
  <2>1. u.left = Piece(t, z, Len(t))
    BY <1>3, <1>4
  <2>2. SubSeq(u.left, 1, n) = Piece(t, z, z + n) /\ Ld!From(u.left, n + 1) = Piece(t, z + n, Len(t))
    BY <1>2, <1>6, <2>1, ReadIs
  <2> QED BY <1>4, <1>6, <2>2
<1>8. PICK x : x = ReadText(u, n)
  OBVIOUS
<1>9. x = Piece(t, 1, n)
  <2>1. PICK b : b = Piece(t, 0, n)
    OBVIOUS
  <2>2. b \in Seq(S) /\ Len(b) = n
    <3>1. z =< n
      BY <1>4, <1>6
    <3>2. Piece(t, z, n) \in Seq(S) /\ Len(Piece(t, z, n)) = n - z
      BY <1>2, <1>6, <3>1, PieceHas
    <3> QED BY <1>4, <1>6, <2>1, <3>2
  <2>3. Tail(b) = SubSeq(b, 2, n)
    BY <1>6, <2>2
  <2>4. SubSeq(b, 2, n) = Piece(t, 1, n)
    <3>1. PICK y \in Nat : y = 1
      OBVIOUS
    <3>2. y =< n /\ z =< n /\ n =< n - z
      BY <1>4, <1>6, <3>1
    <3>3. GoesThrough(t, z, n, y, n)
      BY <1>2, <1>6, <3>2, PieceOfPiece
    <3>4. z + y = 1 /\ z + n = n /\ y + 1 = 2
      BY <1>4, <1>6, <3>1
    <3> QED BY <1>4, <2>1, <3>3, <3>4 DEF GoesThrough
  <2>5. ~u.head
    BY <1>3, Zenon
  <2>6. x = Tail(b)
    BY <1>7, <1>8, <2>1, <2>5 DEF ReadText
  <2> QED BY <2>3, <2>4, <2>6
<1>10. CASE n < 6
  <2>1. PICK q : q = Ld!Feed(u.parser, x, stale)
    OBVIOUS
  <2>2. q.status = "not ready" /\ Waits0(q, x)
    <3>1. PICK p : p = u.parser
      OBVIOUS
    <3>2. PICK y : y = Ld!Feed(p, Piece(t, 1, n), stale)
      OBVIOUS
    <3>3. Waits0(p, << >>) /\ q = y
      BY <1>3, <1>9, <2>1, <3>1, <3>2
    <3>4. n < 6 => y.status = "not ready" /\ Waits0(y, Piece(t, 1, n))
      BY <1>2, <1>6, <3>2, <3>3, FirstFeed
    <3> QED BY <1>9, <1>10, <3>3, <3>4
  <2>3. IsParser(q, x, FALSE, FALSE) /\ q.parts = << >>
    BY <2>2 DEF Waits0
  <2>4. PICK a : a = Ld!Applied(q.parts, u.items)
    OBVIOUS
  <2>5. a.items = << >>
    BY <1>3, <2>3, <2>4, NothingApplied
  <2>6. q.status # "bad"
    BY <2>2
  <2>7. WasParsed(w, u, body, n, a, x, FALSE, FALSE) /\ w.parser.status # "bad"
    BY <1>3, <1>8, <2>1, <2>3, <2>4, <2>6, ParsedIs
  <2>8. TooShort(w, body)
    BY <1>3, <2>5, <2>7 DEF TooShort, WasParsed
  <2> QED BY <2>7, <2>8 DEF WasParsed, IsReadFirst
<1>11. CASE ~(n < 6)
  <2>1. n >= 6 /\ 6 =< n
    BY <1>6, <1>11
  <2>2. Came(Ld!Feed(u.parser, x, stale), t, f, Len(d), 6, n)
    <3>1. n >= 6 => Came(Ld!Feed(u.parser, Piece(t, 1, n), stale), t, f, Len(d), 6, n)
      BY <1>2, <1>3, <1>6, FirstFeed
    <3> QED BY <1>9, <2>1, <3>1
  <2>3. PICK o \in Nat : o = 6
    OBVIOUS
  <2>4. Within(body, o, n)
    <3>1. 6 =< o /\ o =< n /\ o =< Len(d) + 6
      BY <1>2, <2>1, <2>3
    <3> QED BY <1>1, <1>6, <3>1 DEF Within
  <2>5. PICK new \in BOOLEAN : new = FALSE
    OBVIOUS
  <2>6. HasSaved(u.items, body[1].file, new)
    BY <1>3, <2>5 DEF HasSaved
  <2>8. LeavesFrom(u, n, Ld!Text(body), n)
    BY <1>1, <1>7 DEF LeavesFrom
  <2>9. Came(Ld!Feed(u.parser, ReadText(u, n), stale), Ld!Text(body), body[1].file, Len(body[1].data), o, n)
    BY <1>1, <1>8, <2>2, <2>3
  <2>7. w.parser.status # "bad" /\ HasArrived(w, body, o, n, new) /\ w.lost = u.lost
    <3>1. FeedsTo(u, body, n, stale, o, n, new)
      BY <1>3, <2>4, <2>6, <2>8, <2>9 DEF FeedsTo
    <3>2. IsReadTo(w, u, body, o, n, new)
      BY <3>1, FedIsSaved
    <3> QED BY <3>2 DEF IsReadTo
  <2> QED BY <2>3, <2>5, <2>7 DEF IsReadFirst
<1> QED BY <1>10, <1>11

-----------------------------------------------------------------------------
(* Upload: what is answered.                                                   *)

\* Something that was to be written is gone.
Loses(items, broken) ==
  \E i \in DOMAIN items : items[i].file \in broken /\ (items[i].data # << >> \/ ~items[i].created)

\* The connection u when s has come of the files.
Answered(w, u, body, s, broken) ==
  /\ IsUp(w, body) /\ w.left = u.left /\ w.head = u.head /\ w.parser = u.parser /\ w.items = s.items
  /\ w.replies = (IF s.status = 100 THEN u.replies ELSE Append(u.replies, s.status))
  /\ w.state = (IF s.status >= 400 THEN "closed" ELSE IF u.left = << >> THEN "over" ELSE u.state)
  /\ w.lost <=> u.lost \/ Loses(u.items, broken)

\* That is what is done.
Answers1(c1, u, body, s, broken) ==
  /\ disk' = s.disk
  /\ \E w : up' = [up EXCEPT ![c1] = w] /\ Answered(w, u, body, s, broken)

\* The record of it, when what cannot be written is lost.
WithAnswer(u, s, lost) ==
  [u EXCEPT !.items = s.items, !.replies = IF s.status = 100 THEN @ ELSE Append(@, s.status), !.lost = @ \/ lost,
            !.state = IF s.status >= 400 THEN "closed" ELSE IF u.left = << >> THEN "over" ELSE @]

\* What handle_default_request() does to the connection and to the disk.
LEMMA AnswerIs ==
  ASSUME NEW c1, NEW u, NEW body, IsUp(u, body), NEW broken, Ld!Respond(c1, u, broken),
         NEW s, s = Ld!FileUpload(u.items, broken)
  PROVE  Answers1(c1, u, body, s, broken)
<1>1. PICK lost : lost = \E i \in DOMAIN u.items : u.items[i].file \in broken /\ (u.items[i].data # << >> \/ ~u.items[i].created)
  OBVIOUS
<1>2. PICK rs : rs = IF s.status = 100 THEN u.replies ELSE Append(u.replies, s.status)
  OBVIOUS
<1>3. PICK st : st = IF s.status >= 400 THEN "closed" ELSE IF u.left = << >> THEN "over" ELSE u.state
  OBVIOUS
<1>4. PICK gone : gone = (u.lost \/ lost)
  OBVIOUS
<1>5. PICK w : w = [u EXCEPT !.items = s.items, !.replies = rs, !.lost = gone, !.state = st]
  OBVIOUS
<1>6. WithAnswer(u, s, lost) = w
  BY <1>2, <1>3, <1>4, <1>5, Zenon DEF WithAnswer
<1>7. disk' = s.disk /\ up' = [up EXCEPT ![c1] = w]
  <2>1. disk' = s.disk
    BY Zenon DEF Ld!Respond
  <2>2. up' = [up EXCEPT ![c1] = WithAnswer(u, Ld!FileUpload(u.items, broken),
                 \E i \in DOMAIN u.items : u.items[i].file \in broken /\ (u.items[i].data # << >> \/ ~u.items[i].created))]
    BY Zenon DEF Ld!Respond, Ld!Ready, WithAnswer
  <2>3. up' = [up EXCEPT ![c1] = WithAnswer(u, s, lost)]
    BY <1>1, <2>2, Zenon
  <2> QED BY <1>6, <2>1, <2>3, Zenon
<1>8. IsUp(w, body) /\ w.left = u.left /\ w.head = u.head /\ w.parser = u.parser /\ w.items = s.items /\ w.replies = rs /\ w.state = st
  BY <1>5 DEF IsUp
<1>9. w.lost <=> u.lost \/ lost
  BY <1>4, <1>5, Zenon DEF IsUp
<1>10. lost <=> Loses(u.items, broken)
  BY <1>1, Zenon DEF Loses
<1>11. Answered(w, u, body, s, broken)
  BY <1>2, <1>3, <1>8, <1>9, <1>10 DEF Answered
<1> QED BY <1>7, <1>11, Zenon DEF Answers1

\* A connection of which all has been saved and answered, and one that is closed with its answer.
IsOver(w, body)   == IsUp(w, body) /\ w.state = "over" /\ w.replies = <<200>>
IsClosed(w, body) == IsUp(w, body) /\ w.state = "closed" /\ Len(w.replies) = 1

\* The content from o up to e is written, or would have been.
Writes(w, u, body, o, e, k, new, broken) ==
  /\ Within(body, e, k) /\ o =< e
  /\ disk' = (IF body[1].file \in broken THEN disk ELSE Written(body[1].file, Piece(Ld!Text(body), o, e)))
  /\ body[1].file \in broken /\ (Piece(Ld!Text(body), o, e) # << >> \/ ~new) => w.lost
  /\ \/ GoesUp(w, body, e, k)
     \/ IsOver(w, body) /\ e = Len(body[1].data) + 6 /\ body[1].file \notin broken
     \/ IsClosed(w, body)

\* What comes of an event: somebody else has the file, or it is written to.
Outcome(w, u, body, o, k, new, broken) ==
  /\ u.lost => w.lost
  /\ disk[body[1].file] # NoFile /\ ~new => disk' = disk /\ IsClosed(w, body)
  /\ ~(disk[body[1].file] # NoFile /\ ~new) => \E e : Writes(w, u, body, o, e, k, new, broken)

\* An error closes the connection.
LEMMA ErrorCloses ==
  ASSUME NEW w, NEW u, NEW body, NEW s, NEW broken, Answered(w, u, body, s, broken), u.replies = << >>,
         s.status \in {400, 409}
  PROVE  IsClosed(w, body)
<1>1. s.status >= 400 /\ s.status # 100
  OBVIOUS
<1>2. w.state = "closed" /\ w.replies = Append(<< >>, s.status)
  BY <1>1 DEF Answered
<1>3. Len(w.replies) = 1
  BY <1>2
<1> QED BY <1>2, <1>3 DEF Answered, IsClosed

\* What was to be written is lost when the file cannot be opened.
LEMMA ItLoses ==
  ASSUME NEW items, NEW f, NEW x, NEW fin, NEW new, OnePart(items, f, x, fin, new), NEW broken, f \in broken, x # << >> \/ ~new
  PROVE  Loses(items, broken)
<1>1. PICK i : items = <<i>> /\ IsPart(i, f, x, fin, new)
  BY DEF OnePart
<1>2. 1 \in DOMAIN items /\ items[1] = i
  BY <1>1
<1>3. i.file = f /\ i.data = x
  BY <1>1 DEF IsPart
<1>4. i.created = new
  BY <1>1, Zenon DEF IsPart
<1>5. items[1].file \in broken /\ (items[1].data # << >> \/ ~items[1].created)
  BY <1>2, <1>3, <1>4, Zenon
<1> QED BY <1>2, <1>5, Zenon DEF Loses

\* More has come.
LEMMA MoreIsSaved ==
  ASSUME NEW body, NEW S, TextOK(Ld!Text(body), S, body[1].file, body[1].data),
         NEW u, NEW o, NEW k, NEW new \in BOOLEAN, HasArrived(u, body, o, k, new), k < Len(Ld!Text(body)),
         NEW broken, NEW s, s = Ld!FileUpload(u.items, broken), disk' = s.disk,
         NEW w, Answered(w, u, body, s, broken)
  PROVE  Outcome(w, u, body, o, k, new, broken)
<1>1. PICK t, f : t = Ld!Text(body) /\ f = body[1].file
  OBVIOUS
<1>2. PICK e : SavesTo(u, body, o, e, k, new)
  BY DEF HasArrived
<1>3. Within(body, e, k) /\ o =< e /\ Holds1(u.parser, Piece(t, e, k), f, << >>, FALSE)
  BY <1>1, <1>2 DEF SavesTo
<1>4. PICK x : x = Piece(t, o, e)
  OBVIOUS
<1>5. OnePart(u.items, f, x, FALSE, new)
  BY <1>1, <1>2, <1>4 DEF SavesTo
<1>6. IsOpen(u, body, k) /\ u.head = TRUE
  BY DEF HasArrived
<1>7. u.left # << >>
  <2>1. PICK m \in Nat : m = Len(t)
    BY <1>1 DEF TextOK, IsForm, Clear
  <2>2. t \in Seq(S) /\ k \in Nat /\ k =< m /\ m =< Len(t)
    BY <1>1, <1>3, <2>1 DEF TextOK, Within
  <2>3. Len(Piece(t, k, m)) = m - k
    BY <2>2, PieceHas
  <2>4. u.left = Piece(t, k, m)
    BY <1>1, <1>6, <2>1 DEF IsOpen
  <2>5. m - k # 0
    BY <1>1, <2>1, <2>2
  <2> QED BY <2>3, <2>4, <2>5
<1>8. u.replies = << >> /\ u.state = "open"
  BY <1>6 DEF IsOpen
<1>9. PICK its : its = u.items
  OBVIOUS
<1>10. /\ disk[f] # NoFile /\ ~new => Refused1(s)
       /\ ~(disk[f] # NoFile /\ ~new) => Wrote1(s, f, x, FALSE, broken)
  <2>1. OnePart(its, f, x, FALSE, new) /\ s = Ld!FileUpload(its, broken)
    BY <1>5, <1>9
  <2> QED BY <2>1, UploadIs
<1>11. u.lost => w.lost
  BY Zenon DEF Answered
<1>12. ASSUME disk[f] # NoFile /\ ~new PROVE disk' = disk /\ IsClosed(w, body)
  <2>1. s.disk = disk /\ s.status = 409
    BY <1>10, <1>12 DEF Refused1
  <2>2. s.status \in {400, 409}
    BY <2>1
  <2> QED BY <1>8, <2>1, <2>2, ErrorCloses
<1>13. ASSUME ~(disk[f] # NoFile /\ ~new) PROVE Writes(w, u, body, o, e, k, new, broken)
  <2>1. /\ s.disk = IF f \in broken THEN disk ELSE Written(f, x)
        /\ s.status = 100 /\ OnePart(s.items, f, << >>, FALSE, TRUE)
    BY <1>10, <1>13 DEF Wrote1
  <2>2. ASSUME f \in broken, x # << >> \/ ~new PROVE w.lost
    <3>1. Loses(u.items, broken)
      BY <1>5, <2>2, ItLoses
    <3> QED BY <3>1, Zenon DEF Answered
  <2>3. GoesUp(w, body, e, k)
    <3>1. ~(100 >= 400)
      OBVIOUS
    <3>2. IsUp(w, body) /\ w.left = u.left /\ w.head = u.head /\ w.parser = u.parser /\ w.items = s.items /\ w.replies = u.replies /\ w.state = u.state
      BY <1>7, <2>1, <3>1 DEF Answered
    <3>3. IsOpen(w, body, k)
      BY <1>6, <3>2 DEF IsOpen
    <3>4. w.head = TRUE
      BY <1>6, <3>2
    <3> QED BY <1>1, <1>3, <2>1, <3>2, <3>3, <3>4 DEF GoesUp
  <2> QED BY <1>1, <1>3, <1>4, <2>1, <2>2, <2>3 DEF Writes
<1> QED BY <1>1, <1>11, <1>12, <1>13 DEF Outcome

\* All has come.
LEMMA AllIsSaved ==
  ASSUME NEW body, NEW S, TextOK(Ld!Text(body), S, body[1].file, body[1].data),
         NEW u, NEW o, NEW k, NEW new \in BOOLEAN, HasArrived(u, body, o, k, new), k = Len(Ld!Text(body)),
         NEW broken, NEW s, s = Ld!FileUpload(u.items, broken), disk' = s.disk,
         NEW w, Answered(w, u, body, s, broken)
  PROVE  Outcome(w, u, body, o, k, new, broken)
<1>1. PICK t, f, d : t = Ld!Text(body) /\ f = body[1].file /\ d = body[1].data
  OBVIOUS
<1>2. t \in Seq(S) /\ Len(d) \in Nat /\ Len(t) = Len(d) + 10
  BY <1>1 DEF TextOK, IsForm, Clear
<1>3. PICK e \in Nat : e = Len(d) + 6
  BY <1>2
<1>4. PICK x : x = Piece(t, o, e)
  OBVIOUS
<1>5. OnePart(u.items, f, x, TRUE, new)
  <2>1. SavesAll(u, body, o, new)
    BY DEF HasArrived
  <2> QED BY <1>1, <1>3, <1>4, <2>1 DEF SavesAll
<1>6. IsOpen(u, body, k) /\ Within(body, o, k)
  BY DEF HasArrived
<1>7. u.left = << >>
  <2>1. u.left = Piece(t, k, k)
    BY <1>1, <1>6 DEF IsOpen
  <2>2. t \in Seq(S) /\ k \in Nat /\ k =< k /\ k =< Len(t)
    BY <1>1, <1>2, <1>6 DEF Within
  <2>3. Piece(t, k, k) \in Seq(S) /\ Len(Piece(t, k, k)) = k - k
    BY <2>2, PieceHas
  <2>4. k - k = 0
    BY <2>2
  <2> QED BY <2>1, <2>3, <2>4
<1>8. u.replies = << >>
  BY <1>6 DEF IsOpen
<1>9. PICK its : its = u.items
  OBVIOUS
<1>10. /\ disk[f] # NoFile /\ ~new => Refused1(s)
       /\ ~(disk[f] # NoFile /\ ~new) => Wrote1(s, f, x, TRUE, broken)
  <2>1. OnePart(its, f, x, TRUE, new) /\ s = Ld!FileUpload(its, broken)
    BY <1>5, <1>9
  <2> QED BY <2>1, UploadIs
<1>11. u.lost => w.lost
  BY Zenon DEF Answered
<1>12. ASSUME disk[f] # NoFile /\ ~new PROVE disk' = disk /\ IsClosed(w, body)
  <2>1. s.disk = disk /\ s.status = 409
    BY <1>10, <1>12 DEF Refused1
  <2>2. s.status \in {400, 409}
    BY <2>1
  <2> QED BY <1>8, <2>1, <2>2, ErrorCloses
<1>13. ASSUME ~(disk[f] # NoFile /\ ~new) PROVE Writes(w, u, body, o, e, k, new, broken)
  <2>1. /\ s.disk = IF f \in broken THEN disk ELSE Written(f, x)
        /\ s.status = IF f \in broken THEN 400 ELSE 200
    BY <1>10, <1>13 DEF Wrote1
  <2>2. ASSUME f \in broken, x # << >> \/ ~new PROVE w.lost
    <3>1. Loses(u.items, broken)
      BY <1>5, <2>2, ItLoses
    <3> QED BY <3>1, Zenon DEF Answered
  <2>3. f \notin broken => IsOver(w, body)
    <3>1. ASSUME f \notin broken PROVE IsOver(w, body)
      <4>1. s.status = 200 /\ ~(200 >= 400)
        BY <2>1, <3>1
      <4>2. w.replies = Append(<< >>, 200) /\ w.state = "over"
        BY <1>7, <1>8, <4>1 DEF Answered
      <4>3. Append(<< >>, 200) = <<200>>
        OBVIOUS
      <4> QED BY <4>2, <4>3 DEF Answered, IsOver
    <3> QED BY <3>1
  <2>4. f \in broken => IsClosed(w, body)
    <3>1. ASSUME f \in broken PROVE IsClosed(w, body)
      <4>1. s.status \in {400, 409}
        BY <2>1, <3>1
      <4> QED BY <1>8, <4>1, ErrorCloses
    <3> QED BY <3>1
  <2>5. Within(body, e, k) /\ o =< e
    BY <1>1, <1>2, <1>3, <1>6 DEF Within
  <2> QED BY <1>1, <1>3, <1>4, <2>1, <2>2, <2>3, <2>4, <2>5 DEF Writes
<1> QED BY <1>1, <1>11, <1>12, <1>13 DEF Outcome

\* That is what an event comes to.
ComesTo(c1, u, body, o, k, new, broken) == \E w : up' = [up EXCEPT ![c1] = w] /\ Outcome(w, u, body, o, k, new, broken)

\* What an event of a connection does, of which something has come.
LEMMA EventIs ==
  ASSUME NEW body, NEW S, TextOK(Ld!Text(body), S, body[1].file, body[1].data),
         NEW u, NEW o, NEW k, NEW new \in BOOLEAN, HasArrived(u, body, o, k, new),
         NEW broken, NEW c1, Ld!Respond(c1, u, broken)
  PROVE  ComesTo(c1, u, body, o, k, new, broken)
<1>1. PICK s : s = Ld!FileUpload(u.items, broken)
  OBVIOUS
<1>2. IsUp(u, body)
  BY DEF HasArrived, IsOpen
<1>3. /\ disk' = s.disk
      /\ \E w : up' = [up EXCEPT ![c1] = w] /\ Answered(w, u, body, s, broken)
  <2>1. Answers1(c1, u, body, s, broken)
    BY <1>1, <1>2, AnswerIs
  <2> QED BY <2>1, Zenon DEF Answers1
<1>4. PICK w : up' = [up EXCEPT ![c1] = w] /\ Answered(w, u, body, s, broken)
  BY <1>3
<1>5. k < Len(Ld!Text(body)) \/ k = Len(Ld!Text(body))
  <2>1. Len(Ld!Text(body)) \in Nat
    BY DEF TextOK, IsForm, Clear
  <2> QED BY <2>1 DEF HasArrived, Within
<1>6. k < Len(Ld!Text(body)) => Outcome(w, u, body, o, k, new, broken)
  BY <1>1, <1>3, <1>4, MoreIsSaved
<1>7. k = Len(Ld!Text(body)) => Outcome(w, u, body, o, k, new, broken)
  BY <1>1, <1>3, <1>4, AllIsSaved
<1> QED BY <1>4, <1>5, <1>6, <1>7, Zenon DEF ComesTo

\* What it does when the header has not come.
LEMMA ShortIsRefused ==
  ASSUME NEW u, NEW body, TooShort(u, body), NEW broken, NEW c1, Ld!Respond(c1, u, broken)
  PROVE  disk' = disk /\ \E w : up' = [up EXCEPT ![c1] = w] /\ IsClosed(w, body) /\ (u.lost => w.lost)
<1>1. PICK s : s = Ld!FileUpload(u.items, broken)
  OBVIOUS
<1>2. IsUp(u, body) /\ u.replies = << >> /\ u.items = << >>
  BY DEF TooShort
<1>3. s.disk = disk /\ s.status = 400
  BY <1>1, <1>2, NothingToSave
<1>4. /\ disk' = s.disk
      /\ \E w : up' = [up EXCEPT ![c1] = w] /\ Answered(w, u, body, s, broken)
  <2>1. Answers1(c1, u, body, s, broken)
    BY <1>1, <1>2, AnswerIs
  <2> QED BY <2>1, Zenon DEF Answers1
<1>5. PICK w : up' = [up EXCEPT ![c1] = w] /\ Answered(w, u, body, s, broken)
  BY <1>4
<1>6. IsClosed(w, body)
  <2>1. s.status \in {400, 409}
    BY <1>3
  <2> QED BY <1>2, <1>5, <2>1, ErrorCloses
<1>7. u.lost => w.lost
  BY <1>5, Zenon DEF Answered
<1> QED BY <1>3, <1>4, <1>5, <1>6, <1>7, Zenon

\* A connection that waits, of which nothing more has come.
LEMMA NothingMore ==
  ASSUME NEW body, NEW S, TextOK(Ld!Text(body), S, body[1].file, body[1].data), NEW u, NEW e, NEW k, GoesUp(u, body, e, k)
  PROVE  HasArrived(u, body, e, k, TRUE)
<1>1. PICK t, f : t = Ld!Text(body) /\ f = body[1].file
  OBVIOUS
<1>2. Within(body, e, k) /\ k < Len(t) /\ IsOpen(u, body, k) /\ u.head = TRUE
  BY <1>1 DEF GoesUp
<1>3. e \in Nat /\ k \in Nat /\ e =< k /\ Len(t) \in Nat
  BY <1>1, <1>2 DEF Within, TextOK, IsForm, Clear
<1>4. Piece(t, e, e) = << >>
  <2>1. e =< e /\ e =< Len(t) /\ e - e = 0 /\ t \in Seq(S)
    BY <1>1, <1>2, <1>3 DEF TextOK
  <2>2. Piece(t, e, e) \in Seq(S) /\ Len(Piece(t, e, e)) = e - e
    BY <1>3, <2>1, PieceHas
  <2> QED BY <2>1, <2>2
<1>5. SavesTo(u, body, e, e, k, TRUE)
  <2>1. e =< e
    BY <1>3
  <2> QED BY <1>1, <1>2, <1>4, <2>1 DEF SavesTo, GoesUp
<1>6. Within(body, e, k) /\ k # Len(t)
  BY <1>2, <1>3
<1> QED BY <1>1, <1>2, <1>5, <1>6 DEF HasArrived

-----------------------------------------------------------------------------
(* Upload: the files are kept.                                                 *)

\* Everything that a connection may be, and what is then in its file.
IsState(u, body) == Begins(u, body) \/ (\E e, k : GoesUp(u, body, e, k)) \/ IsOver(u, body) \/ IsClosed(u, body)

Keeps(u, body, x) ==
  \/ Begins(u, body) \/ IsClosed(u, body)
  \/ \E e, k : GoesUp(u, body, e, k) /\ x = Piece(Ld!Text(body), 6, e)
  \/ IsOver(u, body) /\ x = body[1].data

\* It has made its file.
HasMade(u) == u.state = "over" \/ (u.state = "open" /\ u.head = TRUE)

FileOf(u) == u.body[1].file

\* While a file is intact, only one has made it, and it holds what that one has saved.
EachKeeps == \A c1 \in Clients : Ld!Intact(FileOf(up[c1])) => Keeps(up[c1], up[c1].body, disk[FileOf(up[c1])])

OneMakes ==
  \A c1, c2 \in Clients :
    c1 # c2 /\ FileOf(up[c1]) = FileOf(up[c2]) /\ HasMade(up[c1]) /\ HasMade(up[c2]) => ~Ld!Intact(FileOf(up[c1]))

UploadInv ==
  /\ deletes \in Nat /\ DOMAIN disk = Files /\ DOMAIN up = Clients
  /\ \A c1 \in Clients : up[c1].body \in Bodies[c1] /\ IsState(up[c1], up[c1].body)
  /\ EachKeeps
  /\ OneMakes
  /\ Ld!PrefixOnDisk

\* The form of a client.
LEMMA ItsForm ==
  ASSUME Ld!ConstantsAssumption, UploadInv, NEW c1 \in Clients, NEW body, body = up[c1].body
  PROVE  /\ Ld!FormOK(body) /\ body[1].file \in Files
         /\ \E S : TextOK(Ld!Text(body), S, body[1].file, body[1].data)
<1>1. Ld!FormOK(body) /\ NL # BB /\ NL # DD /\ BB # DD
  BY DEF Ld!ConstantsAssumption, UploadInv
<1>2. \E S : TextOK(Ld!Text(body), S, body[1].file, body[1].data)
  BY <1>1, FormIs
<1>3. body[1].file \in Files
  BY <1>1 DEF Ld!FormOK
<1> QED BY <1>1, <1>2, <1>3

\* What has been saved of a content is the begin of it, and stands for a file.
SavedIs(x, body, e) ==
  /\ x # NoFile /\ Ld!IsPrefix(x, body[1].data)
  /\ e = Len(body[1].data) + 6 => x = body[1].data

\* What is on the disk when the content has been saved up to e.
LEMMA PieceIsSaved ==
  ASSUME NEW body, Ld!FormOK(body), NEW S, TextOK(Ld!Text(body), S, body[1].file, body[1].data),
         NEW e \in Nat, 6 =< e, e =< Len(body[1].data) + 6, NEW x, x = Piece(Ld!Text(body), 6, e)
  PROVE  SavedIs(x, body, e)
<1>1. PICK t, d : t = Ld!Text(body) /\ d = body[1].data
  OBVIOUS
<1>2. t \in Seq(S) /\ d \in Seq(S) /\ Len(d) \in Nat /\ Len(t) = Len(d) + 10
  BY <1>1 DEF TextOK, IsForm, Clear
<1>3. PICK n \in Nat : n = e - 6
  OBVIOUS
<1>4. n =< Len(d)
  BY <1>1, <1>2, <1>3
<1>5. x \in Seq(S) /\ Len(x) = n /\ \A i \in 1 .. n : x[i] = t[6 + i]
  <2>1. PICK o \in Nat : o = 6
    OBVIOUS
  <2>2. o =< e /\ e =< Len(t) /\ e - o = n
    BY <1>1, <1>2, <1>3, <2>1
  <2>3. /\ Piece(t, o, e) \in Seq(S) /\ Len(Piece(t, o, e)) = e - o
        /\ \A i \in 1 .. e - o : Piece(t, o, e)[i] = t[o + i]
    BY <1>2, <2>2, PieceHas
  <2>4. x = Piece(t, o, e)
    BY <1>1, <2>1
  <2> QED BY <2>1, <2>2, <2>3, <2>4
<1>6. PICK y : y = SubSeq(d, 1, n)
  OBVIOUS
<1>7. y \in Seq(S) /\ Len(y) = n /\ \A i \in 1 .. n : y[i] = d[i]
  <2>1. PICK z \in Nat : z = 0
    OBVIOUS
  <2>2. z =< n
    BY <2>1
  <2>3. /\ Piece(d, z, n) \in Seq(S) /\ Len(Piece(d, z, n)) = n - z
        /\ \A i \in 1 .. n - z : Piece(d, z, n)[i] = d[z + i]
    BY <1>2, <1>4, <2>2, PieceHas
  <2>4. Piece(d, z, n) = y /\ n - z = n /\ \A i \in 1 .. n : z + i = i
    <3>1. z + 1 = 1
      BY <2>1
    <3> QED BY <1>6, <2>1, <3>1 DEF Piece
  <2> QED BY <2>3, <2>4
<1>8. ASSUME NEW i \in 1 .. n PROVE x[i] = y[i]
  <2>1. i \in 1 .. Len(d)
    BY <1>2, <1>4
  <2>2. t[6 + i] = d[i]
    BY <1>1, <2>1 DEF TextOK, IsForm
  <2> QED BY <1>5, <1>7, <2>2
<1>9. x = y
  <2>1. Len(x) = Len(y) /\ \A i \in 1 .. Len(x) : x[i] = y[i]
    BY <1>5, <1>7, <1>8
  <2> QED BY <1>5, <1>7, <2>1, SameTexts
<1>10. x # NoFile
  <2>1. n \in 0 .. Len(d)
    BY <1>2, <1>4
  <2>2. SubSeq(d, 1, n) # NoFile
    BY <1>1, <2>1 DEF Ld!FormOK
  <2> QED BY <1>6, <1>9, <2>2
<1>11. Ld!IsPrefix(x, d)
  <2>1. SubSeq(x, 1, n) = x
    BY <1>5
  <2>2. SubSeq(x, 1, Len(x)) = SubSeq(d, 1, Len(x))
    BY <1>5, <1>6, <1>9, <2>1
  <2> QED BY <1>4, <1>5, <2>2 DEF Ld!IsPrefix
<1>12. ASSUME e = Len(d) + 6 PROVE x = d
  <2>1. n = Len(d)
    BY <1>2, <1>3, <1>12
  <2>2. Len(y) = Len(d) /\ \A i \in 1 .. Len(y) : y[i] = d[i]
    BY <1>7, <2>1
  <2>3. y = d
    BY <1>2, <1>7, <2>2, SameTexts
  <2> QED BY <1>9, <2>3
<1> QED BY <1>1, <1>10, <1>11, <1>12 DEF SavedIs

\* The connection of c1 becomes w, and of the files only its own can change.
Moves(c1, w) ==
  /\ up' = [up EXCEPT ![c1] = w] /\ deletes' = deletes
  /\ IsUp(w, up[c1].body) /\ (up[c1].lost => w.lost)
  /\ DOMAIN disk' = Files /\ \A g \in Files : g # FileOf(up[c1]) => disk'[g] = disk[g]

\* What is intact then was so before.
LEMMA IntactBefore ==
  ASSUME Ld!ConstantsAssumption, UploadInv, NEW c1 \in Clients, NEW w, Moves(c1, w), NEW f, Ld!Intact(f)'
  PROVE  Ld!Intact(f) /\ (f = FileOf(up[c1]) => ~w.lost)
<1>1. DOMAIN up = Clients /\ up'[c1] = w /\ w.body = up[c1].body /\ \A c2 \in Clients : c2 # c1 => up'[c2] = up[c2]
  BY DEF UploadInv, Moves, IsUp
<1>2. \A c2 \in Clients : up'[c2].body = up[c2].body
  BY <1>1
<1>3. \A c2 \in Clients : up[c2].lost => up'[c2].lost
  BY <1>1, Zenon DEF Moves
<1>4. deletes' = deletes
  BY DEF Moves
<1>5. deletes' = 0 /\ \A c2 \in Clients : up'[c2].lost => \A p \in {up'[c2].body[i] : i \in DOMAIN up'[c2].body} : p.file # f
  BY Zenon DEF Ld!Intact, Ld!Sent
<1>6. \A c2 \in Clients : up[c2].lost => \A p \in {up[c2].body[i] : i \in DOMAIN up[c2].body} : p.file # f
  BY <1>2, <1>3, <1>5
<1>7. Ld!Intact(f)
  BY <1>4, <1>5, <1>6, Zenon DEF Ld!Intact, Ld!Sent
<1>8. ASSUME f = FileOf(up[c1]), w.lost PROVE FALSE
  <2>1. \A p \in {w.body[i] : i \in DOMAIN w.body} : p.file # f
    BY <1>1, <1>5, <1>8, Zenon
  <2>2. w.body = up[c1].body
    BY <1>1
  <2>3. w.body[1].file = f
    BY <1>8, <2>2 DEF FileOf
  <2>4. 1 \in DOMAIN w.body
    <3>1. PICK body : body = up[c1].body
      OBVIOUS
    <3>2. Ld!FormOK(body)
      BY <3>1, ItsForm
    <3>3. DOMAIN body = {1}
      BY <3>2 DEF Ld!FormOK
    <3> QED BY <2>2, <3>1, <3>3
  <2> QED BY <2>1, <2>3, <2>4
<1> QED BY <1>7, <1>8

\* What c1 becomes is one of the things it may be, and agrees with its file; another one
\* that has made the same file keeps it as it was.
Settles(c1, w, body, f) ==
  /\ IsState(w, body)
  /\ Ld!Intact(f)' =>
       /\ Keeps(w, body, disk'[f])
       /\ disk'[f] = disk[f] \/ Ld!IsPrefix(disk'[f], body[1].data)
       /\ \A c2 \in Clients : c2 # c1 /\ FileOf(up[c2]) = f /\ HasMade(up[c2]) => disk'[f] = disk[f] /\ ~HasMade(w)

\* A file that is as it was.
LEMMA SameFile ==
  ASSUME Ld!ConstantsAssumption, UploadInv, NEW c1 \in Clients, NEW w, Moves(c1, w), NEW f \in Files, Ld!Intact(f)', disk'[f] = disk[f]
  PROVE  disk'[f] \in {NoFile, OLD} \/ \E c2 \in Clients : \E p \in Ld!Sent(c2)' : p.file = f /\ Ld!IsPrefix(disk'[f], p.data)
<1>1. Ld!Intact(f)
  BY IntactBefore
<1>2. disk[f] \in {NoFile, OLD} \/ \E c2 \in Clients : \E p \in Ld!Sent(c2) : p.file = f /\ Ld!IsPrefix(disk[f], p.data)
  BY <1>1 DEF UploadInv, Ld!PrefixOnDisk
<1>3. ASSUME NEW c2 \in Clients PROVE Ld!Sent(c2)' = Ld!Sent(c2)
  <2>1. DOMAIN up = Clients /\ up' = [up EXCEPT ![c1] = w] /\ w.body = up[c1].body
    BY DEF UploadInv, Moves, IsUp
  <2>2. up'[c2].body = up[c2].body
    BY <2>1
  <2> QED BY <2>2 DEF Ld!Sent
<1>4. CASE disk[f] \in {NoFile, OLD}
  BY <1>4
<1>5. CASE \E c2 \in Clients : \E p \in Ld!Sent(c2) : p.file = f /\ Ld!IsPrefix(disk[f], p.data)
  <2>1. PICK c2 \in Clients : \E p \in Ld!Sent(c2) : p.file = f /\ Ld!IsPrefix(disk[f], p.data)
    BY <1>5
  <2>2. PICK p \in Ld!Sent(c2) : p.file = f /\ Ld!IsPrefix(disk[f], p.data)
    BY <2>1
  <2>3. p \in Ld!Sent(c2)'
    BY <1>3, <2>2
  <2>4. Ld!IsPrefix(disk'[f], p.data)
    BY <2>2
  <2> QED BY <2>2, <2>3, <2>4
<1> QED BY <1>2, <1>4, <1>5

\* Then everything else is as it should be.
LEMMA AllKept ==
  ASSUME Ld!ConstantsAssumption, UploadInv, NEW c1 \in Clients, NEW w, Moves(c1, w),
         NEW body, body = up[c1].body, NEW f, f = FileOf(up[c1]), Settles(c1, w, body, f)
  PROVE  UploadInv'
<1>2. /\ DOMAIN up = Clients /\ up'[c1] = w /\ w.body = body /\ FileOf(w) = f
      /\ \A c2 \in Clients : c2 # c1 => up'[c2] = up[c2]
  BY DEF UploadInv, Moves, IsUp, FileOf
<1>3. ASSUME NEW g, Ld!Intact(g)' PROVE Ld!Intact(g)
  BY <1>3, IntactBefore
<1>4. f \in Files /\ f = body[1].file
  <2>1. body[1].file \in Files
    BY ItsForm
  <2> QED BY <2>1 DEF FileOf
<1>5. ASSUME NEW g \in Files, g # f PROVE disk'[g] = disk[g]
  BY <1>5 DEF Moves
<1>6. deletes' \in Nat /\ DOMAIN disk' = Files /\ DOMAIN up' = Clients
  BY DEF UploadInv, Moves
<1>7. ASSUME NEW c2 \in Clients PROVE up'[c2].body \in Bodies[c2] /\ IsState(up'[c2], up'[c2].body)
  <2>1. up[c2].body \in Bodies[c2] /\ IsState(up[c2], up[c2].body)
    BY DEF UploadInv
  <2>2. CASE c2 = c1
    BY <1>2, <2>1, <2>2 DEF Settles
  <2>3. CASE c2 # c1
    BY <1>2, <2>1, <2>3
  <2> QED BY <2>2, <2>3
<1>8. ASSUME NEW c2 \in Clients, NEW g, g = FileOf(up'[c2]), Ld!Intact(g)' PROVE Keeps(up'[c2], up'[c2].body, disk'[g])
  <2>1. CASE c2 = c1
    <3>1. g = f /\ up'[c2] = w /\ up'[c2].body = body
      BY <1>2, <1>8, <2>1
    <3>2. Ld!Intact(f)'
      BY <1>8, <3>1
    <3>3. Keeps(w, body, disk'[f])
      BY <3>2 DEF Settles
    <3> QED BY <3>1, <3>3
  <2>2. CASE c2 # c1
    <3>1. up'[c2] = up[c2] /\ g = FileOf(up[c2])
      BY <1>2, <1>8, <2>2
    <3>2. Ld!Intact(g)
      BY <1>3, <1>8
    <3>3. Keeps(up[c2], up[c2].body, disk[g])
      <4>1. EachKeeps
        BY DEF UploadInv
      <4> QED BY <3>1, <3>2, <4>1 DEF EachKeeps
    <3>4. g \in Files
      <4>1. PICK b : b = up[c2].body
        OBVIOUS
      <4>2. b[1].file \in Files
        BY <4>1, ItsForm
      <4> QED BY <3>1, <4>1, <4>2 DEF FileOf
    <3>5. CASE g # f
      <4>1. disk'[g] = disk[g]
        BY <1>5, <3>4, <3>5
      <4> QED BY <3>1, <3>3, <4>1
    <3>6. CASE g = f
      <4>1. CASE HasMade(up[c2])
        <5>1. disk'[g] = disk[g]
          BY <1>8, <2>2, <3>1, <3>6, <4>1 DEF Settles
        <5> QED BY <3>1, <3>3, <5>1
      <4>2. CASE ~HasMade(up[c2])
        <5>1. Begins(up[c2], up[c2].body) \/ IsClosed(up[c2], up[c2].body)
          <6>1. \A e, k : ~GoesUp(up[c2], up[c2].body, e, k)
            BY <4>2 DEF GoesUp, IsOpen, HasMade
          <6>2. ~IsOver(up[c2], up[c2].body)
            BY <4>2 DEF IsOver, HasMade
          <6>3. IsState(up[c2], up[c2].body)
            BY DEF UploadInv
          <6> QED BY <6>1, <6>2, <6>3 DEF IsState
        <5>2. Keeps(up[c2], up[c2].body, disk'[g])
          BY <5>1 DEF Keeps
        <5> QED BY <3>1, <5>2
      <4> QED BY <4>1, <4>2
    <3> QED BY <3>5, <3>6
  <2> QED BY <2>1, <2>2
<1>9. EachKeeps'
  <2>1. SUFFICES ASSUME NEW c2 \in Clients, Ld!Intact(FileOf(up[c2]))' PROVE Keeps(up'[c2], up'[c2].body, disk'[FileOf(up'[c2])])
    BY DEF EachKeeps
  <2>2. PICK g : g = FileOf(up'[c2])
    OBVIOUS
  <2>3. Ld!Intact(g)'
    BY <2>1, <2>2 DEF Ld!Intact
  <2> QED BY <1>8, <2>2, <2>3
<1>10. OneMakes'
  <2>1. SUFFICES ASSUME NEW c2 \in Clients, NEW c3 \in Clients, c2 # c3, FileOf(up'[c2]) = FileOf(up'[c3]), HasMade(up'[c2]), HasMade(up'[c3]),
                        Ld!Intact(FileOf(up[c2]))'
                 PROVE  FALSE
    BY DEF OneMakes
  <2>2. PICK g : g = FileOf(up'[c2])
    OBVIOUS
  <2>3. Ld!Intact(g)'
    BY <2>1, <2>2 DEF Ld!Intact
  <2>4. Ld!Intact(g)
    BY <1>3, <2>3
  <2>5. OneMakes
    BY DEF UploadInv
  <2>6. CASE c2 # c1 /\ c3 # c1
    <3>1. up'[c2] = up[c2] /\ up'[c3] = up[c3]
      BY <1>2, <2>6
    <3> QED BY <2>1, <2>2, <2>4, <2>5, <3>1 DEF OneMakes
  <2>7. ASSUME NEW c4 \in Clients, c4 # c1, FileOf(up'[c4]) = f, HasMade(up'[c4]), HasMade(w), Ld!Intact(f)' PROVE FALSE
    <3>1. up'[c4] = up[c4]
      BY <1>2, <2>7
    <3> QED BY <2>7, <3>1 DEF Settles
  <2>8. CASE c2 = c1
    <3>1. up'[c2] = w /\ g = f /\ c3 # c1
      BY <1>2, <2>1, <2>2, <2>8
    <3>2. Ld!Intact(f)'
      BY <2>3, <3>1
    <3> QED BY <2>1, <2>2, <2>7, <3>1, <3>2
  <2>9. CASE c3 = c1
    <3>1. up'[c3] = w /\ g = f /\ c2 # c1
      BY <1>2, <2>1, <2>2, <2>9
    <3>2. Ld!Intact(f)'
      BY <2>3, <3>1
    <3> QED BY <2>1, <2>2, <2>7, <3>1, <3>2
  <2> QED BY <2>6, <2>8, <2>9
<1>11. Ld!PrefixOnDisk'
  <2>1. SUFFICES ASSUME NEW g \in Files, Ld!Intact(g)'
                 PROVE  disk'[g] \in {NoFile, OLD} \/ \E c2 \in Clients : \E p \in Ld!Sent(c2)' : p.file = g /\ Ld!IsPrefix(disk'[g], p.data)
    BY DEF Ld!PrefixOnDisk
  <2>2. CASE disk'[g] = disk[g]
    BY <2>1, <2>2, SameFile
  <2>3. CASE disk'[g] # disk[g]
    <3>1. g = f
      BY <1>5, <2>3
    <3>2. Ld!IsPrefix(disk'[f], body[1].data)
      BY <2>1, <2>3, <3>1 DEF Settles
    <3>3. PICK p : p = body[1]
      OBVIOUS
    <3>4. p \in Ld!Sent(c1)'
      <4>1. Ld!FormOK(body)
        BY ItsForm
      <4>2. DOMAIN body = {1}
        BY <4>1 DEF Ld!FormOK
      <4>3. up'[c1].body = body
        BY <1>2
      <4> QED BY <3>3, <4>2, <4>3 DEF Ld!Sent
    <3> QED BY <1>4, <3>1, <3>2, <3>3, <3>4
  <2> QED BY <2>2, <2>3
<1> QED BY <1>6, <1>7, <1>9, <1>10, <1>11 DEF UploadInv

\* What c1 had saved when something more has come of it.
HadSaved(u, body, f, o, new) ==
  \/ new /\ HasMade(u) /\ (\E k : GoesUp(u, body, o, k)) /\ (Ld!Intact(f) => disk[f] = Piece(Ld!Text(body), 6, o))
  \/ ~new /\ o = 6

IsWritten(f, body, e) == disk'[f] = Piece(Ld!Text(body), 6, e) /\ SavedIs(disk'[f], body, e)

\* Nobody else has the file that is to be made.
MayWriteTo(f, new) == ~(disk[f] # NoFile /\ ~new)

\* While the file is intact, it is written to at its end.
LEMMA WrittenIs ==
  ASSUME Ld!ConstantsAssumption, UploadInv, NEW c1 \in Clients, NEW w, Moves(c1, w),
         NEW body, body = up[c1].body, NEW f, f = FileOf(up[c1]), Ld!Intact(f)',
         NEW u, NEW o \in Nat, 6 =< o, NEW e, NEW k, NEW new \in BOOLEAN, NEW broken, HadSaved(up[c1], body, f, o, new),
         MayWriteTo(f, new), Writes(w, u, body, o, e, k, new, broken)
  PROVE  IsWritten(f, body, e)
<1>1. Ld!Intact(f) /\ ~w.lost
  BY IntactBefore
<1>2. Ld!FormOK(body) /\ body[1].file \in Files /\ \E S : TextOK(Ld!Text(body), S, body[1].file, body[1].data)
  BY ItsForm
<1>3. PICK S : TextOK(Ld!Text(body), S, body[1].file, body[1].data)
  BY <1>2
<1>4. PICK t, d : t = Ld!Text(body) /\ d = body[1].data
  OBVIOUS
<1>5. t \in Seq(S) /\ Len(d) \in Nat /\ Len(t) = Len(d) + 10
  BY <1>3, <1>4 DEF TextOK, IsForm, Clear
<1>6. f = body[1].file /\ f \in Files /\ DOMAIN disk = Files
  BY <1>2 DEF FileOf, UploadInv
<1>7. PICK x : x = Piece(t, o, e)
  OBVIOUS
<1>8. /\ e \in Nat /\ 6 =< e /\ e =< Len(d) + 6 /\ o =< e
      /\ disk' = (IF f \in broken THEN disk ELSE Written(f, x))
      /\ f \in broken /\ (x # << >> \/ ~new) => w.lost
  BY <1>4, <1>6, <1>7 DEF Writes, Within
<1>9. PICK s \in Nat : s = 6
  OBVIOUS
<1>10. s =< o /\ e =< Len(t)
  BY <1>5, <1>8, <1>9
<1>11. ASSUME NEW e1 \in Nat, 6 =< e1, e1 =< Len(d) + 6, NEW y, y = Piece(t, 6, e1) PROVE SavedIs(y, body, e1)
  BY <1>2, <1>3, <1>4, <1>11, PieceIsSaved
<1>12. disk'[f] = Piece(t, 6, e)
  <2>1. CASE new
    <3>1. disk[f] = Piece(t, 6, o)
      BY <1>1, <1>4, <2>1 DEF HadSaved
    <3>2. CASE f \in broken
      <4>1. x = << >>
        BY <1>1, <1>8, <3>2, Zenon
      <4>2. Len(x) = e - o
        BY <1>5, <1>7, <1>8, <1>10, PieceHas
      <4>3. e = o
        BY <1>8, <4>1, <4>2
      <4> QED BY <1>8, <3>1, <3>2, <4>3
    <3>3. CASE f \notin broken
      <4>1. PICK a : a = Piece(t, s, o)
        OBVIOUS
      <4>2. a # NoFile
        <5>1. o =< Len(d) + 6
          BY <1>5, <1>8
        <5>2. SavedIs(a, body, o)
          BY <1>9, <1>11, <4>1, <5>1
        <5> QED BY <5>2 DEF SavedIs
      <4>3. a \o x = Piece(t, s, e)
        BY <1>5, <1>7, <1>8, <1>10, <4>1, PiecesJoin
      <4>4. disk[f] = a
        BY <1>9, <3>1, <4>1
      <4>5. disk'[f] = a \o x
        BY <1>6, <1>8, <3>3, <4>2, <4>4 DEF Written
      <4> QED BY <1>9, <4>3, <4>5
    <3> QED BY <3>2, <3>3
  <2>2. CASE ~new
    <3>1. disk[f] = NoFile /\ o = 6
      BY <2>2 DEF HadSaved, MayWriteTo
    <3>2. f \notin broken
      BY <1>1, <1>8, <2>2, Zenon
    <3>3. disk'[f] = x
      BY <1>6, <1>8, <3>1, <3>2 DEF Written
    <3> QED BY <1>7, <3>1, <3>3
  <2> QED BY <2>1, <2>2
<1>13. SavedIs(disk'[f], body, e)
  <2>1. PICK y : y = disk'[f]
    OBVIOUS
  <2>2. y = Piece(t, 6, e)
    BY <1>12, <2>1
  <2>3. SavedIs(y, body, e)
    BY <1>8, <1>11, <2>2
  <2> QED BY <2>1, <2>3
<1> QED BY <1>4, <1>12, <1>13 DEF IsWritten

\* A file of another, which has made it.
LEMMA AnothersFile ==
  ASSUME Ld!ConstantsAssumption, UploadInv, NEW c2 \in Clients, HasMade(up[c2]), NEW f, f = FileOf(up[c2]), Ld!Intact(f)
  PROVE  disk[f] # NoFile
<1>1. PICK u, body : u = up[c2] /\ body = up[c2].body
  OBVIOUS
<1>2. Ld!FormOK(body) /\ \E S : TextOK(Ld!Text(body), S, body[1].file, body[1].data)
  BY <1>1, ItsForm
<1>3. PICK S : TextOK(Ld!Text(body), S, body[1].file, body[1].data)
  BY <1>2
<1>4. Keeps(u, body, disk[f])
  <2>1. EachKeeps
    BY DEF UploadInv
  <2> QED BY <1>1, <2>1 DEF EachKeeps
<1>5. ~Begins(u, body) /\ ~IsClosed(u, body)
  <2>1. ~Begins(u, body)
    BY <1>1, Zenon DEF Begins, IsOpen, HasMade
  <2>2. ~IsClosed(u, body)
    BY <1>1 DEF IsClosed, HasMade
  <2> QED BY <2>1, <2>2
<1>6. Len(body[1].data) \in Nat
  BY <1>3 DEF TextOK, Clear
<1>7. CASE \E e, k : GoesUp(u, body, e, k) /\ disk[f] = Piece(Ld!Text(body), 6, e)
  <2>1. PICK e, k : GoesUp(u, body, e, k) /\ disk[f] = Piece(Ld!Text(body), 6, e)
    BY <1>7
  <2>2. e \in Nat /\ 6 =< e /\ e =< Len(body[1].data) + 6
    BY <2>1 DEF GoesUp, Within
  <2>3. PICK x : x = Piece(Ld!Text(body), 6, e)
    OBVIOUS
  <2>4. SavedIs(x, body, e)
    BY <1>2, <1>3, <2>2, <2>3, PieceIsSaved
  <2> QED BY <2>1, <2>3, <2>4 DEF SavedIs
<1>8. CASE disk[f] = body[1].data
  <2>1. PICK e \in Nat : e = Len(body[1].data) + 6
    BY <1>6
  <2>2. 6 =< e /\ e =< Len(body[1].data) + 6
    BY <1>6, <2>1
  <2>3. PICK x : x = Piece(Ld!Text(body), 6, e)
    OBVIOUS
  <2>4. SavedIs(x, body, e)
    BY <1>2, <1>3, <2>2, <2>3, PieceIsSaved
  <2> QED BY <1>8, <2>1, <2>4 DEF SavedIs
<1> QED BY <1>4, <1>5, <1>7, <1>8 DEF Keeps

\* So an event is settled.
LEMMA EventSettles ==
  ASSUME Ld!ConstantsAssumption, UploadInv, NEW c1 \in Clients, NEW w, up' = [up EXCEPT ![c1] = w], deletes' = deletes,
         NEW body, body = up[c1].body, NEW f, f = FileOf(up[c1]),
         NEW u, u.lost = up[c1].lost, NEW o \in Nat, 6 =< o, NEW k, NEW new \in BOOLEAN, NEW broken, HadSaved(up[c1], body, f, o, new),
         Outcome(w, u, body, o, k, new, broken)
  PROVE  Moves(c1, w) /\ Settles(c1, w, body, f)
<1>1. body[1].file \in Files /\ f = body[1].file /\ DOMAIN disk = Files
  BY ItsForm DEF FileOf, UploadInv
<1>2. up[c1].lost => w.lost
  BY Zenon DEF Outcome
<1>3. CASE disk[f] # NoFile /\ ~new
  <2>1. disk' = disk /\ IsClosed(w, body)
    BY <1>1, <1>3 DEF Outcome
  <2>2. Moves(c1, w)
    BY <1>1, <1>2, <2>1 DEF Moves, IsClosed
  <2>3. ~HasMade(w)
    BY <2>1 DEF IsClosed, HasMade
  <2>4. Settles(c1, w, body, f)
    BY <2>1, <2>3 DEF Settles, IsState, Keeps
  <2> QED BY <2>2, <2>4
<1>4. CASE ~(disk[f] # NoFile /\ ~new)
  <2>1. PICK e : Writes(w, u, body, o, e, k, new, broken)
    BY <1>1, <1>4 DEF Outcome
  <2>2. IsUp(w, body)
    BY <2>1 DEF Writes, GoesUp, IsOpen, IsOver, IsClosed
  <2>3. DOMAIN disk' = Files /\ \A g \in Files : g # f => disk'[g] = disk[g]
    BY <1>1, <2>1 DEF Writes, Written
  <2>4. Moves(c1, w)
    BY <1>2, <2>2, <2>3 DEF Moves
  <2>5. IsState(w, body)
    BY <2>1 DEF Writes, IsState
  <2>6. ASSUME Ld!Intact(f)'
        PROVE  /\ Keeps(w, body, disk'[f])
               /\ Ld!IsPrefix(disk'[f], body[1].data)
               /\ \A c2 \in Clients : c2 # c1 /\ FileOf(up[c2]) = f => ~HasMade(up[c2])
    <3>1. disk'[f] = Piece(Ld!Text(body), 6, e) /\ SavedIs(disk'[f], body, e)
      <4>1. MayWriteTo(f, new)
        BY <1>4 DEF MayWriteTo
      <4>2. IsWritten(f, body, e)
        BY <2>1, <2>4, <2>6, <4>1, WrittenIs
      <4> QED BY <4>2 DEF IsWritten
    <3>2. Keeps(w, body, disk'[f])
      BY <2>1, <3>1 DEF Writes, Keeps, SavedIs
    <3>3. ASSUME NEW c2 \in Clients, c2 # c1, FileOf(up[c2]) = f, HasMade(up[c2]) PROVE FALSE
      <4>1. Ld!Intact(f)
        BY <2>4, <2>6, IntactBefore
      <4>2. disk[f] # NoFile
        BY <3>3, <4>1, AnothersFile
      <4>3. HasMade(up[c1])
        BY <1>4, <4>2 DEF HadSaved
      <4>4. OneMakes
        BY DEF UploadInv
      <4> QED BY <3>3, <4>1, <4>3, <4>4 DEF OneMakes
    <3> QED BY <3>1, <3>2, <3>3 DEF SavedIs
  <2>7. Settles(c1, w, body, f)
    BY <2>5, <2>6 DEF Settles
  <2> QED BY <2>4, <2>7
<1> QED BY <1>3, <1>4

\* One that is closed without anything written.
LEMMA ClosedSettles ==
  ASSUME Ld!ConstantsAssumption, UploadInv, NEW c1 \in Clients, NEW w, up' = [up EXCEPT ![c1] = w], deletes' = deletes, disk' = disk,
         NEW body, body = up[c1].body, NEW f, f = FileOf(up[c1]), IsClosed(w, body), up[c1].lost => w.lost
  PROVE  Moves(c1, w) /\ Settles(c1, w, body, f)
<1>1. DOMAIN disk = Files
  BY DEF UploadInv
<1>2. Moves(c1, w)
  BY <1>1 DEF Moves, IsClosed
<1>3. ~HasMade(w)
  BY DEF IsClosed, HasMade
<1> QED BY <1>2, <1>3 DEF Settles, IsState, Keeps

\* How far one that waits for more has saved.
LEMMA SavedUpTo ==
  ASSUME Ld!ConstantsAssumption, UploadInv, NEW c1 \in Clients, NEW body, body = up[c1].body, NEW f, f = FileOf(up[c1]),
         ~Begins(up[c1], body), up[c1].state = "open"
  PROVE  \E e, k : GoesUp(up[c1], body, e, k) /\ (Ld!Intact(f) => disk[f] = Piece(Ld!Text(body), 6, e))
<1>1. PICK u : u = up[c1]
  OBVIOUS
<1>2. ~IsClosed(u, body) /\ ~IsOver(u, body) /\ ~Begins(u, body)
  BY <1>1 DEF IsClosed, IsOver
<1>3. CASE Ld!Intact(f)
  <2>1. Keeps(u, body, disk[f])
    <3>1. EachKeeps
      BY DEF UploadInv
    <3> QED BY <1>1, <1>3, <3>1 DEF EachKeeps
  <2> QED BY <1>1, <1>2, <2>1 DEF Keeps
<1>4. CASE ~Ld!Intact(f)
  <2>1. IsState(u, body)
    BY <1>1 DEF UploadInv
  <2> QED BY <1>1, <1>2, <1>4, <2>1 DEF IsState
<1> QED BY <1>3, <1>4

\* An event of one of which something has been read.
LEMMA ReadSettles ==
  ASSUME Ld!ConstantsAssumption, UploadInv, NEW c1 \in Clients, NEW body, body = up[c1].body, NEW f, f = FileOf(up[c1]),
         NEW u, u.lost = up[c1].lost, NEW o, NEW k, NEW new \in BOOLEAN, HasArrived(u, body, o, k, new),
         HadSaved(up[c1], body, f, o, new),
         NEW broken, Ld!Respond(c1, u, broken), deletes' = deletes
  PROVE  UploadInv'
<1>1. \E S : TextOK(Ld!Text(body), S, body[1].file, body[1].data)
  BY ItsForm
<1>2. PICK S : TextOK(Ld!Text(body), S, body[1].file, body[1].data)
  BY <1>1
<1>3. ComesTo(c1, u, body, o, k, new, broken)
  BY <1>2, EventIs
<1>4. PICK w : up' = [up EXCEPT ![c1] = w] /\ Outcome(w, u, body, o, k, new, broken)
  BY <1>3 DEF ComesTo
<1>5. o \in Nat /\ 6 =< o
  BY DEF HasArrived, Within
<1>6. Moves(c1, w) /\ Settles(c1, w, body, f)
  BY <1>4, <1>5, EventSettles
<1> QED BY <1>6, AllKept

\* What has arrived is read.
LEMMA ReadKeeps ==
  ASSUME Ld!ConstantsAssumption, UploadInv, NEW c1 \in Clients, Ld!Read(c1)
  PROVE  UploadInv'
<1>1. PICK body, f : body = up[c1].body /\ f = FileOf(up[c1])
  OBVIOUS
<1>2. PICK S : TextOK(Ld!Text(body), S, body[1].file, body[1].data)
  BY <1>1, ItsForm
<1>3. up[c1].state = "open" /\ deletes' = deletes
  BY DEF Ld!Read
<1>4. PICK n \in 1 .. Len(up[c1].left), stale \in BOOLEAN, broken \in SUBSET Files :
        IF Ld!Parsed(up[c1], n, stale).parser.status = "bad" THEN Ld!Refuse(c1, Ld!Parsed(up[c1], n, stale))
        ELSE Ld!Respond(c1, Ld!Parsed(up[c1], n, stale), broken)
  BY DEF Ld!Read
<1>5. PICK u, v : u = up[c1] /\ v = Ld!Parsed(u, n, stale)
  OBVIOUS
<1>6. v.parser.status # "bad" => Ld!Respond(c1, v, broken)
  BY <1>4, <1>5
<1>7. CASE Begins(u, body)
  <2>1. n \in 1 .. Len(u.left)
    BY <1>5
  <2>2. v.parser.status # "bad" /\ v.lost = u.lost /\ (TooShort(v, body) \/ HasArrived(v, body, 6, n, FALSE))
    <3>1. IsReadFirst(v, u, body, n)
      BY <1>2, <1>5, <1>7, <2>1, FirstRead
    <3> QED BY <3>1 DEF IsReadFirst
  <2>3. Ld!Respond(c1, v, broken)
    BY <1>6, <2>2
  <2>4. CASE TooShort(v, body)
    <3>1. disk' = disk /\ \E w : up' = [up EXCEPT ![c1] = w] /\ IsClosed(w, body) /\ (v.lost => w.lost)
      BY <2>3, <2>4, ShortIsRefused
    <3>2. PICK w : up' = [up EXCEPT ![c1] = w] /\ IsClosed(w, body) /\ (v.lost => w.lost)
      BY <3>1
    <3>3. up[c1].lost => w.lost
      BY <1>5, <2>2, <3>2, Zenon
    <3>4. Moves(c1, w) /\ Settles(c1, w, body, f)
      BY <1>1, <1>3, <3>1, <3>2, <3>3, ClosedSettles
    <3> QED BY <1>1, <3>4, AllKept
  <2>5. CASE HasArrived(v, body, 6, n, FALSE)
    <3>1. PICK o \in Nat, new \in BOOLEAN : o = 6 /\ new = FALSE
      OBVIOUS
    <3>2. HasArrived(v, body, o, n, new)
      BY <2>5, <3>1
    <3>3. HadSaved(up[c1], body, f, o, new)
      BY <3>1 DEF HadSaved
    <3>4. v.lost = up[c1].lost
      BY <1>5, <2>2
    <3> QED BY <1>1, <1>3, <2>3, <3>2, <3>3, <3>4, ReadSettles
  <2> QED BY <2>2, <2>4, <2>5
<1>8. CASE ~Begins(u, body)
  <2>1. \E e, k : GoesUp(up[c1], body, e, k) /\ (Ld!Intact(f) => disk[f] = Piece(Ld!Text(body), 6, e))
    BY <1>1, <1>3, <1>5, <1>8, SavedUpTo
  <2>2. PICK e, k : GoesUp(u, body, e, k) /\ (Ld!Intact(f) => disk[f] = Piece(Ld!Text(body), 6, e))
    BY <1>5, <2>1
  <2>3. n \in 1 .. Len(u.left)
    BY <1>5
  <2>6. PICK m : m = k + n
    OBVIOUS
  <2>10. PICK new \in BOOLEAN : new = TRUE
    OBVIOUS
  <2>4. IsReadTo(v, u, body, e, m, new)
    <3>1. IsReadTo(v, u, body, e, m, TRUE)
      BY <1>2, <1>5, <2>2, <2>3, <2>6, LaterRead
    <3> QED BY <2>10, <3>1
  <2>5. Ld!Respond(c1, v, broken)
    BY <1>6, <2>4 DEF IsReadTo
  <2>7. HasArrived(v, body, e, m, new)
    BY <2>4 DEF IsReadTo
  <2>8. HadSaved(up[c1], body, f, e, new)
    <3>1. HasMade(up[c1])
      BY <1>3, <1>5, <2>2 DEF GoesUp, HasMade
    <3> QED BY <1>5, <2>2, <2>10, <3>1 DEF HadSaved
  <2>9. v.lost = up[c1].lost
    BY <1>5, <2>4 DEF IsReadTo
  <2> QED BY <1>1, <1>3, <2>5, <2>7, <2>8, <2>9, ReadSettles
<1> QED BY <1>7, <1>8

\* Nothing has arrived, and the request is answered again.
LEMMA WritableKeeps ==
  ASSUME Ld!ConstantsAssumption, UploadInv, NEW c1 \in Clients, Ld!Writable(c1)
  PROVE  UploadInv'
<1>1. PICK body, f, u : body = up[c1].body /\ f = FileOf(up[c1]) /\ u = up[c1]
  OBVIOUS
<1>2. PICK S : TextOK(Ld!Text(body), S, body[1].file, body[1].data)
  BY <1>1, ItsForm
<1>3. up[c1].state = "open" /\ deletes' = deletes /\ up[c1].head
  BY DEF Ld!Writable
<1>4. PICK broken : Ld!Respond(c1, u, broken)
  BY <1>1 DEF Ld!Writable
<1>5. ~Begins(u, body)
  BY <1>1, <1>3, Zenon DEF Begins
<1>6. \E e, k : GoesUp(up[c1], body, e, k) /\ (Ld!Intact(f) => disk[f] = Piece(Ld!Text(body), 6, e))
  BY <1>1, <1>3, <1>5, SavedUpTo
<1>7. PICK e, k : GoesUp(u, body, e, k) /\ (Ld!Intact(f) => disk[f] = Piece(Ld!Text(body), 6, e))
  BY <1>1, <1>6
<1>8. PICK new \in BOOLEAN : new = TRUE
  OBVIOUS
<1>9. HasArrived(u, body, e, k, new)
  <2>1. HasArrived(u, body, e, k, TRUE)
    BY <1>2, <1>7, NothingMore
  <2> QED BY <1>8, <2>1
<1>10. HadSaved(up[c1], body, f, e, new)
  <2>1. HasMade(up[c1])
    BY <1>1, <1>3, <1>7 DEF GoesUp, HasMade
  <2> QED BY <1>1, <1>7, <1>8, <2>1 DEF HadSaved
<1>11. u.lost = up[c1].lost
  BY <1>1
<1> QED BY <1>1, <1>3, <1>4, <1>9, <1>10, <1>11, ReadSettles

\* What nobody does anything to stays as it is.
LEMMA NobodyMoves ==
  ASSUME UploadInv, up' = up, disk' = disk, deletes' = deletes
  PROVE  UploadInv'
<1>1. ASSUME NEW f PROVE Ld!Intact(f)' <=> Ld!Intact(f)
  BY DEF Ld!Intact, Ld!Sent
<1>2. EachKeeps'
  <2>1. SUFFICES ASSUME NEW c1 \in Clients, Ld!Intact(FileOf(up[c1]))' PROVE Keeps(up[c1], up[c1].body, disk[FileOf(up[c1])])
    BY DEF EachKeeps
  <2>2. Ld!Intact(FileOf(up[c1]))
    BY <2>1 DEF Ld!Intact, Ld!Sent
  <2> QED BY <2>2 DEF UploadInv, EachKeeps
<1>3. OneMakes'
  <2>1. SUFFICES ASSUME NEW c1 \in Clients, NEW c2 \in Clients, c1 # c2, FileOf(up[c1]) = FileOf(up[c2]), HasMade(up[c1]), HasMade(up[c2]),
                        Ld!Intact(FileOf(up[c1]))'
                 PROVE  FALSE
    BY DEF OneMakes
  <2>2. Ld!Intact(FileOf(up[c1]))
    BY <2>1 DEF Ld!Intact, Ld!Sent
  <2> QED BY <2>1, <2>2 DEF UploadInv, OneMakes
<1>4. Ld!PrefixOnDisk'
  <2>1. SUFFICES ASSUME NEW f \in Files, Ld!Intact(f)'
                 PROVE  disk[f] \in {NoFile, OLD} \/ \E c1 \in Clients : \E p \in Ld!Sent(c1)' : p.file = f /\ Ld!IsPrefix(disk[f], p.data)
    BY DEF Ld!PrefixOnDisk
  <2>2. \A c1 \in Clients : Ld!Sent(c1)' = Ld!Sent(c1)
    BY DEF Ld!Sent
  <2>3. disk[f] \in {NoFile, OLD} \/ \E c1 \in Clients : \E p \in Ld!Sent(c1) : p.file = f /\ Ld!IsPrefix(disk[f], p.data)
    BY <1>1, <2>1 DEF UploadInv, Ld!PrefixOnDisk
  <2> QED BY <2>2, <2>3
<1> QED BY <1>2, <1>3, <1>4 DEF UploadInv

\* When something has been deleted, no file is intact any more.
LEMMA DeleteKeeps ==
  ASSUME UploadInv, NEW f \in Files, Ld!Delete(f)
  PROVE  UploadInv'
<1>1. up' = up /\ deletes' = deletes + 1 /\ DOMAIN disk' = Files /\ deletes \in Nat
  BY DEF UploadInv, Ld!Delete
<1>2. deletes' # 0 /\ deletes' \in Nat
  BY <1>1
<1>3. EachKeeps'
  BY <1>2 DEF EachKeeps, Ld!Intact
<1>4. OneMakes'
  BY <1>2 DEF OneMakes, Ld!Intact
<1>5. Ld!PrefixOnDisk'
  BY <1>2 DEF Ld!PrefixOnDisk, Ld!Intact
<1>6. \A c1 \in Clients : up'[c1].body \in Bodies[c1] /\ IsState(up'[c1], up'[c1].body)
  BY <1>1 DEF UploadInv
<1> QED BY <1>1, <1>2, <1>3, <1>4, <1>5, <1>6 DEF UploadInv

\* At the begin nothing has been read.
LEMMA BeginIs ==
  ASSUME NEW body, NEW S, Ld!Text(body) \in Seq(S), NEW u, u = Ld!NewUpload(body)
  PROVE  Begins(u, body)
<1>1. /\ DOMAIN u = {"state", "body", "left", "head", "parser", "items", "replies", "lost"}
      /\ u.body = body /\ u.state = "open" /\ u.replies = << >> /\ u.items = << >> /\ u.left = Ld!Text(body) /\ u.parser = Ld!NewParser
  BY DEF Ld!NewUpload
<1>2. u.head = FALSE
  BY Zenon DEF Ld!NewUpload
<1>3. PICK t : t = Ld!Text(body)
  OBVIOUS
<1>4. t = Piece(t, 0, Len(t))
  <2>1. t \in Seq(S) /\ 0 + 1 = 1
    BY <1>3
  <2>2. SubSeq(t, 1, Len(t)) = t
    BY <2>1
  <2> QED BY <2>1, <2>2 DEF Piece
<1>5. Waits0(Ld!NewParser, << >>)
  <2>1. PICK q : q = Ld!NewParser
    OBVIOUS
  <2>2. DOMAIN q = {"buffer", "parts", "first", "finished", "status"} /\ q.buffer = << >> /\ q.parts = << >>
    BY <2>1 DEF Ld!NewParser
  <2>3. q.first = FALSE /\ q.finished = FALSE
    BY <2>1, Zenon DEF Ld!NewParser
  <2> QED BY <2>1, <2>2, <2>3 DEF Waits0, IsParser
<1>6. u.left = Piece(Ld!Text(body), 0, Len(Ld!Text(body)))
  BY <1>1, <1>3, <1>4
<1> QED BY <1>1, <1>2, <1>5, <1>6 DEF Begins, IsOpen, IsUp

\* So the invariant holds.
LEMMA UploadStarts ==
  ASSUME Ld!ConstantsAssumption, Ld!Init
  PROVE  UploadInv
<1>1. PICK body : /\ \A c1 \in Clients : body[c1] \in Bodies[c1]
                  /\ up = [c1 \in Clients |-> Ld!NewUpload(body[c1])]
  BY DEF Ld!Init
<1>2. disk \in [Files -> {NoFile, OLD}] /\ deletes = 0
  BY DEF Ld!Init
<1>3. ASSUME NEW c1 \in Clients PROVE up[c1].body \in Bodies[c1] /\ Begins(up[c1], up[c1].body)
  <2>1. PICK b, u : b = body[c1] /\ u = up[c1]
    OBVIOUS
  <2>2. b \in Bodies[c1] /\ u = Ld!NewUpload(b)
    BY <1>1, <2>1
  <2>3. Ld!FormOK(b) /\ NL # BB /\ NL # DD /\ BB # DD
    BY <2>2 DEF Ld!ConstantsAssumption
  <2>4. PICK S : TextOK(Ld!Text(b), S, b[1].file, b[1].data)
    BY <2>3, FormIs
  <2>5. Ld!Text(b) \in Seq(S)
    BY <2>4 DEF TextOK
  <2>6. Begins(u, b)
    BY <2>2, <2>5, BeginIs
  <2>7. u.body = b
    BY <2>6 DEF Begins, IsOpen, IsUp
  <2> QED BY <2>1, <2>2, <2>6, <2>7
<1>4. \A c1 \in Clients : up[c1].body \in Bodies[c1] /\ IsState(up[c1], up[c1].body)
  BY <1>3 DEF IsState
<1>5. EachKeeps
  BY <1>3 DEF EachKeeps, Keeps
<1>6. ASSUME NEW c1 \in Clients PROVE ~HasMade(up[c1])
  <2>1. up[c1].state = "open" /\ up[c1].head = FALSE
    BY <1>3 DEF Begins, IsOpen
  <2>2. ~(up[c1].head = TRUE)
    BY <2>1, Zenon
  <2>3. up[c1].state # "over"
    BY <2>1
  <2> QED BY <2>2, <2>3, Zenon DEF HasMade
<1>7. OneMakes
  BY <1>6, Zenon DEF OneMakes
<1>8. Ld!PrefixOnDisk
  BY <1>2 DEF Ld!PrefixOnDisk
<1>9. DOMAIN up = Clients /\ DOMAIN disk = Files /\ deletes \in Nat
  BY <1>1, <1>2
<1> QED BY <1>4, <1>5, <1>7, <1>8, <1>9 DEF UploadInv

\* What the invariant says of a connection that is over, and of its answers.
LEMMA UploadSays ==
  ASSUME Ld!ConstantsAssumption, UploadInv
  PROVE  Ld!PrefixOnDisk /\ Ld!AcceptedIsWhole /\ Ld!OneReply
<1>1. ASSUME NEW c1 \in Clients PROVE Len(up[c1].replies) =< 1 /\ (up[c1].state = "over" => up[c1].replies # << >>)
  <2>1. PICK u, body : u = up[c1] /\ body = up[c1].body
    OBVIOUS
  <2>2. IsState(u, body)
    BY <2>1 DEF UploadInv
  <2>3. CASE Begins(u, body) \/ \E e, k : GoesUp(u, body, e, k)
    <3>1. u.state = "open" /\ u.replies = << >>
      BY <2>3 DEF Begins, GoesUp, IsOpen
    <3> QED BY <2>1, <3>1
  <2>4. CASE IsOver(u, body)
    <3>1. u.replies = <<200>>
      BY <2>4 DEF IsOver
    <3> QED BY <2>1, <3>1
  <2>5. CASE IsClosed(u, body)
    <3>1. u.state # "over" /\ Len(u.replies) = 1
      BY <2>5 DEF IsClosed
    <3> QED BY <2>1, <3>1
  <2> QED BY <2>2, <2>3, <2>4, <2>5 DEF IsState
<1>2. ASSUME NEW c1 \in Clients, up[c1].state = "over", NEW p \in Ld!Sent(c1), Ld!Intact(p.file) PROVE disk[p.file] = p.data
  <2>1. PICK u, body : u = up[c1] /\ body = up[c1].body
    OBVIOUS
  <2>2. Ld!FormOK(body)
    BY <2>1, ItsForm
  <2>3. p = body[1]
    <3>1. DOMAIN body = {1}
      BY <2>2 DEF Ld!FormOK
    <3> QED BY <2>1, <3>1 DEF Ld!Sent
  <2>4. FileOf(u) = p.file
    BY <2>1, <2>3 DEF FileOf
  <2>5. Keeps(u, body, disk[p.file])
    <3>1. EachKeeps
      BY DEF UploadInv
    <3> QED BY <1>2, <2>1, <2>4, <3>1 DEF EachKeeps
  <2>6. ~Begins(u, body) /\ ~IsClosed(u, body) /\ \A e, k : ~GoesUp(u, body, e, k)
    BY <1>2, <2>1 DEF Begins, IsClosed, GoesUp, IsOpen
  <2> QED BY <2>3, <2>5, <2>6 DEF Keeps
<1>3. Ld!AcceptedIsWhole
  BY <1>2, Zenon DEF Ld!AcceptedIsWhole
<1>4. Ld!OneReply
  BY <1>1 DEF Ld!OneReply
<1> QED BY <1>3, <1>4 DEF UploadInv

\* Uploads of several clients, whatever they send and however it arrives in pieces, do not
\* mix: a file of the location is an old one or the begin of the content one client has
\* sent, and when that client is told that its upload is done, the file is there, whole;
\* it is told so once (RequestMultipartParser::feed() and apply(), handle_multipart_upload()).
\* A file that was deleted or could not be opened meanwhile is not spoken of.
THEOREM UploadsStayApart ==
  ASSUME Ld!ConstantsAssumption
  PROVE  Ld!Spec => [](Ld!PrefixOnDisk /\ Ld!AcceptedIsWhole /\ Ld!OneReply)
<1>1. Ld!Init => UploadInv
  BY UploadStarts
<1>2. UploadInv /\ [Ld!Next]_(Ld!vars) => UploadInv'
  <2>1. SUFFICES ASSUME UploadInv, [Ld!Next]_(Ld!vars) PROVE UploadInv'
    OBVIOUS
  <2>2. CASE \E c1 \in Clients : Ld!Read(c1)
    BY <2>1, <2>2, ReadKeeps
  <2>3. CASE \E c1 \in Clients : Ld!Writable(c1)
    BY <2>1, <2>3, WritableKeeps
  <2>4. CASE \E f \in Files : Ld!Delete(f)
    BY <2>1, <2>4, DeleteKeeps
  <2>5. CASE UNCHANGED Ld!vars
    BY <2>1, <2>5, NobodyMoves DEF Ld!vars
  <2> QED BY <2>1, <2>2, <2>3, <2>4, <2>5 DEF Ld!Next, Ld!Finished
<1>3. UploadInv => Ld!PrefixOnDisk /\ Ld!AcceptedIsWhole /\ Ld!OneReply
  BY UploadSays
<1> QED BY <1>1, <1>2, <1>3, PTL DEF Ld!Spec
================================================================================
