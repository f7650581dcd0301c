--------------------------- MODULE ContractsProofs ---------------------------
(***************************************************************************)
(* The contracts of bootstrap and enrollment and their codecs: one         *)
(* exchange of frames, for any frames a peer may write and however they    *)
(* are cut; the bootstrap verifier, for any sessions, peers, limits and    *)
(* clock; and the decoders, for every byte string and every payload.       *)
(***************************************************************************)
EXTENDS BootstrapVerifier, ContractExchange, Codecs, SequenceTheorems, FiniteSetTheorems, TLAPS

-----------------------------------------------------------------------------
(* What the exchange relies on *)

\* What the cells of the stream may be.
Cells == (UNION {{f.magic, f.version, f.kind, f.length} : f \in Frames}) \cup Payloads

Answers == [kind : Terminals \cup Challenges \cup {"torn"}, id : ApprovalIds]

ExchangeTypes ==
  /\ op \in Ops /\ given \in [id : ApprovalIds, response : Responses]
  /\ sent \in Seq(Frames) /\ Len(sent) <= MaxSent
  /\ stream \in Seq(Cells) /\ rest \in Seq(Cells) /\ header \in Seq(Cells)
  /\ eof \in BOOLEAN /\ closed \in BOOLEAN /\ shut \in BOOLEAN
  /\ pc \in {"header", "payload", "handle", "close", "abort", "done"}
  /\ asked \in Seq(Payloads) /\ out \in Seq(Answers)
  /\ result \in {"none", "ok", "Wire", "FrameTooLarge", "Timeout"}

\* The cells the dispatcher has not taken as part of a request yet.
Unread == header \o (stream \o rest)

Begins(d, e) == Len(e) <= Len(d) /\ \A j \in 1 .. Len(e) : d[j] = e[j]

\* The cells d start with frame n + 1 of the frames s, and hold nothing else
\* if that is the last one.
AtFrame(d, s, n) ==
  /\ Len(s) <= n => d = <<>>
  /\ Len(s) = n + 1 => d = Encode(s[n + 1])
  /\ Len(s) > n + 1 => Begins(d, Encode(s[n + 1]))

Drop(d, n) == SubSeq(d, n + 1, Len(d))

\* A dispatcher reads two requests at most: where each of them starts.
Framed(d, s, n) ==
  /\ n < 2 => AtFrame(d, s, n)
  /\ n = 0 /\ Len(s) >= 1 => AtFrame(Drop(d, Len(Encode(s[1]))), s, 1)

Reading == {"header", "payload"}
Asking  == Reading \cup {"handle"}

\* Before a request is accepted the relay stands at the start of its frame.
InStep ==
  pc \in Asking => /\ Framed(Unread, sent, Len(asked))
                   /\ Len(asked) <= Len(sent)
                   /\ Len(header) = IF pc = "payload" THEN HeaderCells ELSE 0

\* Requests answered so far, while the exchange goes on.
Answered == IF pc = "handle" THEN Len(asked) - 1 ELSE Len(asked)

Challenged == Len(out) = 1 /\ out[1].kind \in Challenges /\ out[1].id = given.id

Conversing ==
  /\ Len(asked) <= Len(Script(op))
  /\ pc \in Reading => Len(asked) < Len(Script(op))
  /\ pc = "handle" => Len(asked) >= 1
  /\ pc \in Asking => /\ Answered = 0 => out = <<>>
                      /\ Answered = 1 => Challenged
  /\ op = "approval" /\ Len(asked) = 2 => asked[2].id = given.id
  /\ pc = "close" => out # <<>> /\ out[Len(out)].kind \in Terminals
  /\ result = "ok" => pc = "done"

\* One exchange: the inductive invariant.
ExchangeInv ==
  /\ ExchangeTypes /\ InStep /\ Conversing
  /\ Synchronised /\ OneTerminal /\ Correlated /\ OkMeansDelivered
-----------------------------------------------------------------------------
(* Frames and cells *)

\* A frame on the stream: four cells of header and its body.
LEMMA EncodeIsCells ==
  ASSUME NEW f \in Frames
  PROVE  /\ Encode(f) \in Seq(Cells)
         /\ Len(Encode(f)) = HeaderCells + Len(f.body)
         /\ Len(f.body) \in Nat
         /\ Encode(f)[1] = f.magic /\ Encode(f)[2] = f.version
         /\ Encode(f)[3] = f.kind /\ Encode(f)[4] = f.length
         /\ \A j \in 1 .. Len(f.body) : Encode(f)[HeaderCells + j] = f.body[j]
<1> DEFINE h == <<f.magic, f.version, f.kind, f.length>>
<1>1. h \in Seq(Cells) /\ Len(h) = 4 /\ h[1] = f.magic /\ h[2] = f.version
      /\ h[3] = f.kind /\ h[4] = f.length
  BY DEF Cells
<1>2. f.body \in Seq(Payloads)
  BY ExchangeAssumption
<1>3. f.body \in Seq(Cells) /\ Len(f.body) \in Nat
  BY <1>2, SeqMonotonic, LenProperties DEF Cells
<1> HIDE DEF h
<1>4. /\ h \o f.body \in Seq(Cells)
      /\ Len(h \o f.body) = Len(h) + Len(f.body)
      /\ \A i \in 1 .. Len(h) + Len(f.body) : (h \o f.body)[i] =
                     IF i <= Len(h) THEN h[i] ELSE f.body[i - Len(h)]
  BY <1>1, <1>3, ConcatProperties
<1>5. Encode(f) = h \o f.body
  BY DEF Encode, h
<1> QED BY <1>1, <1>3, <1>4, <1>5 DEF HeaderCells

\* The rest of a sequence after n of its elements.
LEMMA DropProperties ==
  ASSUME NEW d \in Seq(Cells), NEW n \in 0 .. Len(d)
  PROVE  /\ Drop(d, n) \in Seq(Cells)
         /\ Len(Drop(d, n)) = Len(d) - n
         /\ \A i \in 1 .. Len(d) - n : Drop(d, n)[i] = d[n + i]
<1>1. Len(d) \in Nat /\ \A i \in 1 .. Len(d) : d[i] \in Cells
  BY LenProperties, ElementOfSeq
<1>2. \A i \in n + 1 .. Len(d) : d[i] \in Cells
  BY <1>1
<1>3. n + 1 \in Int /\ Len(d) \in Int
  BY <1>1
<1>4. /\ SubSeq(d, n + 1, Len(d)) \in Seq(Cells)
      /\ Len(SubSeq(d, n + 1, Len(d))) = IF n + 1 <= Len(d) THEN Len(d) - (n + 1) + 1 ELSE 0
      /\ \A i \in 1 .. Len(d) - (n + 1) + 1 : SubSeq(d, n + 1, Len(d))[i] = d[(n + 1) + i - 1]
  BY <1>2, <1>3, SubSeqProperties
<1> QED BY <1>1, <1>4 DEF Drop

\* What is written later comes after what is left.
LEMMA DropOfConcat ==
  ASSUME NEW d \in Seq(Cells), NEW e \in Seq(Cells), NEW n \in 0 .. Len(d)
  PROVE  Drop(d \o e, n) = Drop(d, n) \o e
<1>1. Len(d) \in Nat /\ Len(e) \in Nat
  BY LenProperties
<1>2. /\ d \o e \in Seq(Cells) /\ Len(d \o e) = Len(d) + Len(e)
      /\ \A i \in 1 .. Len(d) + Len(e) : (d \o e)[i] = IF i <= Len(d) THEN d[i] ELSE e[i - Len(d)]
  BY ConcatProperties
<1>3. /\ Drop(d \o e, n) \in Seq(Cells) /\ Len(Drop(d \o e, n)) = Len(d) + Len(e) - n
      /\ \A i \in 1 .. Len(d) + Len(e) - n : Drop(d \o e, n)[i] = (d \o e)[n + i]
  <2> DEFINE c == d \o e
  <2>1. c \in Seq(Cells) /\ Len(c) = Len(d) + Len(e) /\ n \in 0 .. Len(c)
    BY <1>1, <1>2
  <2> HIDE DEF c
  <2>2. /\ Drop(c, n) \in Seq(Cells) /\ Len(Drop(c, n)) = Len(c) - n
        /\ \A i \in 1 .. Len(c) - n : Drop(c, n)[i] = c[n + i]
    BY <2>1, DropProperties
  <2> QED BY <2>1, <2>2 DEF c
<1>4. /\ Drop(d, n) \in Seq(Cells) /\ Len(Drop(d, n)) = Len(d) - n
      /\ \A i \in 1 .. Len(d) - n : Drop(d, n)[i] = d[n + i]
  BY DropProperties
<1>5. /\ Drop(d, n) \o e \in Seq(Cells) /\ Len(Drop(d, n) \o e) = Len(d) - n + Len(e)
      /\ \A i \in 1 .. Len(d) - n + Len(e) : (Drop(d, n) \o e)[i] =
            IF i <= Len(d) - n THEN Drop(d, n)[i] ELSE e[i - (Len(d) - n)]
  <2> DEFINE u == Drop(d, n)
  <2>1. u \in Seq(Cells) /\ Len(u) = Len(d) - n
    BY <1>4
  <2> HIDE DEF u
  <2>2. /\ u \o e \in Seq(Cells) /\ Len(u \o e) = Len(u) + Len(e)
        /\ \A i \in 1 .. Len(u) + Len(e) : (u \o e)[i] = IF i <= Len(u) THEN u[i] ELSE e[i - Len(u)]
    BY <2>1, ConcatProperties
  <2> QED BY <2>1, <2>2 DEF u
<1>6. ASSUME NEW i \in 1 .. Len(d) + Len(e) - n
      PROVE  Drop(d \o e, n)[i] = (Drop(d, n) \o e)[i]
  <2>1. n + i \in 1 .. Len(d) + Len(e) /\ i \in 1 .. Len(d) - n + Len(e)
    BY <1>1
  <2>2. CASE i <= Len(d) - n
    BY <1>1, <1>2, <1>3, <1>4, <1>5, <2>1, <2>2
  <2>3. CASE ~(i <= Len(d) - n)
    <3>1. ~(n + i <= Len(d)) /\ n + i - Len(d) = i - (Len(d) - n)
      BY <1>1, <2>3
    <3> QED BY <1>1, <1>2, <1>3, <1>5, <2>1, <2>3, <3>1
  <2> QED BY <2>2, <2>3
<1> HIDE DEF Drop
<1>7. Len(Drop(d \o e, n)) = Len(Drop(d, n) \o e)
  BY <1>1, <1>3, <1>5
<1> QED BY <1>3, <1>5, <1>6, <1>7, SeqEqual

\* One more frame: the place of the frames before it stays.
LEMMA FrameAdded ==
  ASSUME NEW s \in Seq(Frames), NEW f \in Frames, NEW d \in Seq(Cells),
         NEW n \in {0, 1}, Len(s) >= n, AtFrame(d, s, n)
  PROVE  AtFrame(d \o Encode(f), Append(s, f), n)
<1>1. /\ Len(s) \in Nat /\ Len(Append(s, f)) = Len(s) + 1
      /\ \A i \in 1 .. Len(s) : Append(s, f)[i] = s[i]
      /\ Append(s, f)[Len(s) + 1] = f
  BY AppendProperties, LenProperties
<1>2. Encode(f) \in Seq(Cells)
  BY EncodeIsCells
<1>3. CASE Len(s) = n
  <2>1. d = <<>> /\ d \o Encode(f) = Encode(f)
    BY <1>2, <1>3, ConcatEmptySeq DEF AtFrame
  <2> QED BY <1>1, <1>3, <2>1 DEF AtFrame
<1>4. CASE Len(s) > n
  <2>1. n + 1 \in 1 .. Len(s) /\ s[n + 1] \in Frames
    BY <1>1, <1>4, ElementOfSeq
  <2>2. Encode(s[n + 1]) \in Seq(Cells)
    BY <2>1, EncodeIsCells
  <2>3. Begins(d, Encode(s[n + 1]))
    <3>1. CASE Len(s) = n + 1
      <4>1. d = Encode(s[n + 1]) /\ Len(d) \in Nat
        BY <2>2, <3>1, LenProperties DEF AtFrame
      <4> QED BY <4>1 DEF Begins
    <3>2. CASE Len(s) > n + 1
      BY <3>2 DEF AtFrame
    <3> QED BY <1>1, <1>4, <3>1, <3>2
  <2>4. Begins(d \o Encode(f), Encode(s[n + 1]))
    <3> DEFINE e == Encode(s[n + 1])
               w == Encode(f)
    <3>1. Len(d) \in Nat /\ Len(e) \in Nat /\ Len(w) \in Nat
      BY <1>2, <2>2, LenProperties
    <3>2. /\ Len(d \o w) = Len(d) + Len(w)
          /\ \A i \in 1 .. Len(d) + Len(w) : (d \o w)[i] = IF i <= Len(d) THEN d[i] ELSE w[i - Len(d)]
      BY <1>2, ConcatProperties
    <3> HIDE DEF e, w
    <3>3. Len(e) <= Len(d) /\ \A j \in 1 .. Len(e) : d[j] = e[j]
      BY <2>3 DEF Begins, e
    <3>4. Len(e) <= Len(d \o w) /\ \A j \in 1 .. Len(e) : (d \o w)[j] = e[j]
      BY <3>1, <3>2, <3>3
    <3> QED BY <3>4 DEF Begins, e, w
  <2>5. Append(s, f)[n + 1] = s[n + 1] /\ Len(Append(s, f)) > n + 1
    BY <1>1, <1>4, <2>1
  <2> QED BY <2>4, <2>5, <1>1 DEF AtFrame
<1> QED BY <1>1, <1>3, <1>4

\* What the peer starts to write goes to the end.
LEMMA FramedAdded ==
  ASSUME NEW s \in Seq(Frames), NEW f \in Frames, NEW d \in Seq(Cells),
         NEW n \in Nat, Len(s) >= n, Framed(d, s, n)
  PROVE  Framed(d \o Encode(f), Append(s, f), n)
<1>1. /\ Len(s) \in Nat /\ Len(Append(s, f)) = Len(s) + 1
      /\ \A i \in 1 .. Len(s) : Append(s, f)[i] = s[i]
      /\ Append(s, f)[Len(s) + 1] = f
  BY AppendProperties, LenProperties
<1>2. Encode(f) \in Seq(Cells) /\ Len(Encode(f)) \in Nat
  BY EncodeIsCells, LenProperties
<1>3. ASSUME n < 2 PROVE AtFrame(d \o Encode(f), Append(s, f), n)
  <2>1. n \in {0, 1} /\ AtFrame(d, s, n)
    BY <1>3 DEF Framed
  <2> QED BY <2>1, FrameAdded
<1>4. ASSUME n = 0 PROVE AtFrame(Drop(d \o Encode(f), Len(Encode(Append(s, f)[1]))), Append(s, f), 1)
  <2>1. CASE Len(s) = 0
    <3>1. d = <<>> /\ d \o Encode(f) = Encode(f) /\ Append(s, f)[1] = f
      BY <1>1, <1>2, <1>4, <2>1, ConcatEmptySeq DEF Framed, AtFrame
    <3>2. Len(Encode(f)) + 1 \in Int /\ Len(Encode(f)) \in Int /\ Len(Encode(f)) < Len(Encode(f)) + 1
      BY <1>2
    <3>3. Drop(Encode(f), Len(Encode(f))) = <<>>
      BY <3>2, SubSeqEmpty DEF Drop
    <3> QED BY <1>1, <2>1, <3>1, <3>3 DEF AtFrame
  <2>2. CASE Len(s) >= 1
    <3>1. Append(s, f)[1] = s[1] /\ s[1] \in Frames
      BY <1>1, <2>2, ElementOfSeq
    <3> DEFINE m == Len(Encode(s[1]))
    <3>2. m \in Nat
      BY <3>1, EncodeIsCells, LenProperties
    <3>3. m <= Len(d) /\ Len(d) \in Nat
      <4>1. AtFrame(d, s, 0) /\ Len(d) \in Nat
        BY <1>4, LenProperties DEF Framed
      <4>2. CASE Len(s) = 1
        BY <3>2, <4>1, <4>2 DEF AtFrame
      <4>3. CASE Len(s) > 1
        BY <4>1, <4>3 DEF AtFrame, Begins
      <4>4. Len(s) = 1 \/ Len(s) > 1
        <5>1. \A k \in Nat : k >= 1 => k = 1 \/ k > 1
          OBVIOUS
        <5> QED BY <1>1, <2>2, <5>1, Zenon
      <4> QED BY <4>2, <4>3, <4>4
    <3> HIDE DEF m
    <3>4. m \in 0 .. Len(d)
      BY <3>2, <3>3
    <3>5. AtFrame(Drop(d, m), s, 1) /\ Drop(d, m) \in Seq(Cells)
      BY <1>4, <2>2, <3>4, DropProperties DEF Framed, m
    <3>6. AtFrame(Drop(d, m) \o Encode(f), Append(s, f), 1)
      BY <2>2, <3>5, FrameAdded
    <3>7. Drop(d \o Encode(f), m) = Drop(d, m) \o Encode(f)
      BY <1>2, <3>4, DropOfConcat
    <3> QED BY <3>1, <3>6, <3>7 DEF m
  <2> QED BY <1>1, <2>1, <2>2
<1> QED BY <1>3, <1>4 DEF Framed

-----------------------------------------------------------------------------
(* Reading *)

\* A cell written is still to be read.
LEMMA UnreadWritten ==
  ASSUME NEW d \in Seq(Cells), NEW e \in Seq(Cells), e # <<>>
  PROVE  /\ Append(d, Head(e)) \in Seq(Cells) /\ Tail(e) \in Seq(Cells)
         /\ Append(d, Head(e)) \o Tail(e) = d \o e
<1>1. /\ Head(e) \in Cells /\ Tail(e) \in Seq(Cells)
      /\ Append(d, Head(e)) \in Seq(Cells)
  BY HeadTailProperties, AppendProperties
<1>2. Append(d, Head(e)) = d \o <<Head(e)>> /\ <<Head(e)>> \in Seq(Cells)
  BY <1>1, AppendIsConcat
<1>3. (d \o <<Head(e)>>) \o Tail(e) = d \o (<<Head(e)>> \o Tail(e))
  BY <1>1, <1>2, ConcatAssociative
<1>4. <<Head(e)>> \o Tail(e) = e
  <2>1. Len(e) \in Nat \ {0} /\ e \in Seq(Cells)
    BY EmptySeq
  <2>2. 1 \in 1 .. Len(e) /\ Len(e) \in 1 .. Len(e)
    BY <2>1
  <2>3. SubSeq(e, 1, Len(e)) = <<e[1]>> \o SubSeq(e, 1 + 1, Len(e))
    BY <2>2, SubSeqRecursiveFirst
  <2>4. SubSeq(e, 1, Len(e)) = e /\ Tail(e) = SubSeq(e, 2, Len(e))
    BY SubSeqFull, TailIsSubSeq
  <2>5. Head(e) = e[1]
    BY <2>1
  <2> QED BY <2>3, <2>4, <2>5
<1> QED BY <1>1, <1>2, <1>3, <1>4

\* A header taken off the stream is kept until its payload is there.
LEMMA UnreadHeader ==
  ASSUME NEW d \in Seq(Cells), NEW e \in Seq(Cells), Len(d) >= HeaderCells
  PROVE  /\ SubSeq(d, 1, HeaderCells) \in Seq(Cells)
         /\ Len(SubSeq(d, 1, HeaderCells)) = HeaderCells
         /\ SubSeq(d, HeaderCells + 1, Len(d)) \in Seq(Cells)
         /\ SubSeq(d, 1, HeaderCells) \o (SubSeq(d, HeaderCells + 1, Len(d)) \o e)
              = <<>> \o (d \o e)
<1> DEFINE a == SubSeq(d, 1, HeaderCells)
           b == SubSeq(d, HeaderCells + 1, Len(d))
<1>1. Len(d) \in Nat /\ \A i \in 1 .. Len(d) : d[i] \in Cells
  BY LenProperties, ElementOfSeq
<1>2. a \in Seq(Cells) /\ Len(a) = HeaderCells
  <2>1. \A i \in 1 .. 4 : d[i] \in Cells
    BY <1>1 DEF HeaderCells
  <2> QED BY <2>1, SubSeqProperties DEF HeaderCells
<1>3. b \in Seq(Cells)
  <2>1. HeaderCells \in 0 .. Len(d)
    BY <1>1 DEF HeaderCells
  <2> QED BY <2>1, DropProperties DEF Drop
<1>4. a \o b = d
  <2>1. /\ 1 \in 1 .. Len(d) + 1 /\ HeaderCells \in 1 - 1 .. Len(d)
        /\ Len(d) \in HeaderCells .. Len(d)
    BY <1>1 DEF HeaderCells
  <2>2. a \o b = SubSeq(d, 1, Len(d))
    BY <2>1, ConcatAdjacentSubSeq, Zenon
  <2>3. SubSeq(d, 1, Len(d)) = d
    BY SubSeqFull
  <2> QED BY <2>2, <2>3
<1> HIDE DEF a, b
<1>5. (a \o b) \o e = a \o (b \o e)
  <2>1. \A s, u, v \in Seq(Cells) : (s \o u) \o v = s \o (u \o v)
    BY ConcatAssociative
  <2> QED BY <1>2, <1>3, <2>1, Zenon
<1>6. d \o e \in Seq(Cells) /\ <<>> \o (d \o e) = d \o e
  BY ConcatProperties, ConcatEmptySeq
<1>7. a \o (b \o e) = <<>> \o (d \o e)
  BY ONLY <1>4, <1>5, <1>6
<1> QED BY <1>2, <1>3, <1>7 DEF a, b

\* A payload of one unit taken off the stream ends the frame.
LEMMA UnreadPayload ==
  ASSUME NEW h \in Seq(Cells), Len(h) = HeaderCells,
         NEW d \in Seq(Cells), NEW e \in Seq(Cells), Len(d) >= 1
  PROVE  /\ SubSeq(d, 2, Len(d)) \in Seq(Cells)
         /\ SubSeq(d, 2, Len(d)) \o e = Drop(h \o (d \o e), HeaderCells + 1)
         /\ (h \o (d \o e))[HeaderCells + 1] = d[1]
         /\ \A i \in 1 .. HeaderCells : (h \o (d \o e))[i] = h[i]
<1> DEFINE c == h \o d
<1>1. Len(d) \in Nat /\ Len(e) \in Nat
  BY LenProperties
<1>2. /\ c \in Seq(Cells) /\ Len(c) = Len(h) + Len(d)
      /\ \A i \in 1 .. Len(h) + Len(d) : c[i] = IF i <= Len(h) THEN h[i] ELSE d[i - Len(h)]
  BY ConcatProperties
<1>3. c \o e = h \o (d \o e)
  BY ConcatAssociative
<1> HIDE DEF c
<1>4. /\ Len(c) = 4 + Len(d)
      /\ \A i \in 1 .. Len(d) : c[4 + i] = d[i]
      /\ \A i \in 1 .. 4 : c[i] = h[i]
  BY <1>1, <1>2 DEF HeaderCells
<1>5. 1 \in 0 .. Len(d) /\ 5 \in 0 .. Len(c)
  BY <1>1, <1>4
<1>6. Drop(c \o e, 5) = Drop(c, 5) \o e
  BY <1>2, <1>5, DropOfConcat
<1>7. Drop(d, 1) \in Seq(Cells) /\ Drop(c, 5) = Drop(d, 1)
  <2>3. /\ Drop(c, 5) \in Seq(Cells) /\ Len(Drop(c, 5)) = Len(c) - 5
        /\ \A i \in 1 .. Len(c) - 5 : Drop(c, 5)[i] = c[5 + i]
    BY <1>2, <1>5, DropProperties
  <2>4. /\ Drop(d, 1) \in Seq(Cells) /\ Len(Drop(d, 1)) = Len(d) - 1
        /\ \A i \in 1 .. Len(d) - 1 : Drop(d, 1)[i] = d[1 + i]
    BY <1>5, DropProperties
  <2>5. Len(c) - 5 = Len(d) - 1
    BY <1>1, <1>4
  <2>6. ASSUME NEW i \in 1 .. Len(d) - 1 PROVE Drop(c, 5)[i] = Drop(d, 1)[i]
    <3>1. 1 + i \in 1 .. Len(d) /\ 5 + i = 4 + (1 + i)
      BY <1>1
    <3>2. c[4 + (1 + i)] = d[1 + i]
      BY <1>4, <3>1
    <3> QED BY <2>3, <2>4, <2>5, <3>1, <3>2
  <2>7. Len(Drop(c, 5)) = Len(Drop(d, 1)) /\ \A i \in 1 .. Len(Drop(c, 5)) : Drop(c, 5)[i] = Drop(d, 1)[i]
    BY <2>3, <2>4, <2>5, <2>6
  <2>8. Drop(c, 5) = Drop(d, 1)
    <3> DEFINE u == Drop(c, 5)
               v == Drop(d, 1)
    <3>1. u \in Seq(Cells) /\ v \in Seq(Cells) /\ Len(u) = Len(v) /\ \A i \in 1 .. Len(u) : u[i] = v[i]
      BY <2>3, <2>4, <2>7
    <3> HIDE DEF u, v
    <3>2. u = v
      BY <3>1, SeqEqual
    <3> QED BY <3>2 DEF u, v
  <2> QED BY <2>4, <2>8
<1>8. \A i \in 1 .. 5 : (c \o e)[i] = c[i]
  <2>1. \A i \in 1 .. Len(c) + Len(e) : (c \o e)[i] = IF i <= Len(c) THEN c[i] ELSE e[i - Len(c)]
    BY <1>2, ConcatProperties
  <2> QED BY <1>1, <1>4, <2>1
<1>9. Drop(d, 1) = SubSeq(d, 2, Len(d))
  BY DEF Drop
<1>10. 1 \in 1 .. Len(d) /\ HeaderCells + 1 = 5
  BY <1>1 DEF HeaderCells
<1>11. (c \o e)[5] = d[1] /\ \A i \in 1 .. HeaderCells : (c \o e)[i] = h[i]
  BY <1>4, <1>8, <1>10 DEF HeaderCells
<1>12. SubSeq(d, 2, Len(d)) \in Seq(Cells) /\ SubSeq(d, 2, Len(d)) \o e = Drop(c \o e, HeaderCells + 1)
  BY <1>6, <1>7, <1>9, <1>10, Zenon
<1> QED BY ONLY <1>3, <1>10, <1>11, <1>12

-----------------------------------------------------------------------------
(* The steps of the exchange *)

\* The seven exchanges: two of them take two requests.
LEMMA Scripts ==
  /\ Ops = {"serve", "recover", "first_app", "approval", "reconcile", "confirm", "renew"}
  /\ DOMAIN Hdb1Script = {"serve", "recover"}
  /\ DOMAIN Hde3Script = {"first_app", "approval", "reconcile", "confirm", "renew"}
  /\ \A o \in Ops : Len(Script(o)) = IF o \in {"serve", "approval"} THEN 2 ELSE 1
<1>1. DOMAIN Hdb1Script = {"serve", "recover"}
  BY DEF Hdb1Script
<1>2. DOMAIN Hde3Script = {"first_app", "approval", "reconcile", "confirm", "renew"}
  BY DEF Hde3Script
<1>3. Ops = {"serve", "recover", "first_app", "approval", "reconcile", "confirm", "renew"}
  BY <1>1, <1>2 DEF Ops
<1>4. Len(Hdb1Script["serve"]) = 2 /\ Len(Hdb1Script["recover"]) = 1
  BY DEF Hdb1Script
<1>5. /\ Len(Hde3Script["first_app"]) = 1 /\ Len(Hde3Script["approval"]) = 2
      /\ Len(Hde3Script["reconcile"]) = 1 /\ Len(Hde3Script["confirm"]) = 1
      /\ Len(Hde3Script["renew"]) = 1
  BY DEF Hde3Script
<1>6. ASSUME NEW o \in Ops PROVE Len(Script(o)) = IF o \in {"serve", "approval"} THEN 2 ELSE 1
  <2> HIDE DEF Hdb1Script, Hde3Script
  <2> QED BY <1>1, <1>3, <1>4, <1>5 DEF Script
<1> QED BY <1>1, <1>2, <1>3, <1>6

\* The invariant implies what the run checks.
LEMMA ExchangeInvSound == ExchangeInv => ExchangeSound
<1> SUFFICES ASSUME ExchangeInv PROVE ExchangeSound
  OBVIOUS
<1>1. DOMAIN out = 1 .. Len(out) /\ \A i \in 1 .. Len(out) : out[i] \in Answers
  BY LenProperties, ElementOfSeq DEF ExchangeInv, ExchangeTypes
<1>2. ExchangeTypeOK
  BY <1>1 DEF ExchangeInv, ExchangeTypes, Conversing, ExchangeTypeOK, Answers
<1> QED BY <1>2 DEF ExchangeInv, ExchangeSound

\* No cell and no request yet.
LEMMA InitExchange == ExchangeInit => ExchangeInv
<1> SUFFICES ASSUME ExchangeInit PROVE ExchangeInv
  OBVIOUS
<1>1. /\ <<>> \in Seq(Cells) /\ <<>> \in Seq(Frames) /\ <<>> \in Seq(Payloads)
      /\ <<>> \in Seq(Answers) /\ Len(<<>>) = 0
  BY EmptySeq
<1>2. ExchangeTypes
  <2>1. Len(sent) = 0 /\ MaxSent \in Nat
    BY <1>1, ExchangeAssumption DEF ExchangeInit
  <2>2. Len(sent) <= MaxSent
    BY <2>1
  <2> QED BY <1>1, <2>2 DEF ExchangeInit, ExchangeTypes
<1>3. Unread = <<>>
  <2>1. <<>> \o <<>> = <<>>
    BY <1>1, ConcatEmptySeq
  <2> QED BY <2>1 DEF Unread, ExchangeInit
<1>4. InStep
  <2>1. AtFrame(Unread, sent, 0)
    BY <1>1, <1>3 DEF ExchangeInit, AtFrame
  <2> QED BY <1>1, <2>1 DEF ExchangeInit, InStep, Framed
<1>5. Conversing
  <2>1. Len(Script(op)) \in {1, 2}
    BY <1>2, Scripts DEF ExchangeTypes
  <2> QED BY <1>1, <2>1 DEF ExchangeInit, Conversing, Asking, Reading, Answered
<1>6. DOMAIN asked = {} /\ DOMAIN out = {}
  BY DEF ExchangeInit
<1>7. Synchronised /\ OneTerminal /\ Correlated
  BY <1>6 DEF Synchronised, OneTerminal, Correlated
<1>8. OkMeansDelivered
  BY DEF ExchangeInit, OkMeansDelivered
<1> QED BY <1>2, <1>4, <1>5, <1>7, <1>8 DEF ExchangeInv

\* An error ends the dialogue: nothing more is read, and serve does not succeed.
LEMMA FailStep ==
  ASSUME ExchangeInv, NEW error \in {"Wire", "FrameTooLarge", "Timeout"}, Fail(error),
         sent' = sent, rest' = rest, eof' = eof, stream' \in Seq(Cells)
  PROVE  ExchangeInv'
<1>1. /\ op' = op /\ given' = given /\ header' = header /\ asked' = asked /\ out' = out
      /\ closed' = closed /\ shut' = shut /\ pc' = "abort" /\ result' = error
  BY DEF Fail
<1>2. ExchangeTypes'
  BY <1>1 DEF ExchangeInv, ExchangeTypes
<1>3. InStep' /\ Conversing'
  BY <1>1 DEF ExchangeInv, InStep, Conversing, Asking, Reading
<1>4. Synchronised' /\ OneTerminal' /\ Correlated'
  BY <1>1 DEF ExchangeInv, Synchronised, OneTerminal, Correlated
<1>5. OkMeansDelivered'
  BY <1>1 DEF OkMeansDelivered
<1> QED BY <1>2, <1>3, <1>4, <1>5 DEF ExchangeInv

\* The peer starts a frame.
LEMMA PeerStartsStep ==
  ASSUME ExchangeInv, NEW f \in Frames, PeerStarts(f)
  PROVE  ExchangeInv'
<1> USE DEF PeerStarts
<1>1. /\ Encode(f) \in Seq(Cells) /\ sent \in Seq(Frames)
      /\ stream \in Seq(Cells) /\ header \in Seq(Cells) /\ Len(asked) \in Nat
  BY EncodeIsCells, LenProperties DEF ExchangeInv, ExchangeTypes
<1>2. /\ sent' \in Seq(Frames) /\ Len(sent') = Len(sent) + 1 /\ Len(sent) \in Nat
      /\ \A i \in 1 .. Len(sent) : sent'[i] = sent[i]
  BY <1>1, AppendProperties, LenProperties
<1>3. ExchangeTypes'
  BY <1>1, <1>2, ExchangeAssumption DEF ExchangeInv, ExchangeTypes
<1>4. Unread \in Seq(Cells) /\ Unread' = Unread \o Encode(f)
  <2>1. stream \o <<>> = stream
    BY <1>1, ConcatEmptySeq
  <2>2. Unread = header \o stream /\ Unread' = header \o (stream \o Encode(f))
    BY <2>1 DEF Unread
  <2>3. \A s, u, v \in Seq(Cells) : (s \o u) \o v = s \o (u \o v)
    BY ConcatAssociative
  <2>4. header \o stream \in Seq(Cells)
    BY <1>1, ConcatProperties
  <2> QED BY <1>1, <2>2, <2>3, <2>4, Zenon
<1>5. InStep'
  <2>1. SUFFICES ASSUME pc \in Asking PROVE InStep'
    BY DEF InStep
  <2>2. Framed(Unread, sent, Len(asked)) /\ Len(asked) <= Len(sent)
    BY <2>1 DEF ExchangeInv, InStep
  <2>3. Framed(Unread \o Encode(f), Append(sent, f), Len(asked))
    BY <1>1, <1>2, <1>4, <2>2, FramedAdded
  <2>4. Framed(Unread', sent', Len(asked'))
    BY <1>4, <2>3
  <2>5. Len(asked') <= Len(sent')
    BY <1>1, <1>2, <2>2
  <2>6. Len(header') = IF pc' = "payload" THEN HeaderCells ELSE 0
    BY <2>1 DEF ExchangeInv, InStep
  <2> QED BY <2>4, <2>5, <2>6 DEF InStep
<1>6. Conversing' /\ OneTerminal' /\ Correlated' /\ OkMeansDelivered'
  BY DEF ExchangeInv, Conversing, OneTerminal, Correlated, OkMeansDelivered, Answered, Challenged
<1>7. Synchronised'
  <2>1. DOMAIN asked = 1 .. Len(asked) /\ DOMAIN asked' = DOMAIN asked
    BY LenProperties DEF ExchangeInv, ExchangeTypes
  <2>2. ASSUME NEW i \in DOMAIN asked
        PROVE  /\ i <= Len(sent') /\ sent'[i] = sent[i] /\ i <= Len(sent)
    BY <1>1, <1>2, <2>1, <2>2 DEF ExchangeInv, Synchronised
  <2> QED BY <2>1, <2>2 DEF ExchangeInv, Synchronised
<1> QED BY <1>3, <1>5, <1>6, <1>7 DEF ExchangeInv

\* What the peer writes and where it stops change nothing the relay has seen.
LEMMA PeerWritesStep ==
  ASSUME ExchangeInv, PeerWrites \/ PeerCloses
  PROVE  ExchangeInv'
<1>1. /\ op' = op /\ given' = given /\ header' = header /\ asked' = asked /\ out' = out
      /\ closed' = closed /\ shut' = shut /\ pc' = pc /\ result' = result /\ sent' = sent
      /\ eof' \in BOOLEAN
  BY DEF PeerWrites, PeerCloses, ExchangeInv, ExchangeTypes
<1>2. stream' \in Seq(Cells) /\ rest' \in Seq(Cells) /\ Unread' = Unread
  <2>1. stream \in Seq(Cells) /\ rest \in Seq(Cells)
    BY DEF ExchangeInv, ExchangeTypes
  <2>2. CASE PeerWrites
    <3>1. rest # <<>> /\ stream' = Append(stream, Head(rest)) /\ rest' = Tail(rest)
      BY <2>2 DEF PeerWrites
    <3>2. stream' \in Seq(Cells) /\ rest' \in Seq(Cells) /\ stream' \o rest' = stream \o rest
      BY <2>1, <3>1, UnreadWritten
    <3> QED BY <1>1, <3>2 DEF Unread
  <2>3. CASE PeerCloses
    BY <1>1, <2>1, <2>3 DEF PeerCloses, Unread
  <2> QED BY <2>2, <2>3
<1>3. ExchangeTypes'
  BY <1>1, <1>2 DEF ExchangeInv, ExchangeTypes
<1>4. InStep'
  BY <1>1, <1>2 DEF ExchangeInv, InStep
<1>5. Conversing' /\ OneTerminal' /\ Correlated' /\ OkMeansDelivered' /\ Synchronised'
  BY <1>1 DEF ExchangeInv, Conversing, OneTerminal, Correlated, OkMeansDelivered, Answered,
              Challenged, Synchronised
<1> QED BY <1>3, <1>4, <1>5 DEF ExchangeInv

\* Where there are cells there is a frame, and they begin with it.
LEMMA FrameHere ==
  ASSUME NEW s \in Seq(Frames), NEW d \in Seq(Cells), NEW n \in {0, 1},
         Len(d) >= 1, AtFrame(d, s, n)
  PROVE  /\ Len(s) >= n + 1 /\ s[n + 1] \in Frames
         /\ Begins(d, Encode(s[n + 1]))
<1>1. Len(s) \in Nat /\ Len(d) \in Nat
  BY LenProperties
<1>2. Len(s) >= n + 1
  <2>1. SUFFICES ASSUME Len(s) <= n PROVE FALSE
    BY <1>1
  <2>2. d = <<>>
    BY <2>1 DEF AtFrame
  <2> QED BY <2>2, EmptySeq
<1>3. n + 1 \in 1 .. Len(s)
  BY <1>1, <1>2
<1>4. s[n + 1] \in Frames
  BY <1>3, ElementOfSeq
<1>5. CASE Len(s) = n + 1
  <2>1. d = Encode(s[n + 1])
    BY <1>5 DEF AtFrame
  <2> QED BY <1>1, <1>2, <1>4, <2>1 DEF Begins
<1>6. CASE Len(s) > n + 1
  BY <1>2, <1>4, <1>6 DEF AtFrame
<1>7. Len(s) = n + 1 \/ Len(s) > n + 1
  <2>1. \A i, j \in Nat : i >= j => i = j \/ i > j
    OBVIOUS
  <2>2. n + 1 \in Nat
    OBVIOUS
  <2> QED BY <1>1, <1>2, <2>1, <2>2, Zenon
<1> QED BY <1>5, <1>6, <1>7

\* A header is taken whole; it is still in front of its payload.
LEMMA ReadHeaderStep == ASSUME ExchangeInv, ReadHeader PROVE ExchangeInv'
<1>1. /\ pc = "header" /\ Len(stream) >= HeaderCells
      /\ stream' = SubSeq(stream, HeaderCells + 1, Len(stream))
      /\ sent' = sent /\ rest' = rest /\ eof' = eof
  BY DEF ReadHeader
<1>2. stream \in Seq(Cells) /\ rest \in Seq(Cells) /\ header \in Seq(Cells)
  BY DEF ExchangeInv, ExchangeTypes
<1>3. /\ SubSeq(stream, 1, HeaderCells) \in Seq(Cells)
      /\ Len(SubSeq(stream, 1, HeaderCells)) = HeaderCells
      /\ stream' \in Seq(Cells)
      /\ SubSeq(stream, 1, HeaderCells) \o (stream' \o rest) = <<>> \o (stream \o rest)
  BY <1>1, <1>2, UnreadHeader
<1>4. CASE Fail("FrameTooLarge")
  BY <1>1, <1>3, <1>4, FailStep
<1>5. CASE ~Fail("FrameTooLarge")
  <2>1. /\ header' = SubSeq(stream, 1, HeaderCells) /\ pc' = "payload"
        /\ op' = op /\ given' = given /\ asked' = asked /\ out' = out
        /\ closed' = closed /\ shut' = shut /\ result' = result
    BY <1>5 DEF ReadHeader
  <2>2. header = <<>>
    <3>1. Len(header) = 0
      BY <1>1 DEF ExchangeInv, InStep, Asking, Reading
    <3> QED BY <1>2, <3>1, EmptySeq
  <2>3. Unread' = Unread
    BY <1>1, <1>3, <2>1, <2>2 DEF Unread
  <2>4. ExchangeTypes'
    BY <1>1, <1>3, <2>1 DEF ExchangeInv, ExchangeTypes
  <2>5. InStep'
    BY <1>1, <1>3, <2>1, <2>3 DEF ExchangeInv, InStep, Asking, Reading
  <2>6. Conversing'
    BY <1>1, <2>1 DEF ExchangeInv, Conversing, Asking, Reading, Answered, Challenged
  <2>7. OneTerminal' /\ Correlated' /\ OkMeansDelivered' /\ Synchronised'
    BY <1>1, <2>1 DEF ExchangeInv, OneTerminal, Correlated, OkMeansDelivered, Synchronised
  <2> QED BY <2>4, <2>5, <2>6, <2>7 DEF ExchangeInv
<1> QED BY <1>4, <1>5

\* A header that was read is the header of the frame in that place.
LEMMA HeaderOfFrame ==
  ASSUME ExchangeInv, pc = "payload"
  PROVE  LET n == Len(asked)
             g == sent[n + 1]
         IN /\ n \in {0, 1} /\ n < Len(Script(op)) /\ Len(sent) >= n + 1 /\ g \in Frames
            /\ Begins(Unread, Encode(g))
            /\ header[1] = g.magic /\ header[3] = g.kind /\ header[HeaderCells] = g.length
            /\ g.length \in Nat
<1> DEFINE n == Len(asked)
           g == sent[n + 1]
           w == stream \o rest
<1>1. /\ stream \in Seq(Cells) /\ rest \in Seq(Cells) /\ header \in Seq(Cells)
      /\ sent \in Seq(Frames) /\ Len(header) = HeaderCells /\ op \in Ops
      /\ Framed(Unread, sent, n) /\ n < Len(Script(op)) /\ n \in Nat
  BY LenProperties
     DEF ExchangeInv, ExchangeTypes, InStep, Conversing, Asking, Reading
<1> HIDE DEF n
<1>2. n \in {0, 1} /\ AtFrame(Unread, sent, n)
  <2>1. Len(Script(op)) \in {1, 2}
    BY <1>1, Scripts
  <2>2. \A j \in Nat, l \in {1, 2} : j < l => j \in {0, 1} /\ j < 2
    OBVIOUS
  <2>3. n \in {0, 1} /\ n < 2
    BY <1>1, <2>1, <2>2, Zenon
  <2> QED BY <1>1, <2>3 DEF Framed
<1>3. /\ Unread \in Seq(Cells) /\ Len(Unread) >= HeaderCells /\ Len(Unread) \in Nat
      /\ \A i \in 1 .. HeaderCells : Unread[i] = header[i]
  <2>1. w \in Seq(Cells) /\ Len(w) \in Nat
    BY <1>1, ConcatProperties, LenProperties
  <2> HIDE DEF w
  <2>2. /\ header \o w \in Seq(Cells) /\ Len(header \o w) = Len(header) + Len(w)
        /\ \A i \in 1 .. Len(header) + Len(w) : (header \o w)[i] =
              IF i <= Len(header) THEN header[i] ELSE w[i - Len(header)]
    BY <1>1, <2>1, ConcatProperties
  <2>3. Unread = header \o w
    BY DEF Unread, w
  <2>4. Len(header \o w) >= 4 /\ Len(header \o w) \in Nat
        /\ \A i \in 1 .. 4 : (header \o w)[i] = header[i]
    BY <1>1, <2>1, <2>2 DEF HeaderCells
  <2> QED BY <2>2, <2>3, <2>4 DEF HeaderCells
<1>4. Len(sent) >= n + 1 /\ g \in Frames /\ Begins(Unread, Encode(g))
  <2>1. Len(Unread) >= 1
    BY <1>3 DEF HeaderCells
  <2> QED BY <1>1, <1>2, <1>3, <2>1, FrameHere
<1> HIDE DEF g, w
<1>5. /\ Len(Encode(g)) = HeaderCells + Len(g.body) /\ Len(g.body) \in Nat
      /\ Encode(g)[1] = g.magic /\ Encode(g)[2] = g.version
      /\ Encode(g)[3] = g.kind /\ Encode(g)[4] = g.length
      /\ \A j \in 1 .. Len(g.body) : Encode(g)[HeaderCells + j] = g.body[j]
  BY <1>4, EncodeIsCells
<1>6. /\ header[1] = g.magic /\ header[3] = g.kind /\ header[4] = g.length
  <2>1. \A i \in 1 .. 4 : i \in 1 .. Len(Encode(g))
    BY <1>5 DEF HeaderCells
  <2>2. \A i \in 1 .. 4 : Unread[i] = Encode(g)[i]
    BY <1>4, <2>1 DEF Begins
  <2>3. \A i \in 1 .. 4 : header[i] = Encode(g)[i]
    BY <1>3, <2>2 DEF HeaderCells
  <2> QED BY <1>5, <2>3
<1>7. g.length \in Nat /\ g.body \in Seq(Payloads) /\ (g.length = 1 => Len(g.body) = 1)
  BY <1>4, ExchangeAssumption
<1> QED BY <1>1, <1>2, <1>4, <1>6, <1>7 DEF n, g, HeaderCells

\* A request that is accepted is the frame the peer sent in that place.
LEMMA Accepted ==
  ASSUME ExchangeInv, pc = "payload", Len(stream) >= header[HeaderCells],
         NEW body, body = SubSeq(stream, 1, header[HeaderCells]),
         Parses(NS(op), Script(op)[Len(asked) + 1], header, body)
  PROVE  LET n == Len(asked) IN
         /\ n \in {0, 1} /\ n < Len(Script(op)) /\ Len(sent) >= n + 1
         /\ sent[n + 1] \in Frames /\ header[HeaderCells] = 1
         /\ sent[n + 1].magic = NS(op).magic /\ sent[n + 1].kind = Script(op)[n + 1]
         /\ sent[n + 1].body = <<body[1]>> /\ body[1] \in Payloads
         /\ Len(Encode(sent[n + 1])) = HeaderCells + 1
         /\ Len(stream) >= 1
<1> DEFINE n == Len(asked)
           g == sent[n + 1]
<1>1. /\ stream \in Seq(Cells) /\ rest \in Seq(Cells) /\ header \in Seq(Cells)
      /\ sent \in Seq(Frames) /\ Len(header) = HeaderCells /\ op \in Ops
      /\ n < Len(Script(op)) /\ n \in Nat
  BY LenProperties
     DEF ExchangeInv, ExchangeTypes, InStep, Conversing, Asking, Reading
<1>2. /\ n \in {0, 1} /\ Len(sent) >= n + 1 /\ g \in Frames
      /\ Begins(Unread, Encode(g))
  BY HeaderOfFrame
<1>6. header[1] = g.magic /\ header[3] = g.kind /\ header[HeaderCells] = g.length
  BY HeaderOfFrame
<1> HIDE DEF n, g
<1>5. /\ Len(Encode(g)) = HeaderCells + Len(g.body) /\ Len(g.body) \in Nat
      /\ Encode(g)[1] = g.magic /\ Encode(g)[2] = g.version
      /\ Encode(g)[3] = g.kind /\ Encode(g)[4] = g.length
      /\ \A j \in 1 .. Len(g.body) : Encode(g)[HeaderCells + j] = g.body[j]
  BY <1>2, EncodeIsCells
<1>7. g.length \in Nat /\ g.body \in Seq(Payloads) /\ (g.length = 1 => Len(g.body) = 1)
  BY <1>2, ExchangeAssumption
<1>8. g.length = 1 /\ body[1] = stream[1] /\ Len(stream) >= 1
  <2> DEFINE m == g.length
  <2>1. /\ Len(stream) \in Nat /\ Len(stream) >= m /\ body = SubSeq(stream, 1, m)
        /\ m \in Nat /\ Len(body) = 1
    BY <1>1, <1>6, <1>7, LenProperties DEF HeaderCells, Parses
  <2> HIDE DEF m
  <2>2. \A i \in 1 .. m : stream[i] \in Cells
    BY <1>1, <2>1, ElementOfSeq
  <2>3. /\ Len(SubSeq(stream, 1, m)) = IF 1 <= m THEN m - 1 + 1 ELSE 0
        /\ \A i \in 1 .. m - 1 + 1 : SubSeq(stream, 1, m)[i] = stream[1 + i - 1]
    <3>1. 1 \in Int /\ m \in Int
      BY <2>1
    <3> QED BY <2>2, <3>1, SubSeqProperties
  <2>4. m = 1
    <3>1. 1 = IF 1 <= m THEN m - 1 + 1 ELSE 0
      BY <2>1, <2>3, Zenon
    <3> QED BY <2>1, <3>1
  <2>5. body[1] = stream[1]
    <3>1. 1 \in 1 .. m - 1 + 1 /\ 1 + 1 - 1 = 1
      BY <2>4
    <3>2. SubSeq(stream, 1, m)[1] = stream[1 + 1 - 1]
      BY <2>3, <3>1, Zenon
    <3> QED BY <2>1, <3>1, <3>2, Zenon
  <2> QED BY <2>1, <2>4, <2>5 DEF m
<1>9. stream[1] = g.body[1] /\ Len(g.body) = 1
  <2>1. Unread[HeaderCells + 1] = stream[1]
    BY <1>1, <1>8, UnreadPayload DEF Unread
  <2>2. Len(g.body) = 1
    BY <1>7, <1>8
  <2>3. HeaderCells + 1 \in 1 .. Len(Encode(g)) /\ Encode(g)[HeaderCells + 1] = g.body[1]
    BY <1>5, <2>2 DEF HeaderCells
  <2>4. Unread[HeaderCells + 1] = Encode(g)[HeaderCells + 1]
    BY <1>2, <2>3 DEF Begins
  <2> QED BY <2>1, <2>2, <2>3, <2>4
<1>10. g.body = <<body[1]>> /\ body[1] \in Payloads
  <2> DEFINE b == g.body
             x == body[1]
  <2>1. b \in Seq(Payloads) /\ Len(b) = 1 /\ x = b[1]
    BY <1>7, <1>8, <1>9
  <2> HIDE DEF b, x
  <2>2. x \in Payloads
    <3>1. 1 \in 1 .. Len(b)
      BY <2>1
    <3>2. b[1] \in Payloads
      BY <2>1, <3>1, ElementOfSeq
    <3> QED BY <2>1, <3>2
  <2>3. b = <<x>>
    <3>1. <<x>> \in Seq(Payloads) /\ Len(<<x>>) = 1 /\ <<x>>[1] = x
      BY <2>2
    <3>2. \A i \in 1 .. Len(b) : b[i] = <<x>>[i]
      BY <2>1, <3>1
    <3> QED BY <2>1, <3>1, <3>2, SeqEqual
  <2> QED BY <2>2, <2>3 DEF b, x
<1>11. g.magic = NS(op).magic /\ g.kind = Script(op)[n + 1]
  BY <1>6 DEF Parses, n
<1>12. header[HeaderCells] = 1 /\ Len(Encode(g)) = HeaderCells + 1
  BY <1>5, <1>6, <1>8, <1>9 DEF HeaderCells
<1> QED BY <1>1, <1>2, <1>8, <1>10, <1>11, <1>12 DEF n, g

\* The dispatcher takes one request further, or gives up.
LEMMA ReadPayloadStep == ASSUME ExchangeInv, ReadPayload PROVE ExchangeInv'
<1> DEFINE m == header[HeaderCells]
           body == SubSeq(stream, 1, m)
           n == Len(asked)
<1>1. /\ pc = "payload" /\ Len(stream) >= m /\ stream' = SubSeq(stream, m + 1, Len(stream))
      /\ sent' = sent /\ rest' = rest /\ eof' = eof
  BY DEF ReadPayload
<1>2. /\ stream \in Seq(Cells) /\ rest \in Seq(Cells) /\ header \in Seq(Cells)
      /\ asked \in Seq(Payloads) /\ Len(header) = HeaderCells
  BY <1>1 DEF ExchangeInv, ExchangeTypes, InStep, Asking, Reading
<1>3. m \in Nat
  BY <1>1, HeaderOfFrame
<1>4. stream' \in Seq(Cells)
  <2>1. Len(stream) \in Nat
    BY <1>2, LenProperties
  <2> HIDE DEF m
  <2>2. m \in 0 .. Len(stream)
    BY <1>1, <1>3, <2>1
  <2>3. Drop(stream, m) \in Seq(Cells)
    BY <1>2, <2>2, DropProperties
  <2> QED BY <1>1, <2>3 DEF Drop
<1>5. CASE Fail("Wire")
  BY <1>1, <1>4, <1>5, FailStep
<1>6. CASE ~Fail("Wire")
  <2>1. /\ Parses(NS(op), Script(op)[n + 1], header, body) /\ FieldsMatch(body[1])
        /\ asked' = Append(asked, body[1]) /\ pc' = "handle" /\ header' = <<>>
        /\ op' = op /\ given' = given /\ out' = out /\ closed' = closed
        /\ shut' = shut /\ result' = result
    BY <1>6 DEF ReadPayload
  <2>2. /\ n \in {0, 1} /\ n < Len(Script(op)) /\ Len(sent) >= n + 1
        /\ sent[n + 1] \in Frames /\ m = 1
        /\ sent[n + 1].magic = NS(op).magic /\ sent[n + 1].kind = Script(op)[n + 1]
        /\ sent[n + 1].body = <<body[1]>> /\ body[1] \in Payloads
        /\ Len(Encode(sent[n + 1])) = HeaderCells + 1
        /\ Len(stream) >= 1
    BY <1>1, <2>1, Accepted
  <2> DEFINE x == body[1]
  <2> HIDE DEF x, body, m
  <2>3. /\ asked' \in Seq(Payloads) /\ Len(asked') = n + 1
        /\ \A i \in 1 .. n : asked'[i] = asked[i]
        /\ asked'[n + 1] = x /\ DOMAIN asked' = 1 .. n + 1 /\ DOMAIN asked = 1 .. n
    <3>1. asked' = Append(asked, x) /\ x \in Payloads
      BY <2>1, <2>2 DEF x
    <3> QED BY <1>2, <3>1, AppendProperties, LenProperties
  <2> HIDE DEF n
  <2>4. <<>> \in Seq(Cells) /\ Len(<<>>) = 0
    BY EmptySeq
  <2>5. ExchangeTypes'
    BY <1>1, <1>4, <2>1, <2>3, <2>4 DEF ExchangeInv, ExchangeTypes
  <2>6. Unread' = Drop(Unread, HeaderCells + 1)
    <3>1. stream' = SubSeq(stream, 2, Len(stream))
      BY <1>1, <2>2
    <3>2. stream' \o rest = Drop(Unread, HeaderCells + 1)
      BY <1>2, <2>2, <3>1, UnreadPayload DEF Unread
    <3>3. stream' \o rest \in Seq(Cells)
      BY <1>2, <1>4, ConcatProperties
    <3>4. <<>> \o (stream' \o rest) = stream' \o rest
      BY <3>3, ConcatEmptySeq
    <3> QED BY <1>1, <2>1, <3>2, <3>4 DEF Unread
  <2>7. Framed(Unread', sent', Len(asked'))
    <3>1. CASE n = 0
      <4>1. Framed(Unread, sent, 0) /\ Len(sent) >= 1
        BY <1>1, <2>2, <3>1 DEF ExchangeInv, InStep, Asking, Reading, n
      <4>2. Len(Encode(sent[1])) = HeaderCells + 1
        BY <2>2, <3>1
      <4>3. AtFrame(Unread', sent, 1)
        BY <2>6, <4>1, <4>2 DEF Framed
      <4> QED BY <1>1, <2>3, <3>1, <4>3 DEF Framed
    <3>2. CASE n = 1
      BY <2>3, <3>2 DEF Framed
    <3> QED BY <2>2, <3>1, <3>2
  <2>8. InStep'
    BY <1>1, <2>1, <2>2, <2>3, <2>4, <2>7 DEF InStep
  <2>9. Len(asked') <= Len(Script(op'))
    <3>1. Len(Script(op)) \in {1, 2}
      BY Scripts DEF ExchangeInv, ExchangeTypes
    <3>2. \A j \in {0, 1}, l \in {1, 2} : j < l => j + 1 <= l
      OBVIOUS
    <3> QED BY <2>1, <2>2, <2>3, <3>1, <3>2
  <2>10. op = "approval" /\ n = 1 => x.id = given.id
    BY <2>1 DEF FieldsMatch, OneAsked, n, x
  <2>11. Answered' = n /\ Answered = n
    BY <1>1, <2>1, <2>2, <2>3 DEF Answered, n
  <2>12. Conversing'
    <3>1. /\ n = 0 => out = <<>>
          /\ n = 1 => Challenged
          /\ result = "ok" => pc = "done"
      BY <1>1, <2>11 DEF ExchangeInv, Conversing, Asking, Reading
    <3>2. /\ Answered' = 0 => out' = <<>>
          /\ Answered' = 1 => Challenged'
      BY <2>1, <2>11, <3>1 DEF Challenged
    <3>3. op' = "approval" /\ Len(asked') = 2 => asked'[2].id = given'.id
      BY <2>1, <2>2, <2>3, <2>10
    <3>4. Len(asked') >= 1
      BY <2>2, <2>3
    <3> QED BY <1>1, <2>1, <2>9, <3>1, <3>2, <3>3, <3>4 DEF Conversing, Reading
  <2>13. Synchronised'
    <3>1. ASSUME NEW i \in DOMAIN asked'
          PROVE  /\ i <= Len(sent) /\ sent[i].magic = NS(op).magic
                 /\ sent[i].kind = Script(op)[i] /\ sent[i].body = <<asked'[i]>>
      <4>1. CASE i = n + 1
        BY <2>2, <2>3, <4>1 DEF x
      <4>2. CASE i # n + 1
        <5>1. i \in DOMAIN asked /\ asked'[i] = asked[i]
          BY <2>2, <2>3, <4>2
        <5> QED BY <5>1 DEF ExchangeInv, Synchronised
      <4> QED BY <4>1, <4>2
    <3> QED BY <1>1, <2>1, <3>1 DEF Synchronised
  <2>14. \A i \in DOMAIN out : out[i].kind \in Challenges /\ i = 1
    <3>1. out = <<>> \/ Challenged
      BY <1>1, <2>2, <2>11 DEF ExchangeInv, Conversing, Asking, Reading
    <3>2. DOMAIN out = 1 .. Len(out)
      BY LenProperties DEF ExchangeInv, ExchangeTypes
    <3> QED BY <3>1, <3>2, EmptySeq DEF Challenged
  <2>15. OneTerminal' /\ Correlated'
    BY <2>1, <2>14 DEF OneTerminal, Correlated, Challenges, Terminals
  <2>16. OkMeansDelivered'
    BY <1>1, <2>1 DEF ExchangeInv, Conversing, OkMeansDelivered
  <2> QED BY <2>5, <2>8, <2>12, <2>13, <2>15, <2>16 DEF ExchangeInv
<1> QED BY <1>5, <1>6

\* While a request is handled nothing but a challenge has been written.
LEMMA BeforeWrite ==
  ASSUME ExchangeInv, pc = "handle"
  PROVE  /\ \A i \in 1 .. Len(out) : i = 1 /\ out[i].kind \in Challenges /\ out[i].id = given.id
         /\ Len(asked) \in {1, 2} /\ Len(asked) <= Len(Script(op))
         /\ Len(out) = Len(asked) - 1
<1>1. Len(asked) \in Nat /\ Len(out) \in Nat /\ op \in Ops
  BY LenProperties DEF ExchangeInv, ExchangeTypes
<1>2. Len(Script(op)) \in {1, 2} /\ Len(asked) <= Len(Script(op)) /\ Len(asked) >= 1
  BY <1>1, Scripts DEF ExchangeInv, Conversing
<1>3. Len(asked) \in {1, 2}
  <2>1. \A j \in Nat, l \in {1, 2} : j >= 1 /\ j <= l => j \in {1, 2}
    OBVIOUS
  <2> QED BY <1>1, <1>2, <2>1, Zenon
<1>4. CASE Len(asked) = 1
  <2>1. out = <<>>
    BY <1>4 DEF ExchangeInv, Conversing, Asking, Answered
  <2> QED BY <1>2, <1>4, <2>1, EmptySeq
<1>5. CASE Len(asked) = 2
  <2>1. Challenged
    BY <1>5 DEF ExchangeInv, Conversing, Asking, Answered
  <2> QED BY <1>2, <1>5, <2>1 DEF Challenged
<1> QED BY <1>3, <1>4, <1>5

\* A frame is written, whole or torn: a challenge if the dialogue goes on, a
\* terminal response if it ends.
LEMMA WriteStep ==
  ASSUME ExchangeInv, pc = "handle", UNCHANGED peerVars,
         NEW kind, NEW id \in ApprovalIds, NEW next, Write(kind, id, next),
         \/ /\ next = "close" /\ kind \in Terminals
            /\ Len(asked) = Len(Script(op)) \/ (op = "serve" /\ kind = "Rejected")
            /\ kind = "Result" =>
                 /\ op # "serve"
                 /\ op # "renew" => id = asked[Len(Script(op))].id
                 /\ op = "approval" => id = given.id
         \/ /\ next = "header" /\ kind \in Challenges /\ id = given.id
            /\ Len(asked) = 1 /\ op \in {"serve", "approval"}
  PROVE  ExchangeInv'
<1>1. /\ op' = op /\ given' = given /\ header' = header /\ asked' = asked
      /\ closed' = closed /\ shut' = shut
      /\ sent' = sent /\ stream' = stream /\ rest' = rest /\ eof' = eof
  BY DEF Write, peerVars
<1>2. /\ \A i \in 1 .. Len(out) : i = 1 /\ out[i].kind \in Challenges /\ out[i].id = given.id
      /\ Len(asked) \in {1, 2} /\ Len(asked) <= Len(Script(op))
      /\ Len(out) = Len(asked) - 1
  BY BeforeWrite
<1>3. /\ out \in Seq(Answers) /\ Len(out) \in Nat /\ op \in Ops
      /\ DOMAIN out = 1 .. Len(out) /\ result # "ok"
  BY LenProperties DEF ExchangeInv, ExchangeTypes, Conversing
<1>4. /\ Len(Script(op)) = IF op \in {"serve", "approval"} THEN 2 ELSE 1
  BY <1>3, Scripts
<1>5. PICK mark \in {kind, "torn"} :
          \/ /\ pc' = next /\ mark = kind /\ result' = result
             /\ out' = Append(out, [kind |-> mark, id |-> id])
          \/ /\ pc' = "abort" /\ result' \in {"Wire", "Timeout"} /\ mark = "torn"
             /\ out' = out \/ out' = Append(out, [kind |-> mark, id |-> id])
  BY DEF Write
<1> DEFINE a == [kind |-> mark, id |-> id]
<1>6. a \in Answers /\ a.kind = mark /\ a.id = id
  BY DEF Answers
<1> HIDE DEF a
<1>7. /\ out' \in Seq(Answers) /\ Synchronised' /\ OkMeansDelivered'
      /\ pc' \in {"header", "close", "abort"} /\ result' # "ok"
      /\ result' \in {"none", "Wire", "FrameTooLarge", "Timeout"}
  <2>1. out' = out \/ out' = Append(out, a)
    BY <1>5 DEF a
  <2>2. out' \in Seq(Answers)
    BY <1>3, <1>6, <2>1, AppendProperties
  <2>3. result' # "ok"
    BY <1>3, <1>5
  <2>4. result' \in {"none", "Wire", "FrameTooLarge", "Timeout"}
    BY <1>3, <1>5 DEF ExchangeInv, ExchangeTypes
  <2>5. Synchronised'
    BY <1>1 DEF ExchangeInv, Synchronised
  <2> QED BY <1>5, <2>2, <2>3, <2>4, <2>5 DEF OkMeansDelivered
<1>8. ExchangeTypes'
  BY <1>1, <1>7 DEF ExchangeInv, ExchangeTypes
<1>9. InStep'
  <2>1. Unread' = Unread
    BY <1>1 DEF Unread
  <2>2. Len(header) = 0 /\ Framed(Unread, sent, Len(asked)) /\ Len(asked) <= Len(sent)
    BY DEF ExchangeInv, InStep, Asking
  <2> QED BY <1>1, <1>7, <2>1, <2>2 DEF InStep
<1>10. CASE out' = out
  <2>1. pc' = "abort"
    <3>1. out # Append(out, a)
      <4>1. Len(Append(out, a)) = Len(out) + 1
        BY <1>3, <1>6, AppendProperties
      <4>2. \A k \in Nat : k # k + 1
        OBVIOUS
      <4> QED BY <1>3, <4>1, <4>2, Zenon
    <3> QED BY <1>5, <1>10, <3>1 DEF a
  <2>2. OneTerminal' /\ Correlated'
    BY <1>1, <1>10 DEF ExchangeInv, OneTerminal, Correlated
  <2>3. Conversing'
    BY <1>1, <1>7, <2>1 DEF ExchangeInv, Conversing, Asking, Reading
  <2> QED BY <1>7, <1>8, <1>9, <2>2, <2>3 DEF ExchangeInv
<1>11. CASE out' = Append(out, a)
  <2>1. /\ Len(out') = Len(out) + 1 /\ DOMAIN out' = 1 .. Len(out) + 1
        /\ \A i \in 1 .. Len(out) : out'[i] = out[i]
        /\ out'[Len(out) + 1] = a /\ out' # <<>>
    BY <1>3, <1>6, <1>7, <1>11, AppendProperties, LenProperties
  <2>2. mark \in Challenges => pc' = "header" /\ mark = kind
    BY <1>5 DEF Challenges, Terminals
  <2>3. mark \in Terminals => pc' = "close" /\ mark = kind
    BY <1>5 DEF Challenges, Terminals
  <2>4. OneTerminal'
    <3>1. ASSUME NEW i \in 1 .. Len(out) + 1
          PROVE  /\ out'[i].kind \in Terminals =>
                      /\ i = Len(out')
                      /\ \/ Len(asked) = Len(Script(op))
                         \/ op = "serve" /\ out'[i].kind = "Rejected"
                 /\ out'[i].kind \in Challenges => i = 1
      <4>1. CASE i = Len(out) + 1
        <5>1. out'[i].kind = mark
          BY <1>6, <2>1, <4>1
        <5>2. mark \in Terminals => \/ Len(asked) = Len(Script(op))
                                    \/ op = "serve" /\ mark = "Rejected"
          BY <2>3 DEF Challenges, Terminals
        <5>3. mark \in Challenges => i = 1
          BY <1>2, <2>2, <4>1 DEF Challenges, Terminals
        <5> QED BY <2>1, <4>1, <5>1, <5>2, <5>3
      <4>2. CASE i # Len(out) + 1
        <5>1. i \in 1 .. Len(out) /\ out'[i] = out[i]
          BY <1>3, <2>1, <4>2
        <5> QED BY <1>2, <5>1 DEF Challenges, Terminals
      <4> QED BY <4>1, <4>2
    <3> QED BY <1>1, <2>1, <3>1 DEF OneTerminal
  <2>5. Correlated'
    <3>1. ASSUME NEW i \in 1 .. Len(out) + 1, out'[i].kind = "Result"
          PROVE  /\ op = "approval" => out'[i].id = asked[2].id /\ out'[i].id = out'[1].id
                 /\ op \notin {"approval", "renew"} => out'[i].id = asked[1].id
      <4>1. i = Len(out) + 1
        <5>1. ASSUME i # Len(out) + 1 PROVE FALSE
          <6>1. i \in 1 .. Len(out) /\ out'[i] = out[i]
            BY <1>3, <2>1, <5>1
          <6> QED BY <1>2, <3>1, <6>1 DEF Challenges
        <5> QED BY <5>1
      <4>2. mark = "Result" /\ out'[i].id = id
        BY <1>6, <2>1, <3>1, <4>1
      <4>3. kind = "Result" /\ pc' = "close" /\ Len(asked) = Len(Script(op))
        BY <2>3, <4>2 DEF Terminals, Challenges
      <4>4. op # "renew" => id = asked[Len(Script(op))].id
        BY <4>3 DEF Challenges
      <4>5. CASE op = "approval"
        <5>1. id = given.id /\ Len(asked) = 2 /\ Len(out) = 1
          BY <1>2, <1>4, <4>3, <4>5 DEF Challenges
        <5>2. out'[1].id = given.id
          BY <1>2, <2>1, <5>1
        <5>3. asked[2].id = given.id
          BY <4>5, <5>1 DEF ExchangeInv, Conversing
        <5> QED BY <4>2, <4>5, <5>1, <5>2, <5>3
      <4>6. CASE op # "approval"
        <5>1. op # "serve"
          BY <4>3 DEF Challenges
        <5> QED BY <1>4, <4>2, <4>4, <4>6, <5>1
      <4> QED BY <4>5, <4>6
    <3> QED BY <1>1, <2>1, <3>1 DEF Correlated
  <2>6. Conversing'
    <3>1. CASE pc' = "header"
      <4>1. kind \in Challenges /\ id = given.id /\ Len(asked) = 1 /\ Len(Script(op)) = 2 /\ mark = kind
        BY <1>4, <1>5, <3>1
      <4>2. Challenged'
        <5>1. Len(out) = 0 /\ Len(out') = 1 /\ out'[1] = a
          BY <1>2, <2>1, <4>1
        <5> QED BY <1>1, <1>6, <4>1, <5>1 DEF Challenged
      <4>3. Answered' = 1 /\ Len(asked') = 1 /\ Len(Script(op')) = 2
        BY <1>1, <3>1, <4>1 DEF Answered
      <4> QED BY <1>7, <3>1, <4>2, <4>3 DEF Conversing
    <3>2. CASE pc' = "close"
      <4>1. mark = kind /\ kind \in Terminals
        BY <1>5, <3>2
      <4>2. out'[Len(out')].kind \in Terminals
        BY <1>6, <2>1, <4>1
      <4> QED BY <1>1, <1>2, <1>7, <2>1, <3>2, <4>2 DEF ExchangeInv, Conversing, Asking, Reading
    <3>3. CASE pc' = "abort"
      BY <1>1, <1>7, <3>3 DEF ExchangeInv, Conversing, Asking, Reading
    <3> QED BY <1>7, <3>1, <3>2, <3>3
  <2> QED BY <1>7, <1>8, <1>9, <2>4, <2>5, <2>6 DEF ExchangeInv
<1> QED BY <1>5, <1>10, <1>11 DEF a

\* The verifier's answers to Start, Submit and Reconcile, and the challenge of
\* an approval.
LEMMA HandleStep ==
  ASSUME ExchangeInv, HandleStart \/ HandleSubmit \/ HandleRecover \/ HandleApprovalStart
  PROVE  ExchangeInv'
<1>1. pc = "handle" /\ UNCHANGED peerVars /\ given.id \in ApprovalIds /\ op \in Ops
  BY DEF HandleStart, HandleSubmit, HandleRecover, HandleApprovalStart, ExchangeInv, ExchangeTypes
<1>2. Len(Script(op)) = IF op \in {"serve", "approval"} THEN 2 ELSE 1
  BY <1>1, Scripts
<1>3. CASE HandleStart
  <2>1. op = "serve" /\ Len(asked) = 1
    BY <1>3 DEF HandleStart, OneAsked
  <2>2. CASE Write("Challenge", given.id, "header")
    BY <1>1, <2>1, <2>2, WriteStep DEF Challenges
  <2>3. CASE Write("Rejected", given.id, "close")
    BY <1>1, <2>1, <2>3, WriteStep DEF Terminals
  <2> QED BY <1>3, <2>2, <2>3 DEF HandleStart
<1>4. CASE HandleSubmit
  <2>1. op = "serve" /\ Len(asked) = Len(Script(op))
    BY <1>2, <1>4 DEF HandleSubmit
  <2>2. PICK kind \in {"CoreIssued", "Rejected"} : Write(kind, given.id, "close")
    BY <1>4 DEF HandleSubmit
  <2>3. kind \in Terminals /\ kind # "Result"
    BY DEF Terminals
  <2> QED BY <1>1, <2>1, <2>2, <2>3, WriteStep
<1>5. CASE HandleRecover
  <2>1. op = "recover" /\ Len(Script(op)) = 1
    BY <1>2, <1>5 DEF HandleRecover
  <2>2. Len(asked) = Len(Script(op))
    <3>1. Len(asked) \in {1, 2} /\ Len(asked) <= Len(Script(op))
      BY <1>1, BeforeWrite
    <3>2. \A j \in {1, 2} : j <= 1 => j = 1
      OBVIOUS
    <3> QED BY <2>1, <3>1, <3>2
  <2>3. asked[Len(Script(op))].id \in ApprovalIds
    <3>1. asked \in Seq(Payloads) /\ 1 \in 1 .. Len(asked)
      BY <2>1, <2>2 DEF ExchangeInv, ExchangeTypes
    <3>2. asked[1] \in Payloads
      BY <3>1, ElementOfSeq
    <3> QED BY <2>1, <3>2 DEF Payloads
  <2>4. PICK kind \in {"Result", "Rejected"} : Write(kind, asked[1].id, "close")
    BY <1>5 DEF HandleRecover
  <2>5. Write(kind, asked[Len(Script(op))].id, "close")
    BY <2>1, <2>4
  <2>6. kind \in Terminals
    BY DEF Terminals
  <2> QED BY <1>1, <2>1, <2>2, <2>3, <2>5, <2>6, WriteStep
<1>6. CASE HandleApprovalStart
  <2>1. op = "approval" /\ Len(asked) = 1 /\ Write("ApprovalChallenge", given.id, "header")
    BY <1>6 DEF HandleApprovalStart, OneAsked
  <2> QED BY <1>1, <2>1, WriteStep DEF Challenges
<1> QED BY <1>3, <1>4, <1>5, <1>6

\* write_response correlates what the caller hands in before it writes it.
LEMMA WriteResponseStep == ASSUME ExchangeInv, WriteResponse PROVE ExchangeInv'
<1> DEFINE r == given.response
<1>1. /\ pc = "handle" /\ UNCHANGED peerVars /\ op \in DOMAIN Hde3Script
      /\ Len(asked) = Len(Script(op)) /\ op \in Ops
      /\ r.kind \in {"Result", "Rejected"} /\ r.id \in ApprovalIds
      /\ stream \in Seq(Cells)
  BY DEF WriteResponse, ExchangeInv, ExchangeTypes, Responses
<1>2. CASE Fail("Wire")
  BY <1>1, <1>2, FailStep DEF peerVars
<1>3. CASE ~Fail("Wire")
  <2>1. (r.kind = "Result" => r.id \in ExpectedId) /\ Write(r.kind, r.id, "close")
    BY <1>3 DEF WriteResponse
  <2>2. op \in {"first_app", "approval", "reconcile", "confirm", "renew"} /\ op # "serve"
        /\ Len(Script(op)) = IF op = "approval" THEN 2 ELSE 1
    BY <1>1, Scripts
  <2>3. ASSUME r.kind = "Result"
        PROVE  /\ op # "renew" => r.id = asked[Len(Script(op))].id
               /\ op = "approval" => r.id = given.id
    <3>1. CASE op = "approval"
      <4>1. r.id = given.id
        BY <2>1, <2>3, <3>1 DEF ExpectedId
      <4>2. asked[2].id = given.id
        BY <1>1, <2>2, <3>1 DEF ExchangeInv, Conversing
      <4> QED BY <2>2, <3>1, <4>1, <4>2
    <3>2. CASE op \in {"first_app", "reconcile", "confirm"}
      BY <2>1, <2>2, <2>3, <3>2 DEF ExpectedId
    <3>3. CASE op = "renew"
      BY <3>3
    <3> QED BY <2>2, <3>1, <3>2, <3>3
  <2>4. r.kind \in Terminals
    BY <1>1 DEF Terminals
  <2> HIDE DEF r
  <2> QED BY <1>1, <2>1, <2>2, <2>3, <2>4, WriteStep
<1> QED BY <1>2, <1>3

\* Closing: Ok only when the terminal response was written and the close succeeded.
LEMMA CloseStep ==
  ASSUME ExchangeInv, CloseAfterResponse \/ CloseAfterError
  PROVE  ExchangeInv'
<1>1. /\ op' = op /\ given' = given /\ header' = header /\ asked' = asked /\ out' = out
      /\ sent' = sent /\ stream' = stream /\ rest' = rest /\ eof' = eof
      /\ pc' \in {"abort", "done"} /\ closed' \in BOOLEAN /\ shut' \in BOOLEAN
      /\ result' \in {result, "ok", "Wire", "Timeout"}
  BY DEF CloseAfterResponse, CloseAfterError, peerVars
<1>2. ExchangeTypes'
  BY <1>1 DEF ExchangeInv, ExchangeTypes
<1>3. result' = "ok" => pc' = "done" /\ closed' /\ out # <<>> /\ out[Len(out)].kind \in Terminals
  BY DEF CloseAfterResponse, CloseAfterError, ExchangeInv, Conversing
<1>4. OkMeansDelivered'
  BY <1>1, <1>3 DEF OkMeansDelivered
<1>5. InStep'
  BY <1>1 DEF InStep, Asking, Reading
<1>6. Conversing'
  BY <1>1, <1>3 DEF ExchangeInv, Conversing, Asking, Reading
<1>7. Synchronised' /\ OneTerminal' /\ Correlated'
  BY <1>1 DEF ExchangeInv, Synchronised, OneTerminal, Correlated
<1> QED BY <1>2, <1>4, <1>5, <1>6, <1>7 DEF ExchangeInv

\* Every step of the peer and of the dispatcher keeps the invariant.
LEMMA ExchangeStep == ExchangeInv /\ [ExchangeNext]_exchangeVars => ExchangeInv'
<1> SUFFICES ASSUME ExchangeInv, [ExchangeNext]_exchangeVars PROVE ExchangeInv'
  OBVIOUS
<1>1. CASE UNCHANGED exchangeVars
  BY <1>1 DEF exchangeVars, ExchangeInv, ExchangeTypes, InStep, Unread, Conversing, Answered,
              Challenged, Synchronised, OneTerminal, Correlated, OkMeansDelivered
<1>2. CASE Peer
  BY <1>2, PeerStartsStep, PeerWritesStep DEF Peer
<1>3. CASE Relay
  <2>1. CASE ReadHeader \/ ReadPayload
    BY <2>1, ReadHeaderStep, ReadPayloadStep
  <2>2. CASE ReadEof \/ ReadTimeout
    <3>1. /\ Fail("Wire") \/ Fail("Timeout")
          /\ sent' = sent /\ stream' = stream /\ rest' = rest /\ eof' = eof
      BY <2>2 DEF ReadEof, ReadTimeout, peerVars
    <3>2. stream' \in Seq(Cells)
      BY <3>1 DEF ExchangeInv, ExchangeTypes
    <3> QED BY <3>1, <3>2, FailStep
  <2>3. CASE HandleStart \/ HandleSubmit \/ HandleRecover \/ HandleApprovalStart
    BY <2>3, HandleStep
  <2>4. CASE WriteResponse
    BY <2>4, WriteResponseStep
  <2>5. CASE CloseAfterResponse \/ CloseAfterError
    BY <2>5, CloseStep
  <2> QED BY <1>3, <2>1, <2>2, <2>3, <2>4, <2>5 DEF Relay
<1> QED BY <1>1, <1>2, <1>3 DEF ExchangeNext

\* Every request the HDB1 and HDE3 dispatchers act on is the frame the peer
\* sent in that place, one terminal response ends the exchange and names what
\* was asked about, and Ok is returned only for a delivered one, for any frames
\* a peer writes, cut anywhere, and any failure of a read, write or close.
THEOREM ExchangeIsSound == ExchangeSpec => []ExchangeSound
<1>1. ExchangeSpec => []ExchangeInv
  BY InitExchange, ExchangeStep, PTL DEF ExchangeSpec
<1> QED BY <1>1, ExchangeInvSound, PTL

-----------------------------------------------------------------------------
(* What the verifier relies on *)

Attempts == [st : Live \cup {"none", "rejected", "expired"},
             session : Sessions \cup {NoSession},
             at : 0 .. MaxTime, fails : 0 .. MaxFailures, iss : 0 .. MaxTime]

States == [attempts : [Ids -> Attempts],
           fence : [Sessions -> {0} \cup Ids],
           spaces : SUBSET (Ids \X Sessions),
           starts : [Peers -> SUBSET (Ids \X (1 .. MaxTime))]]

Retained(v) == {i \in Ids : v.attempts[i].st # "none"}
Fenced(v)   == {s \in Sessions : v.fence[s] # 0}

\* Fences and attempts name each other; an attempt that lives has a session.
Matches(v) ==
    /\ \A s \in Sessions : v.fence[s] # 0 =>
          /\ v.attempts[v.fence[s]].st \in Live
          /\ v.attempts[v.fence[s]].session = s
    /\ \A i \in Ids : v.attempts[i].st \in Live =>
          /\ v.attempts[i].session \in Sessions
          /\ v.fence[v.attempts[i].session] = i

\* The limits of Admit hold, and there is something finite to count.
Limited(v) ==
    /\ Cardinality(Retained(v)) <= MaxRetained
    /\ IsFiniteSet(Fenced(v)) /\ Cardinality(Fenced(v)) <= MaxActive
    /\ \A p \in Peers : /\ IsFiniteSet(v.starts[p])
                        /\ Cardinality(v.starts[p]) <= MaxPeerStarts

Ledger(v) == v \in States /\ Matches(v) /\ Limited(v)

\* While an attempt waits for its code its counter counts every wrong one.
Budgeted(v, wrong, certs) ==
    \A i \in Ids : v.attempts[i].st = "awaiting" =>
        v.attempts[i].fails = wrong[i] /\ wrong[i] < MaxFailures /\ certs[i] = 0

\* The window of a peer still holds every start that is recent.
Recorded(v, history, t) ==
    \A p \in Peers : \A e \in history[p] : t - e[2] < Window => e \in v.starts[p]

\* Ids not minted yet are untouched.
Unminted ==
    \A i \in Ids : i > minted =>
        state.attempts[i].st = "none" /\ tried[i] = 0 /\ issued[i] = 0

VerifierTypes ==
    /\ now \in 1 .. MaxTime /\ minted \in 0 .. MaxIds
    /\ serving \in [id : {0} \cup Ids, at : 0 .. MaxTime]
    /\ fault \subseteq {"read", "close", "issue"}
    /\ tried \in [Ids -> Nat] /\ issued \in [Ids -> Nat]
    /\ created \in [Peers -> SUBSET (Ids \X (1 .. MaxTime))]

\* The verifier: the inductive invariant.
VerifierInv ==
    /\ VerifierTypes /\ Ledger(state) /\ Unminted
    /\ Budgeted(state, tried, issued) /\ OneCertificateInBudget
    /\ Recorded(state, created, now)

\* One step of a call: no attempt begins to wait, none is created, and no
\* counter or start is touched.
Moves(v, w) ==
    /\ w.starts = v.starts
    /\ \A i \in Ids : /\ w.attempts[i].st = "awaiting" =>
                            /\ v.attempts[i].st = "awaiting"
                            /\ w.attempts[i].fails = v.attempts[i].fails
                      /\ v.attempts[i].st = "none" => w.attempts[i].st = "none"

-----------------------------------------------------------------------------
(* Attempts and their fences *)

\* The attempts are counted in a finite set.
LEMMA RetainedFinite ==
    ASSUME NEW v
    PROVE  IsFiniteSet(Retained(v)) /\ IsFiniteSet(Ids)
<1>1. IsFiniteSet(1 .. MaxIds)
  <2>1. 1 \in Int /\ MaxIds \in Int
    BY VerifierAssumption
  <2> QED BY <2>1, FS_Interval
<1>2. Retained(v) \subseteq Ids
  BY DEF Retained
<1> QED BY <1>1, <1>2, FS_Subset DEF Ids

\* The attempts E end and release their sessions, the others go on.
Evolves(v, w, E) ==
    /\ w \in States /\ w.starts = v.starts
    /\ \A i \in Ids : w.attempts[i].session = v.attempts[i].session
    /\ \A i \in E : v.attempts[i].st \in Live /\ w.attempts[i].st \in {"rejected", "expired"}
    /\ \A i \in Ids \ E : /\ w.attempts[i].st \in Live <=> v.attempts[i].st \in Live
                          /\ w.attempts[i].st = "none" <=> v.attempts[i].st = "none"
    /\ \A s \in Sessions : w.fence[s] = IF \E i \in E : v.attempts[i].session = s
                                          THEN 0 ELSE v.fence[s]

\* Such a step keeps fences and attempts in agreement.
LEMMA Lifecycle ==
    ASSUME NEW v, NEW w, NEW E \in SUBSET Ids, Ledger(v), Evolves(v, w, E)
    PROVE  Ledger(w)
<1> USE DEF Evolves
<1>1. v \in States /\ Matches(v) /\ Limited(v)
  BY DEF Ledger
<1>2. \A s \in Sessions : v.fence[s] \in {0} \cup Ids
  BY <1>1 DEF States
<1>3. ASSUME NEW s \in Sessions, w.fence[s] # 0
      PROVE  w.attempts[w.fence[s]].st \in Live /\ w.attempts[w.fence[s]].session = s
  <2>1. w.fence[s] = v.fence[s] /\ ~\E i \in E : v.attempts[i].session = s
    BY <1>3
  <2>2. v.fence[s] \in Ids /\ v.attempts[v.fence[s]].st \in Live /\ v.attempts[v.fence[s]].session = s
    BY <1>1, <1>2, <1>3, <2>1 DEF Matches
  <2>3. v.fence[s] \notin E
    BY <2>1, <2>2
  <2> QED BY <2>1, <2>2, <2>3
<1>4. ASSUME NEW i \in Ids, w.attempts[i].st \in Live
      PROVE  w.attempts[i].session \in Sessions /\ w.fence[w.attempts[i].session] = i
  <2>1. i \notin E
    BY <1>4 DEF Live
  <2>2. /\ v.attempts[i].st \in Live /\ v.attempts[i].session \in Sessions
        /\ v.fence[v.attempts[i].session] = i
    BY <1>1, <1>4, <2>1 DEF Matches
  <2>3. ASSUME NEW j \in E, v.attempts[j].session = v.attempts[i].session PROVE FALSE
    <3>1. v.fence[v.attempts[j].session] = j
      BY <1>1 DEF Matches
    <3> QED BY <2>1, <2>2, <2>3, <3>1
  <2> QED BY <2>2, <2>3
<1>5. Matches(w)
  BY <1>3, <1>4 DEF Matches
<1>6. Retained(w) = Retained(v)
  <2>1. ASSUME NEW i \in Ids PROVE w.attempts[i].st = "none" <=> v.attempts[i].st = "none"
    BY DEF Live
  <2> QED BY <2>1 DEF Retained
<1>7. IsFiniteSet(Fenced(w)) /\ Cardinality(Fenced(w)) <= MaxActive
  <2>1. Fenced(w) \subseteq Fenced(v)
    BY DEF Fenced
  <2>2. IsFiniteSet(Fenced(v)) /\ Cardinality(Fenced(v)) <= MaxActive
    BY <1>1 DEF Limited
  <2>3. /\ IsFiniteSet(Fenced(w)) /\ Cardinality(Fenced(w)) <= Cardinality(Fenced(v))
    BY <2>1, <2>2, FS_Subset
  <2>4. Cardinality(Fenced(w)) \in Nat /\ Cardinality(Fenced(v)) \in Nat /\ MaxActive \in Nat
    BY <2>2, <2>3, FS_CardinalityType, VerifierAssumption
  <2> QED BY <2>2, <2>3, <2>4
<1>8. Limited(w)
  BY <1>1, <1>6, <1>7 DEF Limited
<1> QED BY <1>5, <1>8 DEF Ledger

\* Workspaces come and go without the ledger.
LEMMA SpacesChange ==
    ASSUME NEW v, Ledger(v), NEW S \in SUBSET (Ids \X Sessions)
    PROVE  LET w == [v EXCEPT !.spaces = S] IN
           /\ Ledger(w) /\ Moves(v, w)
           /\ w.attempts = v.attempts /\ w.fence = v.fence /\ w.starts = v.starts /\ w.spaces = S
<1> DEFINE w == [v EXCEPT !.spaces = S]
<1>1. v \in States
  BY DEF Ledger
<1>2. w \in States /\ w.attempts = v.attempts /\ w.fence = v.fence /\ w.starts = v.starts /\ w.spaces = S
  BY <1>1 DEF States
<1> HIDE DEF w
<1>3. Ledger(w) /\ Moves(v, w)
  BY <1>2 DEF Ledger, Matches, Limited, Retained, Fenced, Moves
<1> QED BY <1>2, <1>3 DEF w

\* A closed workspace.
LEMMA ClosedKeeps ==
    ASSUME NEW v, Ledger(v), NEW i \in Ids
    PROVE  /\ Ledger(Closed(v, i)) /\ Moves(v, Closed(v, i))
           /\ Closed(v, i).attempts = v.attempts
<1> DEFINE S == v.spaces \ Space(v, i)
<1>1. S \in SUBSET (Ids \X Sessions)
  BY DEF Ledger, States
<1>2. Closed(v, i) = [v EXCEPT !.spaces = S]
  BY DEF Closed
<1> HIDE DEF S
<1>3. LET w == [v EXCEPT !.spaces = S] IN
      Ledger(w) /\ Moves(v, w) /\ w.attempts = v.attempts
  BY <1>1, SpacesChange
<1> QED BY <1>2, <1>3

\* The state of one attempt changes while it lives.
LEMMA LivesOn ==
    ASSUME NEW v, Ledger(v), NEW i \in Ids, v.attempts[i].st \in Live,
           NEW a \in Attempts, a.st \in Live, a.session = v.attempts[i].session
    PROVE  LET w == [v EXCEPT !.attempts[i] = a] IN
           /\ Ledger(w) /\ w.starts = v.starts /\ w.spaces = v.spaces
           /\ w.attempts = [v.attempts EXCEPT ![i] = a]
<1> DEFINE w == [v EXCEPT !.attempts[i] = a]
<1>1. v \in States
  BY DEF Ledger
<1>2. /\ w \in States /\ w.fence = v.fence /\ w.starts = v.starts /\ w.spaces = v.spaces
      /\ w.attempts = [v.attempts EXCEPT ![i] = a]
  BY <1>1 DEF States
<1>3. ASSUME NEW j \in Ids
      PROVE  /\ w.attempts[j].session = v.attempts[j].session
             /\ w.attempts[j].st \in Live <=> v.attempts[j].st \in Live
             /\ w.attempts[j].st = "none" <=> v.attempts[j].st = "none"
  <2>1. w.attempts[j] = IF j = i THEN a ELSE v.attempts[j]
    BY <1>1, <1>2 DEF States
  <2> QED BY <2>1 DEF Live
<1> HIDE DEF w
<1>4. Ledger(w)
  <2>1. Evolves(v, w, {})
    BY <1>2, <1>3 DEF Evolves
  <2> QED BY <2>1, Lifecycle
<1> QED BY <1>2, <1>4 DEF w

\* An attempt ends: its session is free.
LEMMA MarkTerminalKeeps ==
    ASSUME NEW v, Ledger(v), NEW i \in Ids, v.attempts[i].st \in Live,
           NEW st \in {"rejected", "expired"}
    PROVE  /\ Ledger(MarkTerminal(v, i, st)) /\ Moves(v, MarkTerminal(v, i, st))
           /\ MarkTerminal(v, i, st).attempts[i].st = st
<1> DEFINE w == MarkTerminal(v, i, st)
<1>1. v \in States /\ v.attempts[i].session \in Sessions
  BY DEF Ledger, Matches
<1>2. /\ w \in States /\ w.starts = v.starts
      /\ w.attempts = [v.attempts EXCEPT ![i].st = st]
      /\ w.fence = [v.fence EXCEPT ![v.attempts[i].session] = 0]
  <2> DEFINE A == [v.attempts EXCEPT ![i].st = st]
             F == [v.fence EXCEPT ![v.attempts[i].session] = 0]
  <2>1. w = [v EXCEPT !.attempts = A, !.fence = F]
    BY DEF MarkTerminal
  <2>2. A \in [Ids -> Attempts]
    BY <1>1 DEF States, Attempts
  <2>3. F \in [Sessions -> {0} \cup Ids]
    BY <1>1 DEF States
  <2> HIDE DEF A, F, w
  <2>4. w \in States /\ w.starts = v.starts /\ w.attempts = A /\ w.fence = F
    BY <1>1, <2>1, <2>2, <2>3 DEF States
  <2> QED BY <2>4 DEF A, F
<1> HIDE DEF w
<1>3. ASSUME NEW j \in Ids
      PROVE  /\ w.attempts[j].session = v.attempts[j].session
             /\ w.attempts[j].fails = v.attempts[j].fails
             /\ w.attempts[j].st = IF j = i THEN st ELSE v.attempts[j].st
  BY <1>1, <1>2 DEF States, Attempts
<1>4. ASSUME NEW s \in Sessions
      PROVE  w.fence[s] = IF s = v.attempts[i].session THEN 0 ELSE v.fence[s]
  BY <1>1, <1>2 DEF States
<1>5. Ledger(w)
  <2>1. Evolves(v, w, {i})
    BY <1>2, <1>3, <1>4 DEF Evolves
  <2> QED BY <2>1, Lifecycle
<1>6. Moves(v, w) /\ w.attempts[i].st = st
  BY <1>2, <1>3 DEF Moves, Live
<1> QED BY <1>5, <1>6 DEF w

\* A call that has to close the workspace first: the attempt ends, or lives on
\* to be cleaned up.
LEMMA CloseThenKeeps ==
    ASSUME NEW v, Ledger(v), NEW i \in Ids, v.attempts[i].st \in {"awaiting", "cleanup"},
           NEW st \in {"rejected", "expired"}
    PROVE  /\ Ledger(CloseThen(v, i, st)) /\ Moves(v, CloseThen(v, i, st))
           /\ CloseThen(v, i, st).attempts[i].st # "awaiting"
<1>1. CASE CanClose(v, i)
  <2> DEFINE u == Closed(v, i)
  <2>1. Ledger(u) /\ Moves(v, u) /\ u.attempts = v.attempts
    BY ClosedKeeps
  <2>2. CloseThen(v, i, st) = MarkTerminal(u, i, st)
    BY <1>1 DEF CloseThen
  <2>3. u.attempts[i].st \in Live
    BY <2>1 DEF Live
  <2> HIDE DEF u
  <2>4. /\ Ledger(MarkTerminal(u, i, st)) /\ Moves(u, MarkTerminal(u, i, st))
        /\ MarkTerminal(u, i, st).attempts[i].st = st
    BY <2>1, <2>3, MarkTerminalKeeps
  <2>5. Moves(v, MarkTerminal(u, i, st))
    BY <2>1, <2>4 DEF Moves
  <2> QED BY <2>2, <2>4, <2>5
<1>2. CASE ~CanClose(v, i)
  <2> DEFINE a == [v.attempts[i] EXCEPT !.st = "cleanup"]
             w == [v EXCEPT !.attempts[i] = a]
  <2>1. v.attempts \in [Ids -> Attempts]
    BY DEF Ledger, States
  <2>2. a \in Attempts /\ a.st = "cleanup" /\ a.session = v.attempts[i].session
    BY <2>1 DEF Attempts, Live
  <2>3. CloseThen(v, i, st) = w
    BY <1>2 DEF CloseThen
  <2>4. v.attempts[i].st \in Live /\ a.st \in Live
    BY <2>2 DEF Live
  <2> HIDE DEF a
  <2>5. Ledger(w) /\ w.starts = v.starts /\ w.attempts = [v.attempts EXCEPT ![i] = a]
    BY <2>2, <2>4, LivesOn
  <2> HIDE DEF w
  <2>6. \A j \in Ids : w.attempts[j] = IF j = i THEN a ELSE v.attempts[j]
    BY <2>1, <2>5
  <2>7. Moves(v, w) /\ w.attempts[i].st # "awaiting"
    BY <2>2, <2>5, <2>6 DEF Moves
  <2> QED BY <2>3, <2>5, <2>7
<1> QED BY <1>1, <1>2

\* reap_expired, also in the middle of a start and with one failing close.
LEMMA ReapedKeeps ==
    ASSUME NEW v, Ledger(v), NEW t, NEW bad
    PROVE  Ledger(Reaped(v, t, bad)) /\ Moves(v, Reaped(v, t, bad))
<1> DEFINE Due(i) == HardOver(v.attempts[i], t)
           Ends(i) == \/ RecoveryOver(v.attempts[i], t)
                      \/ Due(i) /\ i # bad /\ Space(v, i) # {}
           After(i) == IF Ends(i) THEN "expired" ELSE IF Due(i) THEN "cleanup" ELSE v.attempts[i].st
           A == [i \in Ids |-> [v.attempts[i] EXCEPT !.st = After(i)]]
           due == {i \in Ids : Due(i)}
           E == {i \in Ids : RecoveryOver(v.attempts[i], t)}
                \cup {i \in due : i # bad /\ Space(v, i) # {}}
           F == [s \in Sessions |-> IF \E i \in E : v.attempts[i].session = s
                                      THEN 0 ELSE v.fence[s]]
           S == {x \in v.spaces : x[1] \notin due \cap E}
           w == Reaped(v, t, bad)
<1>1. v \in States
  BY DEF Ledger
<1>2. w = [v EXCEPT !.attempts = A, !.fence = F, !.spaces = S]
  <2>1. w = [v EXCEPT !.attempts = [i \in Ids |-> [v.attempts[i] EXCEPT !.st =
                          IF i \in E THEN "expired" ELSE IF i \in due THEN "cleanup" ELSE @]],
                     !.fence = F, !.spaces = S]
    BY DEF Reaped, Reapable
  <2>2. ASSUME NEW i \in Ids
        PROVE  [v.attempts[i] EXCEPT !.st =
                   IF i \in E THEN "expired" ELSE IF i \in due THEN "cleanup" ELSE @]
               = [v.attempts[i] EXCEPT !.st = After(i)]
    OBVIOUS
  <2> QED BY <2>1, <2>2
<1>e. E \subseteq Ids /\ \A i \in Ids : i \in E <=> Ends(i)
  OBVIOUS
<1>3. \A i \in Ids : /\ Due(i) => v.attempts[i].st \in {"awaiting", "cleanup"}
                     /\ Ends(i) => v.attempts[i].st \in Live
  BY DEF HardOver, RecoveryOver, Live
<1> HIDE DEF Due, Ends, E
<1>4. \A i \in Ids : After(i) \in Live \cup {"none", "rejected", "expired"}
  BY <1>1 DEF States, Attempts, Live
<1> HIDE DEF After
<1>5. A \in [Ids -> Attempts]
  BY <1>1, <1>4 DEF States, Attempts
<1>6. F \in [Sessions -> {0} \cup Ids] /\ S \in SUBSET (Ids \X Sessions)
  BY <1>1 DEF States
<1>7. ASSUME NEW i \in Ids
      PROVE  /\ A[i].session = v.attempts[i].session /\ A[i].fails = v.attempts[i].fails
             /\ A[i].st = After(i)
  BY <1>1 DEF States, Attempts
<1>8. \A s \in Sessions : F[s] = IF \E i \in E : v.attempts[i].session = s THEN 0 ELSE v.fence[s]
  OBVIOUS
<1> HIDE DEF A, F, S, w
<1>9. w \in States /\ w.attempts = A /\ w.fence = F /\ w.starts = v.starts
  BY <1>1, <1>2, <1>5, <1>6 DEF States
<1>10. Evolves(v, w, E)
  <2>1. \A i \in E : v.attempts[i].st \in Live /\ w.attempts[i].st \in {"rejected", "expired"}
    BY <1>3, <1>7, <1>9, <1>e DEF After
  <2>2. \A i \in Ids \ E : /\ w.attempts[i].st \in Live <=> v.attempts[i].st \in Live
                           /\ w.attempts[i].st = "none" <=> v.attempts[i].st = "none"
    BY <1>3, <1>7, <1>9, <1>e DEF After, Live
  <2> QED BY <1>7, <1>8, <1>9, <2>1, <2>2 DEF Evolves
<1>11. Ledger(w)
  <2>1. E \in SUBSET Ids
    BY <1>e
  <2> QED BY <1>10, <2>1, Lifecycle
<1>12. Moves(v, w)
  <2>1. ASSUME NEW i \in Ids
        PROVE  /\ After(i) = "awaiting" => v.attempts[i].st = "awaiting"
               /\ v.attempts[i].st = "none" => After(i) = "none"
    BY <1>3 DEF After, Live
  <2> QED BY <1>7, <1>9, <2>1 DEF Moves
<1> QED BY <1>11, <1>12 DEF w

\* prune_retained_attempts forgets what has ended.
LEMMA PrunedKeeps ==
    ASSUME NEW v, Ledger(v), NEW t
    PROVE  Ledger(Pruned(v, t)) /\ Moves(v, Pruned(v, t))
<1> DEFINE Dropped(i) == v.attempts[i].st \in {"rejected", "expired"} \/ RecoveryOver(v.attempts[i], t)
           A == [i \in Ids |-> IF Dropped(i) THEN Gone ELSE v.attempts[i]]
           drop == {i \in Ids : Dropped(i)}
           F == [s \in Sessions |-> IF v.fence[s] \in drop THEN 0 ELSE v.fence[s]]
           w == Pruned(v, t)
<1>1. v \in States /\ Matches(v) /\ Limited(v)
  BY DEF Ledger
<1>2. w = [v EXCEPT !.attempts = A, !.fence = F]
  <2>1. w = [v EXCEPT !.attempts = [i \in Ids |-> IF i \in drop THEN Gone ELSE v.attempts[i]],
                     !.fence = F]
    BY DEF Pruned
  <2>2. \A i \in Ids : i \in drop <=> Dropped(i)
    OBVIOUS
  <2> HIDE DEF drop, Dropped
  <2> QED BY <2>1, <2>2
<1> HIDE DEF Dropped
<1>3. Gone \in Attempts /\ Gone.st = "none"
  BY VerifierAssumption DEF Gone, Attempts, NoSession
<1>4. A \in [Ids -> Attempts] /\ F \in [Sessions -> {0} \cup Ids]
  BY <1>1, <1>3 DEF States
<1>5. /\ \A i \in Ids : A[i] = IF Dropped(i) THEN Gone ELSE v.attempts[i]
      /\ \A s \in Sessions : F[s] = IF \E i \in Ids : Dropped(i) /\ v.fence[s] = i
                                      THEN 0 ELSE v.fence[s]
  OBVIOUS
<1> HIDE DEF A, F, w
<1>6. w \in States /\ w.attempts = A /\ w.fence = F /\ w.starts = v.starts
  BY <1>1, <1>2, <1>4 DEF States
<1>7. ASSUME NEW s \in Sessions, w.fence[s] # 0
      PROVE  w.attempts[w.fence[s]].st \in Live /\ w.attempts[w.fence[s]].session = s
  <2>1. w.fence[s] = v.fence[s] /\ v.fence[s] \in Ids
    BY <1>1, <1>5, <1>6, <1>7 DEF States
  <2>2. ~Dropped(v.fence[s])
    BY <1>5, <1>6, <1>7, <2>1
  <2>3. w.attempts[v.fence[s]] = v.attempts[v.fence[s]]
    BY <1>5, <1>6, <2>1, <2>2
  <2> QED BY <1>1, <1>7, <2>1, <2>3 DEF Matches
<1>8. ASSUME NEW i \in Ids, w.attempts[i].st \in Live
      PROVE  w.attempts[i].session \in Sessions /\ w.fence[w.attempts[i].session] = i
  <2>1. ~Dropped(i) /\ w.attempts[i] = v.attempts[i]
    BY <1>3, <1>5, <1>6, <1>8 DEF Live
  <2>2. v.attempts[i].session \in Sessions /\ v.fence[v.attempts[i].session] = i
    BY <1>1, <1>8, <2>1 DEF Matches
  <2> QED BY <1>5, <1>6, <2>1, <2>2
<1>9. Matches(w)
  BY <1>7, <1>8 DEF Matches
<1>10. Limited(w)
  <2>1. Retained(w) \subseteq Retained(v) /\ Fenced(w) \subseteq Fenced(v)
    BY <1>3, <1>5, <1>6 DEF Retained, Fenced
  <2>2. /\ IsFiniteSet(Retained(v)) /\ IsFiniteSet(Fenced(v))
        /\ Cardinality(Retained(v)) <= MaxRetained /\ Cardinality(Fenced(v)) <= MaxActive
    BY <1>1, RetainedFinite DEF Limited
  <2>3. /\ IsFiniteSet(Retained(w)) /\ Cardinality(Retained(w)) <= Cardinality(Retained(v))
        /\ IsFiniteSet(Fenced(w)) /\ Cardinality(Fenced(w)) <= Cardinality(Fenced(v))
    BY <2>1, <2>2, FS_Subset
  <2>4. /\ Cardinality(Retained(w)) \in Nat /\ Cardinality(Retained(v)) \in Nat
        /\ Cardinality(Fenced(w)) \in Nat /\ Cardinality(Fenced(v)) \in Nat
        /\ MaxRetained \in Nat /\ MaxActive \in Nat
    BY <2>2, <2>3, FS_CardinalityType, VerifierAssumption
  <2>5. Cardinality(Retained(w)) <= MaxRetained /\ Cardinality(Fenced(w)) <= MaxActive
    BY <2>2, <2>3, <2>4
  <2> QED BY <1>1, <1>6, <2>3, <2>5 DEF Limited
<1>11. Moves(v, w)
  BY <1>3, <1>5, <1>6 DEF Moves
<1> QED BY <1>6, <1>9, <1>10, <1>11 DEF Ledger, w

\* The starts of the peers change within the limit.
LEMMA StartsChange ==
    ASSUME NEW v, Ledger(v), NEW S \in [Peers -> SUBSET (Ids \X (1 .. MaxTime))],
           \A p \in Peers : IsFiniteSet(S[p]) /\ Cardinality(S[p]) <= MaxPeerStarts
    PROVE  LET w == [v EXCEPT !.starts = S] IN
           /\ Ledger(w) /\ w.attempts = v.attempts /\ w.fence = v.fence
           /\ w.spaces = v.spaces /\ w.starts = S
<1> DEFINE w == [v EXCEPT !.starts = S]
<1>1. v \in States
  BY DEF Ledger
<1>2. /\ w \in States /\ w.attempts = v.attempts /\ w.fence = v.fence
      /\ w.spaces = v.spaces /\ w.starts = S
  BY <1>1 DEF States
<1> HIDE DEF w
<1>3. Ledger(w)
  BY <1>2 DEF Ledger, Matches, Limited, Retained, Fenced
<1> QED BY <1>2, <1>3 DEF w

\* The attempt i starts to wait, and its session is fenced.
Opens(v, w, i, s) ==
    /\ w \in States /\ w.starts = v.starts
    /\ w.attempts[i].st = "awaiting" /\ w.attempts[i].session = s
    /\ \A j \in Ids \ {i} : w.attempts[j] = v.attempts[j]
    /\ \A x \in Sessions : w.fence[x] = IF x = s THEN i ELSE v.fence[x]

\* A new attempt takes a session nobody holds.
LEMMA Opened ==
    ASSUME NEW v, NEW w, Ledger(v), NEW i \in Ids, v.attempts[i].st = "none",
           NEW s \in Sessions, v.fence[s] = 0,
           Cardinality(Retained(v)) < MaxRetained, Cardinality(Fenced(v)) < MaxActive,
           Opens(v, w, i, s)
    PROVE  Ledger(w)
<1> USE DEF Opens
<1>1. v \in States /\ Matches(v) /\ Limited(v)
  BY DEF Ledger
<1>2. 0 \notin Ids
  BY VerifierAssumption DEF Ids
<1>3. w \in States /\ w.starts = v.starts
  OBVIOUS
<1>4. ASSUME NEW x \in Sessions, w.fence[x] # 0
      PROVE  w.attempts[w.fence[x]].st \in Live /\ w.attempts[w.fence[x]].session = x
  <2>1. CASE x = s
    BY <1>2, <1>3, <2>1 DEF Live
  <2>2. CASE x # s
    <3>1. /\ w.fence[x] = v.fence[x] /\ v.fence[x] \in Ids
          /\ v.attempts[v.fence[x]].st \in Live /\ v.attempts[v.fence[x]].session = x
      BY <1>1, <1>2, <1>3, <1>4, <2>2 DEF Matches, States
    <3>2. v.fence[x] # i
      BY <3>1 DEF Live
    <3> QED BY <1>2, <1>3, <3>1, <3>2
  <2> QED BY <2>1, <2>2
<1>5. ASSUME NEW j \in Ids, w.attempts[j].st \in Live
      PROVE  w.attempts[j].session \in Sessions /\ w.fence[w.attempts[j].session] = j
  <2>1. CASE j = i
    BY <1>2, <1>3, <2>1
  <2>2. CASE j # i
    <3>1. /\ w.attempts[j] = v.attempts[j] /\ v.attempts[j].session \in Sessions
          /\ v.fence[v.attempts[j].session] = j
      BY <1>1, <1>2, <1>3, <1>5, <2>2 DEF Matches
    <3>2. v.attempts[j].session # s
      BY <1>2, <3>1
    <3> QED BY <1>2, <1>3, <3>1, <3>2
  <2> QED BY <2>1, <2>2
<1>6. Matches(w)
  BY <1>4, <1>5 DEF Matches
<1>7. Retained(w) = Retained(v) \cup {i} /\ Fenced(w) = Fenced(v) \cup {s}
  <2>1. Retained(w) = Retained(v) \cup {i}
    BY <1>2, <1>3 DEF Retained
  <2>2. Fenced(w) = Fenced(v) \cup {s}
    BY <1>2, <1>3 DEF Fenced
  <2> QED BY <2>1, <2>2
<1>8. Cardinality(Retained(w)) <= MaxRetained
  <2>1. IsFiniteSet(Retained(v)) /\ i \notin Retained(v)
    BY RetainedFinite DEF Retained
  <2>2. Cardinality(Retained(v) \cup {i}) = Cardinality(Retained(v)) + 1 /\ Cardinality(Retained(v)) \in Nat
    BY <2>1, FS_AddElement, FS_CardinalityType
  <2>3. MaxRetained \in Nat
    BY VerifierAssumption
  <2> QED BY <1>7, <2>2, <2>3
<1>9. IsFiniteSet(Fenced(w)) /\ Cardinality(Fenced(w)) <= MaxActive
  <2>1. IsFiniteSet(Fenced(v)) /\ s \notin Fenced(v)
    BY <1>1 DEF Fenced, Limited
  <2>2. /\ IsFiniteSet(Fenced(v) \cup {s})
        /\ Cardinality(Fenced(v) \cup {s}) = Cardinality(Fenced(v)) + 1 /\ Cardinality(Fenced(v)) \in Nat
    BY <2>1, FS_AddElement, FS_CardinalityType
  <2>3. MaxActive \in Nat
    BY VerifierAssumption
  <2> QED BY <1>7, <2>2, <2>3
<1>10. Limited(w)
  BY <1>1, <1>3, <1>8, <1>9 DEF Limited
<1> QED BY <1>3, <1>6, <1>10 DEF Ledger

-----------------------------------------------------------------------------
(* The steps of the verifier *)

\* A step that only moves attempts on keeps every part.
LEMMA MoveStep ==
    ASSUME VerifierInv, Ledger(state'), Moves(state, state'),
           serving' \in [id : {0} \cup Ids, at : 0 .. MaxTime],
           fault' \subseteq {"read", "close", "issue"},
           UNCHANGED <<now, minted, tried, issued, created>>
    PROVE  VerifierInv'
<1>1. VerifierTypes'
  BY DEF VerifierInv, VerifierTypes
<1>2. Unminted'
  BY DEF VerifierInv, Unminted, Moves
<1>3. Budgeted(state', tried', issued')
  BY DEF VerifierInv, Budgeted, Moves
<1>4. OneCertificateInBudget'
  BY DEF VerifierInv, OneCertificateInBudget
<1>5. Recorded(state', created', now')
  BY DEF VerifierInv, Recorded, Moves
<1> QED BY <1>1, <1>2, <1>3, <1>4, <1>5 DEF VerifierInv

\* Nothing moves at all.
LEMMA MovesNowhere == \A v : Moves(v, v)
BY DEF Moves

\* SessionLost, the cleanups, a sweep, a reconciliation and an injected fault.
LEMMA UpkeepStep ==
    ASSUME VerifierInv,
           \/ SessionLost \/ ReapExpired
           \/ \E i \in Ids : Reconcile(i) \/ RetryCleanup(i)
           \/ \E s \in Sessions : RetryOrphanedWorkspace(s)
           \/ \E f \in {"read", "close", "issue"} : FailNext(f)
    PROVE  VerifierInv'
<1>1. /\ UNCHANGED <<now, minted, tried, issued, created>>
      /\ serving' \in {serving, NoServing}
      /\ fault' \subseteq {"read", "close", "issue"}
  BY DEF SessionLost, ReapExpired, Reconcile, RetryCleanup, RetryOrphanedWorkspace, FailNext,
         VerifierInv, VerifierTypes, UsesFault
<1>2. serving' \in [id : {0} \cup Ids, at : 0 .. MaxTime]
  BY <1>1, VerifierAssumption DEF VerifierInv, VerifierTypes, NoServing
<1>3. Ledger(state) /\ Moves(state, state)
  BY MovesNowhere DEF VerifierInv
<1>4. Ledger(state') /\ Moves(state, state')
  <2>1. CASE SessionLost \/ \E f \in {"read", "close", "issue"} : FailNext(f)
    BY <1>3, <2>1 DEF SessionLost, FailNext
  <2>2. CASE ReapExpired
    <3>1. PICK bad : state' = Reaped(state, now, bad)
      BY <2>2 DEF ReapExpired
    <3> QED BY <1>3, <3>1, ReapedKeeps
  <2>3. ASSUME NEW i \in Ids, Reconcile(i)
        PROVE  Ledger(state') /\ Moves(state, state')
    <3>1. CASE state.attempts[i].st = "awaiting" /\ state' = CloseThen(state, i, "expired")
      BY <1>3, <3>1, CloseThenKeeps
    <3>2. CASE RecoveryOver(state.attempts[i], now) /\ state' = MarkTerminal(state, i, "expired")
      <4>1. state.attempts[i].st \in Live
        BY <3>2 DEF RecoveryOver, Live
      <4> QED BY <1>3, <3>2, <4>1, MarkTerminalKeeps
    <3> QED BY <2>3, <3>1, <3>2 DEF Reconcile
  <2>4. ASSUME NEW i \in Ids, RetryCleanup(i)
        PROVE  Ledger(state') /\ Moves(state, state')
    <3>1. CASE state' = state
      BY <1>3, <3>1
    <3>2. CASE CanClose(state, i) /\ state' = MarkTerminal(Closed(state, i), i, "rejected")
      <4>1. state.attempts[i].st = "cleanup"
        BY <2>4 DEF RetryCleanup
      <4>2. state' = CloseThen(state, i, "rejected")
        BY <3>2 DEF CloseThen
      <4> QED BY <1>3, <4>1, <4>2, CloseThenKeeps
    <3> QED BY <2>4, <3>1, <3>2 DEF RetryCleanup
  <2>5. ASSUME NEW s \in Sessions, RetryOrphanedWorkspace(s)
        PROVE  Ledger(state') /\ Moves(state, state')
    <3>1. CASE state' = state
      BY <1>3, <3>1
    <3>2. CASE state' # state
      <4>1. PICK w : state' = [state EXCEPT !.spaces = state.spaces \ {w}]
        BY <2>5, <3>2 DEF RetryOrphanedWorkspace
      <4> DEFINE S == state.spaces \ {w}
      <4>2. S \in SUBSET (Ids \X Sessions) /\ state' = [state EXCEPT !.spaces = S]
        BY <1>3, <4>1 DEF Ledger, States
      <4> HIDE DEF S
      <4>3. LET u == [state EXCEPT !.spaces = S] IN Ledger(u) /\ Moves(state, u)
        BY <1>3, <4>2, SpacesChange
      <4> QED BY <4>2, <4>3
    <3> QED BY <3>1, <3>2
  <2> QED BY <2>1, <2>2, <2>3, <2>4, <2>5
<1> QED BY <1>1, <1>2, <1>4, MoveStep

\* Time: what is recent tomorrow was recent today.
LEMMA TickStep == ASSUME VerifierInv, Tick PROVE VerifierInv'
<1>1. /\ now \in 1 .. MaxTime /\ now' = now + 1 /\ now < MaxTime
      /\ UNCHANGED <<minted, state, serving, fault, tried, issued, created>>
  BY DEF Tick, VerifierInv, VerifierTypes
<1>2. VerifierTypes'
  BY <1>1, VerifierAssumption DEF VerifierInv, VerifierTypes
<1>3. Recorded(state, created, now')
  <2>1. ASSUME NEW p \in Peers, NEW e \in created[p], now' - e[2] < Window
        PROVE  e \in state.starts[p]
    <3>1. e[2] \in Int /\ now \in Int /\ Window \in Int
      <4>1. e \in Ids \X (1 .. MaxTime)
        BY DEF VerifierInv, VerifierTypes
      <4> QED BY <1>1, <4>1, VerifierAssumption
    <3>2. now - e[2] < Window
      BY <1>1, <2>1, <3>1
    <3> QED BY <3>2 DEF VerifierInv, Recorded
  <2> QED BY <2>1 DEF Recorded
<1>4. Ledger(state') /\ Unminted' /\ OneCertificateInBudget'
      /\ Budgeted(state', tried', issued')
  BY <1>1 DEF VerifierInv, Unminted, OneCertificateInBudget
<1> QED BY <1>1, <1>2, <1>3, <1>4 DEF VerifierInv

\* A wrong code is counted; at the limit the attempt no longer waits, also
\* when its workspace cannot be closed.
LEMMA WrongCodeKeeps ==
    ASSUME NEW v, Ledger(v), NEW i \in Ids, v.attempts[i].st = "awaiting",
           v.attempts[i].fails < MaxFailures
    PROVE  LET w == WrongCode(v, i) IN
           /\ Ledger(w) /\ w.starts = v.starts
           /\ \A j \in Ids \ {i} :
                /\ w.attempts[j].st = "awaiting" =>
                     v.attempts[j].st = "awaiting" /\ w.attempts[j].fails = v.attempts[j].fails
                /\ v.attempts[j].st = "none" => w.attempts[j].st = "none"
           /\ w.attempts[i].st = "awaiting" =>
                /\ w.attempts[i].fails = v.attempts[i].fails + 1
                /\ v.attempts[i].fails + 1 < MaxFailures
<1> DEFINE a == [v.attempts[i] EXCEPT !.fails = v.attempts[i].fails + 1]
           u == [v EXCEPT !.attempts[i] = a]
           w == WrongCode(v, i)
<1>1. v.attempts \in [Ids -> Attempts] /\ v.attempts[i].fails \in Nat /\ MaxFailures \in Nat
  BY VerifierAssumption DEF Ledger, States, Attempts
<1>2. /\ a \in Attempts /\ a.st = "awaiting" /\ a.session = v.attempts[i].session
      /\ a.fails = v.attempts[i].fails + 1
  BY <1>1 DEF Attempts
<1>3. u = [v EXCEPT !.attempts[i].fails = @ + 1]
  OBVIOUS
<1>4. w = IF u.attempts[i].fails < MaxFailures THEN u ELSE CloseThen(u, i, "rejected")
  BY <1>3 DEF WrongCode
<1> HIDE DEF a
<1>5. Ledger(u) /\ u.starts = v.starts /\ u.attempts = [v.attempts EXCEPT ![i] = a]
  <2>1. v.attempts[i].st \in Live /\ a.st \in Live
    BY <1>2 DEF Live
  <2> QED BY <1>2, <2>1, LivesOn
<1> HIDE DEF u, w
<1>6. \A j \in Ids : u.attempts[j] = IF j = i THEN a ELSE v.attempts[j]
  BY <1>1, <1>5
<1>7. CASE u.attempts[i].fails < MaxFailures
  <2>1. w = u
    BY <1>4, <1>7
  <2> QED BY <1>2, <1>5, <1>6, <1>7, <2>1 DEF w
<1>8. CASE ~(u.attempts[i].fails < MaxFailures)
  <2>1. w = CloseThen(u, i, "rejected")
    BY <1>4, <1>8
  <2>2. u.attempts[i].st \in {"awaiting", "cleanup"}
    BY <1>2, <1>6
  <2>3. Ledger(w) /\ Moves(u, w) /\ w.attempts[i].st # "awaiting"
    BY <1>5, <2>1, <2>2, CloseThenKeeps
  <2> QED BY <1>5, <1>6, <2>3 DEF Moves, w
<1> QED BY <1>7, <1>8

\* A Submit: of any attempt, with the clock value of its session.
LEMMA SubmitStep ==
    ASSUME VerifierInv, NEW i \in Ids, NEW code \in {"right", "wrong"}, Submit(i, code)
    PROVE  VerifierInv'
<1> DEFINE a == state.attempts[i]
           t == serving.at
<1>1. /\ UNCHANGED <<now, minted, created>> /\ serving' = NoServing
      /\ fault' \subseteq fault
  BY DEF Submit, UsesFault
<1>2. /\ serving' \in [id : {0} \cup Ids, at : 0 .. MaxTime]
      /\ fault' \subseteq {"read", "close", "issue"} /\ t \in 0 .. MaxTime
  BY <1>1, VerifierAssumption DEF VerifierInv, VerifierTypes, NoServing
<1>3. /\ Ledger(state) /\ Moves(state, state) /\ state.attempts \in [Ids -> Attempts]
      /\ tried \in [Ids -> Nat] /\ issued \in [Ids -> Nat]
  BY MovesNowhere DEF VerifierInv, VerifierTypes, Ledger, States
<1>4. CASE UNCHANGED <<state, tried, issued>>
  BY <1>1, <1>2, <1>3, <1>4, MoveStep
<1>5. CASE Submittable(i) /\ state' = CloseThen(state, i, "expired") /\ UNCHANGED <<tried, issued>>
  <2>1. state.attempts[i].st \in {"awaiting", "cleanup"}
    BY <1>5 DEF Submittable
  <2>2. Ledger(state') /\ Moves(state, state')
    BY <1>3, <1>5, <2>1, CloseThenKeeps
  <2> QED BY <1>1, <1>2, <1>5, <2>2, MoveStep
<1>6. CASE /\ Submittable(i) /\ state' = WrongCode(state, i)
           /\ tried' = [tried EXCEPT ![i] = @ + 1] /\ UNCHANGED issued
  <2>1. /\ a.st = "awaiting" /\ a.fails = tried[i] /\ tried[i] < MaxFailures /\ issued[i] = 0
    BY <1>6 DEF Submittable, VerifierInv, Budgeted
  <2>2. /\ Ledger(state') /\ state'.starts = state.starts
        /\ \A j \in Ids \ {i} :
             /\ state'.attempts[j].st = "awaiting" =>
                  state.attempts[j].st = "awaiting" /\ state'.attempts[j].fails = state.attempts[j].fails
             /\ state.attempts[j].st = "none" => state'.attempts[j].st = "none"
        /\ state'.attempts[i].st = "awaiting" =>
             /\ state'.attempts[i].fails = a.fails + 1
             /\ a.fails + 1 < MaxFailures
    BY <1>3, <1>6, <2>1, WrongCodeKeeps
  <2>3. /\ tried' \in [Ids -> Nat] /\ issued' = issued
        /\ \A j \in Ids : tried'[j] = IF j = i THEN tried[i] + 1 ELSE tried[j]
    BY <1>3, <1>6
  <2>4. VerifierTypes'
    BY <1>1, <1>2, <1>3, <2>3 DEF VerifierInv, VerifierTypes
  <2>5. ~(i > minted)
    BY <2>1 DEF VerifierInv, Unminted
  <2>6. Unminted'
    BY <1>1, <2>2, <2>3, <2>5 DEF VerifierInv, Unminted
  <2>7. Budgeted(state', tried', issued')
    <3>1. ASSUME NEW j \in Ids, state'.attempts[j].st = "awaiting"
          PROVE  /\ state'.attempts[j].fails = tried'[j]
                 /\ tried'[j] < MaxFailures /\ issued'[j] = 0
      <4>1. CASE j = i
        BY <2>1, <2>2, <2>3, <3>1, <4>1
      <4>2. CASE j # i
        BY <2>2, <2>3, <3>1, <4>2 DEF VerifierInv, Budgeted
      <4> QED BY <4>1, <4>2
    <3> QED BY <3>1 DEF Budgeted
  <2>8. OneCertificateInBudget'
    <3>1. tried[i] + 1 <= MaxFailures
      BY <1>3, <2>1, VerifierAssumption
    <3>2. ASSUME NEW j \in Ids
          PROVE  /\ issued'[j] <= 1 /\ tried'[j] <= MaxFailures
                 /\ issued'[j] = 1 => tried'[j] < MaxFailures
      BY <2>1, <2>3, <3>1 DEF VerifierInv, OneCertificateInBudget
    <3> QED BY <3>2 DEF OneCertificateInBudget
  <2>9. Recorded(state', created', now')
    BY <1>1, <2>2 DEF VerifierInv, Recorded
  <2> QED BY <2>2, <2>4, <2>6, <2>7, <2>8, <2>9 DEF VerifierInv
<1>7. CASE /\ Submittable(i) /\ ~CanClose(state, i)
           /\ state' = [state EXCEPT !.attempts[i].st = "cleanup"] /\ UNCHANGED <<tried, issued>>
  <2>1. state.attempts[i].st \in {"awaiting", "cleanup"}
    BY <1>7 DEF Submittable
  <2>2. state' = CloseThen(state, i, "rejected")
    BY <1>7 DEF CloseThen
  <2>3. Ledger(state') /\ Moves(state, state')
    BY <1>3, <2>1, <2>2, CloseThenKeeps
  <2> QED BY <1>1, <1>2, <1>7, <2>3, MoveStep
<1>8. CASE /\ Submittable(i) /\ CanClose(state, i) /\ UNCHANGED <<tried, issued>>
           /\ state' = MarkTerminal(Closed(state, i), i, "rejected")
  <2>1. state.attempts[i].st \in {"awaiting", "cleanup"}
    BY <1>8 DEF Submittable
  <2>2. state' = CloseThen(state, i, "rejected")
    BY <1>8 DEF CloseThen
  <2>3. Ledger(state') /\ Moves(state, state')
    BY <1>3, <2>1, <2>2, CloseThenKeeps
  <2> QED BY <1>1, <1>2, <1>8, <2>3, MoveStep
<1>9. CASE /\ Submittable(i) /\ state' = Issue(Closed(state, i), i, t)
           /\ issued' = [issued EXCEPT ![i] = @ + 1] /\ UNCHANGED tried
  <2> DEFINE u == Closed(state, i)
             b == [a EXCEPT !.st = "issued", !.iss = t]
             w == [u EXCEPT !.attempts[i] = b]
  <2>1. /\ a.st = "awaiting" /\ tried[i] < MaxFailures /\ issued[i] = 0
    BY <1>9 DEF Submittable, VerifierInv, Budgeted
  <2>2. Ledger(u) /\ Moves(state, u) /\ u.attempts = state.attempts
    BY <1>3, ClosedKeeps
  <2>3. b \in Attempts /\ b.st = "issued" /\ b.session = u.attempts[i].session
    <3>1. a \in Attempts /\ t \in 0 .. MaxTime /\ a.session = u.attempts[i].session
      BY <1>2, <1>3, <2>2
    <3> HIDE DEF a, t, u
    <3> QED BY <3>1 DEF Attempts, Live
  <2>4. state' = w
    <3> HIDE DEF u, t
    <3>1. w = [u EXCEPT !.attempts[i].st = "issued", !.attempts[i].iss = t]
      BY <2>2
    <3>2. state' = Issue(u, i, t)
      BY <1>9 DEF u, t
    <3> QED BY <3>1, <3>2 DEF Issue
  <2>5. u.attempts[i].st \in Live /\ b.st \in Live
    BY <2>1, <2>2, <2>3 DEF Live
  <2> HIDE DEF u, b
  <2>6. Ledger(w) /\ w.starts = u.starts /\ w.attempts = [u.attempts EXCEPT ![i] = b]
    BY <2>2, <2>3, <2>5, LivesOn
  <2>7. /\ Ledger(state') /\ state'.starts = state.starts
        /\ \A j \in Ids : state'.attempts[j] = IF j = i THEN b ELSE state.attempts[j]
    BY <1>3, <2>2, <2>4, <2>6 DEF Moves
  <2>8. /\ issued' \in [Ids -> Nat] /\ tried' = tried
        /\ \A j \in Ids : issued'[j] = IF j = i THEN 1 ELSE issued[j]
    BY <1>3, <1>9, <2>1
  <2>9. VerifierTypes'
    BY <1>1, <1>2, <1>3, <2>8 DEF VerifierInv, VerifierTypes
  <2>10. ~(i > minted)
    BY <2>1 DEF VerifierInv, Unminted
  <2>11. Unminted'
    BY <1>1, <2>7, <2>8, <2>10 DEF VerifierInv, Unminted
  <2>12. Budgeted(state', tried', issued')
    BY <2>3, <2>7, <2>8 DEF VerifierInv, Budgeted
  <2>13. OneCertificateInBudget'
    BY <2>1, <2>8 DEF VerifierInv, OneCertificateInBudget
  <2>14. Recorded(state', created', now')
    BY <1>1, <2>7 DEF VerifierInv, Recorded
  <2> QED BY <2>7, <2>9, <2>11, <2>12, <2>13, <2>14 DEF VerifierInv
<1> QED BY <1>4, <1>5, <1>6, <1>7, <1>8, <1>9 DEF Submit

\* A Start first sweeps and forgets; the window of every peer is brought up to
\* the clock.
LEMMA SweptKeeps ==
    ASSUME VerifierInv, NEW bad
    PROVE  LET r == Pruned(Reaped(state, now, bad), now)
               v == [r EXCEPT !.starts = [q \in Peers |-> Recent(r.starts[q], now)]]
           IN /\ Ledger(v) /\ Recorded(v, created, now)
              /\ \A i \in Ids : /\ v.attempts[i].st = "awaiting" =>
                                     /\ state.attempts[i].st = "awaiting"
                                     /\ v.attempts[i].fails = state.attempts[i].fails
                                /\ state.attempts[i].st = "none" => v.attempts[i].st = "none"
<1> DEFINE u == Reaped(state, now, bad)
           r == Pruned(u, now)
           S == [q \in Peers |-> Recent(r.starts[q], now)]
           v == [r EXCEPT !.starts = S]
<1>1. Ledger(u) /\ Moves(state, u)
  BY ReapedKeeps DEF VerifierInv
<1> HIDE DEF u
<1>2. Ledger(r) /\ Moves(u, r)
  BY <1>1, PrunedKeeps
<1> HIDE DEF r
<1>3. r.starts = state.starts
  BY <1>1, <1>2 DEF Moves
<1>4. /\ r.starts \in [Peers -> SUBSET (Ids \X (1 .. MaxTime))]
      /\ \A p \in Peers : IsFiniteSet(r.starts[p]) /\ Cardinality(r.starts[p]) <= MaxPeerStarts
  BY <1>2 DEF Ledger, Limited, States
<1>5. ASSUME NEW p \in Peers
      PROVE  /\ S[p] \in SUBSET (Ids \X (1 .. MaxTime))
             /\ IsFiniteSet(S[p]) /\ Cardinality(S[p]) <= MaxPeerStarts
  <2>1. S[p] \subseteq r.starts[p]
    BY DEF Recent
  <2>2. IsFiniteSet(S[p]) /\ Cardinality(S[p]) <= Cardinality(r.starts[p])
    BY <1>4, <2>1, FS_Subset
  <2>3. Cardinality(S[p]) \in Nat /\ Cardinality(r.starts[p]) \in Nat /\ MaxPeerStarts \in Nat
    BY <1>4, <2>2, FS_CardinalityType, VerifierAssumption
  <2>4. Cardinality(r.starts[p]) <= MaxPeerStarts
    BY <1>4
  <2> HIDE DEF S
  <2>5. Cardinality(S[p]) <= MaxPeerStarts
    BY <2>2, <2>3, <2>4
  <2> QED BY <1>4, <2>1, <2>2, <2>5
<1>6. S \in [Peers -> SUBSET (Ids \X (1 .. MaxTime))]
  BY <1>5
<1>7. \A p \in Peers : S[p] = Recent(r.starts[p], now)
  OBVIOUS
<1> HIDE DEF S
<1>8. Ledger(v) /\ v.attempts = r.attempts /\ v.starts = S
  BY <1>2, <1>5, <1>6, StartsChange
<1>9. Recorded(v, created, now)
  BY <1>3, <1>7, <1>8 DEF VerifierInv, Recorded, Recent
<1> HIDE DEF v
<1>10. \A i \in Ids : /\ v.attempts[i].st = "awaiting" =>
                           /\ state.attempts[i].st = "awaiting"
                           /\ v.attempts[i].fails = state.attempts[i].fails
                      /\ state.attempts[i].st = "none" => v.attempts[i].st = "none"
  BY <1>1, <1>2, <1>8 DEF Moves
<1> QED BY <1>8, <1>9, <1>10 DEF v, S, r, u

\* One start more of a peer below its limit.
LEMMA StartCounted ==
    ASSUME NEW v, Ledger(v), NEW p \in Peers, Cardinality(v.starts[p]) < MaxPeerStarts,
           NEW e \in Ids \X (1 .. MaxTime)
    PROVE  LET w == [v EXCEPT !.starts[p] = @ \cup {e}] IN
           /\ Ledger(w) /\ w.attempts = v.attempts /\ w.fence = v.fence /\ w.spaces = v.spaces
           /\ \A q \in Peers : w.starts[q] = IF q = p THEN v.starts[p] \cup {e} ELSE v.starts[q]
<1> DEFINE S == [v.starts EXCEPT ![p] = @ \cup {e}]
<1>1. /\ v.starts \in [Peers -> SUBSET (Ids \X (1 .. MaxTime))]
      /\ \A q \in Peers : IsFiniteSet(v.starts[q]) /\ Cardinality(v.starts[q]) <= MaxPeerStarts
  BY DEF Ledger, Limited, States
<1>2. \A q \in Peers : S[q] = IF q = p THEN v.starts[p] \cup {e} ELSE v.starts[q]
  BY <1>1
<1>3. S \in [Peers -> SUBSET (Ids \X (1 .. MaxTime))]
  BY <1>1
<1>4. IsFiniteSet(v.starts[p] \cup {e}) /\ Cardinality(v.starts[p] \cup {e}) <= MaxPeerStarts
  <2>1. IsFiniteSet(v.starts[p]) /\ Cardinality(v.starts[p]) \in Nat /\ MaxPeerStarts \in Nat
    BY <1>1, FS_CardinalityType, VerifierAssumption
  <2>2. CASE e \in v.starts[p]
    <3>1. v.starts[p] \cup {e} = v.starts[p]
      BY <2>2
    <3> QED BY <1>1, <3>1
  <2>3. CASE e \notin v.starts[p]
    <3>1. /\ IsFiniteSet(v.starts[p] \cup {e})
          /\ Cardinality(v.starts[p] \cup {e}) = Cardinality(v.starts[p]) + 1
      BY <2>1, <2>3, FS_AddElement
    <3> QED BY <2>1, <3>1
  <2> QED BY <2>2, <2>3
<1> HIDE DEF S
<1>5. \A q \in Peers : IsFiniteSet(S[q]) /\ Cardinality(S[q]) <= MaxPeerStarts
  BY <1>1, <1>2, <1>4
<1>6. LET w == [v EXCEPT !.starts = S] IN
      /\ Ledger(w) /\ w.attempts = v.attempts /\ w.fence = v.fence
      /\ w.spaces = v.spaces /\ w.starts = S
  BY <1>3, <1>5, StartsChange
<1>7. [v EXCEPT !.starts[p] = @ \cup {e}] = [v EXCEPT !.starts = S]
  BY DEF S
<1> QED BY <1>2, <1>6, <1>7

\* A Start: refused, rolled back, orphaned or opened.
LEMMA StartStep ==
    ASSUME VerifierInv, NEW p \in Peers, NEW s \in Sessions, Start(p, s)
    PROVE  VerifierInv'
<1>1. PICK bad \in Failing(state, now) :
         LET r  == Pruned(Reaped(state, now, bad), now)
             v  == [r EXCEPT !.starts = [q \in Peers |-> Recent(r.starts[q], now)]]
             i  == minted + 1
             v1 == [v EXCEPT !.starts[p] = @ \cup {<<i, now>>}]
             left == IF bad = 0 THEN fault ELSE fault \ {"close"}
         IN \/ /\ state' = v /\ fault' = left
               /\ UNCHANGED <<minted, serving, created>>
            \/ /\ Admit(v, p, s) /\ minted < MaxIds
               /\ minted' = i
               /\ created' = [created EXCEPT ![p] = @ \cup {<<i, now>>}]
               /\ \/ /\ state' \in {v1, [v1 EXCEPT !.spaces = @ \cup {<<i, s>>}]}
                     /\ fault' = left \ {"read", "close"}
                     /\ UNCHANGED serving
                  \/ /\ state' = [v1 EXCEPT
                              !.spaces = @ \cup {<<i, s>>}, !.fence[s] = i,
                              !.attempts[i] = [Gone EXCEPT !.st = "awaiting", !.session = s,
                                                           !.at = now]]
                     /\ fault' = left
                     /\ serving' = [id |-> i, at |-> now]
  BY DEF Start
<1> DEFINE r  == Pruned(Reaped(state, now, bad), now)
           v  == [r EXCEPT !.starts = [q \in Peers |-> Recent(r.starts[q], now)]]
           i  == minted + 1
           e  == <<i, now>>
           v1 == [v EXCEPT !.starts[p] = @ \cup {e}]
           a  == [Gone EXCEPT !.st = "awaiting", !.session = s, !.at = now]
<1>2. /\ Ledger(v) /\ Recorded(v, created, now)
      /\ \A j \in Ids : /\ v.attempts[j].st = "awaiting" =>
                             /\ state.attempts[j].st = "awaiting"
                             /\ v.attempts[j].fails = state.attempts[j].fails
                        /\ state.attempts[j].st = "none" => v.attempts[j].st = "none"
  BY SweptKeeps
<1>3. /\ now' = now /\ tried' = tried /\ issued' = issued
      /\ now \in 1 .. MaxTime /\ minted \in 0 .. MaxIds
      /\ fault' \subseteq {"read", "close", "issue"}
      /\ created \in [Peers -> SUBSET (Ids \X (1 .. MaxTime))]
      /\ tried \in [Ids -> Nat] /\ issued \in [Ids -> Nat]
      /\ serving \in [id : {0} \cup Ids, at : 0 .. MaxTime]
  BY <1>1 DEF Start, VerifierInv, VerifierTypes
<1>4. OneCertificateInBudget'
  BY <1>3 DEF VerifierInv, OneCertificateInBudget
<1>5. Budgeted(v, tried, issued)
  BY <1>2 DEF VerifierInv, Budgeted
<1> HIDE DEF v, r
<1>6. CASE state' = v /\ UNCHANGED <<minted, serving, created>>
  <2>1. VerifierTypes'
    BY <1>3, <1>6 DEF VerifierTypes
  <2>2. Unminted'
    BY <1>2, <1>3, <1>6 DEF VerifierInv, Unminted
  <2> QED BY <1>2, <1>3, <1>4, <1>5, <1>6, <2>1, <2>2 DEF VerifierInv
<1>7. CASE /\ Admit(v, p, s) /\ minted < MaxIds /\ minted' = i
           /\ created' = [created EXCEPT ![p] = @ \cup {e}]
           /\ \/ state' \in {v1, [v1 EXCEPT !.spaces = @ \cup {<<i, s>>}]} /\ UNCHANGED serving
              \/ /\ state' = [v1 EXCEPT !.spaces = @ \cup {<<i, s>>}, !.fence[s] = i,
                                        !.attempts[i] = a]
                 /\ serving' = [id |-> i, at |-> now]
  <2>1. i \in Ids /\ i > minted /\ e \in Ids \X (1 .. MaxTime) /\ i \in 0 .. MaxIds
        /\ e[2] = now
    <3>1. minted \in Nat /\ MaxIds \in Nat /\ minted < MaxIds
      BY <1>3, <1>7, VerifierAssumption
    <3>2. minted + 1 \in 1 .. MaxIds /\ minted + 1 \in 0 .. MaxIds /\ minted + 1 > minted
      BY <3>1
    <3>3. i \in Ids /\ i > minted /\ i \in 0 .. MaxIds
      BY <3>2 DEF Ids
    <3> HIDE DEF i
    <3> QED BY <1>3, <3>3
  <2>2. v.attempts[i].st = "none" /\ tried[i] = 0 /\ issued[i] = 0
    BY <1>2, <2>1 DEF VerifierInv, Unminted
  <2>3. /\ Cardinality(Retained(v)) < MaxRetained /\ Cardinality(Fenced(v)) < MaxActive
        /\ Cardinality(v.starts[p]) < MaxPeerStarts /\ v.fence[s] = 0
    BY <1>7 DEF Admit, Retained, Fenced
  <2>4. /\ Ledger(v1) /\ v1.attempts = v.attempts /\ v1.fence = v.fence /\ v1.spaces = v.spaces
        /\ \A q \in Peers : v1.starts[q] = IF q = p THEN v.starts[p] \cup {e} ELSE v.starts[q]
    <3> HIDE DEF e
    <3> QED BY <1>2, <2>1, <2>3, StartCounted
  <2> DEFINE S == v1.spaces \cup {<<i, s>>}
  <2>5. S \in SUBSET (Ids \X Sessions)
    <3>1. v1.spaces \in SUBSET (Ids \X Sessions)
      BY <2>4 DEF Ledger, States
    <3> QED BY <2>1, <3>1
  <2>6. a \in Attempts /\ a.st = "awaiting" /\ a.session = s /\ a.fails = 0
    <3>1. 0 \in 0 .. MaxTime /\ 0 \in 0 .. MaxFailures /\ now \in 0 .. MaxTime
      BY <1>3, VerifierAssumption
    <3> QED BY <3>1 DEF Attempts, Gone, Live
  <2> HIDE DEF a, v1, e
  <2>7. /\ Ledger(state') /\ state'.starts = v1.starts
        /\ \/ state'.attempts = v.attempts /\ serving' = serving
           \/ /\ \A j \in Ids : state'.attempts[j] = IF j = i THEN a ELSE v.attempts[j]
              /\ serving' = [id |-> i, at |-> now]
    <3>1. CASE state' = v1 /\ UNCHANGED serving
      BY <2>4, <3>1
    <3>2. CASE state' = [v1 EXCEPT !.spaces = S] /\ UNCHANGED serving
      <4> HIDE DEF S
      <4>1. LET w == [v1 EXCEPT !.spaces = S] IN
            Ledger(w) /\ w.starts = v1.starts /\ w.attempts = v1.attempts
        BY <2>4, <2>5, SpacesChange
      <4> QED BY <2>4, <3>2, <4>1
    <3>3. CASE /\ state' = [v1 EXCEPT !.spaces = S, !.fence[s] = i, !.attempts[i] = a]
               /\ serving' = [id |-> i, at |-> now]
      <4>1. /\ v1.attempts[i].st = "none" /\ v1.fence[s] = 0
            /\ Cardinality(Retained(v1)) < MaxRetained /\ Cardinality(Fenced(v1)) < MaxActive
        BY <2>2, <2>3, <2>4 DEF Retained, Fenced
      <4> HIDE DEF S, i
      <4>2. LET w == [v1 EXCEPT !.spaces = S, !.fence[s] = i, !.attempts[i] = a] IN
            /\ Ledger(w) /\ w.starts = v1.starts
            /\ \A j \in Ids : w.attempts[j] = IF j = i THEN a ELSE v1.attempts[j]
        <5> DEFINE w == [v1 EXCEPT !.spaces = S, !.fence[s] = i, !.attempts[i] = a]
                   A == [v1.attempts EXCEPT ![i] = a]
                   F == [v1.fence EXCEPT ![s] = i]
        <5>1. v1 \in States
          BY <2>4 DEF Ledger
        <5>2. w = [v1 EXCEPT !.spaces = S, !.fence = F, !.attempts = A]
          OBVIOUS
        <5>3. A \in [Ids -> Attempts] /\ F \in [Sessions -> {0} \cup Ids]
          BY <2>1, <2>6, <5>1 DEF States
        <5>4. /\ \A j \in Ids : A[j] = IF j = i THEN a ELSE v1.attempts[j]
              /\ \A x \in Sessions : F[x] = IF x = s THEN i ELSE v1.fence[x]
          BY <5>1 DEF States
        <5> HIDE DEF A, F, w
        <5>5. w \in States /\ w.attempts = A /\ w.fence = F /\ w.starts = v1.starts
          BY <2>5, <5>1, <5>2, <5>3 DEF States
        <5>6. Opens(v1, w, i, s)
          BY <2>1, <2>6, <5>4, <5>5 DEF Opens
        <5>7. Ledger(w)
          BY <2>1, <2>4, <4>1, <5>6, Opened
        <5> QED BY <5>4, <5>5, <5>7 DEF w
      <4> QED BY <2>4, <3>3, <4>2
    <3> QED BY <1>7, <3>1, <3>2, <3>3
  <2>8. VerifierTypes'
    <3>1. serving' \in [id : {0} \cup Ids, at : 0 .. MaxTime]
      <4>1. now \in 0 .. MaxTime
        BY <1>3, VerifierAssumption
      <4> HIDE DEF i
      <4> QED BY <1>3, <2>1, <2>7, <4>1
    <3>2. created' \in [Peers -> SUBSET (Ids \X (1 .. MaxTime))]
      BY <1>3, <1>7, <2>1
    <3> QED BY <1>3, <1>7, <2>1, <3>1, <3>2 DEF VerifierTypes
  <2>9. Unminted'
    <3>1. ASSUME NEW j \in Ids, j > minted'
          PROVE  state'.attempts[j].st = "none" /\ tried'[j] = 0 /\ issued'[j] = 0
      <4>1. j > minted /\ j # i
        BY <1>3, <1>7, <2>1, <3>1 DEF Ids
      <4>2. v.attempts[j].st = "none" /\ tried[j] = 0 /\ issued[j] = 0
        BY <1>2, <4>1 DEF VerifierInv, Unminted
      <4> QED BY <1>3, <2>7, <4>1, <4>2
    <3> QED BY <3>1 DEF Unminted
  <2>10. Budgeted(state', tried', issued')
    <3>1. 0 < MaxFailures
      BY VerifierAssumption
    <3>2. ASSUME NEW j \in Ids, state'.attempts[j].st = "awaiting"
          PROVE  /\ state'.attempts[j].fails = tried[j]
                 /\ tried[j] < MaxFailures /\ issued[j] = 0
      <4>1. CASE j = i
        BY <2>2, <2>6, <2>7, <3>1, <3>2, <4>1
      <4>2. CASE j # i
        BY <1>5, <2>7, <3>2, <4>2 DEF Budgeted
      <4> QED BY <4>1, <4>2
    <3> QED BY <1>3, <3>2 DEF Budgeted
  <2>11. Recorded(state', created', now')
    <3>1. ASSUME NEW q \in Peers, NEW x \in created'[q], now - x[2] < Window
          PROVE  x \in v1.starts[q]
      <4>1. CASE x \in created[q]
        <5>1. x \in v.starts[q]
          BY <1>2, <3>1, <4>1 DEF Recorded
        <5> QED BY <2>4, <5>1
      <4>2. CASE x \notin created[q]
        <5>1. q = p /\ x = e
          BY <1>3, <1>7, <3>1, <4>2
        <5> QED BY <2>4, <5>1
      <4> QED BY <4>1, <4>2
    <3> QED BY <1>3, <2>7, <3>1 DEF Recorded
  <2> QED BY <1>4, <2>7, <2>8, <2>9, <2>10, <2>11 DEF VerifierInv
<1>8. \/ state' = v /\ UNCHANGED <<minted, serving, created>>
      \/ /\ Admit(v, p, s) /\ minted < MaxIds /\ minted' = i
         /\ created' = [created EXCEPT ![p] = @ \cup {e}]
         /\ \/ state' \in {v1, [v1 EXCEPT !.spaces = @ \cup {<<i, s>>}]} /\ UNCHANGED serving
            \/ /\ state' = [v1 EXCEPT !.spaces = @ \cup {<<i, s>>}, !.fence[s] = i,
                                      !.attempts[i] = a]
               /\ serving' = [id |-> i, at |-> now]
  BY <1>1 DEF v, r
<1> QED BY <1>6, <1>7, <1>8

\* Before the first Start nothing is kept and nothing is counted.
LEMMA InitVerifier == Init => VerifierInv
<1> SUFFICES ASSUME Init PROVE VerifierInv
  OBVIOUS
<1> USE DEF Init
<1>1. VerifierTypes
  BY VerifierAssumption DEF VerifierTypes, NoServing
<1>2. state \in States
  <2>1. 0 \in 0 .. MaxTime /\ 0 \in 0 .. MaxFailures
    BY VerifierAssumption
  <2>2. Gone \in Attempts
    BY <2>1 DEF Attempts, Gone, Live
  <2> QED BY <2>2 DEF States
<1>3. \A i \in Ids : state.attempts[i].st = "none"
  BY DEF Gone
<1>4. Matches(state)
  BY <1>3 DEF Matches, Live
<1>5. Limited(state)
  <2>1. Retained(state) = {}
    BY <1>3 DEF Retained
  <2>2. Fenced(state) = {} /\ \A p \in Peers : state.starts[p] = {}
    BY DEF Fenced
  <2>3. IsFiniteSet({}) /\ Cardinality({}) = 0
    BY FS_EmptySet
  <2>4. 0 <= MaxRetained /\ 0 <= MaxActive /\ 0 <= MaxPeerStarts
    BY VerifierAssumption
  <2> QED BY <2>1, <2>2, <2>3, <2>4 DEF Limited
<1>6. Unminted
  BY <1>3 DEF Unminted
<1>7. Budgeted(state, tried, issued)
  BY <1>3 DEF Budgeted
<1>8. OneCertificateInBudget
  BY VerifierAssumption DEF OneCertificateInBudget
<1>9. Recorded(state, created, now)
  BY DEF Recorded
<1> QED BY <1>1, <1>2, <1>4, <1>5, <1>6, <1>7, <1>8, <1>9 DEF VerifierInv, Ledger

\* Every call of the verifier, and the clock, keeps the invariant.
LEMMA VerifierStep == VerifierInv /\ [Next]_verifierVars => VerifierInv'
<1> SUFFICES ASSUME VerifierInv, [Next]_verifierVars PROVE VerifierInv'
  OBVIOUS
<1>1. CASE UNCHANGED verifierVars
  <2>1. /\ UNCHANGED <<now, minted, tried, issued, created>>
        /\ state' = state /\ serving' = serving /\ fault' = fault
    BY <1>1 DEF verifierVars
  <2>2. Ledger(state') /\ Moves(state, state')
    BY <2>1, MovesNowhere DEF VerifierInv
  <2>3. /\ serving' \in [id : {0} \cup Ids, at : 0 .. MaxTime]
        /\ fault' \subseteq {"read", "close", "issue"}
    BY <2>1 DEF VerifierInv, VerifierTypes
  <2> QED BY <2>1, <2>2, <2>3, MoveStep
<1>2. CASE \E p \in Peers, s \in Sessions : Start(p, s)
  BY <1>2, StartStep
<1>3. CASE \E i \in Ids, code \in {"right", "wrong"} : Submit(i, code)
  BY <1>3, SubmitStep
<1>4. CASE \/ SessionLost \/ ReapExpired
           \/ \E i \in Ids : Reconcile(i) \/ RetryCleanup(i)
           \/ \E s \in Sessions : RetryOrphanedWorkspace(s)
           \/ \E f \in {"read", "close", "issue"} : FailNext(f)
  BY <1>4, UpkeepStep
<1>5. CASE Tick
  BY <1>5, TickStep
<1> QED BY <1>1, <1>2, <1>3, <1>4, <1>5 DEF Next

\* The invariant holds in every state of the verifier.
LEMMA VerifierInvariant == Spec => []VerifierInv
BY InitVerifier, VerifierStep, PTL DEF Spec

\* What is recent of a peer's history is part of its window.
LEMMA RateFollows == VerifierInv => StartRateHolds
<1> SUFFICES ASSUME VerifierInv, NEW p \in Peers
             PROVE  Cardinality({e \in created[p] : now - e[2] < Window}) <= MaxPeerStarts
  BY DEF StartRateHolds
<1> DEFINE R == {e \in created[p] : now - e[2] < Window}
<1>1. R \subseteq state.starts[p]
  BY DEF VerifierInv, Recorded
<1>2. IsFiniteSet(state.starts[p]) /\ Cardinality(state.starts[p]) <= MaxPeerStarts
  BY DEF VerifierInv, Ledger, Limited
<1> HIDE DEF R
<1>3. IsFiniteSet(R) /\ Cardinality(R) <= Cardinality(state.starts[p])
  BY <1>1, <1>2, FS_Subset
<1>4. Cardinality(R) \in Nat /\ Cardinality(state.starts[p]) \in Nat /\ MaxPeerStarts \in Nat
  BY <1>2, <1>3, FS_CardinalityType, VerifierAssumption
<1>5. Cardinality(R) <= MaxPeerStarts
  BY <1>2, <1>3, <1>4
<1> QED BY <1>5 DEF R

\* A Herdr session is fenced by exactly the one attempt of it that has not
\* ended, for any number of sessions, peers and attempts, whatever close, read
\* or issue fails and whatever a Start sweeps and prunes on the way.
THEOREM VerifierFenceMatches == Spec => []FenceMatches
<1>1. VerifierInv => FenceMatches
  BY DEF VerifierInv, Ledger, Matches, FenceMatches
<1> QED BY <1>1, VerifierInvariant, PTL

\* The limits of bootstrap.rs: active and retained attempts, one certificate
\* inside the budget of wrong codes, and the start rate of a peer in every
\* window, for any values of the limits and of the lifetimes.
THEOREM VerifierLimitsHold == Spec => []LimitsHold
<1>1. VerifierInv => TypeOK
  <2> SUFFICES ASSUME VerifierInv PROVE TypeOK
    OBVIOUS
  <2>1. VerifierTypes
    BY DEF VerifierInv
  <2>2. state \in States
    BY DEF VerifierInv, Ledger
  <2>3. /\ Cardinality({i \in Ids : state.attempts[i].st # "none"}) <= MaxRetained
        /\ Cardinality({s \in Sessions : state.fence[s] # 0}) <= MaxActive
    BY DEF VerifierInv, Ledger, Limited, Retained, Fenced
  <2> QED BY <2>1, <2>2, <2>3 DEF TypeOK, VerifierTypes, States, Attempts
<1>2. VerifierInv => OneCertificateInBudget
  BY DEF VerifierInv
<1>3. VerifierInv => LimitsHold
  BY <1>1, <1>2, RateFollows DEF LimitsHold
<1> QED BY <1>3, VerifierInvariant, PTL

-----------------------------------------------------------------------------
(* Slices of a byte string *)

Strings == Seq(W!Byte)

\* A slice within its string.
LEMMA SliceIs ==
    ASSUME NEW b \in Strings, NEW i \in Nat, NEW j \in Nat, i <= j, j <= Len(b)
    PROVE  /\ W!Slice(b, i, j) = SubSeq(b, i + 1, j)
           /\ W!Slice(b, i, j) \in Strings /\ Len(W!Slice(b, i, j)) = j - i
           /\ \A k \in 1 .. j - i : W!Slice(b, i, j)[k] = b[i + k]
<1>1. Len(b) \in Nat /\ DOMAIN b = 1 .. Len(b) /\ b \in Seq(W!Byte)
  BY LenProperties DEF Strings
<1>2. W!Slice(b, i, j) = SubSeq(b, i + 1, j)
  BY <1>1 DEF W!Slice
<1>3. i + 1 \in Int /\ j \in Int /\ \A k \in i + 1 .. j : b[k] \in W!Byte
  <2>1. \A k \in 1 .. Len(b) : b[k] \in W!Byte
    BY <1>1, ElementOfSeq
  <2> QED BY <1>1, <2>1
<1>4. /\ SubSeq(b, i + 1, j) \in Seq(W!Byte)
      /\ Len(SubSeq(b, i + 1, j)) = IF i + 1 <= j THEN j - (i + 1) + 1 ELSE 0
      /\ \A k \in 1 .. j - (i + 1) + 1 : SubSeq(b, i + 1, j)[k] = b[(i + 1) + k - 1]
  BY <1>3, SubSeqProperties
<1> QED BY <1>2, <1>4 DEF Strings

\* Slices that follow each other.
LEMMA SliceJoin ==
    ASSUME NEW b \in Strings, NEW i \in Nat, NEW j \in Nat, NEW k \in Nat,
           i <= j, j <= k, k <= Len(b)
    PROVE  W!Slice(b, i, j) \o W!Slice(b, j, k) = W!Slice(b, i, k)
<1>1. Len(b) \in Nat /\ b \in Seq(W!Byte)
  BY LenProperties DEF Strings
<1>2. /\ W!Slice(b, i, j) = SubSeq(b, i + 1, j) /\ W!Slice(b, j, k) = SubSeq(b, j + 1, k)
      /\ W!Slice(b, i, k) = SubSeq(b, i + 1, k)
  <2>1. i <= k /\ j <= Len(b)
    BY <1>1
  <2> QED BY <2>1, SliceIs
<1>3. i + 1 \in 1 .. Len(b) + 1 /\ j \in (i + 1) - 1 .. Len(b) /\ k \in j .. Len(b)
  BY <1>1
<1> QED BY <1>1, <1>2, <1>3, ConcatAdjacentSubSeq

\* The whole string is a slice.
LEMMA SliceAll ==
    ASSUME NEW b \in Strings
    PROVE  W!Slice(b, 0, Len(b)) = b /\ Len(b) \in Nat
<1>1. Len(b) \in Nat /\ b \in Seq(W!Byte)
  BY LenProperties DEF Strings
<1>2. W!Slice(b, 0, Len(b)) = SubSeq(b, 1, Len(b))
  BY <1>1 DEF W!Slice
<1> QED BY <1>1, <1>2, SubSeqFull

\* The end of a string.
LEMMA JoinEnd ==
    ASSUME NEW b \in Strings, NEW j \in Nat, j <= Len(b)
    PROVE  W!Slice(b, 0, j) \o W!Slice(b, j, Len(b)) = b
<1>1. Len(b) \in Nat /\ W!Slice(b, 0, Len(b)) = b
  BY SliceAll
<1>2. 0 \in Nat /\ 0 <= j /\ Len(b) <= Len(b)
  BY <1>1
<1>3. W!Slice(b, 0, j) \o W!Slice(b, j, Len(b)) = W!Slice(b, 0, Len(b))
  BY <1>1, <1>2, SliceJoin
<1> QED BY <1>1, <1>3

\* One byte.
LEMMA SliceOne ==
    ASSUME NEW b \in Strings, NEW i \in Nat, i < Len(b)
    PROVE  <<b[i + 1]>> = W!Slice(b, i, i + 1) /\ b[i + 1] \in W!Byte
<1>1. Len(b) \in Nat /\ b \in Seq(W!Byte) /\ i + 1 \in 1 .. Len(b)
  BY LenProperties DEF Strings
<1>2. b[i + 1] \in W!Byte
  BY <1>1, ElementOfSeq
<1>3. /\ W!Slice(b, i, i + 1) \in Seq(W!Byte) /\ Len(W!Slice(b, i, i + 1)) = 1
      /\ W!Slice(b, i, i + 1)[1] = b[i + 1]
  <2>1. i + 1 \in Nat /\ i <= i + 1 /\ i + 1 <= Len(b) /\ (i + 1) - i = 1 /\ 1 \in 1 .. 1
    BY <1>1
  <2>2. /\ W!Slice(b, i, i + 1) \in Strings /\ Len(W!Slice(b, i, i + 1)) = (i + 1) - i
        /\ \A k \in 1 .. (i + 1) - i : W!Slice(b, i, i + 1)[k] = b[i + k]
    BY <2>1, SliceIs
  <2> QED BY <2>1, <2>2 DEF Strings
<1>4. <<b[i + 1]>> \in Seq(W!Byte) /\ Len(<<b[i + 1]>>) = 1 /\ <<b[i + 1]>>[1] = b[i + 1]
  BY <1>2
<1> QED BY <1>2, <1>3, <1>4, SeqEqual

\* Two bytes next to each other.
LEMMA PairOfBytes ==
    ASSUME NEW x \in W!Byte, NEW y \in W!Byte
    PROVE  <<x>> \o <<y>> = <<x, y>> /\ <<x, y>> \in Strings /\ Len(<<x, y>>) = 2
<1>1. <<x>> \in Seq(W!Byte) /\ <<y>> \in Seq(W!Byte) /\ Len(<<x>>) = 1 /\ Len(<<y>>) = 1
      /\ <<x, y>> \in Seq(W!Byte) /\ Len(<<x, y>>) = 2
  OBVIOUS
<1>2. /\ <<x>> \o <<y>> \in Seq(W!Byte) /\ Len(<<x>> \o <<y>>) = 2
      /\ \A i \in 1 .. 2 : (<<x>> \o <<y>>)[i] = IF i <= 1 THEN <<x>>[i] ELSE <<y>>[i - 1]
  <2>1. /\ <<x>> \o <<y>> \in Seq(W!Byte) /\ Len(<<x>> \o <<y>>) = Len(<<x>>) + Len(<<y>>)
        /\ \A i \in 1 .. Len(<<x>>) + Len(<<y>>) :
              (<<x>> \o <<y>>)[i] = IF i <= Len(<<x>>) THEN <<x>>[i] ELSE <<y>>[i - Len(<<x>>)]
    BY <1>1, ConcatProperties
  <2> QED BY <1>1, <2>1
<1>3. (<<x>> \o <<y>>)[1] = x /\ (<<x>> \o <<y>>)[2] = y
  BY <1>2
<1>4. \A i \in 1 .. 2 : (<<x>> \o <<y>>)[i] = <<x, y>>[i]
  <2>1. \A i \in 1 .. 2 : i = 1 \/ i = 2
    OBVIOUS
  <2>2. <<x, y>>[1] = x /\ <<x, y>>[2] = y
    OBVIOUS
  <2> QED BY <1>3, <2>1, <2>2
<1> QED BY <1>1, <1>2, <1>4, SeqEqual DEF Strings

\* The largest u16 and the longest frame.
LEMMA U16Limit == W!MaxU16 \in Nat /\ W!MaxU16 + 1 = 256 * 256 /\ W!MaxFrame = 256 * 256
BY DEF W!MaxU16, W!MaxFrame

\* The number of two bytes gives them back.
LEMMA TwoBytes ==
    ASSUME NEW x \in 0 .. 255, NEW y \in 0 .. 255
    PROVE  /\ (256 * x + y) \div 256 = x /\ (256 * x + y) % 256 = y
           /\ 256 * x + y \in 0 .. W!MaxU16
<1>1. (256 * x + y) \div 256 = x
  OBVIOUS
<1>2. (256 * x + y) % 256 = y
  OBVIOUS
<1>3. 256 * x + y \in 0 .. W!MaxU16
  BY U16Limit
<1> QED BY <1>1, <1>2, <1>3

\* A number in two bytes.
LEMMA SliceU16 ==
    ASSUME NEW b \in Strings, NEW i \in Nat, i + 2 <= Len(b)
    PROVE  /\ W!U16(W!FromU16(b, i)) = W!Slice(b, i, i + 2)
           /\ W!FromU16(b, i) \in 0 .. W!MaxU16
<1>1. Len(b) \in Nat
  BY SliceAll
<1>2. /\ <<b[i + 1]>> = W!Slice(b, i, i + 1) /\ b[i + 1] \in W!Byte
      /\ <<b[(i + 1) + 1]>> = W!Slice(b, i + 1, (i + 1) + 1) /\ b[(i + 1) + 1] \in W!Byte
  BY <1>1, SliceOne
<1>3. (i + 1) + 1 = i + 2 /\ i + 1 \in Nat /\ i + 2 \in Nat /\ i <= i + 1 /\ i + 1 <= i + 2
  OBVIOUS
<1>4. W!Slice(b, i, i + 1) \o W!Slice(b, i + 1, i + 2) = W!Slice(b, i, i + 2)
  BY <1>3, SliceJoin
<1>5. <<b[i + 1], b[i + 2]>> = W!Slice(b, i, i + 2)
  BY <1>2, <1>3, <1>4, PairOfBytes
<1>6. b[i + 1] \in 0 .. 255 /\ b[i + 2] \in 0 .. 255
  BY <1>2, <1>3 DEF W!Byte
<1>7. /\ (256 * b[i + 1] + b[i + 2]) \div 256 = b[i + 1]
      /\ (256 * b[i + 1] + b[i + 2]) % 256 = b[i + 2]
      /\ 256 * b[i + 1] + b[i + 2] \in 0 .. W!MaxU16
  <2>1. PICK x \in 0 .. 255, y \in 0 .. 255 : x = b[i + 1] /\ y = b[i + 2]
    BY <1>6
  <2>2. /\ (256 * x + y) \div 256 = x /\ (256 * x + y) % 256 = y
        /\ 256 * x + y \in 0 .. W!MaxU16
    BY TwoBytes
  <2> QED BY <2>1, <2>2
<1>8. W!U16(W!FromU16(b, i)) = <<(256 * b[i + 1] + b[i + 2]) \div 256,
                                 (256 * b[i + 1] + b[i + 2]) % 256>>
  BY Zenon DEF W!U16, W!FromU16
<1>9. W!U16(W!FromU16(b, i)) = <<b[i + 1], b[i + 2]>>
  BY <1>7, <1>8, Zenon
<1> QED BY <1>5, <1>7, <1>9 DEF W!FromU16

\* A length in four bytes, below the largest frame.
LEMMA SliceU32 ==
    ASSUME NEW b \in Strings, NEW i \in Nat, i + 4 <= Len(b), W!FromU32(b, i) < W!MaxFrame
    PROVE  /\ W!U32(W!FromU32(b, i)) = W!Slice(b, i, i + 4)
           /\ W!FromU32(b, i) \in 0 .. W!MaxU16
<1>1. Len(b) \in Nat
  BY SliceAll
<1>2. b[i + 1] = 0 /\ b[i + 2] = 0 /\ W!FromU32(b, i) = W!FromU16(b, i + 2)
  BY DEF W!FromU32, W!MaxFrame
<1>3. /\ W!U16(W!FromU16(b, i + 2)) = W!Slice(b, i + 2, (i + 2) + 2)
      /\ W!FromU16(b, i + 2) \in 0 .. W!MaxU16
  <2>1. i + 2 \in Nat /\ (i + 2) + 2 <= Len(b)
    BY <1>1
  <2> QED BY <2>1, SliceU16
<1>4. /\ <<b[i + 1]>> = W!Slice(b, i, i + 1)
      /\ <<b[(i + 1) + 1]>> = W!Slice(b, i + 1, (i + 1) + 1)
  BY <1>1, SliceOne
<1>5. (i + 1) + 1 = i + 2 /\ (i + 2) + 2 = i + 4
  OBVIOUS
<1>6. <<0>> \o <<0>> = W!Slice(b, i, i + 2)
  <2>1. W!Slice(b, i, i + 1) \o W!Slice(b, i + 1, i + 2) = W!Slice(b, i, i + 2)
    BY <1>1, SliceJoin
  <2> QED BY <1>2, <1>4, <1>5, <2>1
<1>7. <<0, 0>> = <<0>> \o <<0>>
  <2>1. 0 \in W!Byte
    BY DEF W!Byte
  <2> QED BY <2>1, PairOfBytes
<1>8. W!Slice(b, i, i + 2) \o W!Slice(b, i + 2, i + 4) = W!Slice(b, i, i + 4)
  <2>1. i + 2 \in Nat /\ i + 4 \in Nat /\ i <= i + 2 /\ i + 2 <= i + 4
    OBVIOUS
  <2> QED BY <2>1, SliceJoin
<1>9. W!U32(W!FromU32(b, i)) = <<0, 0>> \o W!U16(W!FromU16(b, i + 2))
  BY <1>2 DEF W!U32
<1> QED BY <1>2, <1>3, <1>5, <1>6, <1>7, <1>8, <1>9

\* A slice of the end of a string.
LEMMA SliceOfEnd ==
    ASSUME NEW b \in Strings, NEW n \in Nat, NEW i \in Nat, NEW j \in Nat,
           i <= j, n + j <= Len(b)
    PROVE  /\ W!Slice(b, n, Len(b)) \in Strings /\ Len(W!Slice(b, n, Len(b))) = Len(b) - n
           /\ W!Slice(W!Slice(b, n, Len(b)), i, j) = W!Slice(b, n + i, n + j)
<1> DEFINE c == W!Slice(b, n, Len(b))
<1>1. Len(b) \in Nat /\ n <= Len(b) /\ n + i \in Nat /\ n + j \in Nat /\ n + i <= n + j
  BY SliceAll
<1>2. /\ c \in Strings /\ Len(c) = Len(b) - n
      /\ \A k \in 1 .. Len(b) - n : c[k] = b[n + k]
  <2>1. Len(b) <= Len(b)
    BY <1>1
  <2> QED BY <1>1, <2>1, SliceIs, Zenon
<1>3. /\ W!Slice(b, n + i, n + j) \in Strings /\ Len(W!Slice(b, n + i, n + j)) = (n + j) - (n + i)
      /\ \A k \in 1 .. (n + j) - (n + i) : W!Slice(b, n + i, n + j)[k] = b[(n + i) + k]
  BY <1>1, SliceIs
<1> HIDE DEF c
<1>4. j <= Len(c) /\ (n + j) - (n + i) = j - i
  BY <1>1, <1>2
<1>5. /\ W!Slice(c, i, j) \in Strings /\ Len(W!Slice(c, i, j)) = j - i
      /\ \A k \in 1 .. j - i : W!Slice(c, i, j)[k] = c[i + k]
  BY <1>2, <1>4, SliceIs
<1>6. ASSUME NEW k \in 1 .. j - i PROVE W!Slice(c, i, j)[k] = W!Slice(b, n + i, n + j)[k]
  <2>1. i + k \in 1 .. Len(b) - n /\ n + (i + k) = (n + i) + k
    BY <1>1
  <2>2. c[i + k] = b[(n + i) + k]
    BY <1>2, <2>1
  <2> QED BY <1>3, <1>4, <1>5, <2>2
<1>7. W!Slice(c, i, j) = W!Slice(b, n + i, n + j)
  BY <1>3, <1>4, <1>5, <1>6, SeqEqual DEF Strings
<1> QED BY <1>2, <1>7 DEF c

-----------------------------------------------------------------------------
(* Session names *)

\* What SessionName::new leaves.
Named(s) ==
    /\ s \in Strings /\ Len(s) \in 1 .. W!MaxName /\ s \notin {<<46>>, <<46, 46>>}
    /\ \A i \in DOMAIN s : W!NameByte(s[i])

\* SessionName::new takes a name that is not empty as it is.
LEMMA NameTaken ==
    ASSUME NEW x \in Strings, Len(x) >= 1, NEW s \in W!SessionName(x)
    PROVE  s = x /\ Named(s)
<1>1. x # <<>> /\ Len(x) \in Nat
  BY SliceAll
<1>2. s = x /\ ~(Len(x) > W!MaxName) /\ x \notin {<<46>>, <<46, 46>>}
      /\ \A i \in DOMAIN x : W!NameByte(x[i])
  BY <1>1 DEF W!SessionName
<1>3. Len(x) \in 1 .. W!MaxName
  <2>1. \A k \in Nat : k >= 1 /\ ~(k > 64) => k \in 1 .. 64
    OBVIOUS
  <2> QED BY <1>1, <1>2, <2>1 DEF W!MaxName
<1> QED BY <1>2, <1>3 DEF Named

\* decode_session_name takes the bytes encode_session_name writes.
LEMMA NameDecoded ==
    ASSUME NEW b \in Strings, NEW d \in W!DecodeName(b)
    PROVE  /\ Named(d.session) /\ d.next = 1 + Len(d.session) /\ d.next <= Len(b)
           /\ d.next \in Nat /\ W!EncodeName(d.session) = W!Slice(b, 0, d.next)
<1>1. b # <<>> /\ ~(b[1] = 0 \/ b[1] > W!MaxName \/ Len(b) < 1 + b[1])
  BY DEF W!DecodeName
<1>2. PICK s \in W!SessionName(W!Slice(b, 1, 1 + b[1])) : d = [session |-> s, next |-> 1 + b[1]]
  BY <1>1 DEF W!DecodeName
<1>3. Len(b) \in Nat /\ Len(b) >= 1
  BY <1>1, SliceAll, EmptySeq DEF Strings
<1>4. <<b[0 + 1]>> = W!Slice(b, 0, 0 + 1) /\ b[0 + 1] \in W!Byte
  BY <1>3, SliceOne
<1>5. /\ b[1] \in Nat /\ b[1] >= 1 /\ 1 + b[1] <= Len(b) /\ 1 + b[1] \in Nat
      /\ 0 + 1 = 1 /\ 1 <= 1 + b[1] /\ 0 \in Nat /\ 1 \in Nat /\ 0 <= 1
  <2>1. \A x \in 0 .. 255 : x # 0 => x \in Nat /\ x >= 1 /\ 1 + x \in Nat /\ 1 <= 1 + x
    OBVIOUS
  <2>2. b[1] \in 0 .. 255 /\ b[1] # 0 /\ ~(Len(b) < 1 + b[1])
    BY <1>1, <1>4 DEF W!Byte
  <2>3. \A x, y \in Nat : ~(y < x) => x <= y
    OBVIOUS
  <2>4. b[1] \in Nat /\ b[1] >= 1 /\ 1 + b[1] \in Nat /\ 1 <= 1 + b[1]
    BY <2>1, <2>2
  <2> QED BY <1>3, <2>2, <2>3, <2>4
<1>6. W!Slice(b, 1, 1 + b[1]) \in Strings /\ Len(W!Slice(b, 1, 1 + b[1])) = (1 + b[1]) - 1
  BY <1>5, SliceIs, Zenon
<1>7. (1 + b[1]) - 1 = b[1]
  BY <1>5
<1>8. s = W!Slice(b, 1, 1 + b[1]) /\ Named(s)
  BY <1>5, <1>6, <1>7, NameTaken
<1>9. W!Slice(b, 0, 1) \o W!Slice(b, 1, 1 + b[1]) = W!Slice(b, 0, 1 + b[1])
  BY <1>5, SliceJoin, Zenon
<1>10. W!EncodeName(s) = W!Slice(b, 0, 1 + b[1])
  BY <1>4, <1>5, <1>6, <1>7, <1>8, <1>9 DEF W!EncodeName
<1> QED BY <1>2, <1>5, <1>6, <1>7, <1>8, <1>10

\* What the handlers need of a name.
LEMMA NameUsable ==
    ASSUME NEW s, Named(s)
    PROVE  /\ Len(s) \in 1 .. W!MaxName
           /\ 47 \notin {s[i] : i \in DOMAIN s}
           /\ \E i \in DOMAIN s : s[i] # 46 \/ Len(s) > 2
<1>1. s \in Seq(W!Byte) /\ Len(s) \in 1 .. W!MaxName /\ DOMAIN s = 1 .. Len(s)
  BY LenProperties DEF Named, Strings
<1>2. ~W!NameByte(47)
  BY DEF W!NameByte
<1>3. 47 \notin {s[i] : i \in DOMAIN s}
  BY <1>2 DEF Named
<1>4. ASSUME \A i \in DOMAIN s : s[i] = 46 /\ ~(Len(s) > 2) PROVE FALSE
  <2>1. Len(s) \in Nat /\ 1 \in DOMAIN s /\ Len(s) \in {1, 2} /\ 46 \in W!Byte
    BY <1>1, <1>4 DEF W!MaxName, W!Byte
  <2>2. CASE Len(s) = 1
    <3>1. <<46>> \in Seq(W!Byte) /\ Len(<<46>>) = 1 /\ \A i \in 1 .. 1 : s[i] = <<46>>[i]
      BY <1>1, <1>4, <2>1, <2>2
    <3>2. s = <<46>>
      BY <1>1, <2>2, <3>1, SeqEqual
    <3> QED BY <3>2 DEF Named
  <2>3. CASE Len(s) = 2
    <3>1. <<46, 46>> \in Seq(W!Byte) /\ Len(<<46, 46>>) = 2
      BY <2>1
    <3>2. \A i \in 1 .. 2 : s[i] = <<46, 46>>[i]
      BY <1>1, <1>4, <2>3
    <3>3. s = <<46, 46>>
      BY <1>1, <2>3, <3>1, <3>2, SeqEqual
    <3> QED BY <3>3 DEF Named
  <2> QED BY <2>1, <2>2, <2>3
<1> QED BY <1>1, <1>3, <1>4

-----------------------------------------------------------------------------
(* What a decoder of the session plane accepts is an encoding *)

\* The largest frame is a number, above its headers.
LEMMA FrameLimits ==
    /\ W!MaxFrame \in Nat /\ W!HdqmHeader = 27 /\ W!HdpHeader = 11
    /\ W!MaxFrame - 27 < W!MaxFrame /\ W!MaxFrame - 27 \in Nat
    /\ ~(11 + W!MaxFrame <= W!MaxFrame)
BY DEF W!MaxFrame, W!HdqmHeader, W!HdpHeader

\* from_be_bytes of four bytes, as far as the bounds tell lengths apart.
LEMMA FromU32Is ==
    ASSUME NEW b \in Strings, NEW i \in Nat, i + 4 <= Len(b)
    PROVE  W!FromU32(b, i) = W!MaxFrame \/ (W!FromU32(b, i) \in Nat /\ W!FromU32(b, i) < W!MaxFrame)
<1>1. Len(b) \in Nat /\ i + 2 \in Nat /\ (i + 2) + 2 <= Len(b)
  BY SliceAll
<1>2. W!FromU16(b, i + 2) \in 0 .. W!MaxU16
  BY <1>1, SliceU16
<1>3. \A n \in 0 .. W!MaxU16 : n \in Nat /\ n < W!MaxFrame
  BY U16Limit
<1>4. W!FromU16(b, i + 2) \in Nat /\ W!FromU16(b, i + 2) < W!MaxFrame
  BY <1>2, <1>3
<1> QED BY <1>4, Zenon DEF W!FromU32

\* Four magic bytes and a version, then a kind.
LEMMA HeaderIs ==
    ASSUME NEW b \in Strings, Len(b) >= 7
    PROVE  /\ W!Slice(b, 0, 4) \o W!Slice(b, 4, 6) = W!Slice(b, 0, 6)
           /\ W!Slice(b, 0, 6) \o <<b[7]>> = W!Slice(b, 0, 7)
<1>1. Len(b) \in Nat /\ 4 <= Len(b) /\ 6 <= Len(b) /\ 7 <= Len(b) /\ 6 < Len(b)
  BY SliceAll
<1>2. W!Slice(b, 0, 4) \o W!Slice(b, 4, 6) = W!Slice(b, 0, 6)
  BY <1>1, SliceJoin
<1>3. <<b[6 + 1]>> = W!Slice(b, 6, 6 + 1)
  BY <1>1, SliceOne
<1>4. 6 + 1 = 7
  OBVIOUS
<1>5. W!Slice(b, 0, 6) \o W!Slice(b, 6, 7) = W!Slice(b, 0, 7)
  BY <1>1, SliceJoin
<1> QED BY <1>2, <1>3, <1>4, <1>5

\* HdqmFrame.
LEMMA HdqmCanonical ==
    ASSUME NEW b \in Strings, NEW m \in W!DecodeHdqm(b)
    PROVE  W!EncodeHdqm(m) = b
<1>1. /\ ~(Len(b) < 27) /\ W!Slice(b, 0, 4) = W!Hdqm /\ W!Slice(b, 4, 6) = W!Version
      /\ ~(W!FromU32(b, 23) > W!MaxFrame - 27) /\ Len(b) = 27 + W!FromU32(b, 23)
      /\ m = [kind |-> b[7], request_id |-> W!Slice(b, 7, 23), payload |-> W!Slice(b, 27, Len(b))]
  BY FrameLimits DEF W!DecodeHdqm
<1>2. Len(b) \in Nat /\ W!Slice(b, 0, Len(b)) = b
  BY SliceAll
<1>3. 27 <= Len(b) /\ Len(b) <= Len(b) /\ 23 + 4 <= Len(b) /\ Len(b) >= 7 /\ 23 + 4 = 27
  BY <1>1, <1>2
<1>4. W!FromU32(b, 23) \in Nat /\ W!FromU32(b, 23) < W!MaxFrame
  BY <1>1, <1>3, FromU32Is, FrameLimits
<1>5. W!U32(W!FromU32(b, 23)) = W!Slice(b, 23, 27)
  BY <1>3, <1>4, SliceU32
<1>6. Len(W!Slice(b, 27, Len(b))) = W!FromU32(b, 23)
  <2>1. Len(W!Slice(b, 27, Len(b))) = Len(b) - 27
    BY <1>2, <1>3, SliceIs
  <2> QED BY <1>1, <1>4, <2>1
<1>7. /\ W!Slice(b, 0, 7) \o W!Slice(b, 7, 23) = W!Slice(b, 0, 23)
      /\ W!Slice(b, 0, 23) \o W!Slice(b, 23, 27) = W!Slice(b, 0, 27)
      /\ W!Slice(b, 0, 27) \o W!Slice(b, 27, Len(b)) = b
  <2>1. W!Slice(b, 0, 7) \o W!Slice(b, 7, 23) = W!Slice(b, 0, 23)
    BY <1>2, <1>3, SliceJoin
  <2>2. W!Slice(b, 0, 23) \o W!Slice(b, 23, 27) = W!Slice(b, 0, 27)
    BY <1>2, <1>3, SliceJoin
  <2>3. W!Slice(b, 0, 27) \o W!Slice(b, 27, Len(b)) = b
    BY <1>2, <1>3, JoinEnd
  <2> QED BY <2>1, <2>2, <2>3
<1>8. W!EncodeHdqm(m) = W!Hdqm \o W!Version \o <<b[7]>> \o W!Slice(b, 7, 23)
                          \o W!U32(Len(W!Slice(b, 27, Len(b)))) \o W!Slice(b, 27, Len(b))
  BY <1>1 DEF W!EncodeHdqm
<1> QED BY <1>1, <1>2, <1>3, <1>5, <1>6, <1>7, <1>8, HeaderIs

\* HdpFrame.
LEMMA HdpCanonical ==
    ASSUME NEW b \in Strings, NEW m \in W!DecodeHdp(b)
    PROVE  W!EncodeHdp(m) = b
<1>1. /\ ~(Len(b) < 11) /\ W!Slice(b, 0, 4) = W!Hdp1 /\ W!Slice(b, 4, 6) = W!Version
      /\ ~(11 + W!FromU32(b, 7) > W!MaxFrame) /\ Len(b) = 11 + W!FromU32(b, 7)
      /\ m = [kind |-> b[7], payload |-> W!Slice(b, 11, Len(b))]
  BY FrameLimits DEF W!DecodeHdp
<1>2. Len(b) \in Nat /\ W!Slice(b, 0, Len(b)) = b
  BY SliceAll
<1>3. 11 <= Len(b) /\ Len(b) <= Len(b) /\ 7 + 4 <= Len(b) /\ Len(b) >= 7 /\ 7 + 4 = 11
  BY <1>1, <1>2
<1>4. W!FromU32(b, 7) \in Nat /\ W!FromU32(b, 7) < W!MaxFrame
  BY <1>1, <1>3, FromU32Is, FrameLimits
<1>5. W!U32(W!FromU32(b, 7)) = W!Slice(b, 7, 11)
  BY <1>3, <1>4, SliceU32
<1>6. Len(W!Slice(b, 11, Len(b))) = W!FromU32(b, 7)
  <2>1. Len(W!Slice(b, 11, Len(b))) = Len(b) - 11
    BY <1>2, <1>3, SliceIs
  <2> QED BY <1>1, <1>4, <2>1
<1>7. /\ W!Slice(b, 0, 7) \o W!Slice(b, 7, 11) = W!Slice(b, 0, 11)
      /\ W!Slice(b, 0, 11) \o W!Slice(b, 11, Len(b)) = b
  <2>1. W!Slice(b, 0, 7) \o W!Slice(b, 7, 11) = W!Slice(b, 0, 11)
    BY <1>2, <1>3, SliceJoin
  <2>2. W!Slice(b, 0, 11) \o W!Slice(b, 11, Len(b)) = b
    BY <1>2, <1>3, JoinEnd
  <2> QED BY <2>1, <2>2
<1>8. W!EncodeHdp(m) = W!Hdp1 \o W!Version \o <<b[7]>> \o W!U32(Len(W!Slice(b, 11, Len(b))))
                         \o W!Slice(b, 11, Len(b))
  BY <1>1 DEF W!EncodeHdp
<1> QED BY <1>1, <1>2, <1>3, <1>5, <1>6, <1>7, <1>8, HeaderIs

\* DeviceHelloAck.
LEMMA HelloCanonical ==
    ASSUME NEW b \in Strings, NEW m \in W!DecodeHello(b)
    PROVE  W!EncodeHello(m) = b
<1>1. /\ Len(b) = 56
      /\ m = [relay_identity |-> W!Slice(b, 0, 32), ca_generation |-> W!Slice(b, 32, 40),
              relay_generation |-> W!Slice(b, 40, 48), connection_epoch |-> W!Slice(b, 48, 56)]
  BY DEF W!DecodeHello
<1>0. 40 <= Len(b) /\ 48 <= Len(b) /\ 56 <= Len(b)
  BY <1>1
<1>2. /\ W!Slice(b, 0, 32) \o W!Slice(b, 32, 40) = W!Slice(b, 0, 40)
      /\ W!Slice(b, 0, 40) \o W!Slice(b, 40, 48) = W!Slice(b, 0, 48)
      /\ W!Slice(b, 0, 48) \o W!Slice(b, 48, 56) = W!Slice(b, 0, 56)
  <2>1. W!Slice(b, 0, 32) \o W!Slice(b, 32, 40) = W!Slice(b, 0, 40)
    BY <1>0, SliceJoin
  <2>2. W!Slice(b, 0, 40) \o W!Slice(b, 40, 48) = W!Slice(b, 0, 48)
    BY <1>0, SliceJoin
  <2>3. W!Slice(b, 0, 48) \o W!Slice(b, 48, 56) = W!Slice(b, 0, 56)
    BY <1>0, SliceJoin
  <2> QED BY <2>1, <2>2, <2>3
<1>3. W!Slice(b, 0, 56) = b
  BY <1>1, SliceAll
<1> QED BY <1>1, <1>2, <1>3 DEF W!EncodeHello

\* The offsets of the fields that follow a name, which starts at s and ends at n.
Following(s, n, n1, n2, n3, n4, n5) ==
    /\ s \in Nat /\ n \in Nat /\ n1 \in Nat /\ n2 \in Nat /\ n3 \in Nat /\ n4 \in Nat /\ n5 \in Nat
    /\ s <= n /\ s <= n1 /\ s <= n2 /\ s <= n3 /\ s <= n4
    /\ n <= n1 /\ n1 <= n2 /\ n2 <= n3 /\ n3 <= n4 /\ n4 <= n5

\* The fields of an open request are next to each other.
LEMMA OpenJoined ==
    ASSUME NEW b \in Strings, NEW s, NEW n, NEW n1, NEW n2, NEW n3, NEW n4, NEW n5,
           Following(s, n, n1, n2, n3, n4, n5),
           n1 <= Len(b), n2 <= Len(b), n3 <= Len(b), n4 <= Len(b), n5 <= Len(b)
    PROVE  W!Slice(b, s, n) \o W!Slice(b, n, n1) \o W!Slice(b, n1, n2) \o W!Slice(b, n2, n3)
             \o W!Slice(b, n3, n4) \o W!Slice(b, n4, n5) = W!Slice(b, s, n5)
<1> USE DEF Following
<1>1. W!Slice(b, s, n) \o W!Slice(b, n, n1) = W!Slice(b, s, n1)
  BY SliceJoin
<1>2. W!Slice(b, s, n1) \o W!Slice(b, n1, n2) = W!Slice(b, s, n2)
  BY SliceJoin
<1>3. W!Slice(b, s, n2) \o W!Slice(b, n2, n3) = W!Slice(b, s, n3)
  BY SliceJoin
<1>4. W!Slice(b, s, n3) \o W!Slice(b, n3, n4) = W!Slice(b, s, n4)
  BY SliceJoin
<1>5. W!Slice(b, s, n4) \o W!Slice(b, n4, n5) = W!Slice(b, s, n5)
  BY SliceJoin
<1> QED BY <1>1, <1>2, <1>3, <1>4, <1>5

\* At the widths of an open request.
LEMMA OpenFieldsJoined ==
    ASSUME NEW b \in Strings, NEW s \in Nat, NEW n \in Nat, s <= n, n + 88 <= Len(b)
    PROVE  W!Slice(b, s, n) \o W!Slice(b, n, n + 32) \o W!Slice(b, n + 32, n + 40)
             \o W!Slice(b, n + 40, n + 48) \o W!Slice(b, n + 48, n + 56)
             \o W!Slice(b, n + 56, n + 88) = W!Slice(b, s, n + 88)
<1> DEFINE n1 == n + 32
           n2 == n + 40
           n3 == n + 48
           n4 == n + 56
           n5 == n + 88
<1>1. Following(s, n, n1, n2, n3, n4, n5)
  BY DEF Following
<1>2. n1 <= Len(b) /\ n2 <= Len(b) /\ n3 <= Len(b) /\ n4 <= Len(b) /\ n5 <= Len(b)
  BY SliceAll
<1> HIDE DEF n1, n2, n3, n4, n5
<1>3. W!Slice(b, s, n) \o W!Slice(b, n, n1) \o W!Slice(b, n1, n2) \o W!Slice(b, n2, n3)
        \o W!Slice(b, n3, n4) \o W!Slice(b, n4, n5) = W!Slice(b, s, n5)
  BY <1>1, <1>2, OpenJoined
<1> QED BY <1>3, Zenon DEF n1, n2, n3, n4, n5

\* What is read after a name is written after it.
LEMMA OpenWritten ==
    ASSUME NEW b \in Strings, NEW s \in Nat, NEW n \in Nat, s <= n, Len(b) = n + 88,
           NEW x, W!EncodeName(x) = W!Slice(b, s, n)
    PROVE  W!EncodeOpen(W!OpenFields(x, b, n)) = W!Slice(b, s, Len(b))
<1>1. W!EncodeOpen(W!OpenFields(x, b, n))
        = W!EncodeName(x) \o W!Slice(b, n, n + 32) \o W!Slice(b, n + 32, n + 40)
            \o W!Slice(b, n + 40, n + 48) \o W!Slice(b, n + 48, n + 56) \o W!Slice(b, n + 56, Len(b))
  BY DEF W!EncodeOpen, W!OpenFields
<1>2. n + 88 <= Len(b)
  OBVIOUS
<1>3. W!Slice(b, s, n) \o W!Slice(b, n, n + 32) \o W!Slice(b, n + 32, n + 40)
        \o W!Slice(b, n + 40, n + 48) \o W!Slice(b, n + 48, n + 56)
        \o W!Slice(b, n + 56, n + 88) = W!Slice(b, s, n + 88)
  BY <1>2, OpenFieldsJoined
<1> QED BY <1>1, <1>3, Zenon

\* SessionPrepareRequest.
LEMMA PrepareCanonical ==
    ASSUME NEW b \in Strings, NEW m \in W!DecodePrepare(b)
    PROVE  W!EncodePrepare(m) = b /\ Named(m.session)
<1>1. PICK d \in W!DecodeName(b) :
        /\ Len(b) = d.next + 32 + 8
        /\ m = [session |-> d.session, expected_fingerprint |-> W!Slice(b, d.next, d.next + 32),
                configuration_generation |-> W!Slice(b, d.next + 32, Len(b))]
  BY DEF W!DecodePrepare, W!Authority
<1>2. /\ Named(d.session) /\ d.next \in Nat
      /\ W!EncodeName(d.session) = W!Slice(b, 0, d.next)
  BY NameDecoded
<1>3. d.next + 32 <= Len(b) /\ d.next + 32 \in Nat /\ 0 <= d.next /\ d.next <= d.next + 32
  BY <1>1, <1>2
<1>4. W!Slice(b, 0, d.next) \o W!Slice(b, d.next, d.next + 32) = W!Slice(b, 0, d.next + 32)
  BY <1>2, <1>3, SliceJoin
<1>5. W!Slice(b, 0, d.next + 32) \o W!Slice(b, d.next + 32, Len(b)) = b
  BY <1>3, JoinEnd
<1> QED BY <1>1, <1>2, <1>4, <1>5 DEF W!EncodePrepare

\* SessionPrepareAck.
LEMMA PrepareAckCanonical ==
    ASSUME NEW b \in Strings, NEW m \in W!DecodePrepareAck(b)
    PROVE  W!EncodePrepareAck(m) = b /\ Named(m.session)
<1>1. PICK d \in W!DecodeName(b) :
        /\ Len(b) = d.next + 32 + 24 + 32 + 4
        /\ m = [session |-> d.session, fingerprint |-> W!Slice(b, d.next, d.next + 32),
                configuration_generation |-> W!Slice(b, d.next + 32, d.next + 40),
                relay_generation |-> W!Slice(b, d.next + 40, d.next + 48),
                connection_epoch |-> W!Slice(b, d.next + 48, d.next + 56),
                token |-> W!Slice(b, d.next + 56, d.next + 88),
                token_ttl_secs |-> W!Slice(b, d.next + 88, Len(b))]
  BY DEF W!DecodePrepareAck, W!Authority
<1> DEFINE n == d.next
<1>2. /\ Named(d.session) /\ n \in Nat
      /\ W!EncodeName(d.session) = W!Slice(b, 0, n)
  BY NameDecoded
<1>3. n + 88 <= Len(b) /\ n + 88 \in Nat /\ 0 <= n
  BY <1>1, <1>2
<1> HIDE DEF n
<1>4. W!Slice(b, 0, n) \o W!Slice(b, n, n + 32) \o W!Slice(b, n + 32, n + 40)
        \o W!Slice(b, n + 40, n + 48) \o W!Slice(b, n + 48, n + 56)
        \o W!Slice(b, n + 56, n + 88) = W!Slice(b, 0, n + 88)
  BY <1>2, <1>3, OpenFieldsJoined
<1>5. W!Slice(b, 0, n + 88) \o W!Slice(b, n + 88, Len(b)) = b
  BY <1>3, JoinEnd
<1>6. W!EncodePrepareAck(m)
        = W!EncodeName(d.session) \o W!Slice(b, n, n + 32) \o W!Slice(b, n + 32, n + 40)
            \o W!Slice(b, n + 40, n + 48) \o W!Slice(b, n + 48, n + 56)
            \o W!Slice(b, n + 56, n + 88) \o W!Slice(b, n + 88, Len(b))
  BY <1>1 DEF W!EncodePrepareAck, n
<1>7. m.session = d.session
  BY <1>1
<1> QED BY <1>2, <1>4, <1>5, <1>6, <1>7, Zenon

\* SessionOpenRequest.
LEMMA OpenCanonical ==
    ASSUME NEW b \in Strings, NEW m \in W!DecodeOpen(b)
    PROVE  W!EncodeOpen(m) = b /\ Named(m.session)
<1>1. PICK d \in W!DecodeName(b) :
        Len(b) = d.next + 32 + 24 + 32 /\ m = W!OpenFields(d.session, b, d.next)
  BY DEF W!DecodeOpen, W!Authority
<1>2. /\ Named(d.session) /\ d.next \in Nat
      /\ W!EncodeName(d.session) = W!Slice(b, 0, d.next)
  BY NameDecoded
<1>3. Len(b) = d.next + 88 /\ 0 <= d.next
  BY <1>1, <1>2
<1>4. W!EncodeOpen(m) = W!Slice(b, 0, Len(b))
  BY <1>1, <1>2, <1>3, OpenWritten
<1>5. m.session = d.session
  BY <1>1 DEF W!OpenFields
<1> QED BY <1>2, <1>4, <1>5, SliceAll

\* SessionOpenAck: the same after a handle.
LEMMA OpenAckCanonical ==
    ASSUME NEW b \in Strings, NEW m \in W!DecodeOpenAck(b)
    PROVE  /\ W!EncodeOpenAck(m) = b /\ Named(m.session)
           /\ m.session_handle \in 1 .. W!MaxU16
<1> DEFINE c == W!Slice(b, 2, Len(b))
<1>1. PICK d \in W!DecodeName(c) :
        /\ Len(b) = 2 + d.next + 32 + 24 + 32
        /\ m = W!OpenAck(W!FromU16(b, 0), W!OpenFields(d.session, b, 2 + d.next))
  BY DEF W!DecodeOpenAck, W!Authority
<1>2. ~(Len(b) < 3) /\ W!FromU16(b, 0) # 0
  BY DEF W!DecodeOpenAck
<1>3. Len(b) \in Nat /\ W!Slice(b, 0, Len(b)) = b
  BY SliceAll
<1>4. 0 + 2 <= Len(b) /\ 2 <= Len(b) /\ Len(b) <= Len(b) /\ 0 + 2 = 2
  BY <1>2, <1>3
<1>5. c \in Strings /\ Len(c) = Len(b) - 2
  BY <1>3, <1>4, SliceIs
<1> HIDE DEF c
<1>6. /\ Named(d.session) /\ d.next \in Nat /\ d.next <= Len(c)
      /\ W!EncodeName(d.session) = W!Slice(c, 0, d.next)
  BY <1>5, NameDecoded
<1> DEFINE n == 2 + d.next
<1>7. n \in Nat /\ Len(b) = n + 88 /\ 2 <= n /\ n <= Len(b) /\ 2 + 0 = 2 /\ 0 <= d.next
  BY <1>1, <1>3, <1>5, <1>6
<1>8. W!EncodeName(d.session) = W!Slice(b, 2, n)
  <2>1. W!Slice(W!Slice(b, 2, Len(b)), 0, d.next) = W!Slice(b, 2 + 0, 2 + d.next)
    BY <1>6, <1>7, SliceOfEnd
  <2> QED BY <1>6, <1>7, <2>1 DEF c
<1> DEFINE o == W!OpenFields(d.session, b, n)
<1>9. W!EncodeOpen(o) = W!Slice(b, 2, Len(b))
  <2> HIDE DEF n
  <2> QED BY <1>7, <1>8, OpenWritten
<1>10. /\ W!EncodeOpen(m) = W!EncodeOpen(o) /\ m.session_handle = W!FromU16(b, 0)
       /\ m.session = d.session
  BY <1>1 DEF W!OpenAck, W!OpenFields, W!EncodeOpen
<1>11. W!U16(W!FromU16(b, 0)) = W!Slice(b, 0, 2) /\ W!FromU16(b, 0) \in 0 .. W!MaxU16
  BY <1>4, SliceU16
<1>12. W!Slice(b, 0, 2) \o W!Slice(b, 2, Len(b)) = b
  BY <1>4, JoinEnd
<1>13. m.session_handle \in 1 .. W!MaxU16
  <2>1. \A k : k \in 0 .. W!MaxU16 /\ k # 0 => k \in 1 .. W!MaxU16
    BY U16Limit
  <2> QED BY <1>2, <1>10, <1>11, <2>1
<1> HIDE DEF o
<1>14. W!EncodeOpenAck(m) = b
  BY <1>9, <1>10, <1>11, <1>12 DEF W!EncodeOpenAck
<1> QED BY <1>6, <1>10, <1>13, <1>14

\* HdqsBinding, the preface of a session stream.
LEMMA BindingCanonical ==
    ASSUME NEW b \in Strings, NEW m \in W!DecodeBinding(b)
    PROVE  /\ W!EncodeBinding(m) = b /\ Named(m.session)
           /\ m.session_handle \in 1 .. W!MaxU16
<1> DEFINE n == 33 + b[33]
           l == 65 + b[33]
<1>1. /\ ~(Len(b) < 97) /\ W!Slice(b, 0, 4) = W!Hdqs /\ W!Slice(b, 4, 6) = W!Version
      /\ W!FromU16(b, 6) # 0 /\ b[33] # 0 /\ Len(b) = 33 + b[33] + 64
  BY DEF W!DecodeBinding
<1>2. PICK s \in W!SessionName(W!Slice(b, 33, n)) :
        m = [session_handle |-> W!FromU16(b, 6), configuration_generation |-> W!Slice(b, 8, 16),
             relay_generation |-> W!Slice(b, 16, 24), connection_epoch |-> W!Slice(b, 24, 32),
             session |-> s, fingerprint |-> W!Slice(b, n, l), token |-> W!Slice(b, l, Len(b))]
  BY DEF W!DecodeBinding
<1>3. Len(b) \in Nat
  BY SliceAll
<1>4. /\ 6 <= Len(b) /\ 8 <= Len(b) /\ 16 <= Len(b) /\ 24 <= Len(b) /\ 32 <= Len(b)
      /\ 33 <= Len(b) /\ 32 < Len(b) /\ 6 + 2 <= Len(b) /\ 6 + 2 = 8 /\ 32 + 1 = 33
  BY <1>1, <1>3
<1>5. <<b[33]>> = W!Slice(b, 32, 33) /\ b[33] \in W!Byte
  BY <1>4, SliceOne
<1>6. /\ n \in Nat /\ l \in Nat /\ 33 <= n /\ n <= l /\ n <= Len(b) /\ l <= Len(b)
      /\ n - 33 = b[33] /\ b[33] >= 1 /\ 32 <= n
  <2>1. \A x \in 0 .. 255 : \A e \in Nat : x # 0 /\ e = 33 + x + 64 =>
          /\ 33 + x \in Nat /\ 65 + x \in Nat /\ 33 <= 33 + x /\ 33 + x <= 65 + x
          /\ 33 + x <= e /\ 65 + x <= e /\ (33 + x) - 33 = x /\ x >= 1 /\ 32 <= 33 + x
    OBVIOUS
  <2>2. b[33] \in 0 .. 255
    BY <1>5 DEF W!Byte
  <2> QED BY <1>1, <1>3, <2>1, <2>2
<1> HIDE DEF n, l
<1>7. /\ W!Slice(b, 33, n) \in Strings /\ Len(W!Slice(b, 33, n)) = n - 33
  BY <1>6, SliceIs
<1>8. s = W!Slice(b, 33, n) /\ Named(s)
  BY <1>6, <1>7, NameTaken
<1>9. W!EncodeName(s) = W!Slice(b, 32, n)
  <2>1. W!Slice(b, 32, 33) \o W!Slice(b, 33, n) = W!Slice(b, 32, n)
    BY <1>6, SliceJoin
  <2> QED BY <1>5, <1>6, <1>7, <1>8, <2>1 DEF W!EncodeName
<1>10. W!U16(W!FromU16(b, 6)) = W!Slice(b, 6, 8) /\ W!FromU16(b, 6) \in 0 .. W!MaxU16
  BY <1>4, SliceU16
<1>11. m.session_handle \in 1 .. W!MaxU16
  <2>1. \A k : k \in 0 .. W!MaxU16 /\ k # 0 => k \in 1 .. W!MaxU16
    BY U16Limit
  <2> QED BY <1>1, <1>2, <1>10, <2>1
<1>12. W!Slice(b, 0, 4) \o W!Slice(b, 4, 6) = W!Slice(b, 0, 6)
  BY <1>4, SliceJoin
<1>13. W!Slice(b, 0, 6) \o W!Slice(b, 6, 8) = W!Slice(b, 0, 8)
  BY <1>4, SliceJoin
<1>14. W!Slice(b, 0, 8) \o W!Slice(b, 8, 16) = W!Slice(b, 0, 16)
  BY <1>4, SliceJoin
<1>15. W!Slice(b, 0, 16) \o W!Slice(b, 16, 24) = W!Slice(b, 0, 24)
  BY <1>4, SliceJoin
<1>16. W!Slice(b, 0, 24) \o W!Slice(b, 24, 32) = W!Slice(b, 0, 32)
  BY <1>4, SliceJoin
<1>17. W!Slice(b, 0, 32) \o W!Slice(b, 32, n) = W!Slice(b, 0, n)
  <2>1. 0 \in Nat /\ 32 \in Nat /\ n \in Nat /\ 0 <= 32 /\ 32 <= n /\ n <= Len(b)
    BY <1>6
  <2> QED BY <2>1, SliceJoin, Zenon
<1>18. W!Slice(b, 0, n) \o W!Slice(b, n, l) = W!Slice(b, 0, l)
  <2>1. 0 \in Nat /\ n \in Nat /\ l \in Nat /\ 0 <= n /\ n <= l /\ l <= Len(b)
    BY <1>6
  <2> QED BY <2>1, SliceJoin, Zenon
<1>19. W!Slice(b, 0, l) \o W!Slice(b, l, Len(b)) = b
  BY <1>6, JoinEnd
<1>20. W!EncodeBinding(m)
         = W!Hdqs \o W!Version \o W!U16(W!FromU16(b, 6)) \o W!Slice(b, 8, 16) \o W!Slice(b, 16, 24)
             \o W!Slice(b, 24, 32) \o W!EncodeName(s) \o W!Slice(b, n, l) \o W!Slice(b, l, Len(b))
  BY <1>2 DEF W!EncodeBinding
<1>21. W!EncodeBinding(m) = b
  BY <1>1, <1>9, <1>10, <1>12, <1>13, <1>14, <1>15, <1>16, <1>17, <1>18, <1>19, <1>20
<1>22. m.session = s
  BY <1>2
<1> QED BY <1>8, <1>11, <1>21, <1>22

\* HdqsResponse.
LEMMA ResponseCanonical ==
    ASSUME NEW b \in Strings, NEW m \in W!DecodeResponse(b)
    PROVE  W!EncodeResponse(m) = b /\ ((m.kind = 2) = (m.session_handle # 0))
<1>1. /\ Len(b) = 20 /\ W!Slice(b, 0, 4) = W!Hdqs /\ W!Slice(b, 4, 6) = W!Version
      /\ b[12] = 0 /\ b[7] \in {2, 3}
      /\ m = [kind |-> b[7], status |-> b[8], session_handle |-> W!FromU16(b, 8),
              reason |-> b[11], connection_epoch |-> W!Slice(b, 12, 20)]
      /\ W!ResponseValid(m)
  BY DEF W!DecodeResponse, W!ResponseReserved, W!HdqsKind
<1>2. /\ 6 <= Len(b) /\ 7 <= Len(b) /\ 8 <= Len(b) /\ 10 <= Len(b) /\ 11 <= Len(b) /\ 12 <= Len(b)
      /\ 20 <= Len(b) /\ 6 < Len(b) /\ 7 < Len(b) /\ 10 < Len(b) /\ 11 < Len(b) /\ 8 + 2 <= Len(b)
      /\ 6 + 1 = 7 /\ 7 + 1 = 8 /\ 10 + 1 = 11 /\ 11 + 1 = 12 /\ 8 + 2 = 10
  BY <1>1
<1>3. <<b[7]>> = W!Slice(b, 6, 7) /\ b[7] \in W!Byte
  BY <1>2, SliceOne
<1>4. <<b[8]>> = W!Slice(b, 7, 8) /\ b[8] \in W!Byte
  BY <1>2, SliceOne
<1>5. <<b[11]>> = W!Slice(b, 10, 11) /\ b[11] \in W!Byte
  BY <1>2, SliceOne
<1>6. <<b[12]>> = W!Slice(b, 11, 12) /\ b[12] \in W!Byte
  BY <1>2, SliceOne
<1>7. W!U16(W!FromU16(b, 8)) = W!Slice(b, 8, 10)
  BY <1>2, SliceU16
<1>8. <<b[7], b[8]>> = W!Slice(b, 6, 8)
  <2>1. W!Slice(b, 6, 7) \o W!Slice(b, 7, 8) = W!Slice(b, 6, 8)
    BY <1>2, SliceJoin
  <2> QED BY <1>3, <1>4, <2>1, PairOfBytes
<1>9. <<b[11], 0>> = W!Slice(b, 10, 12)
  <2>1. W!Slice(b, 10, 11) \o W!Slice(b, 11, 12) = W!Slice(b, 10, 12)
    BY <1>2, SliceJoin
  <2> QED BY <1>1, <1>5, <1>6, <2>1, PairOfBytes
<1>10. W!Slice(b, 0, 4) \o W!Slice(b, 4, 6) = W!Slice(b, 0, 6)
  BY <1>2, SliceJoin
<1>11. W!Slice(b, 0, 6) \o W!Slice(b, 6, 8) = W!Slice(b, 0, 8)
  BY <1>2, SliceJoin
<1>12. W!Slice(b, 0, 8) \o W!Slice(b, 8, 10) = W!Slice(b, 0, 10)
  BY <1>2, SliceJoin
<1>13. W!Slice(b, 0, 10) \o W!Slice(b, 10, 12) = W!Slice(b, 0, 12)
  BY <1>2, SliceJoin
<1>14. W!Slice(b, 0, 12) \o W!Slice(b, 12, 20) = b
  BY <1>1, <1>2, JoinEnd
<1>15. W!EncodeResponse(m) = W!Hdqs \o W!Version \o <<b[7], b[8]>> \o W!U16(W!FromU16(b, 8))
                               \o <<b[11], 0>> \o W!Slice(b, 12, 20)
  BY <1>1 DEF W!EncodeResponse
<1>16. W!EncodeResponse(m) = b
  BY <1>1, <1>7, <1>8, <1>9, <1>10, <1>11, <1>12, <1>13, <1>14, <1>15
<1>17. (m.kind = 2) = (m.session_handle # 0)
  BY <1>1 DEF W!ResponseValid
<1> QED BY <1>16, <1>17

\* Every decoder of the session plane is canonical, and what it returns is usable.
LEMMA WireDecoded ==
    ASSUME NEW b \in Strings, NEW t \in W!Types, NEW m \in W!Decode(t, b)
    PROVE  /\ W!Encode(t, m) = b
           /\ t \in {"prepare", "prepare_ack", "open", "open_ack", "binding"} => Named(m.session)
           /\ t \in {"open_ack", "binding"} => m.session_handle \in 1 .. W!MaxU16
           /\ t = "response" => (m.kind = 2) = (m.session_handle # 0)
<1>1. CASE t = "hdqm"
  <2>1. W!Decode(t, b) = W!DecodeHdqm(b) /\ W!Encode(t, m) = W!EncodeHdqm(m)
    BY <1>1 DEF W!Decode, W!Encode
  <2> QED BY <1>1, <2>1, HdqmCanonical
<1>2. CASE t = "hdp"
  <2>1. W!Decode(t, b) = W!DecodeHdp(b) /\ W!Encode(t, m) = W!EncodeHdp(m)
    BY <1>2 DEF W!Decode, W!Encode
  <2> QED BY <1>2, <2>1, HdpCanonical
<1>3. CASE t = "hello"
  <2>1. W!Decode(t, b) = W!DecodeHello(b) /\ W!Encode(t, m) = W!EncodeHello(m)
    BY <1>3 DEF W!Decode, W!Encode
  <2> QED BY <1>3, <2>1, HelloCanonical
<1>4. CASE t = "prepare"
  <2>1. W!Decode(t, b) = W!DecodePrepare(b) /\ W!Encode(t, m) = W!EncodePrepare(m)
    BY <1>4 DEF W!Decode, W!Encode
  <2> QED BY <1>4, <2>1, PrepareCanonical
<1>5. CASE t = "prepare_ack"
  <2>1. W!Decode(t, b) = W!DecodePrepareAck(b) /\ W!Encode(t, m) = W!EncodePrepareAck(m)
    BY <1>5 DEF W!Decode, W!Encode
  <2> QED BY <1>5, <2>1, PrepareAckCanonical
<1>6. CASE t = "open"
  <2>1. W!Decode(t, b) = W!DecodeOpen(b) /\ W!Encode(t, m) = W!EncodeOpen(m)
    BY <1>6 DEF W!Decode, W!Encode
  <2> QED BY <1>6, <2>1, OpenCanonical
<1>7. CASE t = "open_ack"
  <2>1. W!Decode(t, b) = W!DecodeOpenAck(b) /\ W!Encode(t, m) = W!EncodeOpenAck(m)
    BY <1>7 DEF W!Decode, W!Encode
  <2> QED BY <1>7, <2>1, OpenAckCanonical
<1>8. CASE t = "binding"
  <2>1. W!Decode(t, b) = W!DecodeBinding(b) /\ W!Encode(t, m) = W!EncodeBinding(m)
    BY <1>8 DEF W!Decode, W!Encode
  <2> QED BY <1>8, <2>1, BindingCanonical
<1>9. CASE t = "response"
  <2>1. W!Decode(t, b) = W!DecodeResponse(b) /\ W!Encode(t, m) = W!EncodeResponse(m)
    BY <1>9 DEF W!Decode, W!Encode
  <2> QED BY <1>9, <2>1, ResponseCanonical
<1> QED BY <1>1, <1>2, <1>3, <1>4, <1>5, <1>6, <1>7, <1>8, <1>9 DEF W!Types

-----------------------------------------------------------------------------
(* What the encoders write *)

\* One string after another.
LEMMA Joined ==
    ASSUME NEW x \in Strings, NEW y \in Strings
    PROVE  /\ x \o y \in Strings /\ Len(x \o y) = Len(x) + Len(y)
           /\ Len(x) \in Nat /\ Len(y) \in Nat
           /\ \A i \in 1 .. Len(x) : (x \o y)[i] = x[i]
           /\ \A i \in 1 .. Len(y) : (x \o y)[Len(x) + i] = y[i]
<1>1. /\ x \in Seq(W!Byte) /\ y \in Seq(W!Byte) /\ Len(x) \in Nat /\ Len(y) \in Nat
  BY LenProperties DEF Strings
<1>2. /\ x \o y \in Seq(W!Byte) /\ Len(x \o y) = Len(x) + Len(y)
      /\ \A i \in 1 .. Len(x) + Len(y) : (x \o y)[i] = IF i <= Len(x) THEN x[i] ELSE y[i - Len(x)]
  BY <1>1, ConcatProperties
<1> QED BY <1>1, <1>2 DEF Strings

\* A field of w bytes.
LEMMA OctetsAreBytes ==
    ASSUME NEW w \in Nat, NEW x \in W!Octets(w)
    PROVE  x \in Strings /\ Len(x) = w
BY DEF W!Octets, Strings

\* u16::to_be_bytes.
LEMMA U16IsBytes ==
    ASSUME NEW n \in 0 .. W!MaxU16
    PROVE  /\ W!U16(n) \in Strings /\ Len(W!U16(n)) = 2
           /\ n = 256 * W!U16(n)[1] + W!U16(n)[2]
<1>1. n \in Nat /\ n \div 256 \in 0 .. 255 /\ n % 256 \in 0 .. 255 /\ n = 256 * (n \div 256) + (n % 256)
  <2>1. W!MaxU16 \in Nat /\ W!MaxU16 < 256 * 256
    BY U16Limit
  <2>2. n \in Nat /\ n < 256 * 256
    BY <2>1
  <2>3. /\ n \div 256 \in Nat /\ n % 256 \in 0 .. 255 /\ n = 256 * (n \div 256) + (n % 256)
    BY <2>2
  <2>4. \A q \in Nat : \A r \in 0 .. 255 : 256 * q + r < 256 * 256 => q \in 0 .. 255
    OBVIOUS
  <2> QED BY <2>2, <2>3, <2>4
<1>2. n \div 256 \in W!Byte /\ n % 256 \in W!Byte
  BY <1>1 DEF W!Byte
<1>3. <<n \div 256, n % 256>> \in Strings /\ Len(<<n \div 256, n % 256>>) = 2
  BY <1>2, PairOfBytes
<1> QED BY <1>1, <1>3 DEF W!U16

\* The four bytes of a payload's length.
LEMMA U32IsBytes ==
    ASSUME NEW n \in 0 .. W!MaxU16
    PROVE  /\ W!U32(n) \in Strings /\ Len(W!U32(n)) = 4
           /\ W!U32(n)[1] = 0 /\ W!U32(n)[2] = 0 /\ n = 256 * W!U32(n)[3] + W!U32(n)[4]
<1> DEFINE u == W!U16(n)
<1>1. u \in Strings /\ Len(u) = 2 /\ n = 256 * u[1] + u[2]
  BY U16IsBytes
<1> HIDE DEF u
<1>2. 0 \in W!Byte
  BY DEF W!Byte
<1> DEFINE z == <<0, 0>>
<1>3. z \in Strings /\ Len(z) = 2 /\ z[1] = 0 /\ z[2] = 0
  BY <1>2, PairOfBytes
<1> HIDE DEF z
<1>4. /\ z \o u \in Strings /\ Len(z \o u) = Len(z) + Len(u)
      /\ \A i \in 1 .. Len(z) : (z \o u)[i] = z[i]
      /\ \A i \in 1 .. Len(u) : (z \o u)[Len(z) + i] = u[i]
  BY <1>1, <1>3, Joined
<1>5. W!U32(n) = z \o u
  BY DEF W!U32, z, u
<1>6. (z \o u)[1] = 0 /\ (z \o u)[2] = 0 /\ (z \o u)[3] = u[1] /\ (z \o u)[4] = u[2]
  BY <1>1, <1>3, <1>4
<1>7. z \o u \in Strings /\ Len(z \o u) = 4
  BY <1>1, <1>3, <1>4
<1>8. n = 256 * (z \o u)[3] + (z \o u)[4]
  BY <1>1, <1>6
<1> HIDE DEF W!U32
<1> QED BY <1>5, <1>6, <1>7, <1>8

\* The magic, the version and the kind of a frame.
LEMMA MagicIsBytes ==
    ASSUME NEW k \in W!Byte, NEW g \in {W!Hdqm, W!Hdqs, W!Hdp1}
    PROVE  /\ g \in Strings /\ Len(g) = 4
           /\ g \o W!Version \in Strings /\ Len(g \o W!Version) = 6
           /\ <<k>> \in Strings /\ Len(<<k>>) = 1
           /\ g \o W!Version \o <<k>> \in Strings /\ Len(g \o W!Version \o <<k>>) = 7
<1>1. g \in Strings /\ Len(g) = 4
  <2>1. 72 \in W!Byte /\ 68 \in W!Byte /\ 81 \in W!Byte /\ 77 \in W!Byte /\ 83 \in W!Byte
        /\ 80 \in W!Byte /\ 49 \in W!Byte
    BY DEF W!Byte
  <2>2. W!Hdqm \in Strings /\ Len(W!Hdqm) = 4
    BY <2>1 DEF W!Hdqm, Strings
  <2>3. W!Hdqs \in Strings /\ Len(W!Hdqs) = 4
    BY <2>1 DEF W!Hdqs, Strings
  <2>4. W!Hdp1 \in Strings /\ Len(W!Hdp1) = 4
    BY <2>1 DEF W!Hdp1, Strings
  <2> QED BY <2>2, <2>3, <2>4, Zenon
<1>2. W!Version \in Strings /\ Len(W!Version) = 2
  BY DEF W!Version, Strings, W!Byte
<1>3. <<k>> \in Strings /\ Len(<<k>>) = 1
  BY DEF Strings
<1>4. g \o W!Version \in Strings /\ Len(g \o W!Version) = Len(g) + Len(W!Version)
  BY <1>1, <1>2, Joined, Zenon
<1>5. /\ g \o W!Version \o <<k>> \in Strings
      /\ Len(g \o W!Version \o <<k>>) = Len(g \o W!Version) + Len(<<k>>)
  BY <1>3, <1>4, Joined, Zenon
<1> DEFINE h == g \o W!Version
<1> HIDE DEF h
<1> QED BY <1>1, <1>2, <1>3, <1>4, <1>5 DEF h

\* A SessionName, with its length before it.
LEMMA NameIsBytes ==
    ASSUME NEW s \in W!Names
    PROVE  /\ Named(s) /\ Len(s) \in 1 .. 64 /\ W!EncodeName(s) \in Strings
           /\ Len(W!EncodeName(s)) = 1 + Len(s) /\ W!EncodeName(s)[1] = Len(s)
<1>1. s \in Strings /\ W!SessionName(s) = {s}
  BY DEF W!Names, Strings
<1>2. Len(s) \in Nat /\ (s # <<>> => Len(s) >= 1)
  <2>1. s \in Seq(W!Byte)
    BY <1>1 DEF Strings
  <2> QED BY <2>1, LenProperties, EmptySeq
<1>3. s # <<>>
  <2>1. SUFFICES ASSUME s = <<>> PROVE FALSE
    OBVIOUS
  <2>2. \A x \in W!SessionName(<<>>) : x # <<>>
    BY DEF W!SessionName
  <2> QED BY <1>1, <2>1, <2>2
<1>4. Named(s)
  <2>1. s \in W!SessionName(s) /\ Len(s) >= 1
    BY <1>1, <1>2, <1>3
  <2> QED BY <1>1, <2>1, NameTaken
<1>5. Len(s) \in 1 .. 64
  BY <1>4 DEF Named, W!MaxName
<1>6. <<Len(s)>> \in Strings /\ Len(<<Len(s)>>) = 1 /\ <<Len(s)>>[1] = Len(s)
  <2>1. Len(s) \in W!Byte
    BY <1>5 DEF W!Byte
  <2> QED BY <2>1 DEF Strings
<1>7. /\ <<Len(s)>> \o s \in Strings /\ Len(<<Len(s)>> \o s) = Len(<<Len(s)>>) + Len(s)
      /\ \A i \in 1 .. Len(<<Len(s)>>) : (<<Len(s)>> \o s)[i] = <<Len(s)>>[i]
  BY <1>1, <1>6, Joined, Zenon
<1> DEFINE x == <<Len(s)>>
<1>8. W!EncodeName(s) = x \o s
  BY DEF W!EncodeName
<1>9. /\ x \o s \in Strings /\ Len(x \o s) = Len(x) + Len(s) /\ Len(x) = 1 /\ x[1] = Len(s)
      /\ \A i \in 1 .. Len(x) : (x \o s)[i] = x[i]
  BY <1>6, <1>7
<1> HIDE DEF x
<1>10. (x \o s)[1] = Len(s) /\ Len(x \o s) = 1 + Len(s)
  BY <1>9
<1> QED BY <1>4, <1>5, <1>8, <1>9, <1>10

\* The bytes of a message with a session: the fields after a string that is written.
LEMMA FieldsFollow ==
    ASSUME NEW x \in Strings, NEW f \in W!Octets(32), NEW c \in W!Octets(8), NEW r \in W!Octets(8),
           NEW e \in W!Octets(8), NEW k \in W!Octets(32)
    PROVE  x \o f \o c \o r \o e \o k \in Strings
<1>1. f \in Strings /\ c \in Strings /\ r \in Strings /\ e \in Strings /\ k \in Strings
  BY OctetsAreBytes
<1>2. x \o f \in Strings
  BY <1>1, Joined, Zenon
<1>3. x \o f \o c \in Strings
  BY <1>1, <1>2, Joined, Zenon
<1>4. x \o f \o c \o r \in Strings
  BY <1>1, <1>3, Joined, Zenon
<1>5. x \o f \o c \o r \o e \in Strings
  BY <1>1, <1>4, Joined, Zenon
<1> QED BY <1>1, <1>5, Joined, Zenon

\* An open request.
LEMMA OpenIsBytes ==
    ASSUME NEW m, m.session \in W!Names, m.fingerprint \in W!Octets(32),
           m.configuration_generation \in W!Octets(8), m.relay_generation \in W!Octets(8),
           m.connection_epoch \in W!Octets(8), m.token \in W!Octets(32)
    PROVE  W!EncodeOpen(m) \in Strings
<1>1. W!EncodeName(m.session) \in Strings
  BY NameIsBytes
<1> QED BY <1>1, FieldsFollow DEF W!EncodeOpen

\* The lengths of payloads.
LEMMA PayloadLengths ==
    /\ W!MaxFrame \in Nat /\ W!MaxU16 \in Nat
    /\ W!MaxFrame - W!HdqmHeader \in 0 .. W!MaxU16 /\ W!MaxFrame - W!HdpHeader \in 0 .. W!MaxU16
    /\ W!MaxFrame - W!HdpHeader + 11 <= W!MaxFrame
BY DEF W!MaxFrame, W!MaxU16, W!HdqmHeader, W!HdpHeader

\* An HDP1 frame: its length is at its place and is that of its payload.
LEMMA HdpIsBytes ==
    ASSUME NEW m \in W!Sendable("hdp")
    PROVE  /\ W!EncodeHdp(m) \in Strings /\ Len(W!EncodeHdp(m)) = 11 + Len(m.payload)
           /\ Len(m.payload) \in Nat /\ 11 + Len(m.payload) <= W!MaxFrame
           /\ W!EncodeHdp(m)[8] = 0 /\ W!EncodeHdp(m)[9] = 0
           /\ Len(m.payload) = 256 * W!EncodeHdp(m)[10] + W!EncodeHdp(m)[11]
<1>1. m.kind \in W!HdpKind /\ m.payload \in W!AtMost(W!MaxFrame - W!HdpHeader)
  BY DEF W!Sendable
<1> DEFINE p == m.payload
           h == W!Hdp1 \o W!Version \o <<m.kind>>
           u == W!U32(Len(p))
<1>2. p \in Strings /\ Len(p) \in Nat /\ Len(p) <= W!MaxFrame - W!HdpHeader
  BY <1>1, SliceAll DEF W!AtMost, Strings
<1>3. Len(p) \in 0 .. W!MaxU16 /\ 11 + Len(p) <= W!MaxFrame
  BY <1>2, PayloadLengths
<1>4. m.kind \in W!Byte
  BY <1>1 DEF W!HdpKind, W!Byte
<1>5. h \in Strings /\ Len(h) = 7
  BY <1>4, MagicIsBytes
<1>6. /\ u \in Strings /\ Len(u) = 4 /\ u[1] = 0 /\ u[2] = 0 /\ Len(p) = 256 * u[3] + u[4]
  BY <1>3, U32IsBytes
<1>7. W!EncodeHdp(m) = (h \o u) \o p
  BY DEF W!EncodeHdp
<1> HIDE DEF p, h, u
<1>8. /\ h \o u \in Strings /\ Len(h \o u) = Len(h) + Len(u)
      /\ \A i \in 1 .. Len(u) : (h \o u)[Len(h) + i] = u[i]
  BY <1>5, <1>6, Joined
<1>9. /\ (h \o u) \o p \in Strings /\ Len((h \o u) \o p) = Len(h \o u) + Len(p)
      /\ \A i \in 1 .. Len(h \o u) : ((h \o u) \o p)[i] = (h \o u)[i]
  BY <1>2, <1>8, Joined
<1>10. /\ (h \o u)[8] = u[1] /\ (h \o u)[9] = u[2] /\ (h \o u)[10] = u[3] /\ (h \o u)[11] = u[4]
       /\ Len(h \o u) = 11
  BY <1>5, <1>6, <1>8
<1> DEFINE z == h \o u
<1>11. /\ z \o p \in Strings /\ Len(z \o p) = Len(z) + Len(p)
       /\ \A i \in 1 .. Len(z) : (z \o p)[i] = z[i]
       /\ z[8] = u[1] /\ z[9] = u[2] /\ z[10] = u[3] /\ z[11] = u[4] /\ Len(z) = 11
       /\ W!EncodeHdp(m) = z \o p
  BY <1>7, <1>9, <1>10
<1> HIDE DEF z
<1>12. /\ (z \o p)[8] = 0 /\ (z \o p)[9] = 0 /\ (z \o p)[10] = u[3] /\ (z \o p)[11] = u[4]
       /\ Len(z \o p) = 11 + Len(p)
  BY <1>6, <1>11
<1>13. Len(p) = 256 * (z \o p)[10] + (z \o p)[11]
  BY <1>6, <1>12
<1>14. p = m.payload
  BY DEF p
<1> QED BY <1>2, <1>3, <1>11, <1>12, <1>13, <1>14

\* An HDQM frame.
LEMMA HdqmIsBytes ==
    ASSUME NEW m \in W!Sendable("hdqm")
    PROVE  W!EncodeHdqm(m) \in Strings
<1>1. /\ m.kind \in W!HdqmKind /\ m.request_id \in W!Octets(16)
      /\ m.payload \in W!AtMost(W!MaxFrame - W!HdqmHeader)
  BY DEF W!Sendable
<1> DEFINE p == m.payload
           h == W!Hdqm \o W!Version \o <<m.kind>>
           u == W!U32(Len(p))
<1>2. p \in Strings /\ Len(p) \in Nat /\ Len(p) <= W!MaxFrame - W!HdqmHeader
  BY <1>1, SliceAll DEF W!AtMost, Strings
<1>3. Len(p) \in 0 .. W!MaxU16
  BY <1>2, PayloadLengths
<1>4. m.kind \in W!Byte
  BY <1>1 DEF W!HdqmKind, W!Byte
<1>5. h \in Strings /\ m.request_id \in Strings /\ u \in Strings
  <2>1. u \in Strings
    BY <1>3, U32IsBytes
  <2>2. m.request_id \in Strings
    BY <1>1, OctetsAreBytes
  <2> QED BY <1>4, <2>1, <2>2, MagicIsBytes
<1>6. W!EncodeHdqm(m) = ((h \o m.request_id) \o u) \o p
  BY DEF W!EncodeHdqm
<1> HIDE DEF h, u, p
<1>7. h \o m.request_id \in Strings
  BY <1>5, Joined
<1>8. (h \o m.request_id) \o u \in Strings
  BY <1>5, <1>7, Joined, Zenon
<1> QED BY <1>2, <1>6, <1>8, Joined, Zenon

\* HDQM hello.
LEMMA HelloIsBytes ==
    ASSUME NEW m \in W!Sendable("hello")
    PROVE  W!EncodeHello(m) \in Strings
<1>1. /\ m.relay_identity \in W!Octets(32) /\ m.ca_generation \in W!Octets(8)
      /\ m.relay_generation \in W!Octets(8) /\ m.connection_epoch \in W!Octets(8)
  BY DEF W!Sendable, W!Given, W!Authority
<1>2. /\ m.relay_identity \in Strings /\ m.ca_generation \in Strings
      /\ m.relay_generation \in Strings /\ m.connection_epoch \in Strings
  BY <1>1, OctetsAreBytes
<1>3. m.relay_identity \o m.ca_generation \in Strings
  BY <1>2, Joined, Zenon
<1>4. m.relay_identity \o m.ca_generation \o m.relay_generation \in Strings
  BY <1>2, <1>3, Joined, Zenon
<1> QED BY <1>2, <1>4, Joined, Zenon DEF W!EncodeHello

\* A prepare request.
LEMMA PrepareIsBytes ==
    ASSUME NEW m \in W!Sendable("prepare")
    PROVE  W!EncodePrepare(m) \in Strings
<1>1. /\ m.session \in W!Names /\ m.expected_fingerprint \in W!Octets(32)
      /\ m.configuration_generation \in W!Octets(8)
  BY DEF W!Sendable
<1>2. /\ W!EncodeName(m.session) \in Strings /\ m.expected_fingerprint \in Strings
      /\ m.configuration_generation \in Strings
  BY <1>1, OctetsAreBytes, NameIsBytes
<1>3. W!EncodeName(m.session) \o m.expected_fingerprint \in Strings
  BY <1>2, Joined, Zenon
<1> QED BY <1>2, <1>3, Joined, Zenon DEF W!EncodePrepare

\* Its answer.
LEMMA PrepareAckIsBytes ==
    ASSUME NEW m \in W!Sendable("prepare_ack")
    PROVE  W!EncodePrepareAck(m) \in Strings
<1>1. /\ m.session \in W!Names /\ m.fingerprint \in W!Octets(32)
      /\ m.configuration_generation \in W!Octets(8) /\ m.relay_generation \in W!Octets(8)
      /\ m.connection_epoch \in W!Octets(8) /\ m.token \in W!Octets(32)
      /\ m.token_ttl_secs \in W!Octets(4)
  BY DEF W!Sendable
<1>2. W!EncodeOpen(m) \in Strings /\ m.token_ttl_secs \in Strings
  BY <1>1, OpenIsBytes, OctetsAreBytes
<1>3. W!EncodePrepareAck(m) = W!EncodeOpen(m) \o m.token_ttl_secs
  BY DEF W!EncodePrepareAck, W!EncodeOpen
<1> QED BY <1>2, <1>3, Joined, Zenon

\* The answer to an open request.
LEMMA OpenAckIsBytes ==
    ASSUME NEW m \in W!OpenAcks
    PROVE  W!EncodeOpenAck(m) \in Strings /\ W!U16(m.session_handle) \in Strings
           /\ Len(W!U16(m.session_handle)) = 2
<1>1. /\ m.session \in W!Names /\ m.fingerprint \in W!Octets(32)
      /\ m.configuration_generation \in W!Octets(8) /\ m.relay_generation \in W!Octets(8)
      /\ m.connection_epoch \in W!Octets(8) /\ m.token \in W!Octets(32)
      /\ m.session_handle \in 1 .. W!MaxU16
  BY DEF W!OpenAcks
<1>2. m.session_handle \in 0 .. W!MaxU16
  BY <1>1, PayloadLengths
<1>3. W!EncodeOpen(m) \in Strings
  BY <1>1, OpenIsBytes
<1>4. W!U16(m.session_handle) \in Strings /\ Len(W!U16(m.session_handle)) = 2
  BY <1>2, U16IsBytes
<1> QED BY <1>3, <1>4, Joined DEF W!EncodeOpenAck

\* The preface of a session stream: the length of its name is the byte at 32.
LEMMA BindingIsBytes ==
    ASSUME NEW m \in W!OpenAcks
    PROVE  /\ W!EncodeBinding(m) \in Strings /\ Len(m.session) \in 1 .. 64
           /\ Len(W!EncodeBinding(m)) = 33 + Len(m.session) + 64
           /\ W!EncodeBinding(m)[33] = Len(m.session)
           /\ \A i \in 1 .. 4 : W!EncodeBinding(m)[i] = W!Hdqs[i]
<1>1. /\ m.session \in W!Names /\ m.fingerprint \in W!Octets(32)
      /\ m.configuration_generation \in W!Octets(8) /\ m.relay_generation \in W!Octets(8)
      /\ m.connection_epoch \in W!Octets(8) /\ m.token \in W!Octets(32)
  BY DEF W!OpenAcks
<1> DEFINE h == W!Hdqs \o W!Version
           u == W!U16(m.session_handle)
           c == m.configuration_generation
           r == m.relay_generation
           e == m.connection_epoch
           x == W!EncodeName(m.session)
           f == m.fingerprint
           k == m.token
           n == Len(m.session)
<1>2. /\ h \in Strings /\ Len(h) = 6
  <2>1. 0 \in W!Byte
    BY DEF W!Byte
  <2> QED BY <2>1, MagicIsBytes
<1>3. u \in Strings /\ Len(u) = 2
  BY OpenAckIsBytes
<1>4. c \in Strings /\ Len(c) = 8 /\ r \in Strings /\ Len(r) = 8 /\ e \in Strings /\ Len(e) = 8
  BY <1>1, OctetsAreBytes
<1>5. f \in Strings /\ Len(f) = 32 /\ k \in Strings /\ Len(k) = 32
  BY <1>1, OctetsAreBytes
<1>6. n \in 1 .. 64 /\ x \in Strings /\ Len(x) = 1 + n /\ x[1] = n
  BY <1>1, NameIsBytes
<1>7. W!EncodeBinding(m) = h \o u \o c \o r \o e \o x \o f \o k
  BY DEF W!EncodeBinding
<1>8. \A i \in 1 .. 4 : h[i] = W!Hdqs[i]
  <2>1. /\ W!Hdqs \in Strings /\ W!Version \in Strings /\ Len(W!Hdqs) = 4
    <3>1. 0 \in W!Byte
      BY DEF W!Byte
    <3>2. W!Version \in Strings
      BY DEF W!Version, Strings, W!Byte
    <3> QED BY <3>1, <3>2, MagicIsBytes
  <2>2. \A i \in 1 .. Len(W!Hdqs) : (W!Hdqs \o W!Version)[i] = W!Hdqs[i]
    BY <2>1, Joined, Zenon
  <2> QED BY <2>1, <2>2
<1> HIDE DEF h, u, c, r, e, x, f, k, n
<1> DEFINE a1 == h \o u
           a2 == a1 \o c
           a3 == a2 \o r
           a4 == a3 \o e
           a5 == a4 \o x
           a6 == a5 \o f
           a7 == a6 \o k
<1>11. a1 \in Strings /\ Len(a1) = Len(h) + Len(u) /\ \A i \in 1 .. Len(h) : a1[i] = h[i]
  BY <1>2, <1>3, Joined
<1> HIDE DEF a1
<1>12. a2 \in Strings /\ Len(a2) = Len(a1) + Len(c) /\ \A i \in 1 .. Len(a1) : a2[i] = a1[i]
  BY <1>4, <1>11, Joined
<1> HIDE DEF a2
<1>13. a3 \in Strings /\ Len(a3) = Len(a2) + Len(r) /\ \A i \in 1 .. Len(a2) : a3[i] = a2[i]
  BY <1>4, <1>12, Joined
<1> HIDE DEF a3
<1>14. a4 \in Strings /\ Len(a4) = Len(a3) + Len(e) /\ \A i \in 1 .. Len(a3) : a4[i] = a3[i]
  BY <1>4, <1>13, Joined
<1> HIDE DEF a4
<1>15. /\ a5 \in Strings /\ Len(a5) = Len(a4) + Len(x) /\ \A i \in 1 .. Len(a4) : a5[i] = a4[i]
       /\ \A i \in 1 .. Len(x) : a5[Len(a4) + i] = x[i]
  BY <1>6, <1>14, Joined
<1> HIDE DEF a5
<1>16. a6 \in Strings /\ Len(a6) = Len(a5) + Len(f) /\ \A i \in 1 .. Len(a5) : a6[i] = a5[i]
  BY <1>5, <1>15, Joined
<1> HIDE DEF a6
<1>17. a7 \in Strings /\ Len(a7) = Len(a6) + Len(k) /\ \A i \in 1 .. Len(a6) : a7[i] = a6[i]
  BY <1>5, <1>16, Joined
<1> HIDE DEF a7
<1>18. /\ Len(a1) = 8 /\ Len(a2) = 16 /\ Len(a3) = 24 /\ Len(a4) = 32 /\ Len(a5) = 33 + n
       /\ Len(a6) = 65 + n /\ Len(a7) = 97 + n
  BY <1>2, <1>3, <1>4, <1>5, <1>6, <1>11, <1>12, <1>13, <1>14, <1>15, <1>16, <1>17
<1>19. a7[33] = n
  <2>1. a5[33] = x[1]
    <3>1. 1 \in 1 .. Len(x) /\ Len(a4) + 1 = 33
      BY <1>6, <1>18
    <3>2. a5[Len(a4) + 1] = x[1]
      BY <1>15, <3>1
    <3> QED BY <3>1, <3>2
  <2> QED BY <1>6, <1>16, <1>17, <1>18, <2>1
<1>20. \A i \in 1 .. 4 : a7[i] = h[i]
  <2>1. \A i \in 1 .. 4 : a4[i] = h[i]
    BY <1>2, <1>11, <1>12, <1>13, <1>14, <1>18
  <2>2. \A i \in 1 .. 4 : i \in 1 .. Len(a4) /\ i \in 1 .. Len(a5) /\ i \in 1 .. Len(a6)
    BY <1>6, <1>18
  <2> QED BY <1>15, <1>16, <1>17, <2>1, <2>2, Zenon
<1>21. W!EncodeBinding(m) = a7
  BY <1>7 DEF a1, a2, a3, a4, a5, a6, a7
<1>22. n = Len(m.session) /\ 97 + n = 33 + n + 64
  BY <1>6 DEF n
<1> QED BY <1>6, <1>8, <1>17, <1>18, <1>19, <1>20, <1>21, <1>22

\* Its answer.
LEMMA ResponseIsBytes ==
    ASSUME NEW m \in W!Sendable("response")
    PROVE  W!EncodeResponse(m) \in Strings
<1>1. /\ m.kind \in W!HdqsKind /\ m.status \in W!HdqsKind /\ m.session_handle \in 0 .. W!MaxU16
      /\ m.reason \in W!HdqsReason /\ m.connection_epoch \in W!Octets(8)
  BY DEF W!Sendable
<1>2. m.kind \in W!Byte /\ m.status \in W!Byte /\ m.reason \in W!Byte /\ 0 \in W!Byte
  BY <1>1 DEF W!HdqsKind, W!HdqsReason, W!Byte
<1> DEFINE h == W!Hdqs \o W!Version
           s == <<m.kind, m.status>>
           u == W!U16(m.session_handle)
           r == <<m.reason, 0>>
<1>3. h \in Strings
  BY <1>2, MagicIsBytes
<1>4. s \in Strings /\ r \in Strings
  BY <1>2, PairOfBytes
<1>5. u \in Strings
  BY <1>1, U16IsBytes
<1>6. m.connection_epoch \in Strings
  BY <1>1, OctetsAreBytes
<1>7. W!EncodeResponse(m) = h \o s \o u \o r \o m.connection_epoch
  BY DEF W!EncodeResponse
<1> HIDE DEF h, s, u, r
<1>8. h \o s \in Strings
  BY <1>3, <1>4, Joined, Zenon
<1>9. h \o s \o u \in Strings
  BY <1>5, <1>8, Joined, Zenon
<1>10. h \o s \o u \o r \in Strings
  BY <1>4, <1>9, Joined, Zenon
<1> QED BY <1>6, <1>7, <1>10, Joined, Zenon

\* What an encoder writes is a byte string.
LEMMA EncodedIsBytes ==
    ASSUME NEW t \in W!Types, NEW m \in W!Sendable(t)
    PROVE  W!Encode(t, m) \in Strings
<1>1. CASE t = "hdqm"
  BY <1>1, HdqmIsBytes DEF W!Encode
<1>2. CASE t = "hdp"
  <2>1. W!Encode(t, m) = W!EncodeHdp(m)
    BY <1>2 DEF W!Encode
  <2> QED BY <1>2, <2>1, HdpIsBytes
<1>3. CASE t = "hello"
  BY <1>3, HelloIsBytes DEF W!Encode
<1>4. CASE t = "prepare"
  BY <1>4, PrepareIsBytes DEF W!Encode
<1>5. CASE t = "prepare_ack"
  BY <1>5, PrepareAckIsBytes DEF W!Encode
<1>6. CASE t = "open"
  <2>1. W!Encode(t, m) = W!EncodeOpen(m) /\ m \in W!Opens
    BY <1>6 DEF W!Encode, W!Sendable
  <2>2. /\ m.session \in W!Names /\ m.fingerprint \in W!Octets(32)
        /\ m.configuration_generation \in W!Octets(8) /\ m.relay_generation \in W!Octets(8)
        /\ m.connection_epoch \in W!Octets(8) /\ m.token \in W!Octets(32)
    BY <2>1 DEF W!Opens
  <2> QED BY <2>1, <2>2, OpenIsBytes
<1>7. CASE t = "open_ack"
  <2>1. W!Encode(t, m) = W!EncodeOpenAck(m) /\ m \in W!OpenAcks
    BY <1>7 DEF W!Encode, W!Sendable
  <2> QED BY <2>1, OpenAckIsBytes
<1>8. CASE t = "binding"
  <2>1. W!Encode(t, m) = W!EncodeBinding(m) /\ m \in W!OpenAcks
    BY <1>8 DEF W!Encode, W!Sendable
  <2> QED BY <2>1, BindingIsBytes
<1>9. CASE t = "response"
  BY <1>9, ResponseIsBytes DEF W!Encode
<1> QED BY <1>1, <1>2, <1>3, <1>4, <1>5, <1>6, <1>7, <1>8, <1>9 DEF W!Types

-----------------------------------------------------------------------------
(* What a reader takes off a stream *)

\* A string that begins with another.
LEMMA PrefixIs ==
    ASSUME NEW b \in Strings, NEW s \in Strings, W!Slice(b, 0, Len(s)) = s
    PROVE  /\ Len(b) \in Nat /\ Len(s) \in Nat /\ Len(s) <= Len(b)
           /\ \A i \in 1 .. Len(s) : b[i] = s[i]
<1>1. Len(b) \in Nat /\ Len(s) \in Nat /\ W!Slice(b, 0, Len(b)) = b
  BY SliceAll
<1>2. Len(s) <= Len(b)
  <2>1. SUFFICES ASSUME Len(s) > Len(b) PROVE FALSE
    BY <1>1
  <2>2. W!Slice(b, 0, Len(s)) = W!Slice(b, 0, Len(b))
    BY <1>1, <2>1 DEF W!Slice
  <2> QED BY <1>1, <2>1, <2>2
<1>3. 0 \in Nat /\ 0 <= Len(s) /\ Len(s) - 0 = Len(s)
  BY <1>1
<1>4. \A k \in 1 .. Len(s) - 0 : W!Slice(b, 0, Len(s))[k] = b[0 + k]
  BY <1>1, <1>2, <1>3, SliceIs, Zenon
<1>5. \A k \in 1 .. Len(s) : 0 + k = k
  BY <1>1
<1> QED BY <1>1, <1>2, <1>3, <1>4, <1>5

\* read_hdp_frame takes the frame and nothing of what follows it.
LEMMA HdpTaken ==
    ASSUME NEW b \in Strings, NEW m \in W!Sendable("hdp"),
           W!Slice(b, 0, Len(W!EncodeHdp(m))) = W!EncodeHdp(m)
    PROVE  W!TakesHdp(b) = {Len(W!EncodeHdp(m))}
<1> DEFINE s == W!EncodeHdp(m)
           n == Len(m.payload)
<1>1. /\ s \in Strings /\ Len(s) = 11 + n /\ n \in Nat /\ 11 + n <= W!MaxFrame
      /\ s[8] = 0 /\ s[9] = 0 /\ n = 256 * s[10] + s[11]
  BY HdpIsBytes
<1>2. Len(b) \in Nat /\ Len(s) <= Len(b) /\ \A i \in 1 .. Len(s) : b[i] = s[i]
  BY <1>1, PrefixIs
<1> HIDE DEF s, n
<1>3. b[8] = 0 /\ b[9] = 0 /\ b[10] = s[10] /\ b[11] = s[11]
  BY <1>1, <1>2
<1>4. W!FromU32(b, 7) = n
  <2>1. 7 + 1 = 8 /\ 7 + 2 = 9 /\ (7 + 2) + 1 = 10 /\ (7 + 2) + 2 = 11
    OBVIOUS
  <2>2. W!FromU32(b, 7) = W!FromU16(b, 7 + 2)
    BY <1>3, <2>1 DEF W!FromU32
  <2> QED BY <1>1, <1>3, <2>1, <2>2 DEF W!FromU16
<1>5. W!HdpHeader = 11
  BY DEF W!HdpHeader
<1>6. ~(Len(b) < 11) /\ ~(11 + n > W!MaxFrame) /\ ~(Len(b) < 11 + n)
  BY <1>1, <1>2, PayloadLengths
<1>7. W!TakesHdp(b) = {11 + n}
  BY <1>4, <1>5, <1>6 DEF W!TakesHdp
<1> QED BY <1>1, <1>7 DEF s

\* So do the two readers of the preface.
LEMMA BindingTaken ==
    ASSUME NEW b \in Strings, NEW m \in W!OpenAcks,
           W!Slice(b, 0, Len(W!EncodeBinding(m))) = W!EncodeBinding(m)
    PROVE  /\ W!TakesBinding(b) = {Len(W!EncodeBinding(m))}
           /\ W!TakesBindingIroh(b) = {Len(W!EncodeBinding(m))}
<1> DEFINE s == W!EncodeBinding(m)
           n == Len(m.session)
<1>1. /\ s \in Strings /\ n \in 1 .. 64 /\ Len(s) = 33 + n + 64 /\ s[33] = n
      /\ \A i \in 1 .. 4 : s[i] = W!Hdqs[i]
  BY BindingIsBytes
<1>2. Len(b) \in Nat /\ Len(s) <= Len(b) /\ \A i \in 1 .. Len(s) : b[i] = s[i]
  BY <1>1, PrefixIs
<1> HIDE DEF s, n
<1>3. b[33] = n /\ ~(Len(b) < 33) /\ ~(n = 0) /\ ~(n > 64) /\ ~(Len(b) < 33 + n + 64)
  BY <1>1, <1>2
<1>4. W!TakesBinding(b) = {33 + n + 64}
  BY <1>3 DEF W!TakesBinding, W!MaxName
<1>5. W!Slice(b, 0, 4) = W!Hdqs
  <2>1. /\ W!Hdqs \in Strings /\ Len(W!Hdqs) = 4
    <3>1. 0 \in W!Byte
      BY DEF W!Byte
    <3> QED BY <3>1, MagicIsBytes
  <2>2. 4 <= Len(b) /\ 0 <= 4 /\ 0 \in Nat /\ 4 \in Nat
    BY <1>1, <1>2
  <2>3. /\ W!Slice(b, 0, 4) \in Strings /\ Len(W!Slice(b, 0, 4)) = 4 - 0
        /\ \A k \in 1 .. 4 - 0 : W!Slice(b, 0, 4)[k] = b[0 + k]
    BY <2>2, SliceIs, Zenon
  <2>4. \A k \in 1 .. 4 : W!Slice(b, 0, 4)[k] = W!Hdqs[k]
    BY <1>1, <1>2, <2>3
  <2> DEFINE x == W!Slice(b, 0, 4)
  <2>5. x \in Seq(W!Byte) /\ W!Hdqs \in Seq(W!Byte) /\ Len(x) = Len(W!Hdqs)
        /\ \A k \in 1 .. Len(x) : x[k] = W!Hdqs[k]
    BY <2>1, <2>3, <2>4 DEF Strings
  <2> HIDE DEF x
  <2>6. x = W!Hdqs
    BY <2>5, SeqEqual
  <2> QED BY <2>6 DEF x
<1>6. W!TakesBindingIroh(b) = W!TakesBinding(b)
  BY <1>5 DEF W!TakesBindingIroh
<1> QED BY <1>1, <1>4, <1>6 DEF s

-----------------------------------------------------------------------------
(* What an encoder of the session plane writes is read back *)

\* A string that is written after another is found behind it.
LEMMA Appended ==
    ASSUME NEW x \in Strings, NEW y \in Strings, NEW n, n = Len(x), NEW k, k = n + Len(y)
    PROVE  /\ x \o y \in Strings /\ Len(x \o y) = k /\ n \in Nat /\ k \in Nat /\ n <= k
           /\ W!Slice(x \o y, n, k) = y
           /\ \A i, j \in Nat : i <= j /\ j <= n => W!Slice(x \o y, i, j) = W!Slice(x, i, j)
           /\ \A i \in 1 .. n : (x \o y)[i] = x[i]
<1> DEFINE z == x \o y
<1>1. /\ z \in Strings /\ Len(z) = Len(x) + Len(y) /\ Len(x) \in Nat /\ Len(y) \in Nat
      /\ \A i \in 1 .. Len(x) : z[i] = x[i]
      /\ \A i \in 1 .. Len(y) : z[Len(x) + i] = y[i]
  BY Joined
<1> HIDE DEF z
<1>2. n \in Nat /\ k \in Nat /\ n <= k /\ k = Len(z) /\ k <= Len(z) /\ k - n = Len(y)
  BY <1>1
<1>3. W!Slice(z, n, k) = y
  <2> DEFINE w == W!Slice(z, n, k)
  <2>1. w \in Strings /\ Len(w) = k - n /\ \A i \in 1 .. k - n : w[i] = z[n + i]
    BY <1>1, <1>2, SliceIs
  <2> HIDE DEF w
  <2>2. \A i \in 1 .. Len(w) : w[i] = y[i]
    BY <1>1, <1>2, <2>1
  <2>3. w = y
    BY <1>2, <2>1, <2>2, SeqEqual DEF Strings
  <2> QED BY <2>3 DEF w
<1>4. ASSUME NEW i \in Nat, NEW j \in Nat, i <= j, j <= n
      PROVE  W!Slice(z, i, j) = W!Slice(x, i, j)
  <2> DEFINE w == W!Slice(z, i, j)
             v == W!Slice(x, i, j)
  <2>1. j <= Len(z) /\ j <= Len(x)
    BY <1>1, <1>2, <1>4
  <2>2. w \in Strings /\ Len(w) = j - i /\ \A l \in 1 .. j - i : w[l] = z[i + l]
    BY <1>1, <1>4, <2>1, SliceIs
  <2>3. v \in Strings /\ Len(v) = j - i /\ \A l \in 1 .. j - i : v[l] = x[i + l]
    BY <1>4, <2>1, SliceIs
  <2> HIDE DEF w, v
  <2>4. \A l \in 1 .. Len(w) : w[l] = v[l]
    <3>1. \A l \in 1 .. j - i : i + l \in 1 .. Len(x)
      BY <1>1, <1>2, <1>4
    <3> QED BY <1>1, <2>2, <2>3, <3>1
  <2>5. w = v
    BY <2>2, <2>3, <2>4, SeqEqual DEF Strings
  <2> QED BY <2>5 DEF w, v
<1> QED BY <1>1, <1>2, <1>3, <1>4 DEF z

\* The whole of a string is its slice up to its length.
LEMMA WholeIs ==
    ASSUME NEW x \in Strings, NEW n, n = Len(x)
    PROVE  W!Slice(x, 0, n) = x /\ n \in Nat
BY SliceAll

\* A string of n bytes.
Long(x, n) == x \in Strings /\ Len(x) = n /\ n \in Nat

\* A string that holds y from n up to m.
At(z, n, m, y) ==
    /\ z \in Strings /\ n \in Nat /\ m \in Nat /\ n <= m /\ m <= Len(z)
    /\ W!Slice(z, n, m) = y

\* A string that holds what another does, where the other does.
StartsAs(z, x) == \A i, j, y : At(x, i, j, y) => At(z, i, j, y)

\* Writing a field behind a string.
LEMMA Written ==
    ASSUME NEW x, NEW y, NEW n, NEW l, NEW m, Long(x, n), Long(y, l), m = n + l
    PROVE  Long(x \o y, m) /\ At(x \o y, n, m, y) /\ StartsAs(x \o y, x)
<1>1. x \in Strings /\ y \in Strings /\ n = Len(x) /\ m = n + Len(y)
  BY DEF Long
<1> DEFINE z == x \o y
<1>2. /\ z \in Strings /\ Len(z) = m /\ n \in Nat /\ m \in Nat /\ n <= m
      /\ W!Slice(z, n, m) = y
      /\ \A i, j \in Nat : i <= j /\ j <= n => W!Slice(z, i, j) = W!Slice(x, i, j)
  BY <1>1, Appended
<1> HIDE DEF z
<1>3. Long(z, m)
  BY <1>2 DEF Long
<1>4. At(z, n, m, y)
  BY <1>2 DEF At
<1>5. ASSUME NEW i, NEW j, NEW a, At(x, i, j, a) PROVE At(z, i, j, a)
  <2>1. i \in Nat /\ j \in Nat /\ i <= j /\ j <= n /\ W!Slice(x, i, j) = a
    BY <1>1, <1>5 DEF At
  <2>2. j <= Len(z)
    BY <1>2, <2>1
  <2> QED BY <1>2, <2>1, <2>2 DEF At
<1> QED BY <1>3, <1>4, <1>5 DEF z, StartsAs

\* A string holds itself.
LEMMA WholeAt ==
    ASSUME NEW x, NEW n, Long(x, n)
    PROVE  At(x, 0, n, x)
<1>1. x \in Strings /\ n = Len(x) /\ n \in Nat /\ n <= Len(x) /\ 0 <= n
  BY DEF Long
<1> QED BY <1>1, WholeIs DEF At

\* What a string holds is found behind one that is written before it.
LEMMA Behind ==
    ASSUME NEW x, NEW y, NEW n, NEW l, Long(x, n), Long(y, l), NEW i, NEW j, NEW a, At(y, i, j, a)
    PROVE  At(x \o y, n + i, n + j, a)
<1>1. /\ x \in Strings /\ y \in Strings /\ n = Len(x) /\ l = Len(y) /\ n \in Nat /\ l \in Nat
      /\ i \in Nat /\ j \in Nat /\ i <= j /\ j <= l /\ W!Slice(y, i, j) = a
  BY DEF Long, At
<1> DEFINE z == x \o y
           k == n + l
<1>2. z \in Strings /\ Len(z) = k /\ k \in Nat /\ W!Slice(z, n, k) = y
  BY <1>1, Appended
<1> HIDE DEF z
<1>3. n + j <= Len(z) /\ n + i \in Nat /\ n + j \in Nat /\ n + i <= n + j
  BY <1>1, <1>2
<1>4. W!Slice(W!Slice(z, n, Len(z)), i, j) = W!Slice(z, n + i, n + j)
  <2>1. z \in Strings /\ n \in Nat /\ i \in Nat /\ j \in Nat /\ i <= j /\ n + j <= Len(z)
    BY <1>1, <1>2, <1>3
  <2> QED BY <2>1, SliceOfEnd
<1>5. W!Slice(z, n + i, n + j) = a
  BY <1>1, <1>2, <1>4
<1>6. At(z, n + i, n + j, a)
  BY <1>2, <1>3, <1>5 DEF At
<1> QED BY <1>6 DEF z

\* What is held in what is held.
LEMMA Within ==
    ASSUME NEW z, NEW x, NEW y, StartsAs(z, y), StartsAs(y, x)
    PROVE  StartsAs(z, x)
BY Zenon DEF StartsAs

\* Two bytes.
LEMMA PairRead ==
    ASSUME NEW b, NEW i, NEW j, NEW v, NEW w, At(b, i, j, <<v, w>>), j = i + 2
    PROVE  b[i + 1] = v /\ b[i + 2] = w
<1>1. b \in Strings /\ i \in Nat /\ j \in Nat /\ i <= j /\ j <= Len(b) /\ W!Slice(b, i, j) = <<v, w>>
  BY DEF At
<1>2. \A k \in 1 .. j - i : W!Slice(b, i, j)[k] = b[i + k]
  BY <1>1, SliceIs
<1>3. j - i = 2
  BY <1>1
<1>4. <<v, w>>[1] = b[i + 1] /\ <<v, w>>[2] = b[i + 2]
  BY <1>1, <1>2, <1>3
<1> QED BY <1>4

\* A byte that is written is read back.
LEMMA ByteRead ==
    ASSUME NEW b \in Strings, NEW i \in Nat, i + 1 <= Len(b), NEW v, W!Slice(b, i, i + 1) = <<v>>
    PROVE  b[i + 1] = v
<1>1. i < Len(b)
  BY SliceAll
<1>2. <<b[i + 1]>> = W!Slice(b, i, i + 1)
  BY <1>1, SliceOne
<1>3. <<b[i + 1]>>[1] = <<v>>[1]
  BY <1>2
<1> QED BY <1>3

\* So is a u16.
LEMMA U16Read ==
    ASSUME NEW b \in Strings, NEW i \in Nat, i + 2 <= Len(b), NEW n \in 0 .. W!MaxU16,
           W!Slice(b, i, i + 2) = W!U16(n)
    PROVE  W!FromU16(b, i) = n
<1> DEFINE q == W!FromU16(b, i)
<1>1. W!U16(q) = W!U16(n) /\ q \in 0 .. W!MaxU16
  BY SliceU16
<1>2. n = 256 * W!U16(n)[1] + W!U16(n)[2]
  BY U16IsBytes
<1> HIDE DEF q
<1>3. q = 256 * W!U16(q)[1] + W!U16(q)[2]
  BY <1>1, U16IsBytes
<1>4. q = n
  BY <1>1, <1>2, <1>3, Zenon
<1> QED BY <1>4 DEF q

\* And the length of a payload.
LEMMA U32Read ==
    ASSUME NEW b \in Strings, NEW i \in Nat, i + 4 <= Len(b), NEW n \in 0 .. W!MaxU16,
           W!Slice(b, i, i + 4) = W!U32(n)
    PROVE  W!FromU32(b, i) = n
<1> DEFINE u == W!U32(n)
<1>1. u[1] = 0 /\ u[2] = 0 /\ n = 256 * u[3] + u[4]
  BY U32IsBytes
<1>2. \A k \in 1 .. (i + 4) - i : W!Slice(b, i, i + 4)[k] = b[i + k]
  <2>1. i + 4 \in Nat /\ i <= i + 4
    OBVIOUS
  <2> QED BY <2>1, SliceIs, Zenon
<1>3. (i + 4) - i = 4 /\ (i + 2) + 1 = i + 3 /\ (i + 2) + 2 = i + 4
  OBVIOUS
<1>4. \A k \in 1 .. 4 : u[k] = b[i + k]
  BY <1>2, <1>3
<1> HIDE DEF u
<1>5. b[i + 1] = 0 /\ b[i + 2] = 0 /\ b[i + 3] = u[3] /\ b[i + 4] = u[4]
  BY <1>1, <1>4
<1>6. W!FromU32(b, i) = W!FromU16(b, i + 2)
  BY <1>5 DEF W!FromU32
<1>7. W!FromU16(b, i + 2) = 256 * b[i + 3] + b[i + 4]
  BY <1>3 DEF W!FromU16
<1> QED BY <1>1, <1>5, <1>6, <1>7

\* A name is found behind its length.
LEMMA NameRead ==
    ASSUME NEW b \in Strings, NEW at \in Nat, NEW s \in W!Names, NEW k, k = at + 1 + Len(s), k <= Len(b),
           W!Slice(b, at, k) = W!EncodeName(s)
    PROVE  /\ b[at + 1] = Len(s) /\ W!Slice(b, at + 1, k) = s
           /\ W!SessionName(s) = {s} /\ Len(s) \in 1 .. 64 /\ k \in Nat
<1>1. Named(s) /\ Len(s) \in 1 .. 64 /\ W!EncodeName(s)[1] = Len(s) /\ Len(W!EncodeName(s)) = 1 + Len(s)
  BY NameIsBytes
<1>2. s \in Strings /\ W!SessionName(s) = {s} /\ Len(s) \in Nat /\ Len(b) \in Nat
  BY SliceAll DEF W!Names, Strings
<1>3. k \in Nat /\ at <= k /\ at + 1 \in Nat /\ at + 1 <= k /\ k - at = 1 + Len(s) /\ k - (at + 1) = Len(s)
  BY <1>2
<1>4. \A i \in 1 .. 1 + Len(s) : W!EncodeName(s)[i] = b[at + i]
  <2>1. \A i \in 1 .. k - at : W!Slice(b, at, k)[i] = b[at + i]
    BY <1>3, SliceIs
  <2> QED BY <1>3, <2>1
<1>5. b[at + 1] = Len(s)
  BY <1>1, <1>2, <1>4
<1> DEFINE x == <<Len(s)>>
           y == W!Slice(b, at + 1, k)
<1>6. W!EncodeName(s) = x \o s /\ x \in Strings /\ Len(x) = 1
  <2>1. Len(s) \in W!Byte
    BY <1>1 DEF W!Byte
  <2> QED BY <2>1 DEF W!EncodeName, Strings
<1>7. y \in Strings /\ Len(y) = Len(s) /\ \A i \in 1 .. Len(s) : y[i] = b[(at + 1) + i]
  <2>1. y \in Strings /\ Len(y) = k - (at + 1) /\ \A i \in 1 .. k - (at + 1) : y[i] = b[(at + 1) + i]
    BY <1>3, SliceIs
  <2> QED BY <1>3, <2>1
<1> HIDE DEF x, y
<1>8. \A i \in 1 .. Len(s) : (x \o s)[Len(x) + i] = s[i]
  BY <1>2, <1>6, Joined
<1>9. ASSUME NEW i \in 1 .. Len(s) PROVE y[i] = s[i]
  <2>1. 1 + i \in 1 .. 1 + Len(s) /\ (at + 1) + i = at + (1 + i)
    BY <1>2
  <2>2. y[i] = b[at + (1 + i)]
    BY <1>7, <2>1
  <2>3. W!EncodeName(s)[1 + i] = b[at + (1 + i)]
    BY <1>4, <2>1
  <2>4. (x \o s)[1 + i] = s[i]
    BY <1>6, <1>8
  <2> QED BY <1>6, <2>2, <2>3, <2>4
<1>10. y = s
  BY <1>2, <1>7, <1>9, SeqEqual DEF Strings
<1> QED BY <1>1, <1>2, <1>3, <1>5, <1>10 DEF y

\* decode_session_name of what begins with the encoding of a name.
LEMMA NameBack ==
    ASSUME NEW b \in Strings, NEW s \in W!Names, NEW k, k = 1 + Len(s), At(b, 0, k, W!EncodeName(s))
    PROVE  W!DecodeName(b) = {[session |-> s, next |-> k]} /\ k \in Nat
<1>1. /\ Len(s) \in 1 .. 64 /\ Len(b) \in Nat /\ k = 0 + 1 + Len(s) /\ 0 + 1 = 1 /\ 0 \in Nat
      /\ k <= Len(b) /\ W!Slice(b, 0, k) = W!EncodeName(s) /\ k \in Nat
  BY NameIsBytes, SliceAll DEF At
<1>2. b[0 + 1] = Len(s) /\ W!Slice(b, 0 + 1, k) = s /\ W!SessionName(s) = {s}
  BY <1>1, NameRead
<1>3. b[1] = Len(s) /\ W!Slice(b, 1, 1 + Len(s)) = s
  BY <1>1, <1>2
<1>4. b # <<>>
  BY <1>1, EmptySeq DEF Strings
<1>5. ~(Len(s) = 0 \/ Len(s) > 64 \/ Len(b) < 1 + Len(s))
  <2>1. \A n \in 1 .. 64 : ~(n = 0) /\ ~(n > 64)
    OBVIOUS
  <2>2. \A i, j \in Nat : i <= j => ~(j < i)
    OBVIOUS
  <2>3. ~(Len(b) < k)
    BY <1>1, <2>2
  <2> QED BY <1>1, <2>1, <2>3, Zenon
<1>6. W!DecodeName(b) = {[session |-> r, next |-> 1 + Len(s)] : r \in {s}}
  BY <1>2, <1>3, <1>4, <1>5 DEF W!DecodeName, W!MaxName
<1> QED BY <1>1, <1>6

\* A field of w bytes has that length.
LEMMA OctetsLong ==
    ASSUME NEW w \in Nat, NEW x \in W!Octets(w)
    PROVE  Long(x, w)
BY OctetsAreBytes DEF Long

\* A name with its length before it.
LEMMA NameLong ==
    ASSUME NEW s \in W!Names
    PROVE  Long(W!EncodeName(s), 1 + Len(s)) /\ 1 + Len(s) \in Nat /\ Len(s) \in 1 .. 64
BY NameIsBytes DEF Long

\* The fields of an open request and of the messages that hold one.
HoldsOpen(m) ==
    /\ m.session \in W!Names /\ m.fingerprint \in W!Octets(32)
    /\ m.configuration_generation \in W!Octets(8) /\ m.relay_generation \in W!Octets(8)
    /\ m.connection_epoch \in W!Octets(8) /\ m.token \in W!Octets(32)

\* The open request as it is laid out.
LEMMA OpenAt ==
    ASSUME NEW m, HoldsOpen(m), NEW n, n = 1 + Len(m.session), NEW z, z = W!EncodeOpen(m)
    PROVE  /\ Long(z, n + 88) /\ n \in Nat /\ At(z, 0, n, W!EncodeName(m.session))
           /\ At(z, n, n + 32, m.fingerprint) /\ At(z, n + 32, n + 40, m.configuration_generation)
           /\ At(z, n + 40, n + 48, m.relay_generation) /\ At(z, n + 48, n + 56, m.connection_epoch)
           /\ At(z, n + 56, n + 88, m.token)
<1> DEFINE x == W!EncodeName(m.session)
           f == m.fingerprint
           c == m.configuration_generation
           r == m.relay_generation
           e == m.connection_epoch
           k == m.token
<1>1. Long(x, n) /\ n \in Nat /\ At(x, 0, n, x)
  BY NameLong, WholeAt DEF HoldsOpen
<1>2. z = x \o f \o c \o r \o e \o k
  BY DEF W!EncodeOpen
<1>3. /\ f \in W!Octets(32) /\ c \in W!Octets(8) /\ r \in W!Octets(8) /\ e \in W!Octets(8)
      /\ k \in W!Octets(32)
  BY DEF HoldsOpen
<1> HIDE DEF x, f, c, r, e, k
<1>4. Long(f, 32) /\ Long(c, 8) /\ Long(r, 8) /\ Long(e, 8) /\ Long(k, 32)
  BY <1>3, OctetsLong
<1>5. /\ n + 40 = (n + 32) + 8 /\ n + 48 = (n + 40) + 8 /\ n + 56 = (n + 48) + 8
      /\ n + 88 = (n + 56) + 32
  BY <1>1
<1> DEFINE a1 == x \o f
           a2 == a1 \o c
           a3 == a2 \o r
           a4 == a3 \o e
<1>6. z = a4 \o k
  BY <1>2
<1>7. Long(a1, n + 32) /\ At(a1, n, n + 32, f) /\ StartsAs(a1, x)
  BY <1>1, <1>4, Written
<1> HIDE DEF a1
<1>8. Long(a2, n + 40) /\ At(a2, n + 32, n + 40, c) /\ StartsAs(a2, a1)
  BY <1>4, <1>5, <1>7, Written
<1> HIDE DEF a2
<1>9. Long(a3, n + 48) /\ At(a3, n + 40, n + 48, r) /\ StartsAs(a3, a2)
  BY <1>4, <1>5, <1>8, Written
<1> HIDE DEF a3
<1>10. Long(a4, n + 56) /\ At(a4, n + 48, n + 56, e) /\ StartsAs(a4, a3)
  BY <1>4, <1>5, <1>9, Written
<1> HIDE DEF a4
<1>11. Long(z, n + 88) /\ At(z, n + 56, n + 88, k) /\ StartsAs(z, a4)
  <2> DEFINE i == n + 56
             j == n + 88
  <2>1. Long(a4, i) /\ j = i + 32
    BY <1>5, <1>10
  <2> HIDE DEF i, j
  <2>2. Long(z, j) /\ At(z, i, j, k) /\ StartsAs(z, a4)
    BY <1>4, <1>6, <2>1, Written
  <2> QED BY <2>2 DEF i, j
<1>12. StartsAs(z, a3) /\ StartsAs(z, a2) /\ StartsAs(z, a1) /\ StartsAs(z, x)
  BY <1>7, <1>8, <1>9, <1>10, <1>11, Within
<1>13. /\ Long(z, n + 88) /\ StartsAs(z, x)
      /\ At(z, n, n + 32, f) /\ At(z, n + 32, n + 40, c) /\ At(z, n + 40, n + 48, r)
      /\ At(z, n + 48, n + 56, e) /\ At(z, n + 56, n + 88, k)
  BY <1>7, <1>8, <1>9, <1>10, <1>11, <1>12 DEF StartsAs
<1>14. At(z, 0, n, x)
  BY <1>1, <1>13 DEF StartsAs
<1> QED BY <1>1, <1>13, <1>14 DEF x, f, c, r, e, k

\* An open request is read back.
LEMMA OpenBack ==
    ASSUME NEW m \in W!Opens
    PROVE  W!DecodeOpen(W!EncodeOpen(m)) = {m}
<1> DEFINE z == W!EncodeOpen(m)
           n == 1 + Len(m.session)
           d == [session |-> m.session, next |-> n]
<1>1. HoldsOpen(m)
  BY DEF HoldsOpen, W!Opens
<1>2. /\ Long(z, n + 88) /\ n \in Nat /\ At(z, 0, n, W!EncodeName(m.session))
      /\ At(z, n, n + 32, m.fingerprint) /\ At(z, n + 32, n + 40, m.configuration_generation)
      /\ At(z, n + 40, n + 48, m.relay_generation) /\ At(z, n + 48, n + 56, m.connection_epoch)
      /\ At(z, n + 56, n + 88, m.token)
  BY <1>1, OpenAt
<1>3. W!DecodeName(z) = {d}
  BY <1>1, <1>2, NameBack DEF HoldsOpen, Long
<1>4. m = [session |-> m.session, fingerprint |-> m.fingerprint,
           configuration_generation |-> m.configuration_generation,
           relay_generation |-> m.relay_generation, connection_epoch |-> m.connection_epoch,
           token |-> m.token]
  BY DEF W!Opens
<1> HIDE DEF z, n
<1>5. Len(z) = n + 88 /\ n + W!Authority + 24 + W!Authority = n + 88
  BY <1>2 DEF Long, W!Authority
<1>6. W!OpenFields(m.session, z, n) = m
  BY <1>2, <1>4, <1>5 DEF W!OpenFields, At
<1>7. d.session = m.session /\ d.next = n
  OBVIOUS
<1> HIDE DEF d
<1>8. {e \in {d} : Len(z) = e.next + W!Authority + 24 + W!Authority} = {d}
  BY <1>5, <1>7
<1>9. W!DecodeOpen(z) = {W!OpenFields(e.session, z, e.next) : e \in {d}}
  BY <1>3, <1>8 DEF W!DecodeOpen
<1> QED BY <1>6, <1>7, <1>9 DEF z

\* A prepare request is read back.
LEMMA PrepareBack ==
    ASSUME NEW m \in W!Sendable("prepare")
    PROVE  W!DecodePrepare(W!EncodePrepare(m)) = {m}
<1> DEFINE x == W!EncodeName(m.session)
           f == m.expected_fingerprint
           c == m.configuration_generation
           y == x \o f
           z == W!EncodePrepare(m)
           n == 1 + Len(m.session)
           d == [session |-> m.session, next |-> n]
<1>1. /\ m \in [session : W!Names, expected_fingerprint : W!Octets(32),
                configuration_generation : W!Octets(8)]
  BY DEF W!Sendable
<1>2. m.session \in W!Names /\ Long(f, 32) /\ Long(c, 8)
  BY <1>1, OctetsLong
<1>3. Long(x, n) /\ n \in Nat /\ At(x, 0, n, x)
  BY <1>2, NameLong, WholeAt
<1>4. z = y \o c
  BY DEF W!EncodePrepare
<1>5. m = [session |-> m.session, expected_fingerprint |-> f, configuration_generation |-> c]
  BY <1>1
<1> HIDE DEF x, f, c, z, n
<1>6. Long(y, n + 32) /\ At(y, n, n + 32, f) /\ StartsAs(y, x)
  BY <1>2, <1>3, Written
<1> HIDE DEF y
<1>7. n + 40 = (n + 32) + 8
  BY <1>3
<1>8. Long(z, n + 40) /\ At(z, n + 32, n + 40, c) /\ StartsAs(z, y)
  BY <1>2, <1>4, <1>6, <1>7, Written
<1>9. At(z, n, n + 32, f) /\ At(z, 0, n, x)
  BY <1>3, <1>6, <1>8 DEF StartsAs
<1>10. W!DecodeName(z) = {d}
  <2>1. z \in Strings /\ n = 1 + Len(m.session) /\ At(z, 0, n, W!EncodeName(m.session))
    BY <1>8, <1>9 DEF Long, n, x
  <2> QED BY <1>2, <2>1, NameBack
<1>11. Len(z) = n + 40 /\ n + W!Authority + 8 = n + 40
  BY <1>3, <1>8 DEF Long, W!Authority
<1>12. d.session = m.session /\ d.next = n
  OBVIOUS
<1>13. W!Slice(z, d.next, d.next + 32) = f /\ W!Slice(z, d.next + 32, Len(z)) = c
  BY <1>8, <1>9, <1>11, <1>12 DEF At
<1> HIDE DEF d
<1>14. {e \in {d} : Len(z) = e.next + W!Authority + 8} = {d}
  BY <1>11, <1>12
<1>15. W!DecodePrepare(z) = {[session |-> d.session, expected_fingerprint |-> W!Slice(z, d.next, d.next + 32),
                             configuration_generation |-> W!Slice(z, d.next + 32, Len(z))]}
  BY <1>10, <1>14 DEF W!DecodePrepare
<1> QED BY <1>5, <1>12, <1>13, <1>15 DEF z

\* So is its answer.
LEMMA PrepareAckBack ==
    ASSUME NEW m \in W!Sendable("prepare_ack")
    PROVE  W!DecodePrepareAck(W!EncodePrepareAck(m)) = {m}
<1> DEFINE x == W!EncodeName(m.session)
           y == W!EncodeOpen(m)
           q == m.token_ttl_secs
           z == W!EncodePrepareAck(m)
           n == 1 + Len(m.session)
           d == [session |-> m.session, next |-> n]
<1>1. m \in [session : W!Names, fingerprint : W!Octets(32),
             configuration_generation : W!Octets(8), relay_generation : W!Octets(8),
             connection_epoch : W!Octets(8), token : W!Octets(32), token_ttl_secs : W!Octets(4)]
  BY DEF W!Sendable
<1>2. HoldsOpen(m) /\ q \in W!Octets(4)
  BY <1>1 DEF HoldsOpen
<1>3. m = [session |-> m.session, fingerprint |-> m.fingerprint,
           configuration_generation |-> m.configuration_generation,
           relay_generation |-> m.relay_generation, connection_epoch |-> m.connection_epoch,
           token |-> m.token, token_ttl_secs |-> q]
  BY <1>1
<1>4. z = y \o q /\ Long(q, 4)
  BY <1>2, OctetsLong DEF W!EncodePrepareAck, W!EncodeOpen
<1>5. /\ Long(y, n + 88) /\ n \in Nat /\ At(y, 0, n, x)
      /\ At(y, n, n + 32, m.fingerprint) /\ At(y, n + 32, n + 40, m.configuration_generation)
      /\ At(y, n + 40, n + 48, m.relay_generation) /\ At(y, n + 48, n + 56, m.connection_epoch)
      /\ At(y, n + 56, n + 88, m.token)
  BY <1>2, OpenAt
<1> HIDE DEF x, y, z, q, n
<1>6. n + 92 = (n + 88) + 4
  BY <1>5
<1>7. Long(z, n + 92) /\ At(z, n + 88, n + 92, q) /\ StartsAs(z, y)
  BY <1>4, <1>5, <1>6, Written
<1>8. /\ At(z, 0, n, x)
      /\ At(z, n, n + 32, m.fingerprint) /\ At(z, n + 32, n + 40, m.configuration_generation)
      /\ At(z, n + 40, n + 48, m.relay_generation) /\ At(z, n + 48, n + 56, m.connection_epoch)
      /\ At(z, n + 56, n + 88, m.token)
  BY <1>5, <1>7 DEF StartsAs
<1>9. W!DecodeName(z) = {d}
  <2>1. z \in Strings /\ n = 1 + Len(m.session) /\ At(z, 0, n, W!EncodeName(m.session))
    BY <1>7, <1>8 DEF Long, n, x
  <2> QED BY <1>2, <2>1, NameBack DEF HoldsOpen
<1>10. Len(z) = n + 92 /\ n + W!Authority + 24 + W!Authority + 4 = n + 92
  BY <1>5, <1>7 DEF Long, W!Authority
<1>11. d.session = m.session /\ d.next = n
  OBVIOUS
<1> HIDE DEF d
<1>12. {e \in {d} : Len(z) = e.next + W!Authority + 24 + W!Authority + 4} = {d}
  BY <1>10, <1>11
<1>13. /\ W!Slice(z, d.next, d.next + 32) = m.fingerprint
       /\ W!Slice(z, d.next + 32, d.next + 40) = m.configuration_generation
       /\ W!Slice(z, d.next + 40, d.next + 48) = m.relay_generation
       /\ W!Slice(z, d.next + 48, d.next + 56) = m.connection_epoch
       /\ W!Slice(z, d.next + 56, d.next + 88) = m.token
       /\ W!Slice(z, d.next + 88, Len(z)) = q
  BY <1>7, <1>8, <1>10, <1>11 DEF At
<1>14. W!DecodePrepareAck(z) =
         {[session |-> d.session, fingerprint |-> W!Slice(z, d.next, d.next + 32),
           configuration_generation |-> W!Slice(z, d.next + 32, d.next + 40),
           relay_generation |-> W!Slice(z, d.next + 40, d.next + 48),
           connection_epoch |-> W!Slice(z, d.next + 48, d.next + 56),
           token |-> W!Slice(z, d.next + 56, d.next + 88),
           token_ttl_secs |-> W!Slice(z, d.next + 88, Len(z))]}
  BY <1>9, <1>12 DEF W!DecodePrepareAck
<1> QED BY <1>3, <1>11, <1>13, <1>14 DEF z

\* And the answer to an open request.
LEMMA OpenAckBack ==
    ASSUME NEW m \in W!OpenAcks
    PROVE  W!DecodeOpenAck(W!EncodeOpenAck(m)) = {m}
<1> DEFINE h == m.session_handle
           u == W!U16(h)
           y == W!EncodeOpen(m)
           z == W!EncodeOpenAck(m)
           n == 1 + Len(m.session)
           d == [session |-> m.session, next |-> n]
<1>1. HoldsOpen(m) /\ h \in 1 .. W!MaxU16
  BY DEF W!OpenAcks, HoldsOpen
<1>2. m = W!OpenAck(h, m)
  BY DEF W!OpenAck, W!OpenAcks
<1>3. h \in 0 .. W!MaxU16 /\ h # 0
  BY <1>1, PayloadLengths
<1>4. z = u \o y /\ Long(u, 2)
  BY <1>3, U16IsBytes DEF W!EncodeOpenAck, Long
<1>5. /\ Long(y, n + 88) /\ n \in Nat /\ At(y, 0, n, W!EncodeName(m.session))
      /\ At(y, n, n + 32, m.fingerprint) /\ At(y, n + 32, n + 40, m.configuration_generation)
      /\ At(y, n + 40, n + 48, m.relay_generation) /\ At(y, n + 48, n + 56, m.connection_epoch)
      /\ At(y, n + 56, n + 88, m.token)
  BY <1>1, OpenAt
<1>6. W!DecodeName(y) = {d}
  BY <1>1, <1>5, NameBack DEF HoldsOpen, Long
<1> HIDE DEF u, y, z, h, n
<1> DEFINE k == 2 + n
<1>7. /\ n + 90 = 2 + (n + 88) /\ k \in Nat /\ 2 + (n + 32) = k + 32 /\ 2 + (n + 40) = k + 40
      /\ 2 + (n + 48) = k + 48 /\ 2 + (n + 56) = k + 56 /\ 2 + (n + 88) = n + 90
  BY <1>5
<1>8. Long(z, n + 90) /\ At(z, 2, n + 90, y) /\ StartsAs(z, u)
  <2> DEFINE l == n + 88
             w == n + 90
  <2>1. Long(y, l) /\ w = 2 + l
    BY <1>5, <1>7
  <2> HIDE DEF l, w
  <2>2. Long(z, w) /\ At(z, 2, w, y) /\ StartsAs(z, u)
    BY <1>4, <2>1, Written
  <2> QED BY <2>2 DEF w
<1>9. At(z, 0, 2, u)
  BY <1>4, <1>8, WholeAt DEF StartsAs
<1>10. /\ At(z, 2 + n, 2 + (n + 32), m.fingerprint)
       /\ At(z, 2 + (n + 32), 2 + (n + 40), m.configuration_generation)
       /\ At(z, 2 + (n + 40), 2 + (n + 48), m.relay_generation)
       /\ At(z, 2 + (n + 48), 2 + (n + 56), m.connection_epoch)
       /\ At(z, 2 + (n + 56), 2 + (n + 88), m.token)
  BY <1>4, <1>5, Behind, Zenon
<1>11. Len(z) = n + 90 /\ z \in Strings /\ 0 + 2 <= Len(z) /\ 0 + 2 = 2 /\ ~(Len(z) < 3)
  BY <1>5, <1>8 DEF Long
<1>12. W!FromU16(z, 0) = h
  <2>1. W!Slice(z, 0, 0 + 2) = W!U16(h)
    BY <1>9, <1>11 DEF At, u
  <2> QED BY <1>3, <1>11, <2>1, U16Read
<1>13. W!DecodeName(W!Slice(z, 2, Len(z))) = {d}
  BY <1>6, <1>8, <1>11 DEF At
<1>14. d.session = m.session /\ d.next = n
  OBVIOUS
<1> HIDE DEF d
<1>15. {e \in {d} : Len(z) = 2 + e.next + W!Authority + 24 + W!Authority} = {d}
  BY <1>5, <1>11, <1>14 DEF W!Authority
<1>16. W!DecodeOpenAck(z) = {W!OpenAck(h, W!OpenFields(d.session, z, 2 + d.next))}
  BY <1>3, <1>11, <1>12, <1>13, <1>15 DEF W!DecodeOpenAck
<1> HIDE DEF k
<1>17. /\ At(z, k, k + 32, m.fingerprint) /\ At(z, k + 32, k + 40, m.configuration_generation)
       /\ At(z, k + 40, k + 48, m.relay_generation) /\ At(z, k + 48, k + 56, m.connection_epoch)
       /\ At(z, k + 56, Len(z), m.token)
  BY <1>7, <1>10, <1>11 DEF k
<1>18. W!OpenFields(m.session, z, k) =
         [session |-> m.session, fingerprint |-> m.fingerprint,
          configuration_generation |-> m.configuration_generation,
          relay_generation |-> m.relay_generation, connection_epoch |-> m.connection_epoch,
          token |-> m.token]
  BY <1>17 DEF W!OpenFields, At
<1>19. W!OpenAck(h, W!OpenFields(m.session, z, k)) = W!OpenAck(h, m)
  BY <1>18 DEF W!OpenAck
<1> QED BY <1>2, <1>14, <1>16, <1>19 DEF z, k

\* The magic, the version and the kind of a frame.
LEMMA HeaderAt ==
    ASSUME NEW k \in W!Byte, NEW g \in {W!Hdqm, W!Hdqs, W!Hdp1}
    PROVE  /\ Long(g \o W!Version, 6) /\ At(g \o W!Version, 0, 4, g)
           /\ At(g \o W!Version, 4, 6, W!Version)
           /\ Long(g \o W!Version \o <<k>>, 7) /\ StartsAs(g \o W!Version \o <<k>>, g \o W!Version)
           /\ At(g \o W!Version \o <<k>>, 6, 7, <<k>>)
<1>1. Long(g, 4) /\ Long(<<k>>, 1)
  BY MagicIsBytes DEF Long
<1>2. Long(W!Version, 2)
  BY DEF W!Version, Strings, W!Byte, Long
<1> DEFINE h == g \o W!Version
<1>3. 6 = 4 + 2 /\ 7 = 6 + 1
  OBVIOUS
<1>4. Long(h, 6) /\ At(h, 4, 6, W!Version) /\ StartsAs(h, g)
  BY <1>1, <1>2, <1>3, Written
<1>5. At(h, 0, 4, g)
  BY <1>1, <1>4, WholeAt DEF StartsAs
<1> HIDE DEF h
<1>6. Long(h \o <<k>>, 7) /\ At(h \o <<k>>, 6, 7, <<k>>) /\ StartsAs(h \o <<k>>, h)
  BY <1>1, <1>3, <1>4, Written
<1> QED BY <1>4, <1>5, <1>6 DEF h

\* The header of a frame in what is written behind it.
LEMMA HeaderRead ==
    ASSUME NEW z \in Strings, NEW k \in W!Byte, NEW g \in {W!Hdqm, W!Hdqs, W!Hdp1},
           StartsAs(z, g \o W!Version \o <<k>>)
    PROVE  W!Slice(z, 0, 4) = g /\ W!Slice(z, 4, 6) = W!Version /\ z[7] = k
<1> DEFINE h == g \o W!Version
           y == h \o <<k>>
<1>1. At(h, 0, 4, g) /\ At(h, 4, 6, W!Version) /\ StartsAs(y, h) /\ At(y, 6, 7, <<k>>) /\ StartsAs(z, y)
  BY HeaderAt
<1> HIDE DEF h, y
<1>2. At(z, 0, 4, g) /\ At(z, 4, 6, W!Version) /\ At(z, 6, 7, <<k>>)
  BY <1>1 DEF StartsAs
<1>3. 6 \in Nat /\ 6 + 1 = 7
  OBVIOUS
<1>4. z[6 + 1] = k
  <2>1. W!Slice(z, 6, 6 + 1) = <<k>> /\ 6 + 1 <= Len(z)
    BY <1>2, <1>3 DEF At
  <2> QED BY <1>3, <2>1, ByteRead
<1> QED BY <1>2, <1>3, <1>4 DEF At

\* A pairing frame is read back.
LEMMA HdpBack ==
    ASSUME NEW m \in W!Sendable("hdp")
    PROVE  W!DecodeHdp(W!EncodeHdp(m)) = {m}
<1> DEFINE p == m.payload
           h == W!Hdp1 \o W!Version \o <<m.kind>>
           n == Len(p)
           u == W!U32(n)
           y == h \o u
           z == W!EncodeHdp(m)
<1>1. m \in [kind : W!HdpKind, payload : W!AtMost(W!MaxFrame - W!HdpHeader)]
  BY DEF W!Sendable
<1>2. p \in Strings /\ n \in Nat /\ n <= W!MaxFrame - W!HdpHeader /\ Long(p, n)
  BY <1>1, SliceAll DEF W!AtMost, Strings, Long
<1>3. n \in 0 .. W!MaxU16 /\ 11 + n <= W!MaxFrame
  BY <1>2, PayloadLengths
<1>4. m.kind \in W!HdpKind /\ m.kind \in W!Byte
  BY <1>1 DEF W!HdpKind, W!Byte
<1>5. Long(h, 7) /\ Long(u, 4)
  BY <1>3, <1>4, HeaderAt, U32IsBytes DEF Long
<1>6. z = y \o p
  BY DEF W!EncodeHdp
<1>7. m = [kind |-> m.kind, payload |-> p]
  BY <1>1
<1> HIDE DEF p, h, n, u, z
<1>8. Long(y, 11) /\ At(y, 7, 11, u) /\ StartsAs(y, h)
  <2>1. 11 = 7 + 4
    OBVIOUS
  <2> QED BY <1>5, <2>1, Written
<1> HIDE DEF y
<1> DEFINE l == 11 + n
<1>9. Long(z, l) /\ At(z, 11, l, p) /\ StartsAs(z, y)
  BY <1>2, <1>6, <1>8, Written
<1>10. z \in Strings /\ Len(z) = 11 + n
  BY <1>9 DEF Long
<1>11. At(z, 7, 11, u) /\ StartsAs(z, h)
  BY <1>8, <1>9, Within DEF StartsAs
<1>12. W!Slice(z, 0, 4) = W!Hdp1 /\ W!Slice(z, 4, 6) = W!Version /\ z[7] = m.kind
  BY <1>4, <1>10, <1>11, HeaderRead DEF h
<1>13. W!FromU32(z, 7) = n
  <2>1. 7 + 4 = 11 /\ 7 \in Nat
    OBVIOUS
  <2>2. W!Slice(z, 7, 7 + 4) = W!U32(n) /\ 7 + 4 <= Len(z)
    BY <1>11, <2>1 DEF At, u
  <2> QED BY <1>3, <1>10, <2>1, <2>2, U32Read
<1>14. W!Slice(z, 11, Len(z)) = p
  BY <1>9, <1>10 DEF At
<1>15. ~(Len(z) < 11) /\ ~(11 + n > W!MaxFrame) /\ W!HdpHeader = 11
  BY <1>2, <1>3, <1>10, FrameLimits
<1>16. W!DecodeHdp(z) = {[kind |-> m.kind, payload |-> p]}
  BY <1>4, <1>10, <1>12, <1>13, <1>14, <1>15 DEF W!DecodeHdp
<1> QED BY <1>7, <1>16 DEF z

\* An HDQM frame is read back.
LEMMA HdqmBack ==
    ASSUME NEW m \in W!Sendable("hdqm")
    PROVE  W!DecodeHdqm(W!EncodeHdqm(m)) = {m}
<1> DEFINE p == m.payload
           q == m.request_id
           h == W!Hdqm \o W!Version \o <<m.kind>>
           n == Len(p)
           u == W!U32(n)
           w == h \o q
           y == w \o u
           z == W!EncodeHdqm(m)
<1>1. m \in [kind : W!HdqmKind, request_id : W!Octets(16), payload : W!AtMost(W!MaxFrame - W!HdqmHeader)]
  BY DEF W!Sendable
<1>2. /\ p \in Strings /\ n \in Nat /\ n <= W!MaxFrame - W!HdqmHeader /\ Long(p, n)
      /\ q \in W!Octets(16)
  BY <1>1, SliceAll DEF W!AtMost, Strings, Long
<1>3. n \in 0 .. W!MaxU16
  BY <1>2, PayloadLengths
<1>4. m.kind \in W!HdqmKind /\ m.kind \in W!Byte
  BY <1>1 DEF W!HdqmKind, W!Byte
<1>5. Long(h, 7) /\ Long(u, 4) /\ Long(q, 16)
  BY <1>2, <1>3, <1>4, HeaderAt, U32IsBytes, OctetsLong DEF Long
<1>6. z = y \o p
  BY DEF W!EncodeHdqm
<1>7. m = [kind |-> m.kind, request_id |-> q, payload |-> p]
  BY <1>1
<1> HIDE DEF p, q, h, n, u, z
<1>8. 23 = 7 + 16 /\ 27 = 23 + 4
  OBVIOUS
<1>9. Long(w, 23) /\ At(w, 7, 23, q) /\ StartsAs(w, h)
  BY <1>5, <1>8, Written
<1> HIDE DEF w
<1>10. Long(y, 27) /\ At(y, 23, 27, u) /\ StartsAs(y, w)
  BY <1>5, <1>8, <1>9, Written
<1> HIDE DEF y
<1> DEFINE l == 27 + n
<1>11. Long(z, l) /\ At(z, 27, l, p) /\ StartsAs(z, y)
  BY <1>2, <1>6, <1>10, Written
<1>12. z \in Strings /\ Len(z) = 27 + n
  BY <1>11 DEF Long
<1>13. StartsAs(z, w) /\ StartsAs(z, h)
  BY <1>9, <1>10, <1>11, Within
<1>14. At(z, 7, 23, q) /\ At(z, 23, 27, u)
  BY <1>9, <1>10, <1>11, <1>13 DEF StartsAs
<1>15. W!Slice(z, 0, 4) = W!Hdqm /\ W!Slice(z, 4, 6) = W!Version /\ z[7] = m.kind
  BY <1>4, <1>12, <1>13, HeaderRead DEF h
<1>16. W!FromU32(z, 23) = n
  <2>1. 23 + 4 = 27 /\ 23 \in Nat
    OBVIOUS
  <2>2. W!Slice(z, 23, 23 + 4) = W!U32(n) /\ 23 + 4 <= Len(z)
    BY <1>14, <2>1 DEF At, u
  <2> QED BY <1>3, <1>12, <2>1, <2>2, U32Read
<1>17. W!Slice(z, 27, Len(z)) = p /\ W!Slice(z, 7, 23) = q
  BY <1>11, <1>12, <1>14 DEF At
<1>18. ~(Len(z) < 27) /\ ~(n > W!MaxFrame - 27) /\ W!HdqmHeader = 27
  BY <1>2, <1>12, FrameLimits
<1>19. W!DecodeHdqm(z) = {[kind |-> m.kind, request_id |-> q, payload |-> p]}
  BY <1>4, <1>12, <1>15, <1>16, <1>17, <1>18 DEF W!DecodeHdqm
<1> QED BY <1>7, <1>19 DEF z

\* A hello is read back, since no number in it is 0.
LEMMA HelloBack ==
    ASSUME NEW m \in W!Sendable("hello")
    PROVE  W!DecodeHello(W!EncodeHello(m)) = {m}
<1> DEFINE i == m.relay_identity
           c == m.ca_generation
           r == m.relay_generation
           e == m.connection_epoch
           x == i \o c
           y == x \o r
           z == W!EncodeHello(m)
<1>1. m \in [relay_identity : W!Given(32), ca_generation : W!Given(8),
             relay_generation : W!Given(8), connection_epoch : W!Given(8)]
  BY DEF W!Sendable, W!Authority
<1>2. /\ i \in W!Octets(32) /\ c \in W!Octets(8) /\ r \in W!Octets(8) /\ e \in W!Octets(8)
      /\ i # W!Zeros(32) /\ W!Zeros(8) \notin {c, r, e}
  BY <1>1 DEF W!Given
<1>3. Long(i, 32) /\ Long(c, 8) /\ Long(r, 8) /\ Long(e, 8)
  BY <1>2, OctetsLong
<1>4. m = [relay_identity |-> i, ca_generation |-> c, relay_generation |-> r, connection_epoch |-> e]
  BY <1>1
<1>5. z = y \o e
  BY DEF W!EncodeHello
<1> HIDE DEF i, c, r, e, z
<1>6. 40 = 32 + 8 /\ 48 = 40 + 8 /\ 56 = 48 + 8
  OBVIOUS
<1>7. Long(x, 40) /\ At(x, 32, 40, c) /\ StartsAs(x, i)
  BY <1>3, <1>6, Written
<1> HIDE DEF x
<1>8. Long(y, 48) /\ At(y, 40, 48, r) /\ StartsAs(y, x)
  BY <1>3, <1>6, <1>7, Written
<1> HIDE DEF y
<1>9. Long(z, 56) /\ At(z, 48, 56, e) /\ StartsAs(z, y)
  BY <1>3, <1>5, <1>6, <1>8, Written
<1>10. StartsAs(z, x) /\ StartsAs(z, i) /\ At(i, 0, 32, i)
  BY <1>3, <1>7, <1>8, <1>9, Within, WholeAt
<1>11. At(z, 0, 32, i) /\ At(z, 32, 40, c) /\ At(z, 40, 48, r)
  BY <1>7, <1>8, <1>9, <1>10 DEF StartsAs
<1>12. /\ W!Slice(z, 0, 32) = i /\ W!Slice(z, 32, 40) = c /\ W!Slice(z, 40, 48) = r
       /\ W!Slice(z, 48, 56) = e /\ Len(z) = 56
  BY <1>9, <1>11 DEF At, Long
<1>13. W!DecodeHello(z) = {[relay_identity |-> i, ca_generation |-> c, relay_generation |-> r,
                           connection_epoch |-> e]}
  BY <1>2, <1>12 DEF W!DecodeHello, W!Authority
<1> QED BY <1>4, <1>13 DEF z

\* The preface of a session stream is read back.
LEMMA BindingBack ==
    ASSUME NEW m \in W!OpenAcks
    PROVE  W!DecodeBinding(W!EncodeBinding(m)) = {m}
<1> DEFINE h == W!Hdqs \o W!Version
           v == m.session_handle
           u == W!U16(v)
           c == m.configuration_generation
           r == m.relay_generation
           e == m.connection_epoch
           s == m.session
           x == W!EncodeName(s)
           f == m.fingerprint
           k == m.token
           n == Len(s)
           z == W!EncodeBinding(m)
<1>1. HoldsOpen(m) /\ v \in 1 .. W!MaxU16
  BY DEF W!OpenAcks, HoldsOpen
<1>2. v \in 0 .. W!MaxU16 /\ v # 0
  BY <1>1, PayloadLengths
<1>3. Long(h, 6) /\ At(h, 0, 4, W!Hdqs) /\ At(h, 4, 6, W!Version)
  <2>1. 0 \in W!Byte
    BY DEF W!Byte
  <2> QED BY <2>1, HeaderAt
<1>4. Long(u, 2)
  BY <1>2, U16IsBytes DEF Long
<1>5. Long(c, 8) /\ Long(r, 8) /\ Long(e, 8) /\ Long(f, 32) /\ Long(k, 32)
  BY <1>1, OctetsLong DEF HoldsOpen
<1>6. s \in W!Names /\ Long(x, 1 + n) /\ n \in 1 .. 64
  BY <1>1, NameLong DEF HoldsOpen
<1>7. z = h \o u \o c \o r \o e \o x \o f \o k
  BY DEF W!EncodeBinding
<1>8. m = [session_handle |-> v, configuration_generation |-> c, relay_generation |-> r,
           connection_epoch |-> e, session |-> s, fingerprint |-> f, token |-> k]
  BY DEF W!OpenAcks
<1>9. n = Len(s)
  OBVIOUS
<1> HIDE DEF h, v, u, c, r, e, s, x, f, k, n, z
<1>10. /\ 8 = 6 + 2 /\ 16 = 8 + 8 /\ 24 = 16 + 8 /\ 32 = 24 + 8 /\ 33 + n = 32 + (1 + n)
       /\ 65 + n = (33 + n) + 32 /\ 97 + n = (65 + n) + 32
  BY <1>6
<1> DEFINE a1 == h \o u
           a2 == a1 \o c
           a3 == a2 \o r
           a4 == a3 \o e
           a5 == a4 \o x
           a6 == a5 \o f
           i5 == 33 + n
           i6 == 65 + n
           i7 == 97 + n
           l == 1 + n
<1>11. i5 = 32 + l /\ i6 = i5 + 32 /\ i7 = i6 + 32 /\ Long(x, l)
  BY <1>6, <1>10
<1>12. z = a6 \o k
  BY <1>7
<1>13. Long(a1, 8) /\ At(a1, 6, 8, u) /\ StartsAs(a1, h)
  BY <1>3, <1>4, <1>10, Written
<1> HIDE DEF a1, i5, i6, i7, l
<1>14. Long(a2, 16) /\ At(a2, 8, 16, c) /\ StartsAs(a2, a1)
  BY <1>5, <1>10, <1>13, Written
<1> HIDE DEF a2
<1>15. Long(a3, 24) /\ At(a3, 16, 24, r) /\ StartsAs(a3, a2)
  BY <1>5, <1>10, <1>14, Written
<1> HIDE DEF a3
<1>16. Long(a4, 32) /\ At(a4, 24, 32, e) /\ StartsAs(a4, a3)
  BY <1>5, <1>10, <1>15, Written
<1> HIDE DEF a4
<1>17. Long(a5, i5) /\ At(a5, 32, i5, x) /\ StartsAs(a5, a4)
  BY <1>11, <1>16, Written
<1> HIDE DEF a5
<1>18. Long(a6, i6) /\ At(a6, i5, i6, f) /\ StartsAs(a6, a5)
  BY <1>5, <1>11, <1>17, Written
<1> HIDE DEF a6
<1>19. Long(z, i7) /\ At(z, i6, i7, k) /\ StartsAs(z, a6)
  BY <1>5, <1>11, <1>12, <1>18, Written
<1>20. StartsAs(z, a5) /\ StartsAs(z, a4) /\ StartsAs(z, a3)
  BY <1>16, <1>17, <1>18, <1>19, Within
<1>21. StartsAs(z, a2) /\ StartsAs(z, a1) /\ StartsAs(z, h)
  BY <1>13, <1>14, <1>15, <1>20, Within
<1>22. /\ At(z, 0, 4, W!Hdqs) /\ At(z, 4, 6, W!Version) /\ At(z, 6, 8, u) /\ At(z, 8, 16, c)
       /\ At(z, 16, 24, r)
  BY <1>3, <1>13, <1>14, <1>15, <1>20, <1>21 DEF StartsAs
<1>23. At(z, 24, 32, e) /\ At(z, 32, i5, x) /\ At(z, i5, i6, f)
  BY <1>16, <1>17, <1>18, <1>19, <1>20 DEF StartsAs
<1>24. z \in Strings /\ Len(z) = 97 + n /\ 97 + n = 33 + n + 64
  BY <1>6, <1>19 DEF Long, i7
<1>25. W!FromU16(z, 6) = v
  <2>1. 6 + 2 = 8 /\ 6 \in Nat
    OBVIOUS
  <2>2. W!Slice(z, 6, 6 + 2) = W!U16(v) /\ 6 + 2 <= Len(z)
    BY <1>22, <2>1 DEF At, u
  <2> QED BY <1>2, <1>24, <2>1, <2>2, U16Read
<1>26. z[33] = n /\ W!Slice(z, 33, 33 + n) = s /\ W!SessionName(s) = {s}
  <2>1. 32 \in Nat /\ 32 + 1 = 33 /\ i5 = 32 + 1 + Len(s)
    BY <1>6, <1>9 DEF i5
  <2>2. W!Slice(z, 32, i5) = W!EncodeName(s) /\ i5 <= Len(z)
    BY <1>23 DEF At, x
  <2>3. z[32 + 1] = Len(s) /\ W!Slice(z, 32 + 1, i5) = s /\ W!SessionName(s) = {s}
    BY <1>6, <1>24, <2>1, <2>2, NameRead
  <2> QED BY <1>9, <2>1, <2>3 DEF i5
<1>27. W!Slice(z, 33 + n, 65 + n) = f /\ W!Slice(z, 65 + n, Len(z)) = k
  BY <1>19, <1>23, <1>24 DEF At, i5, i6, i7
<1>28. /\ W!Slice(z, 0, 4) = W!Hdqs /\ W!Slice(z, 4, 6) = W!Version /\ W!Slice(z, 8, 16) = c
       /\ W!Slice(z, 16, 24) = r /\ W!Slice(z, 24, 32) = e
  BY <1>22, <1>23 DEF At
<1>29. ~(Len(z) < 97) /\ n # 0 /\ ~(n > W!MaxName)
  BY <1>6, <1>24 DEF W!MaxName
<1>30. W!DecodeBinding(z) =
         {[session_handle |-> v, configuration_generation |-> c, relay_generation |-> r,
           connection_epoch |-> e, session |-> s, fingerprint |-> f, token |-> k]}
  BY <1>2, <1>24, <1>25, <1>26, <1>27, <1>28, <1>29 DEF W!DecodeBinding
<1> QED BY <1>8, <1>30 DEF z

\* The answer to a session stream is read back.
LEMMA ResponseBack ==
    ASSUME NEW m \in W!Sendable("response")
    PROVE  W!DecodeResponse(W!EncodeResponse(m)) = {m}
<1> DEFINE h == W!Hdqs \o W!Version
           a == m.kind
           b == m.status
           v == m.session_handle
           d == m.reason
           s == <<a, b>>
           u == W!U16(v)
           r == <<d, 0>>
           e == m.connection_epoch
           a1 == h \o s
           a2 == a1 \o u
           a3 == a2 \o r
           z == W!EncodeResponse(m)
<1>1. /\ m \in [kind : W!HdqsKind, status : W!HdqsKind, session_handle : 0 .. W!MaxU16,
                reason : W!HdqsReason, connection_epoch : W!Octets(8)]
      /\ W!ResponseValid(m)
  BY DEF W!Sendable
<1>2. /\ a \in W!HdqsKind /\ b \in W!HdqsKind /\ v \in 0 .. W!MaxU16 /\ d \in W!HdqsReason
      /\ e \in W!Octets(8)
  BY <1>1
<1>3. a \in W!Byte /\ b \in W!Byte /\ d \in W!Byte /\ 0 \in W!Byte
  BY <1>2 DEF W!HdqsKind, W!HdqsReason, W!Byte
<1>4. Long(h, 6) /\ At(h, 0, 4, W!Hdqs) /\ At(h, 4, 6, W!Version)
  BY <1>3, HeaderAt
<1>5. Long(s, 2) /\ Long(r, 2)
  BY <1>3, PairOfBytes DEF Long
<1>6. Long(u, 2) /\ Long(e, 8)
  BY <1>2, U16IsBytes, OctetsLong DEF Long
<1>7. z = a3 \o e
  BY DEF W!EncodeResponse
<1>8. m = [kind |-> a, status |-> b, session_handle |-> v, reason |-> d, connection_epoch |-> e]
  BY <1>1
<1> HIDE DEF h, a, b, v, d, s, u, r, e, z
<1>9. 8 = 6 + 2 /\ 10 = 8 + 2 /\ 12 = 10 + 2 /\ 20 = 12 + 8
  OBVIOUS
<1>10. Long(a1, 8) /\ At(a1, 6, 8, s) /\ StartsAs(a1, h)
  BY <1>4, <1>5, <1>9, Written
<1> HIDE DEF a1
<1>11. Long(a2, 10) /\ At(a2, 8, 10, u) /\ StartsAs(a2, a1)
  BY <1>6, <1>9, <1>10, Written
<1> HIDE DEF a2
<1>12. Long(a3, 12) /\ At(a3, 10, 12, r) /\ StartsAs(a3, a2)
  BY <1>5, <1>9, <1>11, Written
<1> HIDE DEF a3
<1>13. Long(z, 20) /\ At(z, 12, 20, e) /\ StartsAs(z, a3)
  BY <1>6, <1>7, <1>9, <1>12, Written
<1>14. StartsAs(z, a2) /\ StartsAs(z, a1) /\ StartsAs(z, h)
  BY <1>10, <1>11, <1>12, <1>13, Within
<1>15. /\ At(z, 0, 4, W!Hdqs) /\ At(z, 4, 6, W!Version) /\ At(z, 6, 8, s) /\ At(z, 8, 10, u)
       /\ At(z, 10, 12, r)
  BY <1>4, <1>10, <1>11, <1>12, <1>13, <1>14 DEF StartsAs
<1>16. z \in Strings /\ Len(z) = 20
  BY <1>13 DEF Long
<1>17. z[7] = a /\ z[8] = b
  <2>1. 6 + 1 = 7 /\ 6 + 2 = 8
    OBVIOUS
  <2>2. z[6 + 1] = a /\ z[6 + 2] = b
    BY <1>9, <1>15, PairRead DEF s
  <2> QED BY <2>1, <2>2
<1>18. z[11] = d /\ z[12] = 0
  <2>1. 10 + 1 = 11 /\ 10 + 2 = 12
    OBVIOUS
  <2>2. z[10 + 1] = d /\ z[10 + 2] = 0
    BY <1>9, <1>15, PairRead DEF r
  <2> QED BY <2>1, <2>2
<1>19. W!FromU16(z, 8) = v
  <2>1. 8 + 2 = 10 /\ 8 \in Nat
    OBVIOUS
  <2>2. W!Slice(z, 8, 8 + 2) = W!U16(v) /\ 8 + 2 <= Len(z)
    BY <1>15, <2>1 DEF At, u
  <2> QED BY <1>2, <1>16, <2>1, <2>2, U16Read
<1>20. W!Slice(z, 0, 4) = W!Hdqs /\ W!Slice(z, 4, 6) = W!Version /\ W!Slice(z, 12, 20) = e
  BY <1>13, <1>15 DEF At
<1>21. {a, b} \ W!HdqsKind = {} /\ W!ResponseReserved(z)
  BY <1>2, <1>18 DEF W!ResponseReserved
<1>22. W!DecodeResponse(z) = {x \in {m} : W!ResponseValid(x)}
  BY <1>2, <1>8, <1>16, <1>17, <1>18, <1>19, <1>20, <1>21 DEF W!DecodeResponse
<1> QED BY <1>1, <1>22 DEF z

\* Every message the session plane sends is read back as itself.
LEMMA WireBack ==
    ASSUME NEW t \in W!Types, NEW m \in W!Sendable(t)
    PROVE  W!Decode(t, W!Encode(t, m)) = {m}
<1>1. CASE t = "hdqm"
  <2>1. W!Encode(t, m) = W!EncodeHdqm(m) /\ W!Decode(t, W!Encode(t, m)) = W!DecodeHdqm(W!EncodeHdqm(m))
    BY <1>1 DEF W!Encode, W!Decode
  <2> QED BY <1>1, <2>1, HdqmBack
<1>2. CASE t = "hdp"
  <2>1. W!Encode(t, m) = W!EncodeHdp(m) /\ W!Decode(t, W!Encode(t, m)) = W!DecodeHdp(W!EncodeHdp(m))
    BY <1>2 DEF W!Encode, W!Decode
  <2> QED BY <1>2, <2>1, HdpBack
<1>3. CASE t = "hello"
  <2>1. W!Encode(t, m) = W!EncodeHello(m) /\ W!Decode(t, W!Encode(t, m)) = W!DecodeHello(W!EncodeHello(m))
    BY <1>3 DEF W!Encode, W!Decode
  <2> QED BY <1>3, <2>1, HelloBack
<1>4. CASE t = "prepare"
  <2>1. W!Encode(t, m) = W!EncodePrepare(m) /\ W!Decode(t, W!Encode(t, m)) = W!DecodePrepare(W!EncodePrepare(m))
    BY <1>4 DEF W!Encode, W!Decode
  <2> QED BY <1>4, <2>1, PrepareBack
<1>5. CASE t = "prepare_ack"
  <2>1. W!Encode(t, m) = W!EncodePrepareAck(m) /\ W!Decode(t, W!Encode(t, m)) = W!DecodePrepareAck(W!EncodePrepareAck(m))
    BY <1>5 DEF W!Encode, W!Decode
  <2> QED BY <1>5, <2>1, PrepareAckBack
<1>6. CASE t = "open"
  <2>1. W!Encode(t, m) = W!EncodeOpen(m) /\ W!Decode(t, W!Encode(t, m)) = W!DecodeOpen(W!EncodeOpen(m))
    BY <1>6 DEF W!Encode, W!Decode
  <2>2. m \in W!Opens
    BY <1>6 DEF W!Sendable
  <2> QED BY <2>1, <2>2, OpenBack
<1>7. CASE t = "open_ack"
  <2>1. W!Encode(t, m) = W!EncodeOpenAck(m) /\ W!Decode(t, W!Encode(t, m)) = W!DecodeOpenAck(W!EncodeOpenAck(m))
    BY <1>7 DEF W!Encode, W!Decode
  <2>2. m \in W!OpenAcks
    BY <1>7 DEF W!Sendable
  <2> QED BY <2>1, <2>2, OpenAckBack
<1>8. CASE t = "binding"
  <2>1. W!Encode(t, m) = W!EncodeBinding(m) /\ W!Decode(t, W!Encode(t, m)) = W!DecodeBinding(W!EncodeBinding(m))
    BY <1>8 DEF W!Encode, W!Decode
  <2>2. m \in W!OpenAcks
    BY <1>8 DEF W!Sendable
  <2> QED BY <2>1, <2>2, BindingBack
<1>9. CASE t = "response"
  <2>1. W!Encode(t, m) = W!EncodeResponse(m) /\ W!Decode(t, W!Encode(t, m)) = W!DecodeResponse(W!EncodeResponse(m))
    BY <1>9 DEF W!Encode, W!Decode
  <2> QED BY <1>9, <2>1, ResponseBack
<1> QED BY <1>1, <1>2, <1>3, <1>4, <1>5, <1>6, <1>7, <1>8, <1>9 DEF W!Types

-----------------------------------------------------------------------------
(* The messages on the wire *)

\* The inductive invariant: bytes of a message that an encoder does not refuse.
WireInv ==
    /\ type \in W!Types /\ msg \in Messages[type] /\ msg \in W!Sendable(type)
    /\ bytes \in Strings
    /\ changed \in BOOLEAN /\ resizes \in 0 .. MaxResizes

\* What is sent is such a message.
LEMMA WireStarts ==
    ASSUME W!Init
    PROVE  WireInv
<1>1. type \in W!Types /\ msg \in Messages[type] /\ bytes = W!Encode(type, msg)
  BY DEF W!Init
<1>2. msg \in W!Sendable(type)
  BY <1>1, CodecAssumption
<1>3. changed \in BOOLEAN /\ resizes \in 0 .. MaxResizes
  <2>1. changed \in BOOLEAN
    BY Zenon DEF W!Init
  <2>2. resizes \in 0 .. MaxResizes
    BY CodecAssumption DEF W!Init
  <2> QED BY <2>1, <2>2
<1> QED BY <1>1, <1>2, <1>3, EncodedIsBytes DEF WireInv

\* A change of the bytes leaves bytes.
LEMMA WireKept ==
    ASSUME WireInv, W!Next
    PROVE  WireInv'
<1>1. bytes \in Seq(W!Byte) /\ Len(bytes) \in Nat /\ DOMAIN bytes = 1 .. Len(bytes)
  BY LenProperties DEF WireInv, Strings
<1>2. CASE W!Overwrite
  <2>1. PICK i \in DOMAIN bytes, v \in Values : bytes' = [bytes EXCEPT ![i] = v]
    BY <1>2 DEF W!Overwrite
  <2>2. v \in W!Byte
    BY CodecAssumption
  <2>3. bytes' \in Seq(W!Byte)
    BY <1>1, <2>1, <2>2, ExceptSeq
  <2>4. type' = type /\ msg' = msg /\ changed' = TRUE /\ resizes' = resizes
    BY <1>2 DEF W!Overwrite
  <2> QED BY <2>3, <2>4 DEF WireInv, Strings
<1>3. CASE W!Cut
  <2>1. bytes' = W!Slice(bytes, 0, Len(bytes) - 1) /\ bytes # <<>>
    BY <1>3 DEF W!Cut
  <2>2. Len(bytes) - 1 \in Nat /\ 0 <= Len(bytes) - 1 /\ Len(bytes) - 1 <= Len(bytes)
    BY <1>1, <2>1, EmptySeq
  <2>3. bytes' \in Strings
    BY <2>1, <2>2, SliceIs DEF WireInv
  <2>4. type' = type /\ msg' = msg /\ changed' = changed /\ resizes' \in 0 .. MaxResizes
    BY <1>3, CodecAssumption DEF W!Cut, WireInv
  <2> QED BY <2>3, <2>4 DEF WireInv
<1>4. CASE W!Extend
  <2>1. PICK v \in Values : bytes' = Append(bytes, v)
    BY <1>4 DEF W!Extend
  <2>2. v \in W!Byte
    BY CodecAssumption
  <2>3. bytes' \in Seq(W!Byte)
    BY <1>1, <2>1, <2>2, AppendProperties
  <2>4. type' = type /\ msg' = msg /\ changed' = changed /\ resizes' \in 0 .. MaxResizes
    BY <1>4, CodecAssumption DEF W!Extend, WireInv
  <2> QED BY <2>3, <2>4 DEF WireInv, Strings
<1> QED BY <1>2, <1>3, <1>4 DEF W!Next

\* The properties of the session plane's codecs follow.
LEMMA WireProperties ==
    ASSUME WireInv
    PROVE  W!TypeOK /\ W!RoundTrip /\ W!Canonical /\ W!TakesExactly /\ W!DecodedIsUsable
<1>1. /\ type \in W!Types /\ msg \in W!Sendable(type) /\ bytes \in Strings
  BY DEF WireInv
<1>2. W!Canonical
  BY <1>1, WireDecoded DEF W!Canonical
<1>3. W!DecodedIsUsable
  <2>1. SUFFICES ASSUME NEW m \in W!Decode(type, bytes)
                 PROVE  /\ type \in {"prepare", "prepare_ack", "open", "open_ack", "binding"} =>
                             /\ Len(m.session) \in 1 .. W!MaxName
                             /\ 47 \notin {m.session[i] : i \in DOMAIN m.session}
                             /\ \E i \in DOMAIN m.session : m.session[i] # 46 \/ Len(m.session) > 2
                        /\ type \in {"open_ack", "binding"} => m.session_handle \in 1 .. W!MaxU16
                        /\ type = "response" => (m.kind = 2) = (m.session_handle # 0)
    BY DEF W!DecodedIsUsable
  <2>2. /\ type \in {"prepare", "prepare_ack", "open", "open_ack", "binding"} => Named(m.session)
        /\ type \in {"open_ack", "binding"} => m.session_handle \in 1 .. W!MaxU16
        /\ type = "response" => (m.kind = 2) = (m.session_handle # 0)
    BY <1>1, WireDecoded
  <2> QED BY <2>2, NameUsable
<1>4. W!TakesExactly
  <2>1. CASE type = "hdp"
    <3>1. W!Encode(type, msg) = W!EncodeHdp(msg)
      BY <2>1 DEF W!Encode
    <3>2. W!Slice(bytes, 0, Len(W!EncodeHdp(msg))) = W!EncodeHdp(msg) =>
            W!TakesHdp(bytes) = {Len(W!EncodeHdp(msg))}
      BY <1>1, <2>1, HdpTaken
    <3> QED BY <2>1, <3>1, <3>2 DEF W!TakesExactly
  <2>2. CASE type = "binding"
    <3>1. W!Encode(type, msg) = W!EncodeBinding(msg) /\ msg \in W!OpenAcks
      BY <1>1, <2>2 DEF W!Encode, W!Sendable
    <3>2. W!Slice(bytes, 0, Len(W!EncodeBinding(msg))) = W!EncodeBinding(msg) =>
            /\ W!TakesBinding(bytes) = {Len(W!EncodeBinding(msg))}
            /\ W!TakesBindingIroh(bytes) = {Len(W!EncodeBinding(msg))}
      BY <1>1, <3>1, BindingTaken
    <3> QED BY <2>2, <3>1, <3>2 DEF W!TakesExactly
  <2> QED BY <2>1, <2>2 DEF W!TakesExactly
<1>5. W!TypeOK
  <2>1. \A i \in 1 .. Len(bytes) : bytes[i] \in W!Byte
    BY <1>1, ElementOfSeq DEF Strings
  <2>2. DOMAIN bytes = 1 .. Len(bytes)
    BY <1>1, LenProperties DEF Strings
  <2>3. \A i \in DOMAIN bytes : bytes[i] \in 0 .. 255
    BY <2>1, <2>2 DEF W!Byte
  <2> QED BY <2>3 DEF WireInv, W!TypeOK
<1>6. W!RoundTrip
  BY <1>1, WireBack DEF W!RoundTrip
<1> QED BY <1>2, <1>3, <1>4, <1>5, <1>6

-----------------------------------------------------------------------------
(* The fields of a payload *)

\* A text that is accepted is the encoding of what it decodes to.
LEMMA TextDecoded ==
    ASSUME NEW o, NEW w
    PROVE  /\ \A b \in P!Base64Exact(o, w) : P!Base64(b) = o /\ b.n = w /\ b.v # 0
           /\ \A b \in P!Base64Bounded(o, w) : P!Base64(b) = o /\ b.n \in 1 .. w
           /\ \A b \in P!HexExact(o, w) : P!Hex(b) = o /\ b.n = w /\ b.v # 0
BY DEF P!Base64Exact, P!Base64Bounded, P!HexExact

\* The one value of a field.
LEMMA ValueIs ==
    ASSUME NEW name, NEW o, P!Optional(name, o)
    PROVE  /\ \A x \in o : o = {x}
           /\ \A x \in P!Session(o) : o = {x} /\ P!Session({x}) # {}
           /\ \A x \in P!Code(o) : o = {x} /\ P!Code({x}) # {}
           /\ \A x \in P!NonZero(o) : o = {x} /\ x # 0
<1>1. \A x \in o : o = {x}
  BY DEF P!Optional
<1>2. \A x \in P!Session(o) : x \in o /\ x \in P!Session({x})
  BY DEF P!Session
<1>3. \A x \in P!Code(o) : x \in o /\ x \in P!Code({x})
  BY DEF P!Code
<1>4. \A x \in P!NonZero(o) : x \in o /\ x # 0
  BY DEF P!NonZero
<1> QED BY <1>1, <1>2, <1>3, <1>4, Zenon

\* The fields that are numbers.
NumberFields == {"configuration_generation", "expires_at_epoch_seconds",
                 "not_after_epoch_seconds", "rejection_code"}

\* What a field of each name is encoded as.
LEMMA FieldForms ==
    ASSUME NEW x
    PROVE  /\ \A name \in P!Base64Fields : P!EncodedField(name, x) = P!Base64(x)
           /\ \A name \in P!HexFields : P!EncodedField(name, x) = P!Hex(x)
           /\ P!EncodedField("certificate_chain", x) = P!EncodeChain(x)
           /\ P!EncodedField("normalized_session", x) = {x}
           /\ P!EncodedField("configuration_generation", x) = {x}
           /\ P!EncodedField("expires_at_epoch_seconds", x) = {x}
           /\ P!EncodedField("not_after_epoch_seconds", x) = {x}
           /\ P!EncodedField("rejection_code", x) = {x}
           /\ P!EncodedField("code", x) = {x}
           /\ P!EncodedField("status", x) = {x}
BY DEF P!EncodedField, P!Base64Fields, P!HexFields

\* A field that is accepted is the encoding of what it decodes to.
LEMMA FieldDecoded ==
    ASSUME NEW name, NEW o, P!Optional(name, o), NEW w
    PROVE  /\ name \in P!Base64Fields =>
                /\ \A b \in P!Base64Exact(o, w) : P!EncodedField(name, b) = o /\ b.v # 0
                /\ \A b \in P!Base64Bounded(o, w) : P!EncodedField(name, b) = o /\ b.n \in 1 .. w
           /\ name \in P!HexFields =>
                \A b \in P!HexExact(o, w) : P!EncodedField(name, b) = o /\ b.v # 0
           /\ name = "normalized_session" =>
                \A s \in P!Session(o) : P!EncodedField(name, s) = o /\ P!Session({s}) # {}
           /\ name = "code" =>
                \A c \in P!Code(o) : P!EncodedField(name, c) = o /\ P!Code({c}) # {}
           /\ name \in NumberFields =>
                \A x \in P!NonZero(o) : P!EncodedField(name, x) = o /\ x # 0
<1>1. CASE name \in P!Base64Fields
  <2>1. \A x : P!EncodedField(name, x) = P!Base64(x)
    BY <1>1, FieldForms
  <2>2. name \notin P!HexFields /\ name # "normalized_session" /\ name # "code" /\ name \notin NumberFields
    BY <1>1 DEF P!Base64Fields, P!HexFields, NumberFields
  <2> QED BY <2>1, <2>2, TextDecoded
<1>2. CASE name \in P!HexFields
  <2>1. \A x : P!EncodedField(name, x) = P!Hex(x)
    BY <1>2, FieldForms
  <2>2. name \notin P!Base64Fields /\ name # "normalized_session" /\ name # "code" /\ name \notin NumberFields
    BY <1>2 DEF P!Base64Fields, P!HexFields, NumberFields
  <2> QED BY <2>1, <2>2, TextDecoded
<1>3. CASE name \notin P!Base64Fields \cup P!HexFields
  <2>1. name \in {"normalized_session", "code"} \cup NumberFields =>
          \A x : P!EncodedField(name, x) = {x}
    BY FieldForms DEF NumberFields
  <2>2. /\ \A s \in P!Session(o) : o = {s} /\ P!Session({s}) # {}
        /\ \A c \in P!Code(o) : o = {c} /\ P!Code({c}) # {}
        /\ \A x \in P!NonZero(o) : o = {x} /\ x # 0
    BY ValueIs
  <2> QED BY <1>3, <2>1, <2>2
<1> QED BY <1>1, <1>2, <1>3

\* A struct: a function of its field names.
IsStruct(p) == p = [name \in DOMAIN p |-> p[name]]

\* A payload whose fields encode the values.
LEMMA EncodedIs ==
    ASSUME NEW p, IsStruct(p), NEW f, DOMAIN f = DOMAIN p,
           \A name \in DOMAIN p : P!EncodedField(name, f[name]) = p[name]
    PROVE  P!Encoded(f) = p
BY DEF P!Encoded, IsStruct

\* The fields of the structs.
LEMMA FieldsAre ==
    /\ DOMAIN P!Fields = {"start", "challenge", "submit", "core_issued", "reconcile",
                           "result", "rejected", "first_app_submit", "approval_start",
                           "approval_challenge", "approval_submit", "confirm_persisted",
                           "reconcile3", "renew", "result3"}
    /\ P!Fields["start"] = {"request_id", "core_csr", "app_csr_digest", "normalized_session",
                            "core_binding_digest", "configuration_generation"}
    /\ P!Fields["challenge"] = {"bootstrap_id", "challenge", "expires_at_epoch_seconds",
                                "status"}
    /\ P!Fields["submit"] = {"bootstrap_id", "challenge", "code"}
    /\ P!Fields["core_issued"] = {"approval_id", "core_identity", "certificate_chain",
                                  "not_after_epoch_seconds", "state"}
    /\ P!Fields["reconcile"] = {"approval_id", "core_binding_digest", "normalized_session"}
    /\ P!Fields["result"] = {"approval_id", "status"} \cup P!ResultFields
    /\ P!Fields["rejected"] = {"rejection_code"}
    /\ P!Fields["first_app_submit"] = {"approval_id", "app_csr", "app_csr_digest"}
    /\ P!Fields["approval_start"] = {"app_csr_digest", "normalized_session",
                                     "core_binding_digest", "configuration_generation"}
    /\ P!Fields["approval_challenge"] = {"approval_id", "challenge",
                                         "expires_at_epoch_seconds"}
    /\ P!Fields["approval_submit"] = {"approval_id", "challenge", "code", "app_csr",
                                      "app_csr_digest"}
    /\ P!Fields["confirm_persisted"] = {"approval_id", "app_identity",
                                        "issued_certificate_fingerprint",
                                        "issued_certificate_chain_digest",
                                        "configuration_generation"}
    /\ P!Fields["reconcile3"] = {"approval_id", "app_csr_digest", "normalized_session",
                                 "core_binding_digest", "configuration_generation"}
    /\ P!Fields["renew"] = {"existing_app_identity", "app_csr", "app_csr_digest",
                            "normalized_session", "core_binding_digest",
                            "configuration_generation"}
    /\ P!Fields["result3"] = {"approval_id", "status"} \cup P!Result3Fields
<1> DEFINE names(s) == {s[i] : i \in DOMAIN s}
<1>1. /\ \A a : names(<<a>>) = {a}
      /\ \A a, b, c : names(<<a, b, c>>) = {a, b, c}
      /\ \A a, b, c, d : names(<<a, b, c, d>>) = {a, b, c, d}
      /\ \A a, b, c, d, e : names(<<a, b, c, d, e>>) = {a, b, c, d, e}
      /\ \A a, b, c, d, e, f : names(<<a, b, c, d, e, f>>) = {a, b, c, d, e, f}
      /\ \A a, b, c, d, e, f, g, h, i :
            names(<<a, b, c, d, e, f, g, h, i>>) = {a, b, c, d, e, f, g, h, i}
  OBVIOUS
<1>2. P!Fields = [t \in DOMAIN P!Layout |-> names(P!Layout[t])]
  BY DEF P!Fields
<1> HIDE DEF names
<1>3. DOMAIN P!Fields = DOMAIN P!Layout /\ \A t \in DOMAIN P!Layout : P!Fields[t] = names(P!Layout[t])
  BY <1>2
<1>4. DOMAIN P!Layout = {"start", "challenge", "submit", "core_issued", "reconcile", "result",
                       "rejected", "first_app_submit", "approval_start", "approval_challenge",
                       "approval_submit", "confirm_persisted", "reconcile3", "renew",
                       "result3"}
  BY DEF P!Layout
<1>5. P!Fields["start"] = names(<<"request_id", "core_csr", "app_csr_digest",
                                     "normalized_session", "core_binding_digest",
                                     "configuration_generation">>)
  BY <1>3, <1>4 DEF P!Layout
<1>6. P!Fields["challenge"] = names(<<"bootstrap_id", "challenge", "expires_at_epoch_seconds",
                                     "status">>)
  BY <1>3, <1>4 DEF P!Layout
<1>7. P!Fields["submit"] = names(<<"bootstrap_id", "challenge", "code">>)
  BY <1>3, <1>4 DEF P!Layout
<1>8. P!Fields["core_issued"] = names(<<"approval_id", "core_identity", "certificate_chain",
                                     "not_after_epoch_seconds", "state">>)
  BY <1>3, <1>4 DEF P!Layout
<1>9. P!Fields["reconcile"] = names(<<"approval_id", "core_binding_digest",
                                     "normalized_session">>)
  BY <1>3, <1>4 DEF P!Layout
<1>10. P!Fields["result"] = names(<<"approval_id", "status", "core_identity",
                                     "certificate_chain", "not_after_epoch_seconds",
                                     "rejection_code">>)
  BY <1>3, <1>4 DEF P!Layout
<1>11. P!Fields["rejected"] = names(<<"rejection_code">>)
  BY <1>3, <1>4 DEF P!Layout
<1>12. P!Fields["first_app_submit"] = names(<<"approval_id", "app_csr", "app_csr_digest">>)
  BY <1>3, <1>4 DEF P!Layout
<1>13. P!Fields["approval_start"] = names(<<"app_csr_digest", "normalized_session",
                                     "core_binding_digest", "configuration_generation">>)
  BY <1>3, <1>4 DEF P!Layout
<1>14. P!Fields["approval_challenge"] = names(<<"approval_id", "challenge", "expires_at_epoch_seconds">>)
  BY <1>3, <1>4 DEF P!Layout
<1>15. P!Fields["approval_submit"] = names(<<"approval_id", "challenge", "code", "app_csr",
                                     "app_csr_digest">>)
  BY <1>3, <1>4 DEF P!Layout
<1>16. P!Fields["confirm_persisted"] = names(<<"approval_id", "app_identity",
                                     "issued_certificate_fingerprint",
                                     "issued_certificate_chain_digest",
                                     "configuration_generation">>)
  BY <1>3, <1>4 DEF P!Layout
<1>17. P!Fields["reconcile3"] = names(<<"approval_id", "app_csr_digest", "normalized_session",
                                     "core_binding_digest", "configuration_generation">>)
  BY <1>3, <1>4 DEF P!Layout
<1>18. P!Fields["renew"] = names(<<"existing_app_identity", "app_csr", "app_csr_digest",
                                     "normalized_session", "core_binding_digest",
                                     "configuration_generation">>)
  BY <1>3, <1>4 DEF P!Layout
<1>19. P!Fields["result3"] = names(<<"approval_id", "status", "app_identity",
                                     "certificate_chain", "certificate_fingerprint",
                                     "certificate_chain_digest", "not_after_epoch_seconds",
                                     "configuration_generation", "rejection_code">>)
  BY <1>3, <1>4 DEF P!Layout
<1> QED BY <1>1, <1>3, <1>4, <1>5, <1>6, <1>7, <1>8, <1>9, <1>10, <1>11, <1>12,
           <1>13, <1>14, <1>15, <1>16, <1>17, <1>18, <1>19 DEF P!ResultFields, P!Result3Fields

\* What a payload on the way is.
Struct(t, p) ==
    /\ IsStruct(p) /\ DOMAIN p = P!Fields[t]
    /\ \A name \in DOMAIN p : P!Optional(name, p[name])

\* validate_csr_digest.
LEMMA BoundCsrIs ==
    ASSUME NEW p, P!Optional("app_csr", p.app_csr), P!Optional("app_csr_digest", p.app_csr_digest),
           NEW cd \in P!BoundCsr(p)
    PROVE  /\ P!EncodedField("app_csr", cd[1]) = p.app_csr
           /\ P!EncodedField("app_csr_digest", cd[2]) = p.app_csr_digest
           /\ cd[2] = P!Sha256(cd[1])
<1>1. /\ cd[1] \in P!Base64Bounded(p.app_csr, P!MaxCsr)
      /\ cd[2] \in P!HexExact(p.app_csr_digest, P!Digest) /\ cd[2] = P!Sha256(cd[1])
  BY DEF P!BoundCsr
<1>2. "app_csr" \in P!Base64Fields /\ "app_csr_digest" \in P!HexFields
  BY DEF P!Base64Fields, P!HexFields
<1>3. P!EncodedField("app_csr", cd[1]) = p.app_csr
  BY <1>1, <1>2, FieldDecoded
<1>4. P!EncodedField("app_csr_digest", cd[2]) = p.app_csr_digest
  BY <1>1, <1>2, FieldDecoded
<1> QED BY <1>1, <1>3, <1>4

\* Hdb1StartPayload.
LEMMA StartCanonical ==
    ASSUME NEW p, Struct("start", p), NEW f \in P!DecodeStart(p)
    PROVE  P!NewStart(f) = {p} /\ "app_csr" \notin DOMAIN f
<1>1. PICK r \in P!Base64Exact(p.request_id, P!RequestId),
           c \in P!Base64Bounded(p.core_csr, P!MaxCsr),
           d \in P!HexExact(p.app_csr_digest, P!Digest),
           b \in P!HexExact(p.core_binding_digest, P!Digest),
           g \in P!NonZero(p.configuration_generation), s \in P!Session(p.normalized_session) :
        f = [request_id |-> r, core_csr |-> c, app_csr_digest |-> d, normalized_session |-> s,
             core_binding_digest |-> b, configuration_generation |-> g]
  BY DEF P!DecodeStart
<1>2. /\ DOMAIN p = {"request_id", "core_csr", "app_csr_digest", "normalized_session",
                     "core_binding_digest", "configuration_generation"}
      /\ IsStruct(p) /\ \A name \in DOMAIN p : P!Optional(name, p[name])
  BY FieldsAre DEF Struct
<1>3. P!EncodedField("request_id", r) = p.request_id /\ r.v # 0
  BY <1>2, FieldDecoded DEF P!Base64Fields
<1>4. P!EncodedField("core_csr", c) = p.core_csr /\ c.n \in 1 .. P!MaxCsr
  BY <1>2, FieldDecoded DEF P!Base64Fields
<1>5. P!EncodedField("app_csr_digest", d) = p.app_csr_digest /\ d.v # 0
  BY <1>2, FieldDecoded DEF P!HexFields
<1>6. P!EncodedField("core_binding_digest", b) = p.core_binding_digest /\ b.v # 0
  BY <1>2, FieldDecoded DEF P!HexFields
<1>7. P!EncodedField("configuration_generation", g) = p.configuration_generation /\ g # 0
  BY <1>2, FieldDecoded DEF NumberFields
<1>8. P!EncodedField("normalized_session", s) = p.normalized_session /\ P!Session({s}) # {}
  BY <1>2, FieldDecoded
<1>9. /\ f.request_id = r /\ f.core_csr = c /\ f.app_csr_digest = d
      /\ f.normalized_session = s /\ f.core_binding_digest = b
      /\ f.configuration_generation = g /\ DOMAIN f = DOMAIN p
  BY <1>1, <1>2
<1>10. P!Encoded(f) = p
  <2>1. \A name \in DOMAIN p : P!EncodedField(name, f[name]) = p[name]
    BY <1>2, <1>3, <1>4, <1>5, <1>6, <1>7, <1>8, <1>9
  <2> QED BY <1>2, <1>9, <2>1, EncodedIs
<1>11. P!NewStart(f) = {P!Encoded(f)}
  BY <1>3, <1>4, <1>5, <1>6, <1>7, <1>8, <1>9 DEF P!NewStart, P!Given
<1> QED BY <1>2, <1>9, <1>10, <1>11

\* Hdb1SubmitPayload.
LEMMA SubmitCanonical ==
    ASSUME NEW p, Struct("submit", p), NEW f \in P!DecodeSubmit(p)
    PROVE  P!NewSubmit(f) = {p} /\ "app_csr" \notin DOMAIN f
<1>1. PICK i \in P!Base64Exact(p.bootstrap_id, P!Id), c \in P!Base64Exact(p.challenge, P!Digest),
           k \in P!Code(p.code) :
        f = [bootstrap_id |-> i, challenge |-> c, code |-> k]
  BY DEF P!DecodeSubmit
<1>2. /\ DOMAIN p = {"bootstrap_id", "challenge", "code"}
      /\ IsStruct(p) /\ \A name \in DOMAIN p : P!Optional(name, p[name])
  BY FieldsAre DEF Struct
<1>3. P!EncodedField("bootstrap_id", i) = p.bootstrap_id /\ i.v # 0
  BY <1>2, FieldDecoded DEF P!Base64Fields
<1>4. P!EncodedField("challenge", c) = p.challenge /\ c.v # 0
  BY <1>2, FieldDecoded DEF P!Base64Fields
<1>5. P!EncodedField("code", k) = p.code /\ P!Code({k}) # {}
  BY <1>2, FieldDecoded
<1>6. /\ f.bootstrap_id = i /\ f.challenge = c /\ f.code = k /\ DOMAIN f = DOMAIN p
  BY <1>1, <1>2
<1>7. P!Encoded(f) = p
  <2>1. \A name \in DOMAIN p : P!EncodedField(name, f[name]) = p[name]
    BY <1>2, <1>3, <1>4, <1>5, <1>6
  <2> QED BY <1>2, <1>6, <2>1, EncodedIs
<1>8. P!NewSubmit(f) = {P!Encoded(f)}
  BY <1>3, <1>4, <1>5, <1>6 DEF P!NewSubmit, P!Given
<1> QED BY <1>2, <1>6, <1>7, <1>8

\* Hdb1ReconcilePayload.
LEMMA ReconcileCanonical ==
    ASSUME NEW p, Struct("reconcile", p), NEW f \in P!DecodeReconcile(p)
    PROVE  P!NewReconcile(f) = {p} /\ "app_csr" \notin DOMAIN f
<1>1. PICK i \in P!Base64Exact(p.approval_id, P!Id),
           b \in P!HexExact(p.core_binding_digest, P!Digest),
           s \in P!Session(p.normalized_session) :
        f = [approval_id |-> i, core_binding_digest |-> b, normalized_session |-> s]
  BY DEF P!DecodeReconcile
<1>2. /\ DOMAIN p = {"approval_id", "core_binding_digest", "normalized_session"}
      /\ IsStruct(p) /\ \A name \in DOMAIN p : P!Optional(name, p[name])
  BY FieldsAre DEF Struct
<1>3. P!EncodedField("approval_id", i) = p.approval_id /\ i.v # 0
  BY <1>2, FieldDecoded DEF P!Base64Fields
<1>4. P!EncodedField("core_binding_digest", b) = p.core_binding_digest /\ b.v # 0
  BY <1>2, FieldDecoded DEF P!HexFields
<1>5. P!EncodedField("normalized_session", s) = p.normalized_session /\ P!Session({s}) # {}
  BY <1>2, FieldDecoded
<1>6. /\ f.approval_id = i /\ f.core_binding_digest = b /\ f.normalized_session = s
      /\ DOMAIN f = DOMAIN p
  BY <1>1, <1>2
<1>7. P!Encoded(f) = p
  <2>1. \A name \in DOMAIN p : P!EncodedField(name, f[name]) = p[name]
    BY <1>2, <1>3, <1>4, <1>5, <1>6
  <2> QED BY <1>2, <1>6, <2>1, EncodedIs
<1>8. P!NewReconcile(f) = {P!Encoded(f)}
  BY <1>3, <1>4, <1>5, <1>6 DEF P!NewReconcile, P!Given
<1> QED BY <1>2, <1>6, <1>7, <1>8

\* Hdb1RejectedPayload and Hde3RejectedPayload.
LEMMA RejectedCanonical ==
    ASSUME NEW p, Struct("rejected", p), NEW f \in P!DecodeRejected(p)
    PROVE  P!NewRejected(f) = {p} /\ "app_csr" \notin DOMAIN f
<1>1. PICK c \in P!NonZero(p.rejection_code) :
        f = [rejection_code |-> c]
  BY DEF P!DecodeRejected
<1>2. /\ DOMAIN p = {"rejection_code"}
      /\ IsStruct(p) /\ \A name \in DOMAIN p : P!Optional(name, p[name])
  BY FieldsAre DEF Struct
<1>3. P!EncodedField("rejection_code", c) = p.rejection_code /\ c # 0
  BY <1>2, FieldDecoded DEF NumberFields
<1>4. /\ f.rejection_code = c /\ DOMAIN f = DOMAIN p
  BY <1>1, <1>2
<1>5. P!Encoded(f) = p
  <2>1. \A name \in DOMAIN p : P!EncodedField(name, f[name]) = p[name]
    BY <1>2, <1>3, <1>4
  <2> QED BY <1>2, <1>4, <2>1, EncodedIs
<1>6. P!NewRejected(f) = {P!Encoded(f)}
  BY <1>3, <1>4 DEF P!NewRejected, P!Given
<1> QED BY <1>2, <1>4, <1>5, <1>6

\* Hde3FirstAppSubmitPayload.
LEMMA FirstAppSubmitCanonical ==
    ASSUME NEW p, Struct("first_app_submit", p), NEW f \in P!DecodeFirstAppSubmit(p)
    PROVE  P!Encoded(f) = p /\ f.app_csr_digest = P!Sha256(f.app_csr)
<1>1. PICK i \in P!Base64Exact(p.approval_id, P!Id), cd \in P!BoundCsr(p) :
        f = [approval_id |-> i, app_csr |-> cd[1], app_csr_digest |-> cd[2]]
  BY DEF P!DecodeFirstAppSubmit
<1>2. /\ DOMAIN p = {"approval_id", "app_csr", "app_csr_digest"}
      /\ IsStruct(p) /\ \A name \in DOMAIN p : P!Optional(name, p[name])
  BY FieldsAre DEF Struct
<1>3. P!EncodedField("approval_id", i) = p.approval_id /\ i.v # 0
  BY <1>2, FieldDecoded DEF P!Base64Fields
<1>4. /\ P!EncodedField("app_csr", cd[1]) = p.app_csr
      /\ P!EncodedField("app_csr_digest", cd[2]) = p.app_csr_digest /\ cd[2] = P!Sha256(cd[1])
  BY <1>2, BoundCsrIs
<1>5. /\ f.approval_id = i /\ f.app_csr = cd[1] /\ f.app_csr_digest = cd[2] /\ DOMAIN f = DOMAIN p
  BY <1>1, <1>2
<1>6. P!Encoded(f) = p
  <2>1. \A name \in DOMAIN p : P!EncodedField(name, f[name]) = p[name]
    BY <1>2, <1>3, <1>4, <1>5
  <2> QED BY <1>2, <1>5, <2>1, EncodedIs
<1> QED BY <1>2, <1>4, <1>5, <1>6

\* Hde3ApprovalStartPayload.
LEMMA ApprovalStartCanonical ==
    ASSUME NEW p, Struct("approval_start", p), NEW f \in P!DecodeApprovalStart(p)
    PROVE  P!Encoded(f) = p /\ "app_csr" \notin DOMAIN f
<1>1. PICK d \in P!HexExact(p.app_csr_digest, P!Digest),
           b \in P!HexExact(p.core_binding_digest, P!Digest),
           s \in P!Session(p.normalized_session), g \in P!NonZero(p.configuration_generation) :
        f = [app_csr_digest |-> d, normalized_session |-> s, core_binding_digest |-> b,
             configuration_generation |-> g]
  BY DEF P!DecodeApprovalStart
<1>2. /\ DOMAIN p = {"app_csr_digest", "normalized_session", "core_binding_digest",
                     "configuration_generation"}
      /\ IsStruct(p) /\ \A name \in DOMAIN p : P!Optional(name, p[name])
  BY FieldsAre DEF Struct
<1>3. P!EncodedField("app_csr_digest", d) = p.app_csr_digest /\ d.v # 0
  BY <1>2, FieldDecoded DEF P!HexFields
<1>4. P!EncodedField("core_binding_digest", b) = p.core_binding_digest /\ b.v # 0
  BY <1>2, FieldDecoded DEF P!HexFields
<1>5. P!EncodedField("normalized_session", s) = p.normalized_session /\ P!Session({s}) # {}
  BY <1>2, FieldDecoded
<1>6. P!EncodedField("configuration_generation", g) = p.configuration_generation /\ g # 0
  BY <1>2, FieldDecoded DEF NumberFields
<1>7. /\ f.app_csr_digest = d /\ f.normalized_session = s /\ f.core_binding_digest = b
      /\ f.configuration_generation = g /\ DOMAIN f = DOMAIN p
  BY <1>1, <1>2
<1>8. P!Encoded(f) = p
  <2>1. \A name \in DOMAIN p : P!EncodedField(name, f[name]) = p[name]
    BY <1>2, <1>3, <1>4, <1>5, <1>6, <1>7
  <2> QED BY <1>2, <1>7, <2>1, EncodedIs
<1> QED BY <1>2, <1>7, <1>8

\* Hde3ApprovalChallengePayload.
LEMMA ApprovalChallengeCanonical ==
    ASSUME NEW p, Struct("approval_challenge", p), NEW f \in P!DecodeApprovalChallenge(p)
    PROVE  P!NewApprovalChallenge(f) = {p} /\ "app_csr" \notin DOMAIN f
<1>1. PICK i \in P!Base64Exact(p.approval_id, P!Id), c \in P!Base64Exact(p.challenge, P!Digest),
           e \in P!NonZero(p.expires_at_epoch_seconds) :
        f = [approval_id |-> i, challenge |-> c, expires_at_epoch_seconds |-> e]
  BY DEF P!DecodeApprovalChallenge
<1>2. /\ DOMAIN p = {"approval_id", "challenge", "expires_at_epoch_seconds"}
      /\ IsStruct(p) /\ \A name \in DOMAIN p : P!Optional(name, p[name])
  BY FieldsAre DEF Struct
<1>3. P!EncodedField("approval_id", i) = p.approval_id /\ i.v # 0
  BY <1>2, FieldDecoded DEF P!Base64Fields
<1>4. P!EncodedField("challenge", c) = p.challenge /\ c.v # 0
  BY <1>2, FieldDecoded DEF P!Base64Fields
<1>5. P!EncodedField("expires_at_epoch_seconds", e) = p.expires_at_epoch_seconds /\ e # 0
  BY <1>2, FieldDecoded DEF NumberFields
<1>6. /\ f.approval_id = i /\ f.challenge = c /\ f.expires_at_epoch_seconds = e
      /\ DOMAIN f = DOMAIN p
  BY <1>1, <1>2
<1>7. P!Encoded(f) = p
  <2>1. \A name \in DOMAIN p : P!EncodedField(name, f[name]) = p[name]
    BY <1>2, <1>3, <1>4, <1>5, <1>6
  <2> QED BY <1>2, <1>6, <2>1, EncodedIs
<1>8. P!NewApprovalChallenge(f) = {P!Encoded(f)}
  BY <1>3, <1>4, <1>5, <1>6 DEF P!NewApprovalChallenge, P!Given
<1> QED BY <1>2, <1>6, <1>7, <1>8

\* Hde3ApprovalSubmitPayload.
LEMMA ApprovalSubmitCanonical ==
    ASSUME NEW p, Struct("approval_submit", p), NEW f \in P!DecodeApprovalSubmit(p)
    PROVE  P!Encoded(f) = p /\ f.app_csr_digest = P!Sha256(f.app_csr)
<1>1. PICK i \in P!Base64Exact(p.approval_id, P!Id), c \in P!Base64Exact(p.challenge, P!Digest),
           k \in P!Code(p.code), cd \in P!BoundCsr(p) :
        f = [approval_id |-> i, challenge |-> c, code |-> k, app_csr |-> cd[1],
             app_csr_digest |-> cd[2]]
  BY DEF P!DecodeApprovalSubmit
<1>2. /\ DOMAIN p = {"approval_id", "challenge", "code", "app_csr", "app_csr_digest"}
      /\ IsStruct(p) /\ \A name \in DOMAIN p : P!Optional(name, p[name])
  BY FieldsAre DEF Struct
<1>3. P!EncodedField("approval_id", i) = p.approval_id /\ i.v # 0
  BY <1>2, FieldDecoded DEF P!Base64Fields
<1>4. P!EncodedField("challenge", c) = p.challenge /\ c.v # 0
  BY <1>2, FieldDecoded DEF P!Base64Fields
<1>5. P!EncodedField("code", k) = p.code /\ P!Code({k}) # {}
  BY <1>2, FieldDecoded
<1>6. /\ P!EncodedField("app_csr", cd[1]) = p.app_csr
      /\ P!EncodedField("app_csr_digest", cd[2]) = p.app_csr_digest /\ cd[2] = P!Sha256(cd[1])
  BY <1>2, BoundCsrIs
<1>7. /\ f.approval_id = i /\ f.challenge = c /\ f.code = k /\ f.app_csr = cd[1]
      /\ f.app_csr_digest = cd[2] /\ DOMAIN f = DOMAIN p
  BY <1>1, <1>2
<1>8. P!Encoded(f) = p
  <2>1. \A name \in DOMAIN p : P!EncodedField(name, f[name]) = p[name]
    BY <1>2, <1>3, <1>4, <1>5, <1>6, <1>7
  <2> QED BY <1>2, <1>7, <2>1, EncodedIs
<1> QED BY <1>2, <1>6, <1>7, <1>8

\* Hde3ConfirmPersistedPayload.
LEMMA ConfirmPersistedCanonical ==
    ASSUME NEW p, Struct("confirm_persisted", p), NEW f \in P!DecodeConfirmPersisted(p)
    PROVE  P!Encoded(f) = p /\ "app_csr" \notin DOMAIN f
<1>1. PICK i \in P!Base64Exact(p.approval_id, P!Id), a \in P!HexExact(p.app_identity, P!Digest),
           t \in P!HexExact(p.issued_certificate_fingerprint, P!Digest),
           d \in P!HexExact(p.issued_certificate_chain_digest, P!Digest),
           g \in P!NonZero(p.configuration_generation) :
        f = [approval_id |-> i, app_identity |-> a, issued_certificate_fingerprint |-> t,
             issued_certificate_chain_digest |-> d, configuration_generation |-> g]
  BY DEF P!DecodeConfirmPersisted
<1>2. /\ DOMAIN p = {"approval_id", "app_identity", "issued_certificate_fingerprint",
                     "issued_certificate_chain_digest", "configuration_generation"}
      /\ IsStruct(p) /\ \A name \in DOMAIN p : P!Optional(name, p[name])
  BY FieldsAre DEF Struct
<1>3. P!EncodedField("approval_id", i) = p.approval_id /\ i.v # 0
  BY <1>2, FieldDecoded DEF P!Base64Fields
<1>4. P!EncodedField("app_identity", a) = p.app_identity /\ a.v # 0
  BY <1>2, FieldDecoded DEF P!HexFields
<1>5. P!EncodedField("issued_certificate_fingerprint", t) = p.issued_certificate_fingerprint /\ t.v # 0
  BY <1>2, FieldDecoded DEF P!HexFields
<1>6. P!EncodedField("issued_certificate_chain_digest", d) = p.issued_certificate_chain_digest /\ d.v # 0
  BY <1>2, FieldDecoded DEF P!HexFields
<1>7. P!EncodedField("configuration_generation", g) = p.configuration_generation /\ g # 0
  BY <1>2, FieldDecoded DEF NumberFields
<1>8. /\ f.approval_id = i /\ f.app_identity = a /\ f.issued_certificate_fingerprint = t
      /\ f.issued_certificate_chain_digest = d /\ f.configuration_generation = g
      /\ DOMAIN f = DOMAIN p
  BY <1>1, <1>2
<1>9. P!Encoded(f) = p
  <2>1. \A name \in DOMAIN p : P!EncodedField(name, f[name]) = p[name]
    BY <1>2, <1>3, <1>4, <1>5, <1>6, <1>7, <1>8
  <2> QED BY <1>2, <1>8, <2>1, EncodedIs
<1> QED BY <1>2, <1>8, <1>9

\* Hde3ReconcilePayload.
LEMMA Reconcile3Canonical ==
    ASSUME NEW p, Struct("reconcile3", p), NEW f \in P!DecodeReconcile3(p)
    PROVE  P!Encoded(f) = p /\ "app_csr" \notin DOMAIN f
<1>1. PICK i \in P!Base64Exact(p.approval_id, P!Id),
           d \in P!HexExact(p.app_csr_digest, P!Digest),
           b \in P!HexExact(p.core_binding_digest, P!Digest),
           s \in P!Session(p.normalized_session), g \in P!NonZero(p.configuration_generation) :
        f = [approval_id |-> i, app_csr_digest |-> d, normalized_session |-> s,
             core_binding_digest |-> b, configuration_generation |-> g]
  BY DEF P!DecodeReconcile3
<1>2. /\ DOMAIN p = {"approval_id", "app_csr_digest", "normalized_session",
                     "core_binding_digest", "configuration_generation"}
      /\ IsStruct(p) /\ \A name \in DOMAIN p : P!Optional(name, p[name])
  BY FieldsAre DEF Struct
<1>3. P!EncodedField("approval_id", i) = p.approval_id /\ i.v # 0
  BY <1>2, FieldDecoded DEF P!Base64Fields
<1>4. P!EncodedField("app_csr_digest", d) = p.app_csr_digest /\ d.v # 0
  BY <1>2, FieldDecoded DEF P!HexFields
<1>5. P!EncodedField("core_binding_digest", b) = p.core_binding_digest /\ b.v # 0
  BY <1>2, FieldDecoded DEF P!HexFields
<1>6. P!EncodedField("normalized_session", s) = p.normalized_session /\ P!Session({s}) # {}
  BY <1>2, FieldDecoded
<1>7. P!EncodedField("configuration_generation", g) = p.configuration_generation /\ g # 0
  BY <1>2, FieldDecoded DEF NumberFields
<1>8. /\ f.approval_id = i /\ f.app_csr_digest = d /\ f.normalized_session = s
      /\ f.core_binding_digest = b /\ f.configuration_generation = g /\ DOMAIN f = DOMAIN p
  BY <1>1, <1>2
<1>9. P!Encoded(f) = p
  <2>1. \A name \in DOMAIN p : P!EncodedField(name, f[name]) = p[name]
    BY <1>2, <1>3, <1>4, <1>5, <1>6, <1>7, <1>8
  <2> QED BY <1>2, <1>8, <2>1, EncodedIs
<1> QED BY <1>2, <1>8, <1>9

\* Hde3RenewPayload.
LEMMA RenewCanonical ==
    ASSUME NEW p, Struct("renew", p), NEW f \in P!DecodeRenew(p)
    PROVE  P!Encoded(f) = p /\ f.app_csr_digest = P!Sha256(f.app_csr)
<1>1. PICK a \in P!HexExact(p.existing_app_identity, P!Digest), cd \in P!BoundCsr(p),
           b \in P!HexExact(p.core_binding_digest, P!Digest),
           s \in P!Session(p.normalized_session), g \in P!NonZero(p.configuration_generation) :
        f = [existing_app_identity |-> a, app_csr |-> cd[1], app_csr_digest |-> cd[2],
             normalized_session |-> s, core_binding_digest |-> b, configuration_generation |-> g]
  BY DEF P!DecodeRenew
<1>2. /\ DOMAIN p = {"existing_app_identity", "app_csr", "app_csr_digest", "normalized_session",
                     "core_binding_digest", "configuration_generation"}
      /\ IsStruct(p) /\ \A name \in DOMAIN p : P!Optional(name, p[name])
  BY FieldsAre DEF Struct
<1>3. P!EncodedField("existing_app_identity", a) = p.existing_app_identity /\ a.v # 0
  BY <1>2, FieldDecoded DEF P!HexFields
<1>4. /\ P!EncodedField("app_csr", cd[1]) = p.app_csr
      /\ P!EncodedField("app_csr_digest", cd[2]) = p.app_csr_digest /\ cd[2] = P!Sha256(cd[1])
  BY <1>2, BoundCsrIs
<1>5. P!EncodedField("core_binding_digest", b) = p.core_binding_digest /\ b.v # 0
  BY <1>2, FieldDecoded DEF P!HexFields
<1>6. P!EncodedField("normalized_session", s) = p.normalized_session /\ P!Session({s}) # {}
  BY <1>2, FieldDecoded
<1>7. P!EncodedField("configuration_generation", g) = p.configuration_generation /\ g # 0
  BY <1>2, FieldDecoded DEF NumberFields
<1>8. /\ f.existing_app_identity = a /\ f.app_csr = cd[1] /\ f.app_csr_digest = cd[2]
      /\ f.normalized_session = s /\ f.core_binding_digest = b
      /\ f.configuration_generation = g /\ DOMAIN f = DOMAIN p
  BY <1>1, <1>2
<1>9. P!Encoded(f) = p
  <2>1. \A name \in DOMAIN p : P!EncodedField(name, f[name]) = p[name]
    BY <1>2, <1>3, <1>4, <1>5, <1>6, <1>7, <1>8
  <2> QED BY <1>2, <1>8, <2>1, EncodedIs
<1> QED BY <1>2, <1>4, <1>8, <1>9
\* A payload with a field of its own: the fields that encode the values, and the others.
LEMMA WithIs ==
    ASSUME NEW p, IsStruct(p), NEW f, NEW g, DOMAIN f \cup DOMAIN g = DOMAIN p,
           \A name \in DOMAIN f : P!EncodedField(name, f[name]) = p[name],
           \A name \in DOMAIN p : name \notin DOMAIN f => g[name] = p[name]
    PROVE  P!With(P!Encoded(f), g) = p
<1>1. DOMAIN P!Encoded(f) = DOMAIN f /\ \A name \in DOMAIN f : P!Encoded(f)[name] = p[name]
  BY DEF P!Encoded
<1> DEFINE e == P!Encoded(f)
<1> HIDE DEF e
<1>2. DOMAIN e = DOMAIN f /\ \A name \in DOMAIN f : e[name] = p[name]
  BY <1>1 DEF e
<1>3. P!With(e, g) = [name \in DOMAIN p |-> p[name]]
  BY <1>2 DEF P!With
<1> QED BY <1>3 DEF e, IsStruct

\* Hdb1ChallengePayload.
LEMMA ChallengeCanonical ==
    ASSUME NEW p, Struct("challenge", p), NEW f \in P!DecodeChallenge(p)
    PROVE  P!NewChallenge(f) = {p} /\ "app_csr" \notin DOMAIN f
<1>1. PICK i \in P!Base64Exact(p.bootstrap_id, P!Id), c \in P!Base64Exact(p.challenge, P!Digest),
           e \in P!NonZero(p.expires_at_epoch_seconds) :
        /\ f = [bootstrap_id |-> i, challenge |-> c, expires_at_epoch_seconds |-> e]
        /\ p.status = {"awaiting_code"}
  BY DEF P!DecodeChallenge
<1>2. /\ DOMAIN p = {"bootstrap_id", "challenge", "expires_at_epoch_seconds", "status"}
      /\ IsStruct(p) /\ \A name \in DOMAIN p : P!Optional(name, p[name])
  BY FieldsAre DEF Struct
<1>3. P!EncodedField("bootstrap_id", i) = p.bootstrap_id /\ i.v # 0
  BY <1>2, FieldDecoded DEF P!Base64Fields
<1>4. P!EncodedField("challenge", c) = p.challenge /\ c.v # 0
  BY <1>2, FieldDecoded DEF P!Base64Fields
<1>5. P!EncodedField("expires_at_epoch_seconds", e) = p.expires_at_epoch_seconds /\ e # 0
  BY <1>2, FieldDecoded DEF NumberFields
<1>6. /\ f.bootstrap_id = i /\ f.challenge = c /\ f.expires_at_epoch_seconds = e
      /\ DOMAIN f = {"bootstrap_id", "challenge", "expires_at_epoch_seconds"}
  BY <1>1
<1> DEFINE g == [status |-> {"awaiting_code"}]
<1>7. P!With(P!Encoded(f), g) = p
  <2>1. \A name \in DOMAIN f : P!EncodedField(name, f[name]) = p[name]
    BY <1>3, <1>4, <1>5, <1>6
  <2>2. /\ DOMAIN f \cup DOMAIN g = DOMAIN p
        /\ \A name \in DOMAIN p : name \notin DOMAIN f => g[name] = p[name]
    BY <1>1, <1>2, <1>6
  <2> QED BY <1>2, <2>1, <2>2, WithIs
<1>8. P!NewChallenge(f) = {P!With(P!Encoded(f), g)}
  BY <1>3, <1>4, <1>5, <1>6 DEF P!NewChallenge, P!Given
<1> QED BY <1>6, <1>7, <1>8

\* A chain that is accepted is the encoding of its certificates.
LEMMA ChainCanonical ==
    ASSUME NEW o, P!Optional("certificate_chain", o), NEW c \in P!DecodeChain(o)
    PROVE  P!EncodeChain(c) = o /\ P!EncodedField("certificate_chain", c) = o /\ o # {}
<1>1. PICK x \in o :
        /\ Len(x) \in 1 .. P!MaxCertificates /\ P!ChainBytes(x) <= P!MaxChain
        /\ \A i \in DOMAIN x : P!Base64Bounded({x[i]}, P!MaxChain) # {}
        /\ c = [i \in DOMAIN x |-> CHOOSE b \in P!Base64Bounded({x[i]}, P!MaxChain) : TRUE]
  BY DEF P!DecodeChain
<1>2. o = {x} /\ x \in Seq([n : Nat, v : Nat, form : P!Forms])
  BY <1>1 DEF P!Optional
<1>3. DOMAIN x = 1 .. Len(x) /\ Len(x) \in Nat /\ x = [i \in 1 .. Len(x) |-> x[i]]
  BY <1>2, LenProperties
<1>4. \A i \in DOMAIN x : c[i] \in P!Base64Bounded({x[i]}, P!MaxChain)
  BY <1>1
<1>5. \A i \in DOMAIN x : P!Base64(c[i]) = {x[i]} /\ c[i].n \in 1 .. P!MaxChain
  BY <1>4, TextDecoded
<1>6. \A i \in DOMAIN x : x[i] = [n |-> c[i].n, v |-> c[i].v, form |-> "base64"]
  BY <1>5 DEF P!Base64, P!Text
<1>7. DOMAIN c = 1 .. Len(x) /\ Len(c) = Len(x)
  <2> DEFINE v(i) == CHOOSE b \in P!Base64Bounded({x[i]}, P!MaxChain) : TRUE
  <2>0. c = [i \in DOMAIN x |-> v(i)]
    BY <1>1
  <2> HIDE DEF v
  <2>1. DOMAIN c = DOMAIN x
    BY <2>0
  <2>2. DOMAIN c = 1 .. Len(x)
    BY <1>3, <2>1
  <2>3. Len(c) = Len(x)
    BY <1>3, <2>2
  <2> QED BY <2>2, <2>3
<1>8. P!Sizes(c) = P!Sizes(x)
  BY <1>3, <1>6, <1>7 DEF P!Sizes
<1>9. \A i \in DOMAIN c : c[i].n # 0
  <2>1. \A k \in 1 .. P!MaxChain : k # 0
    OBVIOUS
  <2> QED BY <1>3, <1>5, <1>7, <2>1
<1>10. [i \in DOMAIN c |-> CHOOSE t \in P!Base64(c[i]) : TRUE] = x
  <2>1. \A i \in DOMAIN x : (CHOOSE t \in P!Base64(c[i]) : TRUE) = x[i]
    BY <1>5
  <2> QED BY <1>3, <1>7, <2>1
<1>11. P!ChainBytes(c) <= P!MaxChain
  BY <1>1, <1>8 DEF P!ChainBytes
<1>12. P!EncodeChain(c) = {x}
  BY <1>1, <1>7, <1>9, <1>10, <1>11 DEF P!EncodeChain
<1> QED BY <1>2, <1>12, FieldForms

\* Hdb1CoreIssuedPayload.
LEMMA CoreIssuedCanonical ==
    ASSUME NEW p, Struct("core_issued", p), NEW f \in P!DecodeCoreIssued(p)
    PROVE  P!NewCoreIssued(f) = {p} /\ "app_csr" \notin DOMAIN f
<1>1. PICK i \in P!Base64Exact(p.approval_id, P!Id), d \in P!HexExact(p.core_identity, P!Digest),
           c \in P!DecodeChain(p.certificate_chain), e \in P!NonZero(p.not_after_epoch_seconds) :
        /\ f = [approval_id |-> i, core_identity |-> d, certificate_chain |-> c,
                not_after_epoch_seconds |-> e]
        /\ p.state = {"bootstrap_pending"}
  BY DEF P!DecodeCoreIssued
<1>2. /\ DOMAIN p = {"approval_id", "core_identity", "certificate_chain",
                     "not_after_epoch_seconds", "state"}
      /\ IsStruct(p) /\ \A name \in DOMAIN p : P!Optional(name, p[name])
  BY FieldsAre DEF Struct
<1>3. P!EncodedField("approval_id", i) = p.approval_id /\ i.v # 0
  BY <1>2, FieldDecoded DEF P!Base64Fields
<1>4. P!EncodedField("core_identity", d) = p.core_identity /\ d.v # 0
  BY <1>2, FieldDecoded DEF P!HexFields
<1>5. /\ P!EncodedField("certificate_chain", c) = p.certificate_chain
      /\ P!EncodeChain(c) # {}
  BY <1>2, ChainCanonical
<1>6. P!EncodedField("not_after_epoch_seconds", e) = p.not_after_epoch_seconds /\ e # 0
  BY <1>2, FieldDecoded DEF NumberFields
<1>7. /\ f.approval_id = i /\ f.core_identity = d /\ f.certificate_chain = c
      /\ f.not_after_epoch_seconds = e
      /\ DOMAIN f = {"approval_id", "core_identity", "certificate_chain", "not_after_epoch_seconds"}
  BY <1>1
<1> DEFINE g == [state |-> {"bootstrap_pending"}]
<1>8. P!With(P!Encoded(f), g) = p
  <2>1. \A name \in DOMAIN f : P!EncodedField(name, f[name]) = p[name]
    BY <1>3, <1>4, <1>5, <1>6, <1>7
  <2>2. /\ DOMAIN f \cup DOMAIN g = DOMAIN p
        /\ \A name \in DOMAIN p : name \notin DOMAIN f => g[name] = p[name]
    BY <1>1, <1>2, <1>7
  <2> QED BY <1>2, <2>1, <2>2, WithIs
<1>9. P!NewCoreIssued(f) = {P!With(P!Encoded(f), g)}
  BY <1>3, <1>4, <1>5, <1>6, <1>7 DEF P!NewCoreIssued, P!Given
<1> QED BY <1>7, <1>8, <1>9

-----------------------------------------------------------------------------
(* Results, whose status decides which fields they have *)

\* The value of a field of a result that is not null.
LEMMA FieldValueIs ==
    ASSUME NEW name, NEW o, P!Optional(name, o), o # {},
           name \in P!Base64Fields => P!Base64Exact(o, P!Id) # {},
           name \in P!HexFields => P!HexExact(o, P!Digest) # {},
           name = "certificate_chain" => P!DecodeChain(o) # {},
           name \notin P!Base64Fields \cup P!HexFields \cup {"certificate_chain"} =>
             \A x : P!EncodedField(name, x) = {x}
    PROVE  P!EncodedField(name, P!FieldValue(name, o)) = o
<1>1. CASE name \in P!Base64Fields
  <2>1. P!FieldValue(name, o) \in P!Base64Exact(o, P!Id)
    BY <1>1 DEF P!FieldValue
  <2> QED BY <1>1, <2>1, FieldDecoded
<1>2. CASE name \in P!HexFields
  <2>1. name \notin P!Base64Fields
    BY <1>2 DEF P!Base64Fields, P!HexFields
  <2>2. P!FieldValue(name, o) \in P!HexExact(o, P!Digest)
    BY <1>2, <2>1 DEF P!FieldValue
  <2> QED BY <1>2, <2>2, FieldDecoded
<1>3. CASE name = "certificate_chain"
  <2>1. name \notin P!Base64Fields /\ name \notin P!HexFields
    BY <1>3 DEF P!Base64Fields, P!HexFields
  <2>2. P!FieldValue(name, o) \in P!DecodeChain(o)
    BY <1>3, <2>1 DEF P!FieldValue
  <2> QED BY <1>3, <2>2, ChainCanonical
<1>4. CASE name \notin P!Base64Fields \cup P!HexFields \cup {"certificate_chain"}
  <2>1. P!FieldValue(name, o) \in o
    BY <1>4 DEF P!FieldValue
  <2>2. o = {P!FieldValue(name, o)}
    BY <2>1, ValueIs
  <2> QED BY <1>4, <2>2
<1> QED BY <1>1, <1>2, <1>3, <1>4

\* The fields of a result: those that are not null encode their values, the others are null.
LEMMA PresentIs ==
    ASSUME NEW p, IsStruct(p), NEW opt, DOMAIN p = {"approval_id", "status"} \cup opt,
           p.approval_id # {}, p.status # {},
           \A name \in DOMAIN p :
             p[name] # {} => P!EncodedField(name, P!FieldValue(name, p[name])) = p[name]
    PROVE  /\ DOMAIN P!Present(p) = {n \in DOMAIN p : p[n] # {}}
           /\ \A n \in DOMAIN p : p[n] # {} => P!Present(p)[n] = P!FieldValue(n, p[n])
           /\ P!With(P!Encoded(P!Present(p)), P!Nulls(opt)) = p
<1> DEFINE f == P!Present(p)
<1>1. /\ DOMAIN f = {n \in DOMAIN p : p[n] # {}}
      /\ \A n \in DOMAIN p : p[n] # {} => f[n] = P!FieldValue(n, p[n])
  BY DEF P!Present
<1> DEFINE g == P!Nulls(opt)
<1>2. DOMAIN g = opt /\ \A n \in opt : g[n] = {}
  BY DEF P!Nulls
<1> HIDE DEF f, g
<1>3. "approval_id" \in DOMAIN f /\ "status" \in DOMAIN f
  BY <1>1
<1>4. DOMAIN f \cup DOMAIN g = DOMAIN p
  BY <1>1, <1>2, <1>3
<1>5. \A name \in DOMAIN f : P!EncodedField(name, f[name]) = p[name]
  BY <1>1
<1>6. \A name \in DOMAIN p : name \notin DOMAIN f => g[name] = p[name]
  BY <1>1, <1>2, <1>3
<1>7. P!With(P!Encoded(f), g) = p
  BY <1>4, <1>5, <1>6, WithIs
<1> QED BY <1>1, <1>7 DEF f, g

\* The approval and the status of a result.
LEMMA ResultHead ==
    ASSUME NEW o, P!Base64Exact(o, P!Id) # {}, NEW st
    PROVE  /\ o # {} /\ P!FieldValue("approval_id", o).v # 0
           /\ P!FieldValue("status", {st}) = st
<1>1. "approval_id" \in P!Base64Fields /\ "status" \notin P!Base64Fields /\ "status" \notin P!HexFields
  BY DEF P!Base64Fields, P!HexFields
<1>2. P!FieldValue("approval_id", o) \in P!Base64Exact(o, P!Id)
  BY <1>1 DEF P!FieldValue
<1>3. P!FieldValue("status", {st}) \in {st}
  BY <1>1 DEF P!FieldValue
<1>4. o # {}
  BY DEF P!Base64Exact, P!Bytes
<1> QED BY <1>2, <1>3, <1>4, TextDecoded

\* A field that was checked is not null, and so is its value.
LEMMA Checked ==
    ASSUME NEW name, NEW o, P!Optional(name, o)
    PROVE  /\ name \in P!HexFields /\ P!HexExact(o, P!Digest) # {} =>
                o # {} /\ P!FieldValue(name, o).v # 0
           /\ name \in NumberFields /\ P!NonZero(o) # {} => o # {} /\ P!FieldValue(name, o) # 0
           /\ name = "certificate_chain" /\ P!DecodeChain(o) # {} =>
                o # {} /\ P!EncodeChain(P!FieldValue(name, o)) # {}
<1>1. ASSUME name \in P!HexFields, P!HexExact(o, P!Digest) # {}
      PROVE  o # {} /\ P!FieldValue(name, o).v # 0
  <2>1. name \notin P!Base64Fields
    BY <1>1 DEF P!Base64Fields, P!HexFields
  <2>2. P!FieldValue(name, o) \in P!HexExact(o, P!Digest)
    BY <1>1, <2>1 DEF P!FieldValue
  <2>3. o # {}
    BY <1>1 DEF P!HexExact, P!Bytes
  <2> QED BY <2>2, <2>3, TextDecoded
<1>2. ASSUME name \in NumberFields, P!NonZero(o) # {}
      PROVE  o # {} /\ P!FieldValue(name, o) # 0
  <2>1. name \notin P!Base64Fields /\ name \notin P!HexFields /\ name # "certificate_chain"
    BY <1>2 DEF P!Base64Fields, P!HexFields, NumberFields
  <2>2. PICK x \in P!NonZero(o) : o = {x} /\ x # 0
    BY <1>2, ValueIs
  <2>3. P!FieldValue(name, o) \in o
    BY <2>1, <2>2 DEF P!FieldValue
  <2> QED BY <2>2, <2>3
<1>3. ASSUME name = "certificate_chain", P!DecodeChain(o) # {}
      PROVE  o # {} /\ P!EncodeChain(P!FieldValue(name, o)) # {}
  <2>1. name \notin P!Base64Fields /\ name \notin P!HexFields
    BY <1>3 DEF P!Base64Fields, P!HexFields
  <2>2. P!FieldValue(name, o) \in P!DecodeChain(o)
    BY <1>3, <2>1 DEF P!FieldValue
  <2> QED BY <1>3, <2>2, ChainCanonical
<1> QED BY <1>1, <1>2, <1>3

\* A field of a result that is not null is the encoding of its value.
LEMMA ResultField ==
    ASSUME NEW name, NEW o, P!Optional(name, o), o # {},
           name \in {"approval_id", "certificate_chain", "status"} \cup P!HexFields \cup NumberFields,
           name = "approval_id" => P!Base64Exact(o, P!Id) # {},
           name \in P!HexFields => P!HexExact(o, P!Digest) # {},
           name = "certificate_chain" => P!DecodeChain(o) # {}
    PROVE  P!EncodedField(name, P!FieldValue(name, o)) = o
<1>1. name \in P!Base64Fields => name = "approval_id"
  BY DEF P!Base64Fields, P!HexFields, NumberFields
<1>2. name \in {"status"} \cup NumberFields => \A x : P!EncodedField(name, x) = {x}
  BY FieldForms DEF NumberFields
<1>3. "approval_id" \in P!Base64Fields
  BY DEF P!Base64Fields
<1> QED BY <1>1, <1>2, <1>3, FieldValueIs

\* Hdb1ResultPayload.
LEMMA ResultCanonical ==
    ASSUME NEW p, Struct("result", p), NEW f \in P!DecodeResult(p)
    PROVE  /\ P!NewResult(f) = {p} /\ "app_csr" \notin DOMAIN f
           /\ (f.status \in {"issued", "active"}) = ("certificate_chain" \in DOMAIN f)
           /\ (f.status = "rejected") = ("rejection_code" \in DOMAIN f)
<1>1. P!ResultValid(p) /\ f = P!Present(p)
  BY DEF P!DecodeResult
<1>2. /\ DOMAIN p = {"approval_id", "status"} \cup P!ResultFields
      /\ IsStruct(p) /\ \A name \in DOMAIN p : P!Optional(name, p[name])
  BY FieldsAre DEF Struct
<1>3. P!ResultFields = {"core_identity", "certificate_chain", "not_after_epoch_seconds", "rejection_code"}
  BY DEF P!ResultFields
<1>4. PICK st : p.status = {st}
  BY <1>1 DEF P!ResultValid
<1>5. P!Base64Exact(p.approval_id, P!Id) # {}
  BY <1>1 DEF P!ResultValid
<1>6. p.approval_id # {} /\ P!FieldValue("approval_id", p.approval_id).v # 0
      /\ P!FieldValue("status", p.status) = st
  BY <1>4, <1>5, ResultHead
<1>7. /\ p.core_identity # {} => P!HexExact(p.core_identity, P!Digest) # {}
      /\ p.certificate_chain # {} => P!DecodeChain(p.certificate_chain) # {}
  BY <1>1, <1>3 DEF P!ResultValid
<1>8. \A name \in DOMAIN p :
        p[name] # {} => P!EncodedField(name, P!FieldValue(name, p[name])) = p[name]
  <2>1. \A name \in DOMAIN p : name \in {"approval_id", "core_identity", "certificate_chain", "status"} \cup NumberFields
    BY <1>2, <1>3 DEF NumberFields
  <2>2. P!HexFields \cap DOMAIN p \subseteq {"core_identity"} /\ "core_identity" \in P!HexFields
    BY <1>2, <1>3 DEF P!HexFields
  <2> QED BY <1>2, <1>5, <1>7, <2>1, <2>2, ResultField
<1>9. /\ DOMAIN f = {n \in DOMAIN p : p[n] # {}}
      /\ \A n \in DOMAIN p : p[n] # {} => f[n] = P!FieldValue(n, p[n])
      /\ P!With(P!Encoded(f), P!Nulls(P!ResultFields)) = p
  BY <1>1, <1>2, <1>4, <1>6, <1>8, PresentIs
<1>10. f.approval_id.v # 0 /\ f.status = st
  BY <1>2, <1>4, <1>6, <1>9
<1>11. "app_csr" \notin DOMAIN f
  BY <1>2, <1>3, <1>9
<1>12. CASE st = "pending"
  <2>1. \A name \in P!ResultFields : p[name] = {}
    BY <1>1, <1>4, <1>12 DEF P!ResultValid
  <2>2. "certificate_chain" \notin DOMAIN f /\ "rejection_code" \notin DOMAIN f
    BY <1>3, <1>9, <2>1
  <2>3. P!NewResult(f) = {P!With(P!Encoded(f), P!Nulls(P!ResultFields))}
    BY <1>10, <1>12 DEF P!NewResult, P!NewShort, P!Given
  <2> QED BY <1>9, <1>10, <1>11, <1>12, <2>2, <2>3
<1>13. CASE st = "rejected"
  <2>1. /\ P!NonZero(p.rejection_code) # {} /\ p.certificate_chain = {}
    BY <1>1, <1>3, <1>4, <1>13 DEF P!ResultValid
  <2>2. p.rejection_code # {} /\ P!FieldValue("rejection_code", p.rejection_code) # 0
    BY <1>2, <1>3, <2>1, Checked DEF NumberFields
  <2>3. "certificate_chain" \notin DOMAIN f /\ "rejection_code" \in DOMAIN f /\ f.rejection_code # 0
    BY <1>2, <1>3, <1>9, <2>1, <2>2
  <2>4. P!NewResult(f) = {P!With(P!Encoded(f), P!Nulls(P!ResultFields))}
    BY <1>10, <1>13, <2>3 DEF P!NewResult, P!NewShort, P!Given
  <2> QED BY <1>9, <1>10, <1>11, <1>13, <2>3, <2>4
<1>14. CASE st = "issued"
  <2>1. /\ P!HexExact(p.core_identity, P!Digest) # {} /\ P!DecodeChain(p.certificate_chain) # {}
        /\ P!NonZero(p.not_after_epoch_seconds) # {} /\ p.rejection_code = {}
    BY <1>1, <1>4, <1>14 DEF P!ResultValid
  <2>2. p.core_identity # {} /\ P!FieldValue("core_identity", p.core_identity).v # 0
    BY <1>2, <1>3, <2>1, Checked DEF P!HexFields
  <2>3. p.not_after_epoch_seconds # {} /\ P!FieldValue("not_after_epoch_seconds", p.not_after_epoch_seconds) # 0
    BY <1>2, <1>3, <2>1, Checked DEF NumberFields
  <2>4. /\ p.certificate_chain # {}
        /\ P!EncodeChain(P!FieldValue("certificate_chain", p.certificate_chain)) # {}
    BY <1>2, <1>3, <2>1, Checked
  <2>5. /\ "certificate_chain" \in DOMAIN f /\ "rejection_code" \notin DOMAIN f
        /\ f.core_identity.v # 0 /\ f.not_after_epoch_seconds # 0
        /\ P!EncodeChain(f.certificate_chain) # {}
    BY <1>2, <1>3, <1>9, <2>1, <2>2, <2>3, <2>4
  <2>6. P!NewResult(f) = {P!With(P!Encoded(f), P!Nulls(P!ResultFields))}
    BY <1>10, <1>14, <2>5 DEF P!NewResult, P!Given
  <2> QED BY <1>9, <1>10, <1>11, <1>14, <2>5, <2>6
<1>15. st \in {"pending", "issued", "rejected"}
  BY <1>1, <1>4 DEF P!ResultValid
<1> QED BY <1>12, <1>13, <1>14, <1>15

\* Hde3ResultPayload.
LEMMA Result3Canonical ==
    ASSUME NEW p, Struct("result3", p), NEW f \in P!DecodeResult3(p)
    PROVE  /\ P!NewResult3(f) = {p} /\ "app_csr" \notin DOMAIN f
           /\ (f.status \in {"issued", "active"}) = ("certificate_chain" \in DOMAIN f)
           /\ (f.status = "rejected") = ("rejection_code" \in DOMAIN f)
<1>1. P!Result3Valid(p) /\ f = P!Present(p)
  BY DEF P!DecodeResult3
<1>2. /\ DOMAIN p = {"approval_id", "status"} \cup P!Result3Fields
      /\ IsStruct(p) /\ \A name \in DOMAIN p : P!Optional(name, p[name])
  BY FieldsAre DEF Struct
<1>3. P!Result3Fields = {"app_identity", "certificate_chain", "certificate_fingerprint",
                         "certificate_chain_digest", "not_after_epoch_seconds",
                         "configuration_generation", "rejection_code"}
  BY DEF P!Result3Fields
<1>4. PICK st : p.status = {st}
  BY <1>1 DEF P!Result3Valid
<1>5. P!Base64Exact(p.approval_id, P!Id) # {}
  BY <1>1 DEF P!Result3Valid
<1>6. p.approval_id # {} /\ P!FieldValue("approval_id", p.approval_id).v # 0
      /\ P!FieldValue("status", p.status) = st
  BY <1>4, <1>5, ResultHead
<1>7. /\ \A name \in {"app_identity", "certificate_fingerprint", "certificate_chain_digest"} :
           p[name] # {} => P!HexExact(p[name], P!Digest) # {}
      /\ p.certificate_chain # {} => P!DecodeChain(p.certificate_chain) # {}
  BY <1>1, <1>3 DEF P!Result3Valid
<1>8. \A name \in DOMAIN p :
        p[name] # {} => P!EncodedField(name, P!FieldValue(name, p[name])) = p[name]
  <2>1. \A name \in DOMAIN p :
          name \in {"approval_id", "app_identity", "certificate_fingerprint", "certificate_chain_digest",
                   "certificate_chain", "status"} \cup NumberFields
    BY <1>2, <1>3 DEF NumberFields
  <2>2. P!HexFields \cap DOMAIN p \subseteq {"app_identity", "certificate_fingerprint", "certificate_chain_digest"}
        /\ {"app_identity", "certificate_fingerprint", "certificate_chain_digest"} \subseteq P!HexFields
    BY <1>2, <1>3 DEF P!HexFields
  <2> QED BY <1>2, <1>5, <1>7, <2>1, <2>2, ResultField
<1>9. /\ DOMAIN f = {n \in DOMAIN p : p[n] # {}}
      /\ \A n \in DOMAIN p : p[n] # {} => f[n] = P!FieldValue(n, p[n])
      /\ P!With(P!Encoded(f), P!Nulls(P!Result3Fields)) = p
  BY <1>1, <1>2, <1>4, <1>6, <1>8, PresentIs
<1>10. f.approval_id.v # 0 /\ f.status = st
  BY <1>2, <1>4, <1>6, <1>9
<1>11. "app_csr" \notin DOMAIN f
  BY <1>2, <1>3, <1>9
<1>12. CASE st = "pending"
  <2>1. \A name \in P!Result3Fields : p[name] = {}
    BY <1>1, <1>4, <1>12 DEF P!Result3Valid
  <2>2. "certificate_chain" \notin DOMAIN f /\ "rejection_code" \notin DOMAIN f
    BY <1>3, <1>9, <2>1
  <2>3. P!NewResult3(f) = {P!With(P!Encoded(f), P!Nulls(P!Result3Fields))}
    BY <1>10, <1>12 DEF P!NewResult3, P!NewShort, P!Given
  <2> QED BY <1>9, <1>10, <1>11, <1>12, <2>2, <2>3
<1>13. CASE st = "rejected"
  <2>1. /\ P!NonZero(p.rejection_code) # {} /\ p.certificate_chain = {}
    BY <1>1, <1>3, <1>4, <1>13 DEF P!Result3Valid
  <2>2. p.rejection_code # {} /\ P!FieldValue("rejection_code", p.rejection_code) # 0
    BY <1>2, <1>3, <2>1, Checked DEF NumberFields
  <2>3. "certificate_chain" \notin DOMAIN f /\ "rejection_code" \in DOMAIN f /\ f.rejection_code # 0
    BY <1>2, <1>3, <1>9, <2>1, <2>2
  <2>4. P!NewResult3(f) = {P!With(P!Encoded(f), P!Nulls(P!Result3Fields))}
    BY <1>10, <1>13, <2>3 DEF P!NewResult3, P!NewShort, P!Given
  <2> QED BY <1>9, <1>10, <1>11, <1>13, <2>3, <2>4
<1>14. CASE st \in {"issued", "active"}
  <2>1. /\ \A name \in {"app_identity", "certificate_fingerprint", "certificate_chain_digest"} :
             P!HexExact(p[name], P!Digest) # {}
        /\ P!DecodeChain(p.certificate_chain) # {} /\ P!NonZero(p.not_after_epoch_seconds) # {}
        /\ P!NonZero(p.configuration_generation) # {} /\ p.rejection_code = {}
    BY <1>1, <1>4, <1>14 DEF P!Result3Valid
  <2>2. /\ p.app_identity # {} /\ P!FieldValue("app_identity", p.app_identity).v # 0
        /\ p.certificate_fingerprint # {}
        /\ P!FieldValue("certificate_fingerprint", p.certificate_fingerprint).v # 0
        /\ p.certificate_chain_digest # {}
        /\ P!FieldValue("certificate_chain_digest", p.certificate_chain_digest).v # 0
    <3>1. \A name \in {"app_identity", "certificate_fingerprint", "certificate_chain_digest"} :
            name \in P!HexFields /\ name \in DOMAIN p
      BY <1>2, <1>3 DEF P!HexFields
    <3>2. \A name \in {"app_identity", "certificate_fingerprint", "certificate_chain_digest"} :
            p[name] # {} /\ P!FieldValue(name, p[name]).v # 0
      BY <1>2, <2>1, <3>1, Checked
    <3> QED BY <3>2
  <2>3. /\ p.not_after_epoch_seconds # {}
        /\ P!FieldValue("not_after_epoch_seconds", p.not_after_epoch_seconds) # 0
    BY <1>2, <1>3, <2>1, Checked DEF NumberFields
  <2>4. /\ p.configuration_generation # {}
        /\ P!FieldValue("configuration_generation", p.configuration_generation) # 0
    BY <1>2, <1>3, <2>1, Checked DEF NumberFields
  <2>5. /\ p.certificate_chain # {}
        /\ P!EncodeChain(P!FieldValue("certificate_chain", p.certificate_chain)) # {}
    BY <1>2, <1>3, <2>1, Checked
  <2>6. /\ "certificate_chain" \in DOMAIN f /\ "rejection_code" \notin DOMAIN f
        /\ f.app_identity.v # 0 /\ f.certificate_fingerprint.v # 0
        /\ f.certificate_chain_digest.v # 0
    BY <1>2, <1>3, <1>9, <2>1, <2>2, <2>5
  <2>7. /\ f.not_after_epoch_seconds # 0 /\ f.configuration_generation # 0
        /\ P!EncodeChain(f.certificate_chain) # {}
    BY <1>2, <1>3, <1>9, <2>3, <2>4, <2>5
  <2>8. P!NewResult3(f) = {P!With(P!Encoded(f), P!Nulls(P!Result3Fields))}
    BY <1>10, <1>14, <2>6, <2>7 DEF P!NewResult3, P!Issuable, P!Given
  <2> QED BY <1>9, <1>10, <1>11, <1>14, <2>6, <2>8
<1>15. st \in {"pending", "issued", "active", "rejected"}
  BY <1>1, <1>4 DEF P!Result3Valid
<1> QED BY <1>12, <1>13, <1>14, <1>15

-----------------------------------------------------------------------------
(* The payloads on the way *)

\* Every decoder of the contracts is canonical, binds the request to its digest, and
\* lets the status of a result decide which fields it has.
LEMMA PayloadDecoded ==
    ASSUME NEW t \in DOMAIN P!Fields, NEW p, Struct(t, p), NEW f \in P!Decode(t, p)
    PROVE  /\ P!New(t, f) = {p}
           /\ "app_csr" \in DOMAIN f => f.app_csr_digest = P!Sha256(f.app_csr)
           /\ t \in {"result", "result3"} =>
                /\ (f.status \in {"issued", "active"}) = ("certificate_chain" \in DOMAIN f)
                /\ (f.status = "rejected") = ("rejection_code" \in DOMAIN f)
<1>1. CASE t = "start"
  <2>1. P!Decode(t, p) = P!DecodeStart(p) /\ P!New(t, f) = P!NewStart(f)
    BY <1>1 DEF P!Decode, P!New, P!CoreBuilt
  <2> QED BY <1>1, <2>1, StartCanonical
<1>2. CASE t = "challenge"
  <2>1. P!Decode(t, p) = P!DecodeChallenge(p) /\ P!New(t, f) = P!NewChallenge(f)
    BY <1>2 DEF P!Decode, P!New, P!CoreBuilt
  <2> QED BY <1>2, <2>1, ChallengeCanonical
<1>3. CASE t = "submit"
  <2>1. P!Decode(t, p) = P!DecodeSubmit(p) /\ P!New(t, f) = P!NewSubmit(f)
    BY <1>3 DEF P!Decode, P!New, P!CoreBuilt
  <2> QED BY <1>3, <2>1, SubmitCanonical
<1>4. CASE t = "core_issued"
  <2>1. P!Decode(t, p) = P!DecodeCoreIssued(p) /\ P!New(t, f) = P!NewCoreIssued(f)
    BY <1>4 DEF P!Decode, P!New, P!CoreBuilt
  <2> QED BY <1>4, <2>1, CoreIssuedCanonical
<1>5. CASE t = "reconcile"
  <2>1. P!Decode(t, p) = P!DecodeReconcile(p) /\ P!New(t, f) = P!NewReconcile(f)
    BY <1>5 DEF P!Decode, P!New, P!CoreBuilt
  <2> QED BY <1>5, <2>1, ReconcileCanonical
<1>6. CASE t = "result"
  <2>1. P!Decode(t, p) = P!DecodeResult(p) /\ P!New(t, f) = P!NewResult(f)
    BY <1>6 DEF P!Decode, P!New, P!CoreBuilt
  <2> QED BY <1>6, <2>1, ResultCanonical
<1>7. CASE t = "rejected"
  <2>1. P!Decode(t, p) = P!DecodeRejected(p) /\ P!New(t, f) = P!NewRejected(f)
    BY <1>7 DEF P!Decode, P!New, P!CoreBuilt
  <2> QED BY <1>7, <2>1, RejectedCanonical
<1>8. CASE t = "first_app_submit"
  <2>1. P!Decode(t, p) = P!DecodeFirstAppSubmit(p) /\ P!New(t, f) = {P!Encoded(f)}
    BY <1>8 DEF P!Decode, P!New, P!CoreBuilt
  <2> QED BY <1>8, <2>1, FirstAppSubmitCanonical
<1>9. CASE t = "approval_start"
  <2>1. P!Decode(t, p) = P!DecodeApprovalStart(p) /\ P!New(t, f) = {P!Encoded(f)}
    BY <1>9 DEF P!Decode, P!New, P!CoreBuilt
  <2> QED BY <1>9, <2>1, ApprovalStartCanonical
<1>10. CASE t = "approval_challenge"
  <2>1. P!Decode(t, p) = P!DecodeApprovalChallenge(p) /\ P!New(t, f) = P!NewApprovalChallenge(f)
    BY <1>10 DEF P!Decode, P!New, P!CoreBuilt
  <2> QED BY <1>10, <2>1, ApprovalChallengeCanonical
<1>11. CASE t = "approval_submit"
  <2>1. P!Decode(t, p) = P!DecodeApprovalSubmit(p) /\ P!New(t, f) = {P!Encoded(f)}
    BY <1>11 DEF P!Decode, P!New, P!CoreBuilt
  <2> QED BY <1>11, <2>1, ApprovalSubmitCanonical
<1>12. CASE t = "confirm_persisted"
  <2>1. P!Decode(t, p) = P!DecodeConfirmPersisted(p) /\ P!New(t, f) = {P!Encoded(f)}
    BY <1>12 DEF P!Decode, P!New, P!CoreBuilt
  <2> QED BY <1>12, <2>1, ConfirmPersistedCanonical
<1>13. CASE t = "reconcile3"
  <2>1. P!Decode(t, p) = P!DecodeReconcile3(p) /\ P!New(t, f) = {P!Encoded(f)}
    BY <1>13 DEF P!Decode, P!New, P!CoreBuilt
  <2> QED BY <1>13, <2>1, Reconcile3Canonical
<1>14. CASE t = "renew"
  <2>1. P!Decode(t, p) = P!DecodeRenew(p) /\ P!New(t, f) = {P!Encoded(f)}
    BY <1>14 DEF P!Decode, P!New, P!CoreBuilt
  <2> QED BY <1>14, <2>1, RenewCanonical
<1>15. CASE t = "result3"
  <2>1. P!Decode(t, p) = P!DecodeResult3(p) /\ P!New(t, f) = P!NewResult3(f)
    BY <1>15 DEF P!Decode, P!New, P!CoreBuilt
  <2> QED BY <1>15, <2>1, Result3Canonical
<1> QED BY <1>1, <1>2, <1>3, <1>4, <1>5, <1>6, <1>7, <1>8,
           <1>9, <1>10, <1>11, <1>12, <1>13, <1>14, <1>15, FieldsAre

\* The types of the arguments.
LEMMA ArgumentIs ==
    /\ P!Argument("request_id") = [n : {P!RequestId}, v : Nat]
    /\ P!Argument("core_csr") = [n : Nat, v : Nat]
    /\ \A name \in {"bootstrap_id", "approval_id", "challenge"} \cup P!HexFields :
         P!Argument(name) = [n : {P!Digest}, v : Nat]
    /\ P!Argument("certificate_chain") = Seq([n : Nat, v : Nat])
    /\ P!Argument("status") = {"pending", "issued", "active", "rejected"}
    /\ P!Digest = P!Id
BY DEF P!Argument, P!Base64Fields, P!HexFields, P!Digest, P!Id

\* The fields a result is built from.
LEMMA ReportedIs ==
    ASSUME NEW t \in {"result", "result3"}, NEW f, P!Arguments(t, f)
    PROVE  /\ f.status \in {"pending", "issued", "active", "rejected"}
           /\ f.status = "pending" => DOMAIN f = {"approval_id", "status"}
           /\ f.status = "rejected" => DOMAIN f = {"approval_id", "status", "rejection_code"}
           /\ t = "result" /\ f.status \notin {"pending", "rejected"} =>
                /\ f.status = "issued"
                /\ DOMAIN f = {"approval_id", "status", "core_identity", "certificate_chain",
                               "not_after_epoch_seconds"}
           /\ t = "result3" /\ f.status \notin {"pending", "rejected"} =>
                DOMAIN f = {"approval_id", "status", "app_identity", "certificate_chain",
                            "certificate_fingerprint", "certificate_chain_digest",
                            "not_after_epoch_seconds", "configuration_generation"}
<1>1. /\ "status" \in DOMAIN f /\ DOMAIN f = {"approval_id", "status"} \cup P!Reported(t, f.status)
      /\ t = "result" => f.status # "active"
      /\ f.status \in P!Argument("status")
  BY DEF P!Arguments
<1>2. f.status \in {"pending", "issued", "active", "rejected"}
  BY <1>1, ArgumentIs
<1> QED BY <1>1, <1>2 DEF P!Reported, P!ResultFields, P!Result3Fields

\* The fields a constructor encodes hold one value or null.
LEMMA EncodedFieldIs ==
    ASSUME NEW name, NEW x, name = "certificate_chain" => x \in Seq([n : Nat, v : Nat])
    PROVE  P!Optional(name, P!EncodedField(name, x))
<1>1. CASE name = "certificate_chain"
  <2>1. P!EncodedField(name, x) = P!EncodeChain(x)
    BY <1>1, FieldForms
  <2> DEFINE y == [i \in DOMAIN x |-> CHOOSE t \in P!Base64(x[i]) : TRUE]
  <2>2. P!EncodeChain(x) \in {{}, {y}}
    BY DEF P!EncodeChain
  <2>3. y \in Seq([n : Nat, v : Nat, form : P!Forms])
    <3>1. DOMAIN x = 1 .. Len(x) /\ Len(x) \in Nat /\ \A i \in 1 .. Len(x) : x[i] \in [n : Nat, v : Nat]
      BY <1>1, LenProperties, ElementOfSeq
    <3>2. \A i \in DOMAIN x : (CHOOSE t \in P!Base64(x[i]) : TRUE) = [n |-> x[i].n, v |-> x[i].v, form |-> "base64"]
      BY DEF P!Base64, P!Text
    <3>3. \A i \in DOMAIN x : x[i].n \in Nat /\ x[i].v \in Nat
      BY <3>1
    <3>4. ASSUME NEW i \in DOMAIN x
          PROVE  y[i] \in [n : Nat, v : Nat, form : P!Forms]
      <4>1. y[i] = [n |-> x[i].n, v |-> x[i].v, form |-> "base64"]
        BY <3>2
      <4>2. \A j \in Nat, k \in Nat : [n |-> j, v |-> k, form |-> "base64"] \in [n : Nat, v : Nat, form : P!Forms]
        BY DEF P!Forms
      <4> QED BY <3>3, <4>1, <4>2
    <3>5. y = [i \in 1 .. Len(x) |-> y[i]]
      BY <3>1
    <3> HIDE DEF y
    <3> QED BY <3>1, <3>4, <3>5, SeqDef
  <2> HIDE DEF y
  <2> QED BY <2>1, <2>2, <2>3 DEF P!Optional
<1>2. CASE name # "certificate_chain"
  <2>1. \E y : P!EncodedField(name, x) = {y}
    BY <1>2 DEF P!EncodedField, P!Base64, P!Hex, P!Text
  <2> QED BY <1>2, <2>1 DEF P!Optional
<1> QED BY <1>1, <1>2

\* What a constructor builds has the fields of its struct.
LEMMA EncodedStruct ==
    ASSUME NEW t, NEW f, P!Arguments(t, f), DOMAIN f = P!Fields[t]
    PROVE  Struct(t, P!Encoded(f))
<1>1. \A name \in DOMAIN f : P!Optional(name, P!EncodedField(name, f[name]))
  BY EncodedFieldIs, ArgumentIs DEF P!Arguments
<1> QED BY <1>1 DEF P!Encoded, Struct, IsStruct

\* Also with further fields.
LEMMA WithStruct ==
    ASSUME NEW t, NEW f, NEW g, P!Arguments(t, f), DOMAIN f \cup DOMAIN g = P!Fields[t],
           \A name \in DOMAIN g : P!Optional(name, g[name])
    PROVE  Struct(t, P!With(P!Encoded(f), g))
<1>1. \A name \in DOMAIN f : P!Optional(name, P!EncodedField(name, f[name]))
  BY EncodedFieldIs, ArgumentIs DEF P!Arguments
<1>2. DOMAIN P!Encoded(f) = DOMAIN f /\ \A name \in DOMAIN f : P!Optional(name, P!Encoded(f)[name])
  BY <1>1 DEF P!Encoded
<1> DEFINE e == P!Encoded(f)
<1>3. DOMAIN e = DOMAIN f /\ \A name \in DOMAIN f : P!Optional(name, e[name])
  BY <1>2
<1> HIDE DEF e
<1>4. Struct(t, P!With(e, g))
  BY <1>3 DEF P!With, Struct, IsStruct
<1> QED BY <1>4 DEF e

\* What any constructor builds, if it does not refuse.
LEMMA NewIsStruct ==
    ASSUME NEW t \in DOMAIN P!Fields, NEW f, P!Arguments(t, f), NEW p \in P!New(t, f)
    PROVE  P!New(t, f) = {p} /\ Struct(t, p)
<1>1. CASE t = "start"
  <2>1. p = P!Encoded(f) /\ P!New(t, f) = {p}
    BY <1>1 DEF P!New, P!CoreBuilt, P!NewStart
  <2>2. DOMAIN f = P!Fields[t]
    BY <1>1, FieldsAre DEF P!Arguments
  <2> QED BY <2>1, <2>2, EncodedStruct
<1>2. CASE t = "submit"
  <2>1. p = P!Encoded(f) /\ P!New(t, f) = {p}
    BY <1>2 DEF P!New, P!CoreBuilt, P!NewSubmit
  <2>2. DOMAIN f = P!Fields[t]
    BY <1>2, FieldsAre DEF P!Arguments
  <2> QED BY <2>1, <2>2, EncodedStruct
<1>3. CASE t = "reconcile"
  <2>1. p = P!Encoded(f) /\ P!New(t, f) = {p}
    BY <1>3 DEF P!New, P!CoreBuilt, P!NewReconcile
  <2>2. DOMAIN f = P!Fields[t]
    BY <1>3, FieldsAre DEF P!Arguments
  <2> QED BY <2>1, <2>2, EncodedStruct
<1>4. CASE t = "rejected"
  <2>1. p = P!Encoded(f) /\ P!New(t, f) = {p}
    BY <1>4 DEF P!New, P!CoreBuilt, P!NewRejected
  <2>2. DOMAIN f = P!Fields[t]
    BY <1>4, FieldsAre DEF P!Arguments
  <2> QED BY <2>1, <2>2, EncodedStruct
<1>5. CASE t = "first_app_submit"
  <2>1. p = P!Encoded(f) /\ P!New(t, f) = {p}
    BY <1>5 DEF P!New, P!CoreBuilt
  <2>2. DOMAIN f = P!Fields[t]
    BY <1>5, FieldsAre DEF P!Arguments
  <2> QED BY <2>1, <2>2, EncodedStruct
<1>6. CASE t = "approval_start"
  <2>1. p = P!Encoded(f) /\ P!New(t, f) = {p}
    BY <1>6 DEF P!New, P!CoreBuilt
  <2>2. DOMAIN f = P!Fields[t]
    BY <1>6, FieldsAre DEF P!Arguments
  <2> QED BY <2>1, <2>2, EncodedStruct
<1>7. CASE t = "approval_challenge"
  <2>1. p = P!Encoded(f) /\ P!New(t, f) = {p}
    BY <1>7 DEF P!New, P!CoreBuilt, P!NewApprovalChallenge
  <2>2. DOMAIN f = P!Fields[t]
    BY <1>7, FieldsAre DEF P!Arguments
  <2> QED BY <2>1, <2>2, EncodedStruct
<1>8. CASE t = "approval_submit"
  <2>1. p = P!Encoded(f) /\ P!New(t, f) = {p}
    BY <1>8 DEF P!New, P!CoreBuilt
  <2>2. DOMAIN f = P!Fields[t]
    BY <1>8, FieldsAre DEF P!Arguments
  <2> QED BY <2>1, <2>2, EncodedStruct
<1>9. CASE t = "confirm_persisted"
  <2>1. p = P!Encoded(f) /\ P!New(t, f) = {p}
    BY <1>9 DEF P!New, P!CoreBuilt
  <2>2. DOMAIN f = P!Fields[t]
    BY <1>9, FieldsAre DEF P!Arguments
  <2> QED BY <2>1, <2>2, EncodedStruct
<1>10. CASE t = "reconcile3"
  <2>1. p = P!Encoded(f) /\ P!New(t, f) = {p}
    BY <1>10 DEF P!New, P!CoreBuilt
  <2>2. DOMAIN f = P!Fields[t]
    BY <1>10, FieldsAre DEF P!Arguments
  <2> QED BY <2>1, <2>2, EncodedStruct
<1>11. CASE t = "renew"
  <2>1. p = P!Encoded(f) /\ P!New(t, f) = {p}
    BY <1>11 DEF P!New, P!CoreBuilt
  <2>2. DOMAIN f = P!Fields[t]
    BY <1>11, FieldsAre DEF P!Arguments
  <2> QED BY <2>1, <2>2, EncodedStruct
<1>12. CASE t = "challenge"
  <2> DEFINE g == [status |-> {"awaiting_code"}]
  <2>1. p = P!With(P!Encoded(f), g) /\ P!New(t, f) = {p}
    BY <1>12 DEF P!New, P!CoreBuilt, P!NewChallenge
  <2>2. DOMAIN f \cup DOMAIN g = P!Fields[t]
    BY <1>12, FieldsAre DEF P!Arguments
  <2>3. \A name \in DOMAIN g : P!Optional(name, g[name])
    BY DEF P!Optional
  <2> QED BY <2>1, <2>2, <2>3, WithStruct
<1>13. CASE t = "core_issued"
  <2> DEFINE g == [state |-> {"bootstrap_pending"}]
  <2>1. p = P!With(P!Encoded(f), g) /\ P!New(t, f) = {p}
    BY <1>13 DEF P!New, P!CoreBuilt, P!NewCoreIssued
  <2>2. DOMAIN f \cup DOMAIN g = P!Fields[t]
    BY <1>13, FieldsAre DEF P!Arguments
  <2>3. \A name \in DOMAIN g : P!Optional(name, g[name])
    BY DEF P!Optional
  <2> QED BY <2>1, <2>2, <2>3, WithStruct
<1>14. CASE t = "result"
  <2> DEFINE g == P!Nulls(P!ResultFields)
  <2>1. p = P!With(P!Encoded(f), g) /\ P!New(t, f) = {p}
    BY <1>14 DEF P!New, P!CoreBuilt, P!NewResult, P!NewShort
  <2>2. DOMAIN g = P!ResultFields /\ \A name \in DOMAIN g : P!Optional(name, g[name])
    BY DEF P!Nulls, P!Optional
  <2>3. DOMAIN f \cup DOMAIN g = P!Fields[t]
    BY <1>14, <2>2, FieldsAre, ReportedIs DEF P!ResultFields
  <2> QED BY <2>1, <2>2, <2>3, WithStruct
<1>15. CASE t = "result3"
  <2> DEFINE g == P!Nulls(P!Result3Fields)
  <2>1. p = P!With(P!Encoded(f), g) /\ P!New(t, f) = {p}
    BY <1>15 DEF P!New, P!CoreBuilt, P!NewResult3, P!NewShort
  <2>2. DOMAIN g = P!Result3Fields /\ \A name \in DOMAIN g : P!Optional(name, g[name])
    BY DEF P!Nulls, P!Optional
  <2>3. DOMAIN f \cup DOMAIN g = P!Fields[t]
    BY <1>15, <2>2, FieldsAre, ReportedIs DEF P!Result3Fields
  <2> QED BY <2>1, <2>2, <2>3, WithStruct
<1> QED BY <1>1, <1>2, <1>3, <1>4, <1>5, <1>6, <1>7, <1>8,
           <1>9, <1>10, <1>11, <1>12, <1>13, <1>14, <1>15, FieldsAre

-----------------------------------------------------------------------------
(* Sums over the few fields of a struct and the few certificates of a chain *)

\* What holds of 0 and of each successor holds up to 9.
LEMMA UpToNine ==
    ASSUME NEW S, 0 \in S, NEW n \in 0 .. 9, \A i \in 1 .. n : i - 1 \in S => i \in S
    PROVE  \A i \in 0 .. n : i \in S
<1>1. \A i \in 1 .. n : i - 1 \in S => i \in S
  OBVIOUS
<1>2. n >= 1 => 1 \in S
  BY <1>1
<1>3. n >= 2 => 2 \in S
  BY <1>1, <1>2
<1>4. n >= 3 => 3 \in S
  BY <1>1, <1>3
<1>5. n >= 4 => 4 \in S
  BY <1>1, <1>4
<1>6. n >= 5 => 5 \in S
  BY <1>1, <1>5
<1>7. n >= 6 => 6 \in S
  BY <1>1, <1>6
<1>8. n >= 7 => 7 \in S
  BY <1>1, <1>7
<1>9. n >= 8 => 8 \in S
  BY <1>1, <1>8
<1>10. n >= 9 => 9 \in S
  BY <1>1, <1>9
<1>11. \A i \in 0 .. n : i \in {0, 1, 2, 3, 4, 5, 6, 7, 8, 9}
  OBVIOUS
<1> QED BY <1>2, <1>3, <1>4, <1>5, <1>6, <1>7, <1>8, <1>9, <1>10, <1>11

\* The numbers of a short sequence.
LEMMA ShortSeq ==
    ASSUME NEW s \in Seq(Nat), Len(s) <= 9
    PROVE  Len(s) \in 0 .. 9 /\ DOMAIN s = 1 .. Len(s) /\ \A i \in 1 .. Len(s) : s[i] \in Nat
<1>1. Len(s) \in Nat /\ DOMAIN s = 1 .. Len(s)
  BY LenProperties
<1>2. \A i \in 1 .. Len(s) : s[i] \in Nat
  BY ElementOfSeq
<1>3. \A n \in Nat : n <= 9 => n \in 0 .. 9
  OBVIOUS
<1>4. Len(s) \in 0 .. 9
  BY <1>1, <1>3
<1> QED BY <1>1, <1>2, <1>4

\* The running totals of a sum.
Totals(s, n, T) == T = [i \in 0 .. n |-> IF i = 0 THEN 0 ELSE T[i - 1] + s[i]]

\* A sum of at most nine numbers has running totals.
LEMMA SumHasTotals ==
    ASSUME NEW s \in Seq(Nat), Len(s) <= 9
    PROVE  \E T : /\ Totals(s, Len(s), T) /\ P!SumOf(s) = T[Len(s)]
                  /\ T[0] = 0 /\ \A i \in 1 .. Len(s) : T[i] = T[i - 1] + s[i]
                  /\ \A i \in 0 .. Len(s) : T[i] \in Nat
<1>1. Len(s) \in 0 .. 9 /\ \A i \in 1 .. Len(s) : s[i] \in Nat
  BY ShortSeq
<1> DEFINE S == {n \in 0 .. Len(s) : \E T : Totals(s, n, T)}
<1>2. 0 \in S
  <2> DEFINE T == [i \in 0 .. 0 |-> 0]
  <2>1. T = [i \in 0 .. 0 |-> IF i = 0 THEN 0 ELSE T[i - 1] + s[i]]
    OBVIOUS
  <2> HIDE DEF T
  <2> QED BY <1>1, <2>1 DEF Totals
<1>3. ASSUME NEW n \in 1 .. Len(s), n - 1 \in S PROVE n \in S
  <2>1. PICK T : Totals(s, n - 1, T)
    BY <1>3
  <2> DEFINE U == [i \in 0 .. n |-> IF i = n THEN T[n - 1] + s[n] ELSE T[i]]
  <2>2. n \in Nat /\ n >= 1 /\ n - 1 \in Nat /\ n \in 0 .. Len(s)
    BY <1>1
  <2>3. \A i \in 0 .. n - 1 : T[i] = IF i = 0 THEN 0 ELSE T[i - 1] + s[i]
    BY <2>1 DEF Totals
  <2>4. \A i \in 0 .. n : U[i] = IF i = n THEN T[n - 1] + s[n] ELSE T[i]
    OBVIOUS
  <2>5. \A i \in 0 .. n : U[i] = IF i = 0 THEN 0 ELSE U[i - 1] + s[i]
    <3>1. TAKE i \in 0 .. n
    <3>2. CASE i = n
      BY <2>2, <2>4, <3>2
    <3>3. CASE i # n
      <4>1. i \in 0 .. n - 1 /\ (i # 0 => i - 1 \in 0 .. n /\ i - 1 # n)
        BY <2>2, <3>3
      <4> QED BY <2>3, <2>4, <3>3, <4>1
    <3> QED BY <3>2, <3>3
  <2>6. U = [i \in 0 .. n |-> U[i]]
    OBVIOUS
  <2> HIDE DEF U
  <2>7. Totals(s, n, U)
    BY <2>5, <2>6 DEF Totals
  <2> QED BY <2>2, <2>7
<1>4. Len(s) \in S
  <2> HIDE DEF S
  <2>1. \A i \in 0 .. Len(s) : i \in S
    BY <1>1, <1>2, <1>3, UpToNine
  <2> QED BY <1>1, <2>1
<1> DEFINE T == CHOOSE T : T = [i \in 0 .. Len(s) |-> IF i = 0 THEN 0 ELSE T[i - 1] + s[i]]
<1>5. Totals(s, Len(s), T)
  BY <1>4 DEF Totals
<1>6. P!SumOf(s) = T[Len(s)]
  BY DEF P!SumOf
<1> HIDE DEF T
<1>7. T[0] = 0 /\ \A i \in 1 .. Len(s) : T[i] = T[i - 1] + s[i]
  <2>1. \A i \in 0 .. Len(s) : T[i] = IF i = 0 THEN 0 ELSE T[i - 1] + s[i]
    BY <1>5 DEF Totals
  <2> QED BY <1>1, <2>1
<1> DEFINE R == {i \in 0 .. Len(s) : T[i] \in Nat}
<1>8. \A i \in 0 .. Len(s) : i \in R
  <2>1. 0 \in R
    BY <1>1, <1>7
  <2>2. ASSUME NEW i \in 1 .. Len(s), i - 1 \in R PROVE i \in R
    <3>1. T[i - 1] \in Nat /\ s[i] \in Nat /\ T[i] = T[i - 1] + s[i]
      BY <1>1, <1>7, <2>2
    <3>2. T[i] \in Nat /\ i \in 0 .. Len(s)
      BY <1>1, <3>1
    <3> QED BY <3>2
  <2> HIDE DEF R
  <2> QED BY <1>1, <2>1, <2>2, UpToNine
<1> QED BY <1>5, <1>6, <1>7, <1>8

\* A sum is at least each of its numbers.
LEMMA SumAtLeast ==
    ASSUME NEW s \in Seq(Nat), Len(s) <= 9
    PROVE  P!SumOf(s) \in Nat /\ \A k \in 1 .. Len(s) : s[k] <= P!SumOf(s)
<1>1. Len(s) \in 0 .. 9 /\ \A i \in 1 .. Len(s) : s[i] \in Nat
  BY ShortSeq
<1>2. PICK T : /\ P!SumOf(s) = T[Len(s)] /\ \A i \in 0 .. Len(s) : T[i] \in Nat
               /\ T[0] = 0 /\ \A i \in 1 .. Len(s) : T[i] = T[i - 1] + s[i]
  BY SumHasTotals
<1>3. ASSUME NEW k \in 1 .. Len(s) PROVE s[k] <= T[Len(s)]
  <2> DEFINE R == {i \in 0 .. Len(s) : k <= i => s[k] <= T[i]}
  <2>1. 0 \in R
    BY <1>1
  <2>2. ASSUME NEW i \in 1 .. Len(s), i - 1 \in R PROVE i \in R
    <3>1. T[i] = T[i - 1] + s[i] /\ T[i - 1] \in Nat /\ s[i] \in Nat /\ s[k] \in Nat
      BY <1>1, <1>2
    <3> QED BY <1>1, <2>2, <3>1
  <2>3. \A i \in 0 .. Len(s) : i \in R
    <3> HIDE DEF R
    <3> QED BY <1>1, <2>1, <2>2, UpToNine
  <2> QED BY <1>1, <2>3
<1> QED BY <1>1, <1>2, <1>3

\* A sum of small numbers and at most one large one.
LEMMA SumAtMost ==
    ASSUME NEW s \in Seq(Nat), Len(s) <= 9, NEW m \in Nat, NEW k \in Nat,
           \A i \in 1 .. Len(s) : i # k => s[i] <= 101, k \in 1 .. Len(s) => s[k] <= m
    PROVE  P!SumOf(s) \in Nat /\ P!SumOf(s) <= 909 + m
<1>1. Len(s) \in 0 .. 9 /\ \A i \in 1 .. Len(s) : s[i] \in Nat
  BY ShortSeq
<1>2. PICK T : /\ P!SumOf(s) = T[Len(s)] /\ \A i \in 0 .. Len(s) : T[i] \in Nat
               /\ T[0] = 0 /\ \A i \in 1 .. Len(s) : T[i] = T[i - 1] + s[i]
  BY SumHasTotals
<1> DEFINE R == {i \in 0 .. Len(s) : T[i] <= 101 * i + (IF k <= i THEN m ELSE 0)}
<1>3. 0 \in R
  BY <1>1, <1>2
<1>4. ASSUME NEW i \in 1 .. Len(s), i - 1 \in R PROVE i \in R
  <2>1. /\ T[i] = T[i - 1] + s[i] /\ T[i - 1] \in Nat /\ T[i] \in Nat /\ s[i] \in Nat
        /\ i \in Nat /\ i \in 0 .. Len(s)
    BY <1>1, <1>2
  <2>2. T[i - 1] <= 101 * (i - 1) + (IF k <= i - 1 THEN m ELSE 0)
    BY <1>4
  <2>3. IF i = k THEN s[i] <= m ELSE s[i] <= 101
    BY <2>1
  <2>4. ASSUME NEW a \in Nat, NEW x \in Nat, a <= 101 * (i - 1) + (IF k <= i - 1 THEN m ELSE 0),
               IF i = k THEN x <= m ELSE x <= 101
        PROVE  a + x <= 101 * i + (IF k <= i THEN m ELSE 0)
    BY <2>1, <2>4
  <2>5. T[i] <= 101 * i + (IF k <= i THEN m ELSE 0)
    BY <2>1, <2>2, <2>3, <2>4
  <2> QED BY <2>1, <2>5
<1>5. \A i \in 0 .. Len(s) : i \in R
  <2> HIDE DEF R
  <2> QED BY <1>1, <1>3, <1>4, UpToNine
<1>6. /\ T[Len(s)] <= 101 * Len(s) + (IF k <= Len(s) THEN m ELSE 0) /\ T[Len(s)] \in Nat
      /\ Len(s) \in 0 .. 9
  BY <1>1, <1>2, <1>5
<1>7. \A n \in 0 .. 9, a \in Nat : a <= 101 * n + (IF k <= n THEN m ELSE 0) => a <= 909 + m
  OBVIOUS
<1> QED BY <1>2, <1>6, <1>7

\* A sum of numbers that are bounded by those of another sum.
LEMMA SumScaled ==
    ASSUME NEW s \in Seq(Nat), NEW u \in Seq(Nat), Len(u) = Len(s), Len(s) <= 9,
           \A i \in 1 .. Len(s) : 3 * u[i] <= 4 * s[i] + 11
    PROVE  3 * P!SumOf(u) <= 4 * P!SumOf(s) + 99
<1>1. Len(s) \in 0 .. 9 /\ \A i \in 1 .. Len(s) : s[i] \in Nat /\ u[i] \in Nat
  BY ShortSeq
<1>2. PICK T : /\ P!SumOf(s) = T[Len(s)] /\ \A i \in 0 .. Len(s) : T[i] \in Nat
               /\ T[0] = 0 /\ \A i \in 1 .. Len(s) : T[i] = T[i - 1] + s[i]
  BY SumHasTotals
<1>3. PICK U : /\ P!SumOf(u) = U[Len(s)] /\ \A i \in 0 .. Len(s) : U[i] \in Nat
               /\ U[0] = 0 /\ \A i \in 1 .. Len(s) : U[i] = U[i - 1] + u[i]
  BY SumHasTotals
<1> DEFINE R == {i \in 0 .. Len(s) : 3 * U[i] <= 4 * T[i] + 11 * i}
<1>4. 0 \in R
  BY <1>1, <1>2, <1>3
<1>5. ASSUME NEW i \in 1 .. Len(s), i - 1 \in R PROVE i \in R
  <2>1. /\ T[i] = T[i - 1] + s[i] /\ U[i] = U[i - 1] + u[i] /\ s[i] \in Nat /\ u[i] \in Nat
        /\ T[i - 1] \in Nat /\ U[i - 1] \in Nat /\ i \in Nat /\ i \in 0 .. Len(s)
    BY <1>1, <1>2, <1>3
  <2>2. 3 * U[i - 1] <= 4 * T[i - 1] + 11 * (i - 1) /\ 3 * u[i] <= 4 * s[i] + 11
    BY <1>5
  <2>3. \A a, x, c, y \in Nat : 3 * c <= 4 * a + 11 * (i - 1) /\ 3 * y <= 4 * x + 11
                                   => 3 * (c + y) <= 4 * (a + x) + 11 * i
    BY <2>1
  <2>4. 3 * U[i] <= 4 * T[i] + 11 * i
    BY <2>1, <2>2, <2>3
  <2> QED BY <2>1, <2>4
<1>6. \A i \in 0 .. Len(s) : i \in R
  <2> HIDE DEF R
  <2> QED BY <1>1, <1>4, <1>5, UpToNine
<1>7. 3 * U[Len(s)] <= 4 * T[Len(s)] + 11 * Len(s) /\ T[Len(s)] \in Nat /\ U[Len(s)] \in Nat
  BY <1>1, <1>2, <1>3, <1>6
<1> QED BY <1>1, <1>2, <1>3, <1>7

-----------------------------------------------------------------------------
(* What a constructor builds is read back as its arguments *)

\* The encoding of bytes is accepted as them.
LEMMA TextBack ==
    ASSUME NEW b, b = [n |-> b.n, v |-> b.v], NEW w
    PROVE  /\ b.n = w /\ b.v # 0 => /\ P!Base64Exact(P!Base64(b), w) = {b}
                                    /\ P!HexExact(P!Hex(b), w) = {b}
           /\ b.n \in 1 .. w => P!Base64Bounded(P!Base64(b), w) = {b}
<1>1. /\ P!Base64(b) = {[n |-> b.n, v |-> b.v, form |-> "base64"]}
      /\ P!Hex(b) = {[n |-> b.n, v |-> b.v, form |-> "hex"]}
  BY DEF P!Base64, P!Hex, P!Text
<1>2. ASSUME NEW t, t.n = b.n, t.v = b.v, NEW forms, t.form \in forms
      PROVE  P!Bytes({t}, forms) = {b}
  <2>1. {u \in {t} : u.form \in forms} = {t}
    BY <1>2
  <2>2. P!Bytes({t}, forms) = {[n |-> u.n, v |-> u.v] : u \in {t}}
    BY <2>1 DEF P!Bytes
  <2>3. [n |-> t.n, v |-> t.v] = b
    BY <1>2
  <2> QED BY <2>2, <2>3
<1>3. /\ P!Bytes(P!Base64(b), {"base64", "base64_loose"}) = {b}
      /\ P!Bytes(P!Hex(b), {"hex", "hex_upper"}) = {b}
  <2> DEFINE t == [n |-> b.n, v |-> b.v, form |-> "base64"]
             u == [n |-> b.n, v |-> b.v, form |-> "hex"]
  <2>1. /\ t.n = b.n /\ t.v = b.v /\ t.form \in {"base64", "base64_loose"}
        /\ u.n = b.n /\ u.v = b.v /\ u.form \in {"hex", "hex_upper"}
    OBVIOUS
  <2>2. P!Base64(b) = {t} /\ P!Hex(b) = {u}
    BY <1>1
  <2> HIDE DEF t, u
  <2>3. P!Bytes({t}, {"base64", "base64_loose"}) = {b}
    BY <1>2, <2>1
  <2>4. P!Bytes({u}, {"hex", "hex_upper"}) = {b}
    BY <1>2, <2>1
  <2> QED BY <2>2, <2>3, <2>4
<1>4. b.n = w /\ b.v # 0 => P!Base64Exact(P!Base64(b), w) = {b}
  BY <1>3 DEF P!Base64Exact
<1>5. b.n = w /\ b.v # 0 => P!HexExact(P!Hex(b), w) = {b}
  BY <1>3 DEF P!HexExact
<1>6. b.n \in 1 .. w => P!Base64Bounded(P!Base64(b), w) = {b}
  BY <1>3 DEF P!Base64Bounded
<1> QED BY <1>4, <1>5, <1>6

\* An identifier or a digest is accepted as itself.
LEMMA IdBack ==
    ASSUME NEW name \in {"bootstrap_id", "approval_id", "challenge"}, NEW x \in P!Argument(name), x.v # 0
    PROVE  /\ P!Base64Exact(P!EncodedField(name, x), P!Id) = {x}
           /\ P!Base64Exact(P!EncodedField(name, x), P!Digest) = {x}
<1>1. x \in [n : {P!Digest}, v : Nat] /\ P!Digest = P!Id
  BY ArgumentIs
<1>2. x = [n |-> x.n, v |-> x.v] /\ x.n = P!Digest
  BY <1>1
<1>3. P!EncodedField(name, x) = P!Base64(x)
  BY FieldForms DEF P!Base64Fields
<1> QED BY <1>1, <1>2, <1>3, TextBack

\* So is a digest in hex.
LEMMA HexBack ==
    ASSUME NEW name \in P!HexFields, NEW x \in P!Argument(name), x.v # 0
    PROVE  P!HexExact(P!EncodedField(name, x), P!Digest) = {x}
<1>1. x \in [n : {P!Digest}, v : Nat]
  BY ArgumentIs
<1>2. x = [n |-> x.n, v |-> x.v] /\ x.n = P!Digest
  BY <1>1
<1>3. P!EncodedField(name, x) = P!Hex(x)
  BY FieldForms
<1> QED BY <1>2, <1>3, TextBack

\* And a field that is not a text.
LEMMA ValueBack ==
    ASSUME NEW x
    PROVE  /\ \A name \in NumberFields : x # 0 => P!NonZero(P!EncodedField(name, x)) = {x}
           /\ P!Session({x}) # {} => P!Session(P!EncodedField("normalized_session", x)) = {x}
           /\ P!Code({x}) # {} => P!Code(P!EncodedField("code", x)) = {x}
<1>1. \A name \in {"normalized_session", "code"} \cup NumberFields : P!EncodedField(name, x) = {x}
  BY FieldForms DEF NumberFields
<1>2. /\ P!Session({x}) # {} => P!Session({x}) = {x}
      /\ P!Code({x}) # {} => P!Code({x}) = {x}
      /\ x # 0 => P!NonZero({x}) = {x}
  BY DEF P!Session, P!Code, P!NonZero
<1> QED BY <1>1, <1>2

\* The fields of a payload, with those that are added to it.
LEMMA PayloadFields ==
    ASSUME NEW f, NEW g
    PROVE  /\ DOMAIN P!Encoded(f) = DOMAIN f
           /\ \A name \in DOMAIN f : P!Encoded(f)[name] = P!EncodedField(name, f[name])
           /\ DOMAIN P!With(P!Encoded(f), g) = DOMAIN f \cup DOMAIN g
           /\ \A name \in DOMAIN f : P!With(P!Encoded(f), g)[name] = P!EncodedField(name, f[name])
           /\ \A name \in DOMAIN g : name \notin DOMAIN f => P!With(P!Encoded(f), g)[name] = g[name]
<1>1. /\ DOMAIN P!Encoded(f) = DOMAIN f
      /\ \A name \in DOMAIN f : P!Encoded(f)[name] = P!EncodedField(name, f[name])
  BY DEF P!Encoded
<1> DEFINE e == P!Encoded(f)
<1>2. /\ DOMAIN e = DOMAIN f
      /\ \A name \in DOMAIN f : e[name] = P!EncodedField(name, f[name])
  BY <1>1
<1> HIDE DEF e
<1>3. /\ DOMAIN P!With(e, g) = DOMAIN f \cup DOMAIN g
      /\ \A name \in DOMAIN f : P!With(e, g)[name] = P!EncodedField(name, f[name])
      /\ \A name \in DOMAIN g : name \notin DOMAIN f => P!With(e, g)[name] = g[name]
  BY <1>2 DEF P!With
<1> QED BY <1>1, <1>3 DEF e

\* Hdb1StartPayload.
LEMMA StartBack ==
    ASSUME NEW f, P!Arguments("start", f), NEW p \in P!NewStart(f)
    PROVE  P!DecodeStart(p) = {f}
<1>1. /\ DOMAIN f = {"request_id", "core_csr", "app_csr_digest", "normalized_session",
                     "core_binding_digest", "configuration_generation"}
      /\ f = [name \in DOMAIN f |-> f[name]] /\ \A name \in DOMAIN f : f[name] \in P!Argument(name)
  BY FieldsAre DEF P!Arguments
<1>2. /\ p = P!Encoded(f) /\ P!Session({f.normalized_session}) # {}
      /\ f.request_id.v # 0 /\ f.app_csr_digest.v # 0 /\ f.core_binding_digest.v # 0
      /\ f.core_csr.n \in 1 .. P!MaxCsr /\ f.configuration_generation # 0
  BY DEF P!NewStart, P!Given
<1>3. /\ p.request_id = P!EncodedField("request_id", f.request_id)
      /\ p.core_csr = P!EncodedField("core_csr", f.core_csr)
      /\ p.app_csr_digest = P!EncodedField("app_csr_digest", f.app_csr_digest)
      /\ p.normalized_session = P!EncodedField("normalized_session", f.normalized_session)
      /\ p.core_binding_digest = P!EncodedField("core_binding_digest", f.core_binding_digest)
      /\ p.configuration_generation = P!EncodedField("configuration_generation", f.configuration_generation)
  BY <1>1, <1>2, PayloadFields
<1>10. /\ f.request_id \in P!Argument("request_id") /\ f.core_csr \in P!Argument("core_csr")
       /\ f.app_csr_digest \in P!Argument("app_csr_digest")
       /\ f.normalized_session \in P!Argument("normalized_session")
       /\ f.core_binding_digest \in P!Argument("core_binding_digest")
       /\ f.configuration_generation \in P!Argument("configuration_generation")
  BY <1>1
<1>4. /\ P!Base64Exact(p.request_id, P!RequestId) = {f.request_id}
      /\ P!Base64Bounded(p.core_csr, P!MaxCsr) = {f.core_csr}
  <2>1. /\ p.request_id = P!Base64(f.request_id) /\ p.core_csr = P!Base64(f.core_csr)
    BY <1>3, FieldForms DEF P!Base64Fields
  <2>2. f.request_id \in [n : {P!RequestId}, v : Nat] /\ f.core_csr \in [n : Nat, v : Nat]
    BY <1>10, ArgumentIs
  <2>3. /\ f.request_id = [n |-> f.request_id.n, v |-> f.request_id.v] /\ f.request_id.n = P!RequestId
        /\ f.core_csr = [n |-> f.core_csr.n, v |-> f.core_csr.v]
    BY <2>2
  <2> QED BY <1>2, <2>1, <2>3, TextBack
<1>5. P!HexExact(p.app_csr_digest, P!Digest) = {f.app_csr_digest}
  BY <1>2, <1>3, <1>10, HexBack DEF P!HexFields
<1>6. P!HexExact(p.core_binding_digest, P!Digest) = {f.core_binding_digest}
  BY <1>2, <1>3, <1>10, HexBack DEF P!HexFields
<1>7. /\ P!NonZero(p.configuration_generation) = {f.configuration_generation}
      /\ P!Session(p.normalized_session) = {f.normalized_session}
  BY <1>2, <1>3, ValueBack DEF NumberFields
<1>8. P!DecodeStart(p) =
        {[request_id |-> f.request_id, core_csr |-> f.core_csr, app_csr_digest |-> f.app_csr_digest,
          normalized_session |-> f.normalized_session, core_binding_digest |-> f.core_binding_digest,
          configuration_generation |-> f.configuration_generation]}
  BY <1>4, <1>5, <1>6, <1>7 DEF P!DecodeStart
<1> QED BY <1>1, <1>8

\* The sizes of the certificates of a chain.
LEMMA SizesAre ==
    ASSUME NEW S, NEW c \in Seq(S), \A x \in S : x.n \in Nat
    PROVE  P!Sizes(c) \in Seq(Nat) /\ Len(P!Sizes(c)) = Len(c)
           /\ \A i \in 1 .. Len(c) : P!Sizes(c)[i] = c[i].n
<1>1. DOMAIN c = 1 .. Len(c) /\ Len(c) \in Nat /\ \A i \in 1 .. Len(c) : c[i] \in S
  BY LenProperties, ElementOfSeq
<1> DEFINE z == P!Sizes(c)
<1>2. z = [i \in 1 .. Len(c) |-> c[i].n]
  BY <1>1 DEF P!Sizes
<1>3. z \in [1 .. Len(c) -> Nat] /\ DOMAIN z = 1 .. Len(c) /\ \A i \in 1 .. Len(c) : z[i] = c[i].n
  BY <1>1, <1>2
<1> HIDE DEF z
<1>4. z \in Seq(Nat)
  BY <1>1, <1>3, SeqDef
<1>5. Len(z) = Len(c)
  BY <1>1, <1>3, <1>4
<1> QED BY <1>3, <1>4, <1>5 DEF z

\* A chain that encode_certificate_chain accepts is read back as itself.
LEMMA ChainBack ==
    ASSUME NEW c \in P!Argument("certificate_chain"), P!EncodeChain(c) # {}
    PROVE  P!DecodeChain(P!EncodedField("certificate_chain", c)) = {c}
<1>1. c \in Seq([n : Nat, v : Nat])
  BY ArgumentIs
<1>2. DOMAIN c = 1 .. Len(c) /\ Len(c) \in Nat /\ c = [i \in 1 .. Len(c) |-> c[i]]
  BY <1>1, LenProperties
<1>3. \A i \in 1 .. Len(c) : c[i] \in [n : Nat, v : Nat]
  BY <1>1, ElementOfSeq
<1>4. \A i \in 1 .. Len(c) : c[i] = [n |-> c[i].n, v |-> c[i].v] /\ c[i].n \in Nat
  BY <1>3
<1> DEFINE x == [i \in DOMAIN c |-> CHOOSE t \in P!Base64(c[i]) : TRUE]
<1>5. /\ P!EncodeChain(c) = {x} /\ Len(c) \in 1 .. P!MaxCertificates
      /\ \A i \in DOMAIN c : c[i].n # 0
      /\ P!ChainBytes(c) <= P!MaxChain
  BY DEF P!EncodeChain
<1>6. \A i \in DOMAIN c : P!Base64(c[i]) = {[n |-> c[i].n, v |-> c[i].v, form |-> "base64"]}
  BY DEF P!Base64, P!Text
<1>7. DOMAIN x = DOMAIN c /\ \A i \in DOMAIN c : x[i] = [n |-> c[i].n, v |-> c[i].v, form |-> "base64"]
  BY <1>6
<1> HIDE DEF x
<1>8. P!Sizes(x) = P!Sizes(c)
  BY <1>7 DEF P!Sizes
<1>9. Len(x) = Len(c)
  BY <1>2, <1>7
<1>10. \A i \in DOMAIN c : c[i].n \in 1 .. P!MaxChain
  <2>1. P!Sizes(c) \in Seq(Nat) /\ Len(P!Sizes(c)) = Len(c)
        /\ \A i \in 1 .. Len(c) : P!Sizes(c)[i] = c[i].n
    <3>1. \A y \in [n : Nat, v : Nat] : y.n \in Nat
      OBVIOUS
    <3> QED BY <1>1, <3>1, SizesAre
  <2>2. Len(c) <= 9
    <3>1. \A n \in 1 .. 8 : n <= 9
      OBVIOUS
    <3> QED BY <1>5, <3>1 DEF P!MaxCertificates
  <2>3. P!SumOf(P!Sizes(c)) \in Nat /\ \A k \in 1 .. Len(c) : P!Sizes(c)[k] <= P!SumOf(P!Sizes(c))
    BY <2>1, <2>2, SumAtLeast
  <2>4. P!SumOf(P!Sizes(c)) <= P!MaxChain /\ P!MaxChain \in Nat
    BY <1>5 DEF P!ChainBytes, P!MaxChain
  <2>5. \A k, m, n \in Nat : k # 0 /\ k <= m /\ m <= n => k \in 1 .. n
    OBVIOUS
  <2> QED BY <1>2, <1>4, <1>5, <2>1, <2>3, <2>4, <2>5
<1>11. \A i \in DOMAIN c : P!Base64Bounded({x[i]}, P!MaxChain) = {c[i]}
  <2>1. TAKE i \in DOMAIN c
  <2>2. {x[i]} = P!Base64(c[i])
    BY <1>6, <1>7
  <2>3. c[i] = [n |-> c[i].n, v |-> c[i].v] /\ c[i].n \in 1 .. P!MaxChain
    BY <1>2, <1>4, <1>10
  <2> QED BY <2>2, <2>3, TextBack
<1>12. [i \in DOMAIN x |-> CHOOSE b \in P!Base64Bounded({x[i]}, P!MaxChain) : TRUE] = c
  <2>1. \A i \in DOMAIN c : (CHOOSE b \in P!Base64Bounded({x[i]}, P!MaxChain) : TRUE) = c[i]
    BY <1>11
  <2> QED BY <1>2, <1>7, <2>1
<1>13. P!DecodeChain({x}) = {c}
  <2>1. \A i \in DOMAIN x : P!Base64Bounded({x[i]}, P!MaxChain) # {}
    BY <1>7, <1>11
  <2>2. Len(x) \in 1 .. P!MaxCertificates /\ P!ChainBytes(x) <= P!MaxChain
    BY <1>5, <1>8, <1>9 DEF P!ChainBytes
  <2>3. {d \in {x} : /\ Len(d) \in 1 .. P!MaxCertificates
                     /\ \A i \in DOMAIN d : P!Base64Bounded({d[i]}, P!MaxChain) # {}
                     /\ P!ChainBytes(d) <= P!MaxChain} = {x}
    BY <2>1, <2>2
  <2>4. P!DecodeChain({x}) =
          {[i \in DOMAIN d |-> CHOOSE b \in P!Base64Bounded({d[i]}, P!MaxChain) : TRUE] : d \in {x}}
    BY <2>3 DEF P!DecodeChain
  <2> QED BY <1>12, <2>4
<1> QED BY <1>5, <1>13, FieldForms

\* Hdb1ChallengePayload.
LEMMA ChallengeBack ==
    ASSUME NEW f, P!Arguments("challenge", f), NEW p \in P!NewChallenge(f)
    PROVE  P!DecodeChallenge(p) = {f}
<1>1. /\ DOMAIN f = {"bootstrap_id", "challenge", "expires_at_epoch_seconds"}
      /\ f = [name \in DOMAIN f |-> f[name]] /\ \A name \in DOMAIN f : f[name] \in P!Argument(name)
  BY FieldsAre DEF P!Arguments
<1>2. /\ p = P!With(P!Encoded(f), [status |-> {"awaiting_code"}])
      /\ f.bootstrap_id.v # 0
      /\ f.challenge.v # 0
      /\ f.expires_at_epoch_seconds # 0
  BY DEF P!NewChallenge, P!Given
<1>3. /\ p.bootstrap_id = P!EncodedField("bootstrap_id", f.bootstrap_id)
      /\ p.challenge = P!EncodedField("challenge", f.challenge)
      /\ p.expires_at_epoch_seconds = P!EncodedField("expires_at_epoch_seconds", f.expires_at_epoch_seconds)
      /\ p.status = {"awaiting_code"}
  <2> DEFINE g == [status |-> {"awaiting_code"}]
  <2>1. DOMAIN g = {"status"} /\ g.status = {"awaiting_code"} /\ p = P!With(P!Encoded(f), g)
    BY <1>2
  <2> HIDE DEF g
  <2>2. \A name \in DOMAIN f : p[name] = P!EncodedField(name, f[name])
    BY <2>1, PayloadFields
  <2>3. \A name \in DOMAIN g : name \notin DOMAIN f => p[name] = g[name]
    BY <2>1, PayloadFields
  <2> QED BY <1>1, <2>1, <2>2, <2>3
<1>4. /\ f.bootstrap_id \in P!Argument("bootstrap_id")
      /\ f.challenge \in P!Argument("challenge")
      /\ f.expires_at_epoch_seconds \in P!Argument("expires_at_epoch_seconds")
  BY <1>1
<1>5. P!Base64Exact(p.bootstrap_id, P!Id) = {f.bootstrap_id}
  BY <1>2, <1>3, <1>4, IdBack
<1>6. P!Base64Exact(p.challenge, P!Digest) = {f.challenge}
  BY <1>2, <1>3, <1>4, IdBack
<1>7. P!NonZero(p.expires_at_epoch_seconds) = {f.expires_at_epoch_seconds}
  BY <1>2, <1>3, ValueBack DEF NumberFields
<1>8. P!DecodeChallenge(p) = {[bootstrap_id |-> f.bootstrap_id, challenge |-> f.challenge, expires_at_epoch_seconds |-> f.expires_at_epoch_seconds]}
  BY <1>3, <1>5, <1>6, <1>7 DEF P!DecodeChallenge
<1> QED BY <1>1, <1>8

\* Hdb1SubmitPayload.
LEMMA SubmitBack ==
    ASSUME NEW f, P!Arguments("submit", f), NEW p \in P!NewSubmit(f)
    PROVE  P!DecodeSubmit(p) = {f}
<1>1. /\ DOMAIN f = {"bootstrap_id", "challenge", "code"}
      /\ f = [name \in DOMAIN f |-> f[name]] /\ \A name \in DOMAIN f : f[name] \in P!Argument(name)
  BY FieldsAre DEF P!Arguments
<1>2. /\ p = P!Encoded(f)
      /\ f.bootstrap_id.v # 0
      /\ f.challenge.v # 0
      /\ P!Code({f.code}) # {}
  BY DEF P!NewSubmit, P!Given
<1>3. /\ p.bootstrap_id = P!EncodedField("bootstrap_id", f.bootstrap_id)
      /\ p.challenge = P!EncodedField("challenge", f.challenge)
      /\ p.code = P!EncodedField("code", f.code)
  BY <1>1, <1>2, PayloadFields
<1>4. /\ f.bootstrap_id \in P!Argument("bootstrap_id")
      /\ f.challenge \in P!Argument("challenge")
      /\ f.code \in P!Argument("code")
  BY <1>1
<1>5. P!Base64Exact(p.bootstrap_id, P!Id) = {f.bootstrap_id}
  BY <1>2, <1>3, <1>4, IdBack
<1>6. P!Base64Exact(p.challenge, P!Digest) = {f.challenge}
  BY <1>2, <1>3, <1>4, IdBack
<1>7. P!Code(p.code) = {f.code}
  BY <1>2, <1>3, ValueBack
<1>8. P!DecodeSubmit(p) = {[bootstrap_id |-> f.bootstrap_id, challenge |-> f.challenge, code |-> f.code]}
  BY <1>5, <1>6, <1>7 DEF P!DecodeSubmit
<1> QED BY <1>1, <1>8

\* Hdb1CoreIssuedPayload.
LEMMA CoreIssuedBack ==
    ASSUME NEW f, P!Arguments("core_issued", f), NEW p \in P!NewCoreIssued(f)
    PROVE  P!DecodeCoreIssued(p) = {f}
<1>1. /\ DOMAIN f = {"approval_id", "core_identity", "certificate_chain", "not_after_epoch_seconds"}
      /\ f = [name \in DOMAIN f |-> f[name]] /\ \A name \in DOMAIN f : f[name] \in P!Argument(name)
  BY FieldsAre DEF P!Arguments
<1>2. /\ p = P!With(P!Encoded(f), [state |-> {"bootstrap_pending"}])
      /\ f.approval_id.v # 0
      /\ f.core_identity.v # 0
      /\ P!EncodeChain(f.certificate_chain) # {}
      /\ f.not_after_epoch_seconds # 0
  BY DEF P!NewCoreIssued, P!Given
<1>3. /\ p.approval_id = P!EncodedField("approval_id", f.approval_id)
      /\ p.core_identity = P!EncodedField("core_identity", f.core_identity)
      /\ p.certificate_chain = P!EncodedField("certificate_chain", f.certificate_chain)
      /\ p.not_after_epoch_seconds = P!EncodedField("not_after_epoch_seconds", f.not_after_epoch_seconds)
      /\ p.state = {"bootstrap_pending"}
  <2> DEFINE g == [state |-> {"bootstrap_pending"}]
  <2>1. DOMAIN g = {"state"} /\ g.state = {"bootstrap_pending"} /\ p = P!With(P!Encoded(f), g)
    BY <1>2
  <2> HIDE DEF g
  <2>2. \A name \in DOMAIN f : p[name] = P!EncodedField(name, f[name])
    BY <2>1, PayloadFields
  <2>3. \A name \in DOMAIN g : name \notin DOMAIN f => p[name] = g[name]
    BY <2>1, PayloadFields
  <2> QED BY <1>1, <2>1, <2>2, <2>3
<1>4. /\ f.approval_id \in P!Argument("approval_id")
      /\ f.core_identity \in P!Argument("core_identity")
      /\ f.certificate_chain \in P!Argument("certificate_chain")
      /\ f.not_after_epoch_seconds \in P!Argument("not_after_epoch_seconds")
  BY <1>1
<1>5. P!Base64Exact(p.approval_id, P!Id) = {f.approval_id}
  BY <1>2, <1>3, <1>4, IdBack
<1>6. P!HexExact(p.core_identity, P!Digest) = {f.core_identity}
  BY <1>2, <1>3, <1>4, HexBack DEF P!HexFields
<1>7. P!DecodeChain(p.certificate_chain) = {f.certificate_chain}
  BY <1>2, <1>3, <1>4, ChainBack
<1>8. P!NonZero(p.not_after_epoch_seconds) = {f.not_after_epoch_seconds}
  BY <1>2, <1>3, ValueBack DEF NumberFields
<1>9. P!DecodeCoreIssued(p) = {[approval_id |-> f.approval_id, core_identity |-> f.core_identity, certificate_chain |-> f.certificate_chain, not_after_epoch_seconds |-> f.not_after_epoch_seconds]}
  BY <1>3, <1>5, <1>6, <1>7, <1>8 DEF P!DecodeCoreIssued
<1> QED BY <1>1, <1>9

\* Hdb1ReconcilePayload.
LEMMA ReconcileBack ==
    ASSUME NEW f, P!Arguments("reconcile", f), NEW p \in P!NewReconcile(f)
    PROVE  P!DecodeReconcile(p) = {f}
<1>1. /\ DOMAIN f = {"approval_id", "core_binding_digest", "normalized_session"}
      /\ f = [name \in DOMAIN f |-> f[name]] /\ \A name \in DOMAIN f : f[name] \in P!Argument(name)
  BY FieldsAre DEF P!Arguments
<1>2. /\ p = P!Encoded(f)
      /\ f.approval_id.v # 0
      /\ f.core_binding_digest.v # 0
      /\ P!Session({f.normalized_session}) # {}
  BY DEF P!NewReconcile, P!Given
<1>3. /\ p.approval_id = P!EncodedField("approval_id", f.approval_id)
      /\ p.core_binding_digest = P!EncodedField("core_binding_digest", f.core_binding_digest)
      /\ p.normalized_session = P!EncodedField("normalized_session", f.normalized_session)
  BY <1>1, <1>2, PayloadFields
<1>4. /\ f.approval_id \in P!Argument("approval_id")
      /\ f.core_binding_digest \in P!Argument("core_binding_digest")
      /\ f.normalized_session \in P!Argument("normalized_session")
  BY <1>1
<1>5. P!Base64Exact(p.approval_id, P!Id) = {f.approval_id}
  BY <1>2, <1>3, <1>4, IdBack
<1>6. P!HexExact(p.core_binding_digest, P!Digest) = {f.core_binding_digest}
  BY <1>2, <1>3, <1>4, HexBack DEF P!HexFields
<1>7. P!Session(p.normalized_session) = {f.normalized_session}
  BY <1>2, <1>3, ValueBack
<1>8. P!DecodeReconcile(p) = {[approval_id |-> f.approval_id, core_binding_digest |-> f.core_binding_digest, normalized_session |-> f.normalized_session]}
  BY <1>5, <1>6, <1>7 DEF P!DecodeReconcile
<1> QED BY <1>1, <1>8

\* Hdb1RejectedPayload and Hde3RejectedPayload.
LEMMA RejectedBack ==
    ASSUME NEW f, P!Arguments("rejected", f), NEW p \in P!NewRejected(f)
    PROVE  P!DecodeRejected(p) = {f}
<1>1. /\ DOMAIN f = {"rejection_code"}
      /\ f = [name \in DOMAIN f |-> f[name]] /\ \A name \in DOMAIN f : f[name] \in P!Argument(name)
  BY FieldsAre DEF P!Arguments
<1>2. /\ p = P!Encoded(f)
      /\ f.rejection_code # 0
  BY DEF P!NewRejected, P!Given
<1>3. /\ p.rejection_code = P!EncodedField("rejection_code", f.rejection_code)
  BY <1>1, <1>2, PayloadFields
<1>4. /\ f.rejection_code \in P!Argument("rejection_code")
  BY <1>1
<1>5. P!NonZero(p.rejection_code) = {f.rejection_code}
  BY <1>2, <1>3, ValueBack DEF NumberFields
<1>6. P!DecodeRejected(p) = {[rejection_code |-> f.rejection_code]}
  BY <1>5 DEF P!DecodeRejected
<1> QED BY <1>1, <1>6

\* Hde3ApprovalChallengePayload.
LEMMA ApprovalChallengeBack ==
    ASSUME NEW f, P!Arguments("approval_challenge", f), NEW p \in P!NewApprovalChallenge(f)
    PROVE  P!DecodeApprovalChallenge(p) = {f}
<1>1. /\ DOMAIN f = {"approval_id", "challenge", "expires_at_epoch_seconds"}
      /\ f = [name \in DOMAIN f |-> f[name]] /\ \A name \in DOMAIN f : f[name] \in P!Argument(name)
  BY FieldsAre DEF P!Arguments
<1>2. /\ p = P!Encoded(f)
      /\ f.approval_id.v # 0
      /\ f.challenge.v # 0
      /\ f.expires_at_epoch_seconds # 0
  BY DEF P!NewApprovalChallenge, P!Given
<1>3. /\ p.approval_id = P!EncodedField("approval_id", f.approval_id)
      /\ p.challenge = P!EncodedField("challenge", f.challenge)
      /\ p.expires_at_epoch_seconds = P!EncodedField("expires_at_epoch_seconds", f.expires_at_epoch_seconds)
  BY <1>1, <1>2, PayloadFields
<1>4. /\ f.approval_id \in P!Argument("approval_id")
      /\ f.challenge \in P!Argument("challenge")
      /\ f.expires_at_epoch_seconds \in P!Argument("expires_at_epoch_seconds")
  BY <1>1
<1>5. P!Base64Exact(p.approval_id, P!Id) = {f.approval_id}
  BY <1>2, <1>3, <1>4, IdBack
<1>6. P!Base64Exact(p.challenge, P!Digest) = {f.challenge}
  BY <1>2, <1>3, <1>4, IdBack
<1>7. P!NonZero(p.expires_at_epoch_seconds) = {f.expires_at_epoch_seconds}
  BY <1>2, <1>3, ValueBack DEF NumberFields
<1>8. P!DecodeApprovalChallenge(p) = {[approval_id |-> f.approval_id, challenge |-> f.challenge, expires_at_epoch_seconds |-> f.expires_at_epoch_seconds]}
  BY <1>5, <1>6, <1>7 DEF P!DecodeApprovalChallenge
<1> QED BY <1>1, <1>8

\* A field of a result is not null and is read back as itself.
LEMMA FieldValueBack ==
    ASSUME NEW name \in {"approval_id", "certificate_chain", "status"} \cup P!HexFields \cup NumberFields,
           NEW x \in P!Argument(name),
           name \in {"approval_id"} \cup P!HexFields => x.v # 0,
           name = "certificate_chain" => P!EncodeChain(x) # {}
    PROVE  /\ P!EncodedField(name, x) # {}
           /\ P!FieldValue(name, P!EncodedField(name, x)) = x
<1>1. CASE name = "approval_id"
  <2>1. P!Base64Exact(P!EncodedField(name, x), P!Id) = {x} /\ name \in P!Base64Fields
    BY <1>1, IdBack DEF P!Base64Fields
  <2>2. P!FieldValue(name, P!EncodedField(name, x)) \in {x}
    BY <2>1 DEF P!FieldValue
  <2>3. P!EncodedField(name, x) # {}
    BY <2>1 DEF P!Base64Exact, P!Bytes
  <2> QED BY <2>2, <2>3
<1>2. CASE name \in P!HexFields
  <2>1. P!HexExact(P!EncodedField(name, x), P!Digest) = {x} /\ name \notin P!Base64Fields
    BY <1>2, HexBack DEF P!HexFields, P!Base64Fields
  <2>2. P!FieldValue(name, P!EncodedField(name, x)) \in {x}
    BY <1>2, <2>1 DEF P!FieldValue
  <2>3. P!EncodedField(name, x) # {}
    BY <2>1 DEF P!HexExact, P!Bytes
  <2> QED BY <2>2, <2>3
<1>3. CASE name = "certificate_chain"
  <2>1. /\ P!DecodeChain(P!EncodedField(name, x)) = {x} /\ P!EncodedField(name, x) # {}
        /\ name \notin P!Base64Fields /\ name \notin P!HexFields
    BY <1>3, ChainBack, FieldForms DEF P!HexFields, P!Base64Fields
  <2>2. P!FieldValue(name, P!EncodedField(name, x)) \in {x}
    BY <1>3, <2>1 DEF P!FieldValue
  <2> QED BY <2>1, <2>2
<1>4. CASE name \in {"status"} \cup NumberFields
  <2>1. /\ P!EncodedField(name, x) = {x} /\ name \notin P!Base64Fields /\ name \notin P!HexFields
        /\ name # "certificate_chain"
    BY <1>4, FieldForms DEF P!HexFields, P!Base64Fields, NumberFields
  <2>2. P!FieldValue(name, {x}) \in {x}
    BY <2>1 DEF P!FieldValue
  <2> QED BY <2>1, <2>2
<1> QED BY <1>1, <1>2, <1>3, <1>4

\* The fields of a result.
ResultOf(f, opt, p) ==
    /\ DOMAIN p = DOMAIN f \cup opt
    /\ \A name \in DOMAIN f : p[name] = P!EncodedField(name, f[name])
    /\ \A name \in opt : name \notin DOMAIN f => p[name] = {}

\* The optional fields that are not given are null.
LEMMA NullFields ==
    ASSUME NEW f, NEW opt
    PROVE  ResultOf(f, opt, P!With(P!Encoded(f), P!Nulls(opt)))
<1> DEFINE g == P!Nulls(opt)
           q == P!With(P!Encoded(f), g)
<1>1. DOMAIN g = opt /\ \A name \in opt : g[name] = {}
  BY DEF P!Nulls
<1> HIDE DEF g
<1>2. /\ DOMAIN q = DOMAIN f \cup DOMAIN g
      /\ \A name \in DOMAIN f : q[name] = P!EncodedField(name, f[name])
      /\ \A name \in DOMAIN g : name \notin DOMAIN f => q[name] = g[name]
  BY PayloadFields
<1> HIDE DEF q
<1>3. /\ DOMAIN q = DOMAIN f \cup opt
      /\ \A name \in DOMAIN f : q[name] = P!EncodedField(name, f[name])
      /\ \A name \in opt : name \notin DOMAIN f => q[name] = {}
  BY <1>1, <1>2
<1> QED BY <1>3 DEF q, g, ResultOf

\* The fields of a result that are read back as themselves.
ReadBack(f) ==
    \A name \in DOMAIN f : /\ P!EncodedField(name, f[name]) # {}
                           /\ P!FieldValue(name, P!EncodedField(name, f[name])) = f[name]

\* A result whose fields are read back as themselves.
LEMMA PresentBack ==
    ASSUME NEW f, IsStruct(f), NEW opt,
           ReadBack(f),
           NEW p, p = P!With(P!Encoded(f), P!Nulls(opt))
    PROVE  /\ \A name \in DOMAIN f : p[name] = P!EncodedField(name, f[name])
           /\ \A name \in opt : name \notin DOMAIN f => p[name] = {}
           /\ P!Present(p) = f
<1>1. /\ DOMAIN p = DOMAIN f \cup opt
      /\ \A name \in DOMAIN f : p[name] = P!EncodedField(name, f[name])
      /\ \A name \in opt : name \notin DOMAIN f => p[name] = {}
  <2>1. ResultOf(f, opt, p)
    BY NullFields
  <2> QED BY <2>1 DEF ResultOf
<1>6. {n \in DOMAIN p : p[n] # {}} = DOMAIN f
  BY <1>1 DEF ReadBack
<1>7. P!Present(p) = [name \in DOMAIN f |-> P!FieldValue(name, p[name])]
  BY <1>6 DEF P!Present
<1>8. P!Present(p) = f
  BY <1>1, <1>7 DEF IsStruct, ReadBack
<1> QED BY <1>1, <1>8

\* new_pending and new_rejected of both result payloads.
LEMMA ShortBack ==
    ASSUME NEW t \in {"result", "result3"}, NEW f, P!Arguments(t, f),
           f.status \in {"pending", "rejected"}, NEW opt, "rejection_code" \in opt,
           "approval_id" \notin opt, "status" \notin opt, NEW p \in P!NewShort(f, opt)
    PROVE  /\ P!Present(p) = f
           /\ P!Base64Exact(p.approval_id, P!Id) # {}
           /\ \/ p.status = {"pending"} /\ \A name \in opt : p[name] = {}
              \/ /\ p.status = {"rejected"} /\ P!NonZero(p.rejection_code) # {}
                 /\ \A name \in opt \ {"rejection_code"} : p[name] = {}
<1>1. /\ f = [name \in DOMAIN f |-> f[name]] /\ \A name \in DOMAIN f : f[name] \in P!Argument(name)
      /\ "approval_id" \in DOMAIN f /\ "status" \in DOMAIN f
  BY DEF P!Arguments
<1>2. /\ f.status = "pending" => DOMAIN f = {"approval_id", "status"}
      /\ f.status = "rejected" => DOMAIN f = {"approval_id", "status", "rejection_code"}
  BY ReportedIs
<1>3. /\ p = P!With(P!Encoded(f), P!Nulls(opt)) /\ f.approval_id.v # 0
      /\ f.status = "rejected" => f.rejection_code # 0
  BY DEF P!NewShort, P!Given
<1>4. \A name \in DOMAIN f : /\ P!EncodedField(name, f[name]) # {}
                             /\ P!FieldValue(name, P!EncodedField(name, f[name])) = f[name]
  <2>1. \A name \in DOMAIN f :
          /\ name \in {"approval_id", "status"} \cup NumberFields /\ name \notin P!HexFields
          /\ name = "approval_id" => f[name].v # 0
    BY <1>2, <1>3 DEF NumberFields, P!HexFields
  <2> QED BY <1>1, <2>1, FieldValueBack DEF NumberFields
<1>5. /\ \A name \in DOMAIN f : p[name] = P!EncodedField(name, f[name])
      /\ \A name \in opt : name \notin DOMAIN f => p[name] = {}
      /\ P!Present(p) = f
  BY <1>1, <1>3, <1>4, PresentBack DEF IsStruct, ReadBack
<1>6. P!Base64Exact(p.approval_id, P!Id) # {}
  BY <1>1, <1>3, <1>5, IdBack
<1>7. p.status = {f.status}
  BY <1>1, <1>5, FieldForms
<1>8. f.status = "pending" => \A name \in opt : p[name] = {}
  BY <1>2, <1>5
<1>9. f.status = "rejected" => /\ P!NonZero(p.rejection_code) # {}
                               /\ \A name \in opt \ {"rejection_code"} : p[name] = {}
  <2> SUFFICES ASSUME f.status = "rejected"
               PROVE  /\ P!NonZero(p.rejection_code) # {}
                      /\ \A name \in opt \ {"rejection_code"} : p[name] = {}
    OBVIOUS
  <2>1. p.rejection_code = P!EncodedField("rejection_code", f.rejection_code)
    BY <1>2, <1>5
  <2>2. P!NonZero(p.rejection_code) = {f.rejection_code}
    BY <1>3, <2>1, ValueBack DEF NumberFields
  <2> QED BY <1>2, <1>5, <2>2
<1> QED BY <1>5, <1>6, <1>7, <1>8, <1>9

\* Hdb1ResultPayload.
LEMMA ResultBack ==
    ASSUME NEW f, P!Arguments("result", f), NEW p \in P!NewResult(f)
    PROVE  P!DecodeResult(p) = {f}
<1>1. CASE f.status \in {"pending", "rejected"}
  <2>1. p \in P!NewShort(f, P!ResultFields)
    BY <1>1 DEF P!NewResult
  <2>2. "rejection_code" \in P!ResultFields /\ "approval_id" \notin P!ResultFields /\ "status" \notin P!ResultFields
    BY DEF P!ResultFields
  <2>3. /\ P!Present(p) = f /\ P!Base64Exact(p.approval_id, P!Id) # {}
        /\ \/ p.status = {"pending"} /\ \A name \in P!ResultFields : p[name] = {}
           \/ /\ p.status = {"rejected"} /\ P!NonZero(p.rejection_code) # {}
              /\ \A name \in P!ResultFields \ {"rejection_code"} : p[name] = {}
    BY <1>1, <2>1, <2>2, ShortBack
  <2>4. P!ResultValid(p)
    BY <2>3 DEF P!ResultValid
  <2> QED BY <2>3, <2>4 DEF P!DecodeResult
<1>2. CASE f.status \notin {"pending", "rejected"}
  <2>1. /\ DOMAIN f = {"approval_id", "status", "core_identity", "certificate_chain", "not_after_epoch_seconds"}
        /\ f = [name \in DOMAIN f |-> f[name]] /\ \A name \in DOMAIN f : f[name] \in P!Argument(name)
        /\ f.status \in {"issued"}
    BY <1>2, ReportedIs DEF P!Arguments
  <2>2. /\ p = P!With(P!Encoded(f), P!Nulls(P!ResultFields))
        /\ f.approval_id.v # 0
        /\ f.core_identity.v # 0
        /\ f.not_after_epoch_seconds # 0
        /\ P!EncodeChain(f.certificate_chain) # {}
    BY <1>2, <2>1 DEF P!NewResult, P!Given
  <2>3. \A name \in DOMAIN f :
          /\ name \in {"approval_id", "certificate_chain", "status"} \cup P!HexFields \cup NumberFields
          /\ name \in {"approval_id"} \cup P!HexFields => f[name].v # 0
          /\ name = "certificate_chain" => P!EncodeChain(f[name]) # {}
    BY <2>1, <2>2 DEF P!HexFields, NumberFields
  <2>4. \A name \in DOMAIN f : /\ P!EncodedField(name, f[name]) # {}
                               /\ P!FieldValue(name, P!EncodedField(name, f[name])) = f[name]
    BY <2>1, <2>3, FieldValueBack
  <2>5. /\ \A name \in DOMAIN f : p[name] = P!EncodedField(name, f[name])
        /\ \A name \in P!ResultFields : name \notin DOMAIN f => p[name] = {}
        /\ P!Present(p) = f
    BY <2>1, <2>2, <2>4, PresentBack DEF IsStruct, ReadBack
  <2>6. P!Base64Exact(p.approval_id, P!Id) # {}
    BY <2>1, <2>2, <2>5, IdBack
  <2>7. \A name \in {"core_identity"} : P!HexExact(p[name], P!Digest) # {}
    <3>1. {"core_identity"} \subseteq DOMAIN f \cap P!HexFields
      BY <2>1 DEF P!HexFields
    <3>2. \A name \in {"core_identity"} : f[name].v # 0
      BY <2>2
    <3> QED BY <2>1, <2>5, <3>1, <3>2, HexBack
  <2>8. P!DecodeChain(p.certificate_chain) # {}
    BY <2>1, <2>2, <2>5, ChainBack
  <2>9. P!NonZero(p.not_after_epoch_seconds) # {}
    <3>1. p.not_after_epoch_seconds = P!EncodedField("not_after_epoch_seconds", f.not_after_epoch_seconds)
      BY <2>1, <2>5
    <3>2. P!NonZero(p.not_after_epoch_seconds) = {f.not_after_epoch_seconds}
      BY <2>2, <3>1, ValueBack DEF NumberFields
    <3> QED BY <3>2
  <2>10. p.rejection_code = {} /\ p.status = {f.status}
    BY <2>1, <2>5, FieldForms DEF P!ResultFields
  <2>11. P!ResultValid(p)
    BY <2>1, <2>6, <2>7, <2>8, <2>9, <2>10 DEF P!ResultValid
  <2> QED BY <2>5, <2>11 DEF P!DecodeResult
<1> QED BY <1>1, <1>2

\* Hde3ResultPayload.
LEMMA Result3Back ==
    ASSUME NEW f, P!Arguments("result3", f), NEW p \in P!NewResult3(f)
    PROVE  P!DecodeResult3(p) = {f}
<1>1. CASE f.status \in {"pending", "rejected"}
  <2>1. p \in P!NewShort(f, P!Result3Fields)
    BY <1>1 DEF P!NewResult3
  <2>2. "rejection_code" \in P!Result3Fields /\ "approval_id" \notin P!Result3Fields /\ "status" \notin P!Result3Fields
    BY DEF P!Result3Fields
  <2>3. /\ P!Present(p) = f /\ P!Base64Exact(p.approval_id, P!Id) # {}
        /\ \/ p.status = {"pending"} /\ \A name \in P!Result3Fields : p[name] = {}
           \/ /\ p.status = {"rejected"} /\ P!NonZero(p.rejection_code) # {}
              /\ \A name \in P!Result3Fields \ {"rejection_code"} : p[name] = {}
    BY <1>1, <2>1, <2>2, ShortBack
  <2>4. P!Result3Valid(p)
    BY <2>3 DEF P!Result3Valid
  <2> QED BY <2>3, <2>4 DEF P!DecodeResult3
<1>2. CASE f.status \notin {"pending", "rejected"}
  <2>1. /\ DOMAIN f = {"approval_id", "status", "app_identity", "certificate_chain", "certificate_fingerprint", "certificate_chain_digest", "not_after_epoch_seconds", "configuration_generation"}
        /\ f = [name \in DOMAIN f |-> f[name]] /\ \A name \in DOMAIN f : f[name] \in P!Argument(name)
        /\ f.status \in {"issued", "active"}
    BY <1>2, ReportedIs DEF P!Arguments
  <2>2. /\ p = P!With(P!Encoded(f), P!Nulls(P!Result3Fields))
        /\ f.approval_id.v # 0
        /\ f.app_identity.v # 0
        /\ f.certificate_fingerprint.v # 0
        /\ f.certificate_chain_digest.v # 0
        /\ f.not_after_epoch_seconds # 0
        /\ f.configuration_generation # 0
        /\ P!EncodeChain(f.certificate_chain) # {}
    BY <1>2, <2>1 DEF P!NewResult3, P!Given, P!Issuable
  <2>3. \A name \in DOMAIN f :
          /\ name \in {"approval_id", "certificate_chain", "status"} \cup P!HexFields \cup NumberFields
          /\ name \in {"approval_id"} \cup P!HexFields => f[name].v # 0
          /\ name = "certificate_chain" => P!EncodeChain(f[name]) # {}
    BY <2>1, <2>2 DEF P!HexFields, NumberFields
  <2>4. \A name \in DOMAIN f : /\ P!EncodedField(name, f[name]) # {}
                               /\ P!FieldValue(name, P!EncodedField(name, f[name])) = f[name]
    BY <2>1, <2>3, FieldValueBack
  <2>5. /\ \A name \in DOMAIN f : p[name] = P!EncodedField(name, f[name])
        /\ \A name \in P!Result3Fields : name \notin DOMAIN f => p[name] = {}
        /\ P!Present(p) = f
    BY <2>1, <2>2, <2>4, PresentBack DEF IsStruct, ReadBack
  <2>6. P!Base64Exact(p.approval_id, P!Id) # {}
    BY <2>1, <2>2, <2>5, IdBack
  <2>7. \A name \in {"app_identity", "certificate_fingerprint", "certificate_chain_digest"} : P!HexExact(p[name], P!Digest) # {}
    <3>1. {"app_identity", "certificate_fingerprint", "certificate_chain_digest"} \subseteq DOMAIN f \cap P!HexFields
      BY <2>1 DEF P!HexFields
    <3>2. \A name \in {"app_identity", "certificate_fingerprint", "certificate_chain_digest"} : f[name].v # 0
      BY <2>2
    <3> QED BY <2>1, <2>5, <3>1, <3>2, HexBack
  <2>8. P!DecodeChain(p.certificate_chain) # {}
    BY <2>1, <2>2, <2>5, ChainBack
  <2>9. P!NonZero(p.not_after_epoch_seconds) # {}
    <3>1. p.not_after_epoch_seconds = P!EncodedField("not_after_epoch_seconds", f.not_after_epoch_seconds)
      BY <2>1, <2>5
    <3>2. P!NonZero(p.not_after_epoch_seconds) = {f.not_after_epoch_seconds}
      BY <2>2, <3>1, ValueBack DEF NumberFields
    <3> QED BY <3>2
  <2>10. P!NonZero(p.configuration_generation) # {}
    <3>1. p.configuration_generation = P!EncodedField("configuration_generation", f.configuration_generation)
      BY <2>1, <2>5
    <3>2. P!NonZero(p.configuration_generation) = {f.configuration_generation}
      BY <2>2, <3>1, ValueBack DEF NumberFields
    <3> QED BY <3>2
  <2>11. p.rejection_code = {} /\ p.status = {f.status}
    BY <2>1, <2>5, FieldForms DEF P!Result3Fields
  <2>12. P!Result3Valid(p)
    BY <2>1, <2>6, <2>7, <2>8, <2>9, <2>10, <2>11 DEF P!Result3Valid
  <2> QED BY <2>5, <2>12 DEF P!DecodeResult3
<1> QED BY <1>1, <1>2

\* Whatever a constructor of the relay builds is read back as its arguments.
LEMMA NewBack ==
    ASSUME NEW t \in DOMAIN P!Fields, t \notin P!CoreBuilt, NEW f, P!Arguments(t, f), NEW p \in P!New(t, f)
    PROVE  P!Decode(t, p) = {f}
<1>1. CASE t = "start"
  <2>1. P!New(t, f) = P!NewStart(f) /\ P!Decode(t, p) = P!DecodeStart(p)
    BY <1>1 DEF P!New, P!Decode, P!CoreBuilt
  <2> QED BY <1>1, <2>1, StartBack
<1>2. CASE t = "challenge"
  <2>1. P!New(t, f) = P!NewChallenge(f) /\ P!Decode(t, p) = P!DecodeChallenge(p)
    BY <1>2 DEF P!New, P!Decode, P!CoreBuilt
  <2> QED BY <1>2, <2>1, ChallengeBack
<1>3. CASE t = "submit"
  <2>1. P!New(t, f) = P!NewSubmit(f) /\ P!Decode(t, p) = P!DecodeSubmit(p)
    BY <1>3 DEF P!New, P!Decode, P!CoreBuilt
  <2> QED BY <1>3, <2>1, SubmitBack
<1>4. CASE t = "core_issued"
  <2>1. P!New(t, f) = P!NewCoreIssued(f) /\ P!Decode(t, p) = P!DecodeCoreIssued(p)
    BY <1>4 DEF P!New, P!Decode, P!CoreBuilt
  <2> QED BY <1>4, <2>1, CoreIssuedBack
<1>5. CASE t = "reconcile"
  <2>1. P!New(t, f) = P!NewReconcile(f) /\ P!Decode(t, p) = P!DecodeReconcile(p)
    BY <1>5 DEF P!New, P!Decode, P!CoreBuilt
  <2> QED BY <1>5, <2>1, ReconcileBack
<1>6. CASE t = "result"
  <2>1. P!New(t, f) = P!NewResult(f) /\ P!Decode(t, p) = P!DecodeResult(p)
    BY <1>6 DEF P!New, P!Decode, P!CoreBuilt
  <2> QED BY <1>6, <2>1, ResultBack
<1>7. CASE t = "rejected"
  <2>1. P!New(t, f) = P!NewRejected(f) /\ P!Decode(t, p) = P!DecodeRejected(p)
    BY <1>7 DEF P!New, P!Decode, P!CoreBuilt
  <2> QED BY <1>7, <2>1, RejectedBack
<1>8. CASE t = "approval_challenge"
  <2>1. P!New(t, f) = P!NewApprovalChallenge(f) /\ P!Decode(t, p) = P!DecodeApprovalChallenge(p)
    BY <1>8 DEF P!New, P!Decode, P!CoreBuilt
  <2> QED BY <1>8, <2>1, ApprovalChallengeBack
<1>9. CASE t = "result3"
  <2>1. P!New(t, f) = P!NewResult3(f) /\ P!Decode(t, p) = P!DecodeResult3(p)
    BY <1>9 DEF P!New, P!Decode, P!CoreBuilt
  <2> QED BY <1>9, <2>1, Result3Back
<1> QED BY <1>1, <1>2, <1>3, <1>4, <1>5, <1>6, <1>7, <1>8, <1>9, FieldsAre DEF P!CoreBuilt

-----------------------------------------------------------------------------
(* What is accepted fits a frame *)

\* The fields that may be long.
LongFields == {"core_csr", "app_csr", "certificate_chain"}

\* A field that a decoder has checked, or that is null.
Bounded(name, o) ==
    /\ name \in P!Base64Fields \ LongFields => o = {} \/ \E w \in {16, 32} : P!Base64Exact(o, w) # {}
    /\ name \in {"core_csr", "app_csr"} => P!Base64Bounded(o, P!MaxCsr) # {}
    /\ name \in P!HexFields => o = {} \/ P!HexExact(o, P!Digest) # {}
    /\ name = "certificate_chain" => o = {} \/ P!DecodeChain(o) # {}

\* The size of a field in JSON.
LEMMA OptionalSizeIs ==
    ASSUME NEW name
    PROVE  /\ P!OptionalSize(name, {}) = 39
           /\ \A x : P!OptionalSize(name, {x}) = 35 + P!FieldSize(name, x)
<1>1. P!OptionalSize(name, {}) = 39
  BY DEF P!OptionalSize
<1>2. ASSUME NEW x PROVE P!OptionalSize(name, {x}) = 35 + P!FieldSize(name, x)
  <2>1. (CHOOSE y \in {x} : TRUE) = x /\ {x} # {}
    OBVIOUS
  <2> QED BY <2>1 DEF P!OptionalSize
<1> QED BY <1>1, <1>2

\* The size of a text.
LEMMA TextSizeIs ==
    ASSUME NEW b, b.n \in Nat, NEW name \in P!Base64Fields \cup P!HexFields
    PROVE  /\ P!OptionalSize(name, P!Base64(b)) = 37 + (4 * b.n + 2) \div 3
           /\ P!OptionalSize(name, P!Hex(b)) = 37 + 2 * b.n
<1> DEFINE t == [n |-> b.n, v |-> b.v, form |-> "base64"]
           u == [n |-> b.n, v |-> b.v, form |-> "hex"]
<1>1. P!Base64(b) = {t} /\ P!Hex(b) = {u}
  BY DEF P!Base64, P!Hex, P!Text
<1>2. P!TextSize(t) = (4 * b.n + 2) \div 3 /\ P!TextSize(u) = 2 * b.n
  BY DEF P!TextSize
<1> HIDE DEF t, u
<1>3. \A x : P!FieldSize(name, x) = 2 + P!TextSize(x)
  BY DEF P!FieldSize, P!Base64Fields, P!HexFields
<1>4. /\ P!OptionalSize(name, {t}) = 35 + (2 + (4 * b.n + 2) \div 3)
      /\ P!OptionalSize(name, {u}) = 35 + (2 + 2 * b.n)
  BY <1>2, <1>3, OptionalSizeIs
<1>5. \A k \in Nat : 35 + (2 + (4 * k + 2) \div 3) = 37 + (4 * k + 2) \div 3 /\ 35 + (2 + 2 * k) = 37 + 2 * k
  OBVIOUS
<1> QED BY <1>1, <1>4, <1>5

\* The size of a chain.
LEMMA ChainSize ==
    ASSUME NEW o, P!Optional("certificate_chain", o), P!DecodeChain(o) # {}
    PROVE  P!OptionalSize("certificate_chain", o) \in Nat /\ P!OptionalSize("certificate_chain", o) <= 64000
<1>1. PICK x \in o :
        /\ Len(x) \in 1 .. P!MaxCertificates /\ P!ChainBytes(x) <= P!MaxChain
        /\ \A i \in DOMAIN x : P!Base64Bounded({x[i]}, P!MaxChain) # {}
  BY DEF P!DecodeChain
<1>2. o = {x} /\ x \in Seq([n : Nat, v : Nat, form : P!Forms])
  BY <1>1 DEF P!Optional
<1>3. DOMAIN x = 1 .. Len(x) /\ Len(x) \in Nat /\ \A i \in 1 .. Len(x) : x[i] \in [n : Nat, v : Nat, form : P!Forms]
  BY <1>2, LenProperties, ElementOfSeq
<1>4. ASSUME NEW i \in 1 .. Len(x) PROVE P!TextSize(x[i]) = (4 * x[i].n + 2) \div 3 /\ x[i].n \in Nat
  <2>0. P!Base64Bounded({x[i]}, P!MaxChain) # {}
    BY <1>1, <1>3
  <2>1. PICK b \in P!Base64Bounded({x[i]}, P!MaxChain) : P!Base64(b) = {x[i]}
    BY <2>0, TextDecoded
  <2>2. x[i].form = "base64"
    BY <2>1 DEF P!Base64, P!Text
  <2> QED BY <1>3, <2>2 DEF P!TextSize
<1> DEFINE u == [i \in DOMAIN x |-> 3 + P!TextSize(x[i])]
           s == P!Sizes(x)
<1>5. DOMAIN u = 1 .. Len(x) /\ \A i \in 1 .. Len(x) : u[i] = 3 + P!TextSize(x[i])
  BY <1>3
<1>6. \A k \in Nat : /\ 3 + (4 * k + 2) \div 3 \in Nat
                     /\ 3 * (3 + (4 * k + 2) \div 3) <= 4 * k + 11
  OBVIOUS
<1>7. \A i \in 1 .. Len(x) : u[i] \in Nat /\ 3 * u[i] <= 4 * x[i].n + 11
  BY <1>4, <1>5, <1>6
<1>8. u = [i \in 1 .. Len(x) |-> u[i]]
  BY <1>3
<1>9. P!FieldSize("certificate_chain", x) = 1 + P!SumOf(u)
  <2>1. "certificate_chain" \notin P!Base64Fields \cup P!HexFields
    BY DEF P!Base64Fields, P!HexFields
  <2> QED BY <2>1 DEF P!FieldSize
<1> HIDE DEF u
<1>10. u \in Seq(Nat) /\ Len(u) = Len(x)
  <2>1. u \in [1 .. Len(x) -> Nat]
    BY <1>7, <1>8
  <2>2. u \in Seq(Nat)
    BY <1>3, <2>1, SeqDef
  <2> QED BY <1>3, <1>5, <2>2
<1>11. s \in Seq(Nat) /\ Len(s) = Len(x) /\ \A i \in 1 .. Len(x) : s[i] = x[i].n
  <2>1. \A y \in [n : Nat, v : Nat, form : P!Forms] : y.n \in Nat
    OBVIOUS
  <2> QED BY <1>2, <2>1, SizesAre
<1>12. Len(x) <= 9
  <2>1. \A n \in 1 .. 8 : n <= 9
    OBVIOUS
  <2> QED BY <1>1, <2>1 DEF P!MaxCertificates
<1> HIDE DEF s
<1>13. 3 * P!SumOf(u) <= 4 * P!SumOf(s) + 99 /\ P!SumOf(s) \in Nat /\ P!SumOf(u) \in Nat
  <2>1. \A i \in 1 .. Len(s) : 3 * u[i] <= 4 * s[i] + 11
    BY <1>7, <1>11
  <2> QED BY <1>10, <1>11, <1>12, <2>1, SumScaled, SumAtLeast
<1>14. P!SumOf(s) <= 47104
  <2>1. P!MaxChain = 47104
    BY DEF P!MaxChain
  <2> QED BY <1>1, <2>1 DEF P!ChainBytes, s
<1>15. \A a, b \in Nat : 3 * a <= 4 * b + 99 /\ b <= 47104 => 35 + (1 + a) \in Nat /\ 35 + (1 + a) <= 64000
  OBVIOUS
<1>16. P!OptionalSize("certificate_chain", o) = 35 + (1 + P!SumOf(u))
  BY <1>2, <1>9, OptionalSizeIs
<1> QED BY <1>13, <1>14, <1>15, <1>16

\* The size of a field that was checked.
LEMMA SizeIs ==
    ASSUME NEW name, NEW o, P!Optional(name, o), Bounded(name, o)
    PROVE  /\ P!OptionalSize(name, o) \in Nat
           /\ P!OptionalSize(name, o) <= IF name \in LongFields THEN 64000 ELSE 101
<1>1. CASE o = {}
  BY <1>1, OptionalSizeIs
<1>2. CASE name \in P!Base64Fields \ LongFields /\ o # {}
  <2>0. PICK w \in {16, 32} : P!Base64Exact(o, w) # {}
    BY <1>2 DEF Bounded
  <2>1. PICK b \in P!Base64Exact(o, w) : P!Base64(b) = o /\ b.n = w
    BY <2>0, TextDecoded
  <2>2. P!OptionalSize(name, o) = 37 + (4 * w + 2) \div 3
    BY <1>2, <2>1, TextSizeIs
  <2> QED BY <1>2, <2>1, <2>2
<1>3. CASE name \in {"core_csr", "app_csr"} /\ o # {}
  <2>1. PICK b \in P!Base64Bounded(o, P!MaxCsr) : P!Base64(b) = o /\ b.n \in 1 .. P!MaxCsr
    BY <1>3, TextDecoded DEF Bounded
  <2>2. P!MaxCsr = 16384 /\ name \in P!Base64Fields /\ name \in LongFields
    BY <1>3 DEF P!MaxCsr, P!Base64Fields, LongFields
  <2>3. \A m \in Nat : \A k \in 1 .. m : k \in Nat /\ k <= m
    OBVIOUS
  <2>4. b.n \in Nat /\ b.n <= 16384
    <3>1. P!MaxCsr \in Nat
      BY <2>2
    <3>2. b.n \in Nat /\ b.n <= P!MaxCsr
      BY <2>1, <2>3, <3>1
    <3> QED BY <2>2, <3>2
  <2>5. P!OptionalSize(name, o) = 37 + (4 * b.n + 2) \div 3
    BY <2>1, <2>2, <2>4, TextSizeIs
  <2>6. \A k \in Nat : k <= 16384 => 37 + (4 * k + 2) \div 3 \in Nat /\ 37 + (4 * k + 2) \div 3 <= 64000
    OBVIOUS
  <2> QED BY <2>2, <2>4, <2>5, <2>6
<1>4. CASE name \in P!HexFields /\ o # {}
  <2>1. PICK b \in P!HexExact(o, P!Digest) : P!Hex(b) = o /\ b.n = P!Digest
    BY <1>4, TextDecoded DEF Bounded
  <2>2. P!OptionalSize(name, o) = 37 + 2 * 32 /\ name \notin LongFields
    BY <1>4, <2>1, TextSizeIs DEF P!Digest, P!HexFields, LongFields
  <2> QED BY <2>2
<1>5. CASE name = "certificate_chain" /\ o # {}
  BY <1>5, ChainSize DEF Bounded, LongFields
<1>6. CASE name \notin P!Base64Fields \cup P!HexFields \cup LongFields /\ o # {}
  <2>1. PICK x : o = {x}
    BY <1>6 DEF P!Optional
  <2>2. P!FieldSize(name, x) \in {66, 20}
    BY <1>6 DEF P!FieldSize, LongFields, P!MaxSession
  <2>3. P!OptionalSize(name, o) \in {101, 55}
    BY <2>1, <2>2, OptionalSizeIs
  <2> QED BY <1>6, <2>3
<1>7. LongFields = {"core_csr", "app_csr", "certificate_chain"}
  BY DEF LongFields
<1> QED BY <1>1, <1>2, <1>3, <1>4, <1>5, <1>6, <1>7

\* A struct of at most nine fields, one of which may be long.
ShortLayout(s) ==
    /\ Len(s) \in 0 .. 9 /\ DOMAIN s = 1 .. Len(s)
    /\ \E k \in 1 .. 9 : \A i \in DOMAIN s : i # k => s[i] \notin LongFields

\* Every struct is one.
LEMMA LayoutIs ==
    /\ DOMAIN P!Fields = DOMAIN P!Layout
    /\ \A t \in DOMAIN P!Layout : /\ ShortLayout(P!Layout[t])
                                 /\ P!Fields[t] = {P!Layout[t][i] : i \in DOMAIN P!Layout[t]}
<1>1. /\ DOMAIN P!Fields = DOMAIN P!Layout
      /\ \A t \in DOMAIN P!Layout : P!Fields[t] = {P!Layout[t][i] : i \in DOMAIN P!Layout[t]}
  BY DEF P!Fields
<1>2. ShortLayout(P!Layout["start"])
  <2> DEFINE s == <<"request_id", "core_csr", "app_csr_digest", "normalized_session",
                    "core_binding_digest", "configuration_generation">>
  <2>1. Len(s) = 6 /\ DOMAIN s = 1 .. 6 /\ \A i \in DOMAIN s : i # 2 => s[i] \notin LongFields
    BY DEF LongFields
  <2>2. P!Layout["start"] = s
    BY DEF P!Layout
  <2> HIDE DEF s
  <2>3. ShortLayout(s)
    BY <2>1 DEF ShortLayout
  <2> QED BY <2>2, <2>3
<1>3. ShortLayout(P!Layout["challenge"])
  <2> DEFINE s == <<"bootstrap_id", "challenge", "expires_at_epoch_seconds", "status">>
  <2>1. Len(s) = 4 /\ DOMAIN s = 1 .. 4 /\ \A i \in DOMAIN s : i # 9 => s[i] \notin LongFields
    BY DEF LongFields
  <2>2. P!Layout["challenge"] = s
    BY DEF P!Layout
  <2> HIDE DEF s
  <2>3. ShortLayout(s)
    BY <2>1 DEF ShortLayout
  <2> QED BY <2>2, <2>3
<1>4. ShortLayout(P!Layout["submit"])
  <2> DEFINE s == <<"bootstrap_id", "challenge", "code">>
  <2>1. Len(s) = 3 /\ DOMAIN s = 1 .. 3 /\ \A i \in DOMAIN s : i # 9 => s[i] \notin LongFields
    BY DEF LongFields
  <2>2. P!Layout["submit"] = s
    BY DEF P!Layout
  <2> HIDE DEF s
  <2>3. ShortLayout(s)
    BY <2>1 DEF ShortLayout
  <2> QED BY <2>2, <2>3
<1>5. ShortLayout(P!Layout["core_issued"])
  <2> DEFINE s == <<"approval_id", "core_identity", "certificate_chain",
                    "not_after_epoch_seconds", "state">>
  <2>1. Len(s) = 5 /\ DOMAIN s = 1 .. 5 /\ \A i \in DOMAIN s : i # 3 => s[i] \notin LongFields
    BY DEF LongFields
  <2>2. P!Layout["core_issued"] = s
    BY DEF P!Layout
  <2> HIDE DEF s
  <2>3. ShortLayout(s)
    BY <2>1 DEF ShortLayout
  <2> QED BY <2>2, <2>3
<1>6. ShortLayout(P!Layout["reconcile"])
  <2> DEFINE s == <<"approval_id", "core_binding_digest", "normalized_session">>
  <2>1. Len(s) = 3 /\ DOMAIN s = 1 .. 3 /\ \A i \in DOMAIN s : i # 9 => s[i] \notin LongFields
    BY DEF LongFields
  <2>2. P!Layout["reconcile"] = s
    BY DEF P!Layout
  <2> HIDE DEF s
  <2>3. ShortLayout(s)
    BY <2>1 DEF ShortLayout
  <2> QED BY <2>2, <2>3
<1>7. ShortLayout(P!Layout["result"])
  <2> DEFINE s == <<"approval_id", "status", "core_identity", "certificate_chain",
                    "not_after_epoch_seconds", "rejection_code">>
  <2>1. Len(s) = 6 /\ DOMAIN s = 1 .. 6 /\ \A i \in DOMAIN s : i # 4 => s[i] \notin LongFields
    BY DEF LongFields
  <2>2. P!Layout["result"] = s
    BY DEF P!Layout
  <2> HIDE DEF s
  <2>3. ShortLayout(s)
    BY <2>1 DEF ShortLayout
  <2> QED BY <2>2, <2>3
<1>8. ShortLayout(P!Layout["rejected"])
  <2> DEFINE s == <<"rejection_code">>
  <2>1. Len(s) = 1 /\ DOMAIN s = 1 .. 1 /\ \A i \in DOMAIN s : i # 9 => s[i] \notin LongFields
    BY DEF LongFields
  <2>2. P!Layout["rejected"] = s
    BY DEF P!Layout
  <2> HIDE DEF s
  <2>3. ShortLayout(s)
    BY <2>1 DEF ShortLayout
  <2> QED BY <2>2, <2>3
<1>9. ShortLayout(P!Layout["first_app_submit"])
  <2> DEFINE s == <<"approval_id", "app_csr", "app_csr_digest">>
  <2>1. Len(s) = 3 /\ DOMAIN s = 1 .. 3 /\ \A i \in DOMAIN s : i # 2 => s[i] \notin LongFields
    BY DEF LongFields
  <2>2. P!Layout["first_app_submit"] = s
    BY DEF P!Layout
  <2> HIDE DEF s
  <2>3. ShortLayout(s)
    BY <2>1 DEF ShortLayout
  <2> QED BY <2>2, <2>3
<1>10. ShortLayout(P!Layout["approval_start"])
  <2> DEFINE s == <<"app_csr_digest", "normalized_session", "core_binding_digest",
                    "configuration_generation">>
  <2>1. Len(s) = 4 /\ DOMAIN s = 1 .. 4 /\ \A i \in DOMAIN s : i # 9 => s[i] \notin LongFields
    BY DEF LongFields
  <2>2. P!Layout["approval_start"] = s
    BY DEF P!Layout
  <2> HIDE DEF s
  <2>3. ShortLayout(s)
    BY <2>1 DEF ShortLayout
  <2> QED BY <2>2, <2>3
<1>11. ShortLayout(P!Layout["approval_challenge"])
  <2> DEFINE s == <<"approval_id", "challenge", "expires_at_epoch_seconds">>
  <2>1. Len(s) = 3 /\ DOMAIN s = 1 .. 3 /\ \A i \in DOMAIN s : i # 9 => s[i] \notin LongFields
    BY DEF LongFields
  <2>2. P!Layout["approval_challenge"] = s
    BY DEF P!Layout
  <2> HIDE DEF s
  <2>3. ShortLayout(s)
    BY <2>1 DEF ShortLayout
  <2> QED BY <2>2, <2>3
<1>12. ShortLayout(P!Layout["approval_submit"])
  <2> DEFINE s == <<"approval_id", "challenge", "code", "app_csr", "app_csr_digest">>
  <2>1. Len(s) = 5 /\ DOMAIN s = 1 .. 5 /\ \A i \in DOMAIN s : i # 4 => s[i] \notin LongFields
    BY DEF LongFields
  <2>2. P!Layout["approval_submit"] = s
    BY DEF P!Layout
  <2> HIDE DEF s
  <2>3. ShortLayout(s)
    BY <2>1 DEF ShortLayout
  <2> QED BY <2>2, <2>3
<1>13. ShortLayout(P!Layout["confirm_persisted"])
  <2> DEFINE s == <<"approval_id", "app_identity", "issued_certificate_fingerprint",
                    "issued_certificate_chain_digest", "configuration_generation">>
  <2>1. Len(s) = 5 /\ DOMAIN s = 1 .. 5 /\ \A i \in DOMAIN s : i # 9 => s[i] \notin LongFields
    BY DEF LongFields
  <2>2. P!Layout["confirm_persisted"] = s
    BY DEF P!Layout
  <2> HIDE DEF s
  <2>3. ShortLayout(s)
    BY <2>1 DEF ShortLayout
  <2> QED BY <2>2, <2>3
<1>14. ShortLayout(P!Layout["reconcile3"])
  <2> DEFINE s == <<"approval_id", "app_csr_digest", "normalized_session",
                    "core_binding_digest", "configuration_generation">>
  <2>1. Len(s) = 5 /\ DOMAIN s = 1 .. 5 /\ \A i \in DOMAIN s : i # 9 => s[i] \notin LongFields
    BY DEF LongFields
  <2>2. P!Layout["reconcile3"] = s
    BY DEF P!Layout
  <2> HIDE DEF s
  <2>3. ShortLayout(s)
    BY <2>1 DEF ShortLayout
  <2> QED BY <2>2, <2>3
<1>15. ShortLayout(P!Layout["renew"])
  <2> DEFINE s == <<"existing_app_identity", "app_csr", "app_csr_digest", "normalized_session",
                    "core_binding_digest", "configuration_generation">>
  <2>1. Len(s) = 6 /\ DOMAIN s = 1 .. 6 /\ \A i \in DOMAIN s : i # 2 => s[i] \notin LongFields
    BY DEF LongFields
  <2>2. P!Layout["renew"] = s
    BY DEF P!Layout
  <2> HIDE DEF s
  <2>3. ShortLayout(s)
    BY <2>1 DEF ShortLayout
  <2> QED BY <2>2, <2>3
<1>16. ShortLayout(P!Layout["result3"])
  <2> DEFINE s == <<"approval_id", "status", "app_identity", "certificate_chain",
                    "certificate_fingerprint", "certificate_chain_digest",
                    "not_after_epoch_seconds", "configuration_generation", "rejection_code">>
  <2>1. Len(s) = 9 /\ DOMAIN s = 1 .. 9 /\ \A i \in DOMAIN s : i # 4 => s[i] \notin LongFields
    BY DEF LongFields
  <2>2. P!Layout["result3"] = s
    BY DEF P!Layout
  <2> HIDE DEF s
  <2>3. ShortLayout(s)
    BY <2>1 DEF ShortLayout
  <2> QED BY <2>2, <2>3
<1> QED BY <1>1, <1>2, <1>3, <1>4, <1>5, <1>6, <1>7, <1>8, <1>9, <1>10, <1>11, <1>12, <1>13, <1>14, <1>15, <1>16, FieldsAre

\* What is accepted has fields that were checked.
LEMMA FieldsBounded ==
    ASSUME NEW t \in DOMAIN P!Fields, NEW p, Struct(t, p), P!Decode(t, p) # {}
    PROVE  \A name \in P!Fields[t] : Bounded(name, p[name])
<1>0. /\ \A o : P!Base64Exact(o, P!RequestId) # {} \/ P!Base64Exact(o, P!Id) # {} \/ P!Base64Exact(o, P!Digest) # {}
                => \E w \in {16, 32} : P!Base64Exact(o, w) # {}
  BY DEF P!RequestId, P!Id, P!Digest
<1>1. CASE t = "start"
  <2>1. P!DecodeStart(p) # {}
    BY <1>1 DEF P!Decode
  <2>2. /\ P!Base64Exact(p.request_id, P!RequestId) # {}
        /\ P!Base64Bounded(p.core_csr, P!MaxCsr) # {}
        /\ P!HexExact(p.app_csr_digest, P!Digest) # {}
        /\ P!HexExact(p.core_binding_digest, P!Digest) # {}
    BY <2>1 DEF P!DecodeStart
  <2>3. P!Fields[t] = {"request_id", "core_csr", "app_csr_digest", "normalized_session",
                       "core_binding_digest", "configuration_generation"}
    BY <1>1, FieldsAre
  <2> QED BY <1>0, <2>2, <2>3 DEF Bounded, LongFields, P!Base64Fields, P!HexFields
<1>2. CASE t = "challenge"
  <2>1. P!DecodeChallenge(p) # {}
    BY <1>2 DEF P!Decode
  <2>2. /\ P!Base64Exact(p.bootstrap_id, P!Id) # {}
        /\ P!Base64Exact(p.challenge, P!Digest) # {}
    BY <2>1 DEF P!DecodeChallenge
  <2>3. P!Fields[t] = {"bootstrap_id", "challenge", "expires_at_epoch_seconds", "status"}
    BY <1>2, FieldsAre
  <2> QED BY <1>0, <2>2, <2>3 DEF Bounded, LongFields, P!Base64Fields, P!HexFields
<1>3. CASE t = "submit"
  <2>1. P!DecodeSubmit(p) # {}
    BY <1>3 DEF P!Decode
  <2>2. /\ P!Base64Exact(p.bootstrap_id, P!Id) # {}
        /\ P!Base64Exact(p.challenge, P!Digest) # {}
    BY <2>1 DEF P!DecodeSubmit
  <2>3. P!Fields[t] = {"bootstrap_id", "challenge", "code"}
    BY <1>3, FieldsAre
  <2> QED BY <1>0, <2>2, <2>3 DEF Bounded, LongFields, P!Base64Fields, P!HexFields
<1>4. CASE t = "core_issued"
  <2>1. P!DecodeCoreIssued(p) # {}
    BY <1>4 DEF P!Decode
  <2>2. /\ P!Base64Exact(p.approval_id, P!Id) # {}
        /\ P!HexExact(p.core_identity, P!Digest) # {}
        /\ P!DecodeChain(p.certificate_chain) # {}
    BY <2>1 DEF P!DecodeCoreIssued
  <2>3. P!Fields[t] = {"approval_id", "core_identity", "certificate_chain",
                       "not_after_epoch_seconds", "state"}
    BY <1>4, FieldsAre
  <2> QED BY <1>0, <2>2, <2>3 DEF Bounded, LongFields, P!Base64Fields, P!HexFields
<1>5. CASE t = "reconcile"
  <2>1. P!DecodeReconcile(p) # {}
    BY <1>5 DEF P!Decode
  <2>2. /\ P!Base64Exact(p.approval_id, P!Id) # {}
        /\ P!HexExact(p.core_binding_digest, P!Digest) # {}
    BY <2>1 DEF P!DecodeReconcile
  <2>3. P!Fields[t] = {"approval_id", "core_binding_digest", "normalized_session"}
    BY <1>5, FieldsAre
  <2> QED BY <1>0, <2>2, <2>3 DEF Bounded, LongFields, P!Base64Fields, P!HexFields
<1>6. CASE t = "result"
  <2>1. P!DecodeResult(p) # {}
    BY <1>6 DEF P!Decode
  <2>2. /\ P!Base64Exact(p.approval_id, P!Id) # {}
        /\ p.core_identity = {} \/ P!HexExact(p.core_identity, P!Digest) # {}
        /\ p.certificate_chain = {} \/ P!DecodeChain(p.certificate_chain) # {}
    BY <2>1 DEF P!DecodeResult, P!ResultValid, P!ResultFields
  <2>3. P!Fields[t] = {"approval_id", "status", "core_identity", "certificate_chain",
                       "not_after_epoch_seconds", "rejection_code"}
    BY <1>6, FieldsAre DEF P!ResultFields
  <2> QED BY <1>0, <2>2, <2>3 DEF Bounded, LongFields, P!Base64Fields, P!HexFields
<1>7. CASE t = "rejected"
  <2>1. P!DecodeRejected(p) # {}
    BY <1>7 DEF P!Decode
  <2>2. P!Fields[t] = {"rejection_code"}
    BY <1>7, FieldsAre
  <2> QED BY <1>0, <2>2 DEF Bounded, LongFields, P!Base64Fields, P!HexFields
<1>8. CASE t = "first_app_submit"
  <2>1. P!DecodeFirstAppSubmit(p) # {}
    BY <1>8 DEF P!Decode
  <2>2. /\ P!Base64Exact(p.approval_id, P!Id) # {}
        /\ P!Base64Bounded(p.app_csr, P!MaxCsr) # {}
        /\ P!HexExact(p.app_csr_digest, P!Digest) # {}
    BY <2>1 DEF P!DecodeFirstAppSubmit, P!BoundCsr
  <2>3. P!Fields[t] = {"approval_id", "app_csr", "app_csr_digest"}
    BY <1>8, FieldsAre
  <2> QED BY <1>0, <2>2, <2>3 DEF Bounded, LongFields, P!Base64Fields, P!HexFields
<1>9. CASE t = "approval_start"
  <2>1. P!DecodeApprovalStart(p) # {}
    BY <1>9 DEF P!Decode
  <2>2. /\ P!HexExact(p.app_csr_digest, P!Digest) # {}
        /\ P!HexExact(p.core_binding_digest, P!Digest) # {}
    BY <2>1 DEF P!DecodeApprovalStart
  <2>3. P!Fields[t] = {"app_csr_digest", "normalized_session", "core_binding_digest",
                       "configuration_generation"}
    BY <1>9, FieldsAre
  <2> QED BY <1>0, <2>2, <2>3 DEF Bounded, LongFields, P!Base64Fields, P!HexFields
<1>10. CASE t = "approval_challenge"
  <2>1. P!DecodeApprovalChallenge(p) # {}
    BY <1>10 DEF P!Decode
  <2>2. /\ P!Base64Exact(p.approval_id, P!Id) # {}
        /\ P!Base64Exact(p.challenge, P!Digest) # {}
    BY <2>1 DEF P!DecodeApprovalChallenge
  <2>3. P!Fields[t] = {"approval_id", "challenge", "expires_at_epoch_seconds"}
    BY <1>10, FieldsAre
  <2> QED BY <1>0, <2>2, <2>3 DEF Bounded, LongFields, P!Base64Fields, P!HexFields
<1>11. CASE t = "approval_submit"
  <2>1. P!DecodeApprovalSubmit(p) # {}
    BY <1>11 DEF P!Decode
  <2>2. /\ P!Base64Exact(p.approval_id, P!Id) # {}
        /\ P!Base64Exact(p.challenge, P!Digest) # {}
        /\ P!Base64Bounded(p.app_csr, P!MaxCsr) # {}
        /\ P!HexExact(p.app_csr_digest, P!Digest) # {}
    BY <2>1 DEF P!DecodeApprovalSubmit, P!BoundCsr
  <2>3. P!Fields[t] = {"approval_id", "challenge", "code", "app_csr", "app_csr_digest"}
    BY <1>11, FieldsAre
  <2> QED BY <1>0, <2>2, <2>3 DEF Bounded, LongFields, P!Base64Fields, P!HexFields
<1>12. CASE t = "confirm_persisted"
  <2>1. P!DecodeConfirmPersisted(p) # {}
    BY <1>12 DEF P!Decode
  <2>2. /\ P!Base64Exact(p.approval_id, P!Id) # {}
        /\ P!HexExact(p.app_identity, P!Digest) # {}
        /\ P!HexExact(p.issued_certificate_fingerprint, P!Digest) # {}
        /\ P!HexExact(p.issued_certificate_chain_digest, P!Digest) # {}
    BY <2>1 DEF P!DecodeConfirmPersisted
  <2>3. P!Fields[t] = {"approval_id", "app_identity", "issued_certificate_fingerprint",
                       "issued_certificate_chain_digest", "configuration_generation"}
    BY <1>12, FieldsAre
  <2> QED BY <1>0, <2>2, <2>3 DEF Bounded, LongFields, P!Base64Fields, P!HexFields
<1>13. CASE t = "reconcile3"
  <2>1. P!DecodeReconcile3(p) # {}
    BY <1>13 DEF P!Decode
  <2>2. /\ P!Base64Exact(p.approval_id, P!Id) # {}
        /\ P!HexExact(p.app_csr_digest, P!Digest) # {}
        /\ P!HexExact(p.core_binding_digest, P!Digest) # {}
    BY <2>1 DEF P!DecodeReconcile3
  <2>3. P!Fields[t] = {"approval_id", "app_csr_digest", "normalized_session",
                       "core_binding_digest", "configuration_generation"}
    BY <1>13, FieldsAre
  <2> QED BY <1>0, <2>2, <2>3 DEF Bounded, LongFields, P!Base64Fields, P!HexFields
<1>14. CASE t = "renew"
  <2>1. P!DecodeRenew(p) # {}
    BY <1>14 DEF P!Decode
  <2>2. /\ P!HexExact(p.existing_app_identity, P!Digest) # {}
        /\ P!Base64Bounded(p.app_csr, P!MaxCsr) # {}
        /\ P!HexExact(p.app_csr_digest, P!Digest) # {}
        /\ P!HexExact(p.core_binding_digest, P!Digest) # {}
    BY <2>1 DEF P!DecodeRenew, P!BoundCsr
  <2>3. P!Fields[t] = {"existing_app_identity", "app_csr", "app_csr_digest",
                       "normalized_session", "core_binding_digest", "configuration_generation"}
    BY <1>14, FieldsAre
  <2> QED BY <1>0, <2>2, <2>3 DEF Bounded, LongFields, P!Base64Fields, P!HexFields
<1>15. CASE t = "result3"
  <2>1. P!DecodeResult3(p) # {}
    BY <1>15 DEF P!Decode
  <2>2. /\ P!Base64Exact(p.approval_id, P!Id) # {}
        /\ p.app_identity = {} \/ P!HexExact(p.app_identity, P!Digest) # {}
        /\ p.certificate_chain = {} \/ P!DecodeChain(p.certificate_chain) # {}
        /\ p.certificate_fingerprint = {} \/ P!HexExact(p.certificate_fingerprint, P!Digest) # {}
        /\ p.certificate_chain_digest = {} \/ P!HexExact(p.certificate_chain_digest, P!Digest) # {}
    BY <2>1 DEF P!DecodeResult3, P!Result3Valid, P!Result3Fields
  <2>3. P!Fields[t] = {"approval_id", "status", "app_identity", "certificate_chain",
                       "certificate_fingerprint", "certificate_chain_digest",
                       "not_after_epoch_seconds", "configuration_generation", "rejection_code"}
    BY <1>15, FieldsAre DEF P!Result3Fields
  <2> QED BY <1>0, <2>2, <2>3 DEF Bounded, LongFields, P!Base64Fields, P!HexFields
<1> QED BY <1>1, <1>2, <1>3, <1>4, <1>5, <1>6, <1>7, <1>8, <1>9, <1>10, <1>11, <1>12, <1>13, <1>14, <1>15, FieldsAre

\* Whatever a decoder accepts fits a frame.
LEMMA AcceptedFits ==
    ASSUME NEW t \in DOMAIN P!Fields, NEW p, Struct(t, p), P!Decode(t, p) # {}
    PROVE  P!JsonSize(t, p) <= P!MaxPayload
<1> DEFINE s == P!Layout[t]
           z == [i \in DOMAIN s |-> P!OptionalSize(s[i], p[s[i]])]
<1>1. ShortLayout(s) /\ P!Fields[t] = {s[i] : i \in DOMAIN s}
  BY LayoutIs
<1>2. P!JsonSize(t, p) = 1 + P!SumOf(z)
  BY DEF P!JsonSize
<1> HIDE DEF s
<1>3. Len(s) \in 0 .. 9 /\ DOMAIN s = 1 .. Len(s)
  BY <1>1 DEF ShortLayout
<1>4. PICK k \in 1 .. 9 : \A i \in DOMAIN s : i # k => s[i] \notin LongFields
  BY <1>1 DEF ShortLayout
<1>5. ASSUME NEW i \in DOMAIN s
      PROVE  /\ z[i] \in Nat
             /\ z[i] <= IF s[i] \in LongFields THEN 64000 ELSE 101
  <2>1. s[i] \in P!Fields[t] /\ s[i] \in DOMAIN p
    BY <1>1 DEF Struct
  <2>2. P!Optional(s[i], p[s[i]]) /\ Bounded(s[i], p[s[i]])
    BY <2>1, FieldsBounded DEF Struct
  <2>3. z[i] = P!OptionalSize(s[i], p[s[i]])
    OBVIOUS
  <2> QED BY <2>2, <2>3, SizeIs
<1>6. DOMAIN z = 1 .. Len(s) /\ z = [i \in 1 .. Len(s) |-> z[i]]
  BY <1>3
<1> HIDE DEF z
<1>7. z \in Seq(Nat) /\ Len(z) = Len(s)
  <2>1. z \in [1 .. Len(s) -> Nat] /\ Len(s) \in Nat
    BY <1>3, <1>5, <1>6
  <2>2. z \in Seq(Nat)
    BY <2>1, SeqDef
  <2> QED BY <1>6, <2>1, <2>2
<1>8. \A i \in 1 .. Len(z) : z[i] <= 64000 /\ (i # k => z[i] <= 101)
  BY <1>3, <1>4, <1>5, <1>7
<1>9. P!SumOf(z) \in Nat /\ P!SumOf(z) <= 909 + 64000
  <2>1. Len(z) <= 9
    <3>1. \A n \in 0 .. 9 : n <= 9
      OBVIOUS
    <3> QED BY <1>3, <1>7, <3>1
  <2>2. k \in Nat /\ (k \in 1 .. Len(z) => z[k] <= 64000)
    BY <1>8
  <2> QED BY <1>7, <1>8, <2>1, <2>2, SumAtMost
<1>10. P!MaxPayload = 65525
  BY DEF P!MaxPayload
<1> QED BY <1>2, <1>9, <1>10

-----------------------------------------------------------------------------
(* The payloads on the way *)

\* The inductive invariant: one payload at most, with the fields of its struct,
\* the one its constructor built until a field is replaced.
PayloadInv ==
    /\ payloadType \in P!Types /\ fields \in Inputs[payloadType] /\ tampers \in 0 .. MaxTampers
    /\ \A p \in payload : payload = {p} /\ Struct(payloadType, p)
    /\ tampers = 0 => payload = P!New(payloadType, fields)

\* What is built is such a payload.
LEMMA PayloadStarts ==
    ASSUME P!Init
    PROVE  PayloadInv
<1>1. payloadType \in P!Types /\ fields \in Inputs[payloadType] /\ payload = P!New(payloadType, fields)
  BY DEF P!Init
<1>2. payloadType \in DOMAIN P!Fields /\ P!Arguments(payloadType, fields)
  BY <1>1, CodecAssumption
<1>3. tampers \in 0 .. MaxTampers
  BY CodecAssumption DEF P!Init
<1>4. \A p \in payload : payload = {p} /\ Struct(payloadType, p)
  BY <1>1, <1>2, NewIsStruct
<1> QED BY <1>1, <1>3, <1>4 DEF PayloadInv

\* A changed field holds one value or null.
LEMMA PayloadKept ==
    ASSUME PayloadInv, P!Next
    PROVE  PayloadInv'
<1>1. PICK p \in payload : \E name \in DOMAIN p : \E x \in Alternatives[name] :
        payload' = {[p EXCEPT ![name] = x]}
  BY DEF P!Next, P!Tamper
<1>2. PICK name \in DOMAIN p : \E x \in Alternatives[name] : payload' = {[p EXCEPT ![name] = x]}
  BY <1>1
<1>3. PICK x \in Alternatives[name] : payload' = {[p EXCEPT ![name] = x]}
  BY <1>2
<1>4. payloadType' = payloadType /\ payloadType \in P!Types /\ Struct(payloadType, p)
  BY DEF P!Next, P!Tamper, PayloadInv
<1>5. P!Optional(name, x)
  <2>1. name \in P!Fields[payloadType]
    BY <1>4 DEF Struct
  <2> QED BY <1>4, <2>1, CodecAssumption
<1> DEFINE q == [p EXCEPT ![name] = x]
<1>6. Struct(payloadType, q)
  BY <1>4, <1>5 DEF Struct, IsStruct
<1> HIDE DEF q
<1>7. payload' = {q}
  BY <1>3 DEF q
<1>8. /\ fields' = fields /\ fields \in Inputs[payloadType]
      /\ tampers' \in 0 .. MaxTampers /\ tampers' # 0
  BY CodecAssumption DEF P!Next, P!Tamper, PayloadInv
<1>9. \A r \in payload' : payload' = {r} /\ Struct(payloadType, r)
  BY <1>6, <1>7
<1>10. payload' = {q} /\ \A r \in {q} : {q} = {r} /\ Struct(payloadType, r)'
  BY <1>4, <1>6, <1>7 DEF Struct, IsStruct
<1> QED BY <1>4, <1>8, <1>10 DEF PayloadInv

\* The properties of the contracts' payloads follow.
LEMMA PayloadProperties ==
    ASSUME PayloadInv
    PROVE  /\ P!TypeOK /\ P!RoundTrip /\ P!FitsFrame
           /\ P!Canonical /\ P!DigestBinds /\ P!StatusDecides
<1>1. payloadType \in DOMAIN P!Fields /\ \A p \in payload : payload = {p} /\ Struct(payloadType, p)
  BY CodecAssumption DEF PayloadInv
<1>2. \A f \in P!Accepted :
        /\ P!New(payloadType, f) = payload
        /\ "app_csr" \in DOMAIN f => f.app_csr_digest = P!Sha256(f.app_csr)
        /\ payloadType \in {"result", "result3"} =>
             /\ (f.status \in {"issued", "active"}) = ("certificate_chain" \in DOMAIN f)
             /\ (f.status = "rejected") = ("rejection_code" \in DOMAIN f)
  <2>1. TAKE f \in P!Accepted
  <2>2. PICK p \in payload : f \in P!Decode(payloadType, p)
    BY <2>1 DEF P!Accepted
  <2>3. payload = {p} /\ Struct(payloadType, p)
    BY <1>1
  <2> QED BY <1>1, <2>2, <2>3, PayloadDecoded
<1>3. P!TypeOK
  <2>1. \A p \in payload : DOMAIN p = P!Fields[payloadType] /\ \A name \in DOMAIN p : P!Optional(name, p[name])
    BY <1>1 DEF Struct
  <2> QED BY <1>1, <2>1 DEF PayloadInv, P!TypeOK
<1>4. P!RoundTrip
  <2>1. SUFFICES ASSUME tampers = 0, payloadType \notin P!CoreBuilt, payload # {}
                 PROVE  P!Accepted = {fields}
    BY DEF P!RoundTrip
  <2>2. PICK p \in payload : payload = {p}
    BY <1>1, <2>1
  <2>3. p \in P!New(payloadType, fields) /\ P!Arguments(payloadType, fields)
    BY <2>1, <2>2, CodecAssumption DEF PayloadInv
  <2>4. P!Decode(payloadType, p) = {fields}
    BY <1>1, <2>1, <2>3, NewBack
  <2>5. P!Accepted = UNION {P!Decode(payloadType, r) : r \in {p}}
    BY <2>2 DEF P!Accepted
  <2> QED BY <2>4, <2>5
<1>5. P!FitsFrame
  <2>1. SUFFICES ASSUME P!Accepted # {}, NEW p \in payload
                 PROVE  P!JsonSize(payloadType, p) <= P!MaxPayload
    BY DEF P!FitsFrame
  <2>2. payload = {p} /\ Struct(payloadType, p)
    BY <1>1
  <2>3. P!Decode(payloadType, p) # {}
    BY <2>1, <2>2 DEF P!Accepted
  <2> QED BY <1>1, <2>2, <2>3, AcceptedFits
<1> QED BY <1>2, <1>3, <1>4, <1>5 DEF P!Canonical, P!DigestBinds, P!StatusDecides

-----------------------------------------------------------------------------
(* The codecs *)

\* The inductive invariant of the codecs.
CodecInv == IF OnWire THEN WireInv ELSE PayloadInv

\* It holds at the start and every step keeps it.
LEMMA CodecInvariant == CodecSpec => []CodecInv
<1>1. ASSUME CodecInit PROVE CodecInv
  <2>1. CASE W!Init /\ payloadType = "none"
    BY <2>1, WireStarts DEF CodecInv, OnWire
  <2>2. CASE P!Init
    <3>1. PayloadInv
      BY <2>2, PayloadStarts
    <3>2. payloadType \in DOMAIN P!Fields
      BY <3>1, CodecAssumption DEF PayloadInv
    <3>3. payloadType # "none"
      BY <3>2, FieldsAre
    <3> QED BY <3>1, <3>3 DEF CodecInv, OnWire
  <2> QED BY <1>1, <2>1, <2>2 DEF CodecInit
<1>2. ASSUME CodecInv, [CodecNext]_codecVars PROVE CodecInv'
  <2>1. CASE OnWire /\ W!Next /\ UNCHANGED payloadVars
    <3>1. WireInv' /\ OnWire'
      BY <1>2, <2>1, WireKept DEF CodecInv, OnWire, payloadVars
    <3> QED BY <3>1 DEF CodecInv
  <2>2. CASE ~OnWire /\ P!Next /\ UNCHANGED wireVars
    <3>1. PayloadInv' /\ payloadType' = payloadType
      BY <1>2, <2>2, PayloadKept DEF CodecInv, P!Next, P!Tamper
    <3> QED BY <2>2, <3>1 DEF CodecInv, OnWire
  <2>3. CASE UNCHANGED codecVars
    <3>1. /\ type' = type /\ msg' = msg /\ bytes' = bytes
          /\ changed' = changed /\ resizes' = resizes
          /\ payloadType' = payloadType /\ payload' = payload
          /\ fields' = fields /\ tampers' = tampers
      BY <2>3 DEF codecVars, wireVars, payloadVars
    <3> QED BY <1>2, <3>1 DEF CodecInv, OnWire, WireInv, PayloadInv
  <2> QED BY <1>2, <2>1, <2>2, <2>3 DEF CodecNext
<1> QED BY <1>1, <1>2, PTL DEF CodecSpec

(***************************************************************************)
(* Every decoder is canonical: whatever bytes arrive, however they were    *)
(* changed, cut or extended, what is accepted is the encoding of what it   *)
(* decodes to; a payload that is accepted is the one its constructor       *)
(* builds; and the stream readers take exactly one message.                *)
(***************************************************************************)
THEOREM DecodingIsCanonical == CodecSpec => []Canonical
<1>1. ASSUME CodecInv PROVE Canonical
  BY <1>1, WireProperties, PayloadProperties DEF CodecInv, Canonical
<1> QED BY <1>1, CodecInvariant, PTL

(***************************************************************************)
(* What the handlers rely on: an accepted name names an entry of one       *)
(* directory, an accepted handle is not 0, an accepted request is the one  *)
(* of its digest, and a result has a certificate or a rejection code       *)
(* exactly where its status says so.                                       *)
(***************************************************************************)
THEOREM DecodedMessagesAreUsable == CodecSpec => []DecodedIsUsable
<1>1. ASSUME CodecInv PROVE DecodedIsUsable
  BY <1>1, WireProperties, PayloadProperties DEF CodecInv, DecodedIsUsable
<1> QED BY <1>1, CodecInvariant, PTL

(***************************************************************************)
(* Every message the relay writes is read back as itself, every payload a  *)
(* constructor of the relay builds as its arguments, and whatever payload  *)
(* is accepted fits a frame: for names, certificate requests and chains of *)
(* every length the code admits.                                           *)
(***************************************************************************)
THEOREM MessagesRoundTrip == CodecSpec => []RoundTrip
<1>1. ASSUME CodecInv PROVE RoundTrip
  BY <1>1, WireProperties, PayloadProperties DEF CodecInv, RoundTrip
<1> QED BY <1>1, CodecInvariant, PTL
=============================================================================
