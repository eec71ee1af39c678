-------------------------- MODULE ShmTransferProofs --------------------------
(* Proofs about ShmTransfer, for every number of blocks and every value left *)
(* in the semaphores: what holds when the writer is started after the reader *)
(* waits, and at the end what holds in whatever order the two are started.   *)
EXTENDS ShmTransfer, SequenceTheorems, TLAPS

\* Every reachable state has the type TypeOK gives it, in whatever order the
\* programs are started.
LEMMA TypeInit == Init => TypeOK
<1> SUFFICES ASSUME Init PROVE TypeOK
  OBVIOUS
<1>0. NBlocks \in Nat
  BY ShmAssumption
<1> USE <1>0
<1>1. blk \in ShmBlock
  <2>1. NoData \in Data
    BY DEF NoData, Data
  <2>2. {0, OldLen} \subseteq Lengths
    BY DEF OldLen, Lengths
  <2> QED
    BY <2>1, <2>2 DEF Init, ShmBlock
<1>2. sem \in [Sems -> Nat]
  BY ShmAssumption DEF Init
<1>3. dead \in SUBSET MayDie /\ taken \in 0 .. NBlocks /\ good \in BOOLEAN
        /\ seg \in BOOLEAN
  BY DEF Init
<1>4. wpc \in WriterStart /\ rpc \in ReaderStart
  BY DEF Init, WriterStart, ReaderStart
<1>5. out \in Seq(Piece)
  BY DEF Init
<1> QED
  BY <1>1, <1>2, <1>3, <1>4, <1>5 DEF TypeOK

LEMMA TypeStep == TypeOK /\ [Next]_vars => TypeOK'
<1> SUFFICES ASSUME TypeOK, [Next]_vars PROVE TypeOK'
  OBVIOUS
<1>0. NBlocks \in Nat
  BY ShmAssumption
<1> USE <1>0 DEF TypeOK
<1>1. CASE Writer
  <2> USE DEF WriterGoes, setval, reserve, release, Sems, SEM_WRITER,
          SEM_READER, WriterStart, WriterAccess
  <2>1. CASE WriterAttach
    BY <2>1 DEF WriterAttach
  <2>2. CASE WriterInitW
    BY <2>2 DEF WriterInitW
  <2>3. CASE WriterInitR
    BY <2>3 DEF WriterInitR
  <2>4. CASE WriterReserve
    BY <2>4 DEF WriterReserve
  <2>5. CASE WriterTestInput
    BY <2>5 DEF WriterTestInput
  <2>6. CASE WriterFillBegin
    <3>1. [chunk |-> taken + 1, whole |-> FALSE] \in Data
      BY <2>6 DEF WriterFillBegin, Data
    <3>2. blk' \in ShmBlock
      BY <2>6, <3>1 DEF WriterFillBegin, ShmBlock
    <3> QED
      BY <2>6, <3>2 DEF WriterFillBegin
  <2>7. CASE WriterFillEnd
    BY <2>7 DEF WriterFillEnd, ShmBlock, Data
  <2>8. CASE WriterFillNothing
    BY <2>8 DEF WriterFillNothing
  <2>9. CASE WriterSetLength
    <3>1. taken \in Lengths
      BY DEF Lengths, OldLen
    <3>2. blk' \in ShmBlock
      BY <2>9, <3>1 DEF WriterSetLength, ShmBlock
    <3> QED
      BY <2>9, <3>2 DEF WriterSetLength
  <2>10. CASE WriterClearEof
    BY <2>10 DEF WriterClearEof, ShmBlock
  <2>11. CASE WriterRelease
    BY <2>11 DEF WriterRelease
  <2>12. CASE WriterZeroLength
    <3>1. 0 \in Lengths
      BY DEF Lengths, OldLen
    <3>2. blk' \in ShmBlock
      BY <2>12, <3>1 DEF WriterZeroLength, ShmBlock
    <3> QED
      BY <2>12, <3>2 DEF WriterZeroLength
  <2>13. CASE WriterSetEof
    BY <2>13 DEF WriterSetEof, ShmBlock
  <2>14. CASE WriterFinish
    BY <2>14 DEF WriterFinish
  <2> QED
    BY <1>1, <2>1, <2>2, <2>3, <2>4, <2>5, <2>6, <2>7, <2>8, <2>9, <2>10,
       <2>11, <2>12, <2>13, <2>14 DEF Writer
<1>2. CASE Reader
  <2> USE DEF ReaderGoes, setval, reserve, release, Sems, SEM_WRITER,
          SEM_READER, ReaderStart, ReaderAccess
  <2>1. CASE ReaderAttach
    BY <2>1 DEF ReaderAttach
  <2>2. CASE ReaderInitW
    BY <2>2 DEF ReaderInitW
  <2>3. CASE ReaderInitR
    BY <2>3 DEF ReaderInitR
  <2>4. CASE ReaderReserve
    BY <2>4 DEF ReaderReserve
  <2>5. CASE ReaderTestEof
    BY <2>5 DEF ReaderTestEof
  <2>6. CASE ReaderTestLength
    BY <2>6 DEF ReaderTestLength
  <2>7. CASE ReaderWriteBegin
    <3>1. [len |-> blk.nbytes, data |-> blk.data] \in Piece
      BY DEF ShmBlock, Piece
    <3>2. out' \in Seq(Piece)
      BY <2>7, <3>1, AppendProperties DEF ReaderWriteBegin
    <3> QED
      BY <2>7, <3>2 DEF ReaderWriteBegin
  <2>8. CASE ReaderWriteEnd
    <3> DEFINE n == Len(out)
               w == out[n].data.whole /\ blk.data = out[n].data
               e == [len |-> out[n].len,
                     data |-> [chunk |-> out[n].data.chunk, whole |-> w]]
    <3>1. CASE out = << >>
      <4>1. out' = out
        BY <2>8, <3>1 DEF ReaderWriteEnd
      <4> QED
        BY <2>8, <4>1 DEF ReaderWriteEnd
    <3>2. CASE out # << >>
      <4>1. n \in 1 .. Len(out)
        BY <3>2, EmptySeq
      <4>2. out[n] \in Piece
        BY <4>1, ElementOfSeq DEF Piece
      <4>3. e \in Piece
        BY <4>2 DEF Piece, Data
      <4>4. out' = [out EXCEPT ![n] = e]
        <5>1. out' = [out EXCEPT ![n] = [out[n] EXCEPT !.data = [out[n].data EXCEPT !.whole = w]]]
          BY <2>8 DEF ReaderWriteEnd
        <5>2. [out[n] EXCEPT !.data = [out[n].data EXCEPT !.whole = w]] = e
          BY SMTT(30), <4>2 DEF Piece, Data
        <5> QED
          BY <5>1, <5>2
      <4>5. out' \in Seq(Piece)
        BY <4>1, <4>3, <4>4, ExceptSeq
      <4> QED
        BY <2>8, <4>5 DEF ReaderWriteEnd
    <3> QED
      BY <3>1, <3>2
  <2>9. CASE ReaderRelease
    BY <2>9 DEF ReaderRelease
  <2>10. CASE ReaderFinish
    BY <2>10 DEF ReaderFinish
  <2> QED
    BY <1>2, <2>1, <2>2, <2>3, <2>4, <2>5, <2>6, <2>7, <2>8, <2>9, <2>10
       DEF Reader
<1>3. CASE \E p \in MayDie : Die(p)
  BY <1>3 DEF Die
<1>4. CASE UNCHANGED vars
  BY <1>4 DEF vars
<1> QED
  BY <1>1, <1>2, <1>3, <1>4 DEF Next

\* Every reachable state has the type TypeOK gives it, in whatever order the
\* programs are started.
THEOREM TypeCorrect == Spec => []TypeOK
<1>1. Init => TypeOK
  BY TypeInit
<1>2. TypeOK /\ [Next]_vars => TypeOK'
  BY TypeStep
<1> QED
  BY <1>1, <1>2, PTL DEF Spec

-----------------------------------------------------------------------------
(* The inductive invariant.                                                  *)

\* The writer starts when the reader is past its initialisation, and until the
\* writer has run its own the reader cannot pass its first reserve.
StartOrder ==
    /\ wpc # "attach" => rpc \notin ReaderStart
    /\ wpc \in WriterStart =>
          /\ rpc \in ReaderStart \cup {"reserve", "failed"}
          /\ rpc = "reserve" => sem[SEM_READER] = 0
          /\ taken = 0 /\ good /\ out = << >>
    /\ wpc = "setR" => sem[SEM_WRITER] = 1

\* The writer marks the end only when its input is used up.
EndOfInput ==
    /\ ~good => taken = NBlocks
    /\ wpc \in {"mark", "mark_n", "mark_e", "releof", "done"} =>
          taken = NBlocks

\* What the writer has put into the segment before it hands the segment over.
Whole(i) == [chunk |-> i, whole |-> TRUE]
Filled ==
    /\ wpc \in {"filling", "put", "put_n", "put_e", "release"} =>
          taken > 0 /\ blk.data.chunk = taken
    /\ wpc \in {"put", "put_n", "put_e", "release"} => blk.data = Whole(taken)
    /\ wpc \in {"put_e", "release"} => blk.nbytes = taken
    /\ wpc \in {"put_n", "release"} => blk.eof = 0
    /\ wpc \in {"mark_e", "releof"} => blk.nbytes = 0
    /\ wpc \in {"mark_n", "releof"} => blk.eof = 1

\* While the writer owns the segment, everything handed over was written out.
WriterOwns ==
    \/ wpc \in WriterAccess
    \/ wpc = "reserve" /\ sem[SEM_WRITER] = 1
WriterSide == WriterOwns => rpc \in {"reserve", "failed"} /\ Sent = Len(out)

\* While the reader owns the segment, or is about to, it holds either the one
\* block not written out yet or the end-of-file mark.
ReaderSide ==
    wpc \notin WriterStart =>
      /\ sem[SEM_READER] = 1 => rpc \in {"reserve", "failed"}
      /\ sem[SEM_READER] = 1 \/ rpc \in {"test", "testn", "write"} =>
            \/ /\ wpc = "reserve"
               /\ taken = Len(out) + 1
               /\ blk = [nbytes |-> taken, eof |-> 0, data |-> Whole(taken)]
               /\ rpc # "testn"
            \/ /\ wpc = "done"
               /\ taken = Len(out)
               /\ blk.nbytes = 0 /\ blk.eof = 1
               /\ rpc # "write"
      /\ rpc = "writing" =>
            Len(out) > 0 /\ blk.data = out[Len(out)].data
      /\ rpc \in {"writing", "release"} => wpc = "reserve" /\ taken = Len(out)
      /\ rpc \in {"releof", "done"} => wpc = "done" /\ taken = Len(out)
      /\ wpc = "done" /\ sem[SEM_WRITER] = 1 => rpc = "done"

Written == \A i \in 1 .. Len(out) : out[i] = [len |-> i, data |-> Whole(i)]

IInv ==
    /\ TypeOK
    /\ StartOrder
    /\ OneToken
    /\ EndOfInput
    /\ Filled
    /\ WriterSide
    /\ ReaderSide
    /\ Written

-----------------------------------------------------------------------------
LEMMA InvInit == ReaderFirst /\ Init => IInv
  BY TypeInit DEF Init, IInv, StartOrder, OneToken, EndOfInput, Filled,
     WriterSide, WriterOwns, ReaderSide, Written, WriterStart, WriterAccess,
     ReaderStart

\* A copy of a segment that did not change while it was copied is not torn.
LEMMA CopyUntorn ==
  ASSUME NEW s \in Seq(Piece), NEW n \in 1 .. Len(s),
         s[n] = [len |-> n, data |-> Whole(n)], NEW d, d = s[n].data
  PROVE  [s EXCEPT ![n].data.whole = @ /\ d = s[n].data] = s
<1> DEFINE t == [s EXCEPT ![n].data.whole = @ /\ d = s[n].data]
<1>1. s = [i \in 1 .. Len(s) |-> s[i]]
  BY LenProperties
<1>2. t = [i \in 1 .. Len(s) |-> t[i]]
  BY LenProperties
<1>3. s[n].data = Whole(n)
  OBVIOUS
<1>4. t[n] = s[n]
  <2> DEFINE w == Whole(n).whole /\ d = s[n].data
  <2>1. w = TRUE
    BY <1>3 DEF Whole
  <2>2. t[n] = [s[n] EXCEPT !.data = [Whole(n) EXCEPT !.whole = w]]
    BY <1>1, <1>3
  <2>3. [Whole(n) EXCEPT !.whole = TRUE] = Whole(n)
    <3>1. /\ Whole(n).whole = TRUE
          /\ Whole(n) = [x \in {"chunk", "whole"} |-> Whole(n)[x]]
      BY DEF Whole
    <3> QED
      BY <3>1
  <2>4. [s[n] EXCEPT !.data = Whole(n)] = s[n]
    OBVIOUS
  <2> QED
    BY <2>1, <2>2, <2>3, <2>4
<1>5. \A i \in 1 .. Len(s) : t[i] = s[i]
  BY <1>1, <1>4
<1> QED
  BY <1>1, <1>2, <1>5

LEMMA InvStep == ReaderFirst /\ IInv /\ [Next]_vars => IInv'
<1> SUFFICES ASSUME ReaderFirst, IInv, [Next]_vars PROVE IInv'
  OBVIOUS
<1>0. NBlocks \in Nat
  BY ShmAssumption
<1>1. TypeOK /\ TypeOK'
  BY TypeStep DEF IInv
<1>2. blk = [nbytes |-> blk.nbytes, eof |-> blk.eof, data |-> blk.data]
  BY <1>1 DEF TypeOK, ShmBlock
<1> USE <1>0, <1>1, <1>2 DEF IInv, TypeOK, StartOrder, OneToken, Holders, EndOfInput,
     Filled, WriterSide, WriterOwns, ReaderSide, Written, Whole, Sent,
     WriterStart, WriterAccess, ReaderStart, ReaderAccess, Sems, SEM_WRITER,
     SEM_READER, ShmBlock, Data
<1>3. CASE Writer
  <2> USE DEF WriterGoes, setval, reserve, release
  <2>1. CASE WriterAttach
    BY <2>1 DEF WriterAttach
  <2>2. CASE WriterInitW
    BY <2>2 DEF WriterInitW
  <2>3. CASE WriterInitR
    BY <2>3 DEF WriterInitR
  <2>4. CASE WriterReserve
    BY <2>4 DEF WriterReserve
  <2>5. CASE WriterTestInput
    BY <2>5 DEF WriterTestInput
  <2>6. CASE WriterFillBegin
    BY <2>6 DEF WriterFillBegin
  <2>7. CASE WriterFillEnd
    BY <2>7 DEF WriterFillEnd
  <2>8. CASE WriterFillNothing
    BY <2>8 DEF WriterFillNothing
  <2>9. CASE WriterSetLength
    BY <2>9 DEF WriterSetLength
  <2>10. CASE WriterClearEof
    BY <2>10 DEF WriterClearEof
  <2>11. CASE WriterRelease
    BY <2>11 DEF WriterRelease
  <2>12. CASE WriterZeroLength
    BY <2>12 DEF WriterZeroLength
  <2>13. CASE WriterSetEof
    BY <2>13 DEF WriterSetEof
  <2>14. CASE WriterFinish
    BY <2>14 DEF WriterFinish
  <2> QED
    BY <1>3, <2>1, <2>2, <2>3, <2>4, <2>5, <2>6, <2>7, <2>8, <2>9, <2>10, <2>11, <2>12, <2>13, <2>14 DEF Writer
<1>4. CASE Reader
  <2> USE DEF ReaderGoes, setval, reserve, release
  <2>1. CASE ReaderAttach
    BY <2>1 DEF ReaderAttach
  <2>2. CASE ReaderInitW
    BY <2>2 DEF ReaderInitW
  <2>3. CASE ReaderInitR
    BY <2>3 DEF ReaderInitR
  <2>4. CASE ReaderReserve
    BY <2>4 DEF ReaderReserve
  <2>5. CASE ReaderTestEof
    BY <2>5 DEF ReaderTestEof
  <2>6. CASE ReaderTestLength
    BY <2>6 DEF ReaderTestLength
  <2>7. CASE ReaderWriteBegin
    <3> DEFINE p == [len |-> blk.nbytes, data |-> blk.data]
    <3>1. rpc = "write" /\ rpc' = "writing" /\ out' = Append(out, p)
          /\ UNCHANGED <<wpc, seg, blk, sem, taken, good>>
      BY <2>7 DEF ReaderWriteBegin
    <3>2. /\ wpc = "reserve"
          /\ taken = Len(out) + 1
          /\ blk.nbytes = taken /\ blk.data = Whole(taken)
      BY <3>1
    <3>3. p \in Piece
      BY DEF Piece
    <3>4. /\ Len(out') = Len(out) + 1
          /\ \A i \in 1 .. Len(out) : out'[i] = out[i]
          /\ out'[Len(out) + 1] = p
      BY <3>1, <3>3, AppendProperties
    <3>5. Len(out) \in Nat
      BY LenProperties
    <3>6. Written'
      <4> SUFFICES ASSUME NEW i \in 1 .. Len(out')
                   PROVE  out'[i] = [len |-> i, data |-> Whole(i)]
        OBVIOUS
      <4>1. CASE i \in 1 .. Len(out)
        BY <3>4, <4>1
      <4>2. CASE i = Len(out) + 1
        BY <3>2, <3>4, <4>2
      <4> QED
        BY <3>4, <3>5, <4>1, <4>2
    <3>7. ReaderSide'
      BY <3>1, <3>2, <3>4, <3>5
    <3>8. StartOrder' /\ WriterSide'
      BY <3>1, <3>2, <3>4, <3>5
    <3>9. OneToken' /\ EndOfInput' /\ Filled'
      BY <3>1, <3>2
    <3> QED
      BY <3>6, <3>7, <3>8, <3>9
  <2>8. CASE ReaderWriteEnd
    <3>1. out' = out
      <4>1. Len(out) \in 1 .. Len(out) /\ blk.data = out[Len(out)].data
        BY <2>8, LenProperties DEF ReaderWriteEnd
      <4>2. out[Len(out)] = [len |-> Len(out), data |-> Whole(Len(out))]
        BY <4>1
      <4> QED
        BY <2>8, <4>1, <4>2, CopyUntorn DEF ReaderWriteEnd
    <3>2. rpc = "writing" /\ rpc' = "release" /\ UNCHANGED <<wpc, seg, blk, sem, taken, good>>
      BY <2>8 DEF ReaderWriteEnd
    <3> QED
      BY <3>1, <3>2
  <2>9. CASE ReaderRelease
    BY <2>9 DEF ReaderRelease
  <2>10. CASE ReaderFinish
    BY <2>10 DEF ReaderFinish
  <2> QED
    BY <1>4, <2>1, <2>2, <2>3, <2>4, <2>5, <2>6, <2>7, <2>8, <2>9, <2>10 DEF Reader
<1>5. CASE \E p \in MayDie : Die(p)
  BY <1>5 DEF Die
<1>6. CASE UNCHANGED vars
  BY <1>6 DEF vars
<1> QED
  BY <1>3, <1>4, <1>5, <1>6 DEF Next

-----------------------------------------------------------------------------
LEMMA Invariance == ASSUME ReaderFirst PROVE Spec => []IInv
<1>1. Init => IInv
  BY InvInit
<1>2. IInv /\ [Next]_vars => IInv'
  BY InvStep
<1> QED
  BY <1>1, <1>2, PTL DEF Spec

\* Started in that order, the two programs are never both between their
\* reserveSem and their releaseSem.
THEOREM ShmExclusive == ASSUME ReaderFirst PROVE Spec => []SegmentExclusive
<1>1. IInv => SegmentExclusive
  BY DEF IInv, WriterSide, WriterOwns, SegmentExclusive, ReaderAccess
<1> QED
  BY <1>1, Invariance, PTL

\* Started in that order, the semaphores hand over one single token, whatever
\* values an earlier session left in them and whoever is killed.
THEOREM ShmOneToken == ASSUME ReaderFirst PROVE Spec => []OneToken
<1>1. IInv => OneToken
  BY DEF IInv
<1> QED
  BY <1>1, Invariance, PTL

\* Started in that order, the reader's output is at every moment the first
\* blocks of the writer's input, each whole, once and with its own length, and
\* lags at most one block behind what was handed over.
THEOREM ShmDelivered == ASSUME ReaderFirst PROVE Spec => []DeliveredPrefix
<1>1. IInv => DeliveredPrefix
  <2> SUFFICES ASSUME IInv PROVE DeliveredPrefix
    OBVIOUS
  <2>1. taken \in Nat /\ Len(out) \in Nat
    BY ShmAssumption, LenProperties DEF IInv, TypeOK
  <2>2. Len(out) \in {Sent, Sent - 1}
    BY <2>1 DEF IInv, TypeOK, OneToken, Holders, StartOrder, WriterSide,
       WriterOwns, ReaderSide, Sent, WriterStart, WriterAccess, ReaderStart,
       ReaderAccess, Sems, SEM_WRITER, SEM_READER
  <2> QED
    BY <2>2 DEF IInv, Written, Whole, DeliveredPrefix
<1> QED
  BY <1>1, Invariance, PTL

\* Started in that order, a reader that stops on the end-of-file mark has
\* written out the whole input of a writer that has finished.
THEOREM ShmNothingLost == ASSUME ReaderFirst PROVE Spec => []NothingLostAtExit
<1>1. IInv => NothingLostAtExit
  BY DEF IInv, TypeOK, StartOrder, ReaderSide, EndOfInput, NothingLostAtExit,
     WriterStart, ReaderStart
<1> QED
  BY <1>1, Invariance, PTL

-----------------------------------------------------------------------------
(* The refinement of the one-place channel.                                  *)

\* A release of SEM_READER with a block in the segment is a Send.
LEMMA ReleaseIsSend == IInv /\ WriterRelease => Channel!Send
<1> SUFFICES ASSUME IInv, WriterRelease PROVE Channel!Send
  OBVIOUS
<1>1. taken \in 1 .. NBlocks /\ NBlocks \in Nat
  BY ShmAssumption DEF IInv, TypeOK, Filled, WriterRelease, WriterGoes
<1> QED
  BY <1>1 DEF IInv, WriterRelease, WriterGoes, WriterSide, WriterOwns,
     WriterAccess, Sent, ReaderAccess, Channel!Send

\* The end-of-file release is a Close.
LEMMA FinishIsClose == IInv /\ WriterFinish => Channel!Close
  BY DEF IInv, WriterFinish, WriterGoes, EndOfInput, WriterSide, WriterOwns,
     WriterAccess, Sent, Channel!Close

\* The reader's write is a Receive.
LEMMA WriteIsReceive == IInv /\ ReaderWriteBegin => Channel!Receive
<1> SUFFICES ASSUME IInv, ReaderWriteBegin PROVE Channel!Receive
  OBVIOUS
<1>1. wpc = "reserve" /\ taken = Len(out) + 1 /\ Len(out) \in Nat
  BY LenProperties DEF IInv, TypeOK, ReaderSide, StartOrder, ReaderWriteBegin,
     ReaderGoes, WriterStart, ReaderStart
<1>2. [len |-> blk.nbytes, data |-> blk.data] \in Piece
  BY DEF IInv, TypeOK, ShmBlock, Piece
<1>3. Len(out') = Len(out) + 1
  BY <1>2, AppendProperties DEF IInv, TypeOK, ReaderWriteBegin
<1> QED
  BY <1>1, <1>3 DEF ReaderWriteBegin, ReaderGoes, Sent, Channel!Receive

\* The reader's test that finds nbytes = 0 is a Drain; otherwise a stutter.
LEMMA TestIsDrain ==
  IInv /\ ReaderTestLength => Channel!Drain \/ UNCHANGED Channel!chanVars
  BY DEF IInv, TypeOK, StartOrder, ReaderSide, ReaderTestLength, ReaderGoes,
     WriterStart, ReaderStart, Sent, Channel!Drain, Channel!chanVars

LEMMA RefineStep ==
  ASSUME ReaderFirst PROVE IInv /\ IInv' /\ [Next]_vars => [Channel!Next]_Channel!chanVars
<1> SUFFICES ASSUME ReaderFirst, IInv, IInv', [Next]_vars
             PROVE  [Channel!Next]_Channel!chanVars
  OBVIOUS
<1> USE DEF WriterGoes, ReaderGoes, Sent, Channel!chanVars
<1>1. CASE Writer
  <2>1. CASE WriterAttach
    BY <2>1 DEF WriterAttach
  <2>2. CASE WriterInitW
    BY <2>2 DEF WriterInitW
  <2>3. CASE WriterInitR
    BY <2>3 DEF WriterInitR
  <2>4. CASE WriterReserve
    BY <2>4 DEF WriterReserve
  <2>5. CASE WriterTestInput
    BY <2>5 DEF WriterTestInput
  <2>6. CASE WriterFillBegin
    BY <2>6 DEF WriterFillBegin, IInv, TypeOK
  <2>7. CASE WriterFillEnd
    BY <2>7 DEF WriterFillEnd
  <2>8. CASE WriterFillNothing
    BY <2>8 DEF WriterFillNothing, IInv, TypeOK
  <2>9. CASE WriterSetLength
    BY <2>9 DEF WriterSetLength
  <2>10. CASE WriterClearEof
    BY <2>10 DEF WriterClearEof
  <2>11. CASE WriterRelease
    BY <2>11, ReleaseIsSend DEF Channel!Next
  <2>12. CASE WriterZeroLength
    BY <2>12 DEF WriterZeroLength
  <2>13. CASE WriterSetEof
    BY <2>13 DEF WriterSetEof
  <2>14. CASE WriterFinish
    BY <2>14, FinishIsClose DEF Channel!Next
  <2> QED
    BY <1>1, <2>1, <2>2, <2>3, <2>4, <2>5, <2>6, <2>7, <2>8, <2>9, <2>10, <2>11, <2>12, <2>13, <2>14 DEF Writer
<1>2. CASE Reader
  <2>1. CASE ReaderAttach
    BY <2>1 DEF ReaderAttach
  <2>2. CASE ReaderInitW
    BY <2>2 DEF ReaderInitW
  <2>3. CASE ReaderInitR
    BY <2>3 DEF ReaderInitR
  <2>4. CASE ReaderReserve
    BY <2>4 DEF ReaderReserve
  <2>5. CASE ReaderTestEof
    BY <2>5 DEF ReaderTestEof
  <2>6. CASE ReaderTestLength
    BY <2>6, TestIsDrain DEF Channel!Next
  <2>7. CASE ReaderWriteBegin
    BY <2>7, WriteIsReceive DEF Channel!Next
  <2>8. CASE ReaderWriteEnd
    BY <2>8 DEF ReaderWriteEnd
  <2>9. CASE ReaderRelease
    BY <2>9 DEF ReaderRelease
  <2>10. CASE ReaderFinish
    BY <2>10 DEF ReaderFinish
  <2> QED
    BY <1>2, <2>1, <2>2, <2>3, <2>4, <2>5, <2>6, <2>7, <2>8, <2>9, <2>10 DEF Reader
<1>3. CASE \E p \in MayDie : Die(p)
  BY <1>3 DEF Die
<1>4. CASE UNCHANGED vars
  BY <1>4 DEF vars
<1> QED
  BY <1>1, <1>2, <1>3, <1>4 DEF Next

\* Started in that order, the two programs are a one-place channel: a block is
\* handed over only after the one before it was taken, the end is marked only
\* after all of them, and the reader leaves only after that.
THEOREM ShmRefines == ASSUME ReaderFirst PROVE Spec => ChannelSpec
<1>1. Init => Channel!Init
  BY DEF Init, Sent, Channel!Init
<1>2. IInv /\ IInv' /\ [Next]_vars => [Channel!Next]_Channel!chanVars
  BY RefineStep
<1>3. Spec => []IInv
  BY Invariance
<1> QED
  BY <1>1, <1>2, <1>3, PTL DEF Spec, ChannelSpec, Channel!Spec
-----------------------------------------------------------------------------
(* Started in any order: what an earlier session left does not count.        *)

\* The writer has handed something over, a block or the end mark.
Handed == Sent > 0 \/ wpc = "done"
EofSet == {"mark_n", "releof", "done"}

\* What the writer has handed over it has stored itself, all three fields.
OwnSegment ==
    /\ wpc \in WriterStart => taken = 0
    /\ taken > 0 => blk.data.chunk = taken
    /\ wpc = "done" => blk.nbytes = 0 /\ blk.eof = 1
    /\ Handed => blk.nbytes # OldLen /\ (blk.eof = 1 => wpc \in EofSet)

\* A reader that has emptied SEM_READER finds a release of this writer in it, and
\* goes on to write or to leave only for what this writer has stored.
OwnRelease ==
    /\ rpc \notin ReaderStart \cup {"failed"} /\ sem[SEM_READER] > 0 => Handed
    /\ rpc \in ReaderAccess \cup {"done"} => Handed
    /\ rpc \in {"write", "writing"} => Sent > 0
    /\ rpc \in {"testn", "releof", "done"} => wpc \in EofSet

OwnOutput ==
    \A i \in 1 .. Len(out) : out[i].data.chunk # 0 /\ out[i].len # OldLen

AnyOrder ==
    TypeOK /\ EndOfInput /\ Filled /\ OwnSegment /\ OwnRelease /\ OwnOutput

\* The end of a copy changes neither the block nor the length of any entry.
LEMMA CopyKeeps ==
  ASSUME NEW s \in Seq(Piece), s # << >>, NEW d
  PROVE  LET t == [s EXCEPT ![Len(s)].data.whole = @ /\ d = s[Len(s)].data] IN
         /\ Len(t) = Len(s)
         /\ \A i \in 1 .. Len(s) : t[i].data.chunk = s[i].data.chunk /\ t[i].len = s[i].len
<1> DEFINE n == Len(s)
           t == [s EXCEPT ![n].data.whole = @ /\ d = s[n].data]
<1>1. n \in 1 .. Len(s)
  BY EmptySeq
<1>2. s[n] \in Piece
  BY <1>1, ElementOfSeq DEF Piece
<1>3. t[n].data.chunk = s[n].data.chunk /\ t[n].len = s[n].len
  BY <1>1, <1>2 DEF Piece, Data
<1>4. \A i \in 1 .. Len(s) : i # n => t[i] = s[i]
  OBVIOUS
<1>5. Len(t) = Len(s)
  OBVIOUS
<1> QED
  BY <1>3, <1>4, <1>5

LEMMA AnyOrderInit == Init => AnyOrder
<1> SUFFICES ASSUME Init PROVE AnyOrder
  OBVIOUS
<1>1. TypeOK /\ NBlocks \in Nat
  BY TypeInit, ShmAssumption
<1> QED
  BY <1>1 DEF Init, AnyOrder, EndOfInput, Filled, OwnSegment, OwnRelease, OwnOutput,
     Handed, Sent, EofSet, WriterStart, ReaderStart, ReaderAccess

LEMMA AnyOrderStep == AnyOrder /\ [Next]_vars => AnyOrder'
<1> SUFFICES ASSUME AnyOrder, [Next]_vars PROVE AnyOrder'
  OBVIOUS
<1>0. NBlocks \in Nat
  BY ShmAssumption
<1>1. TypeOK /\ TypeOK'
  BY TypeStep DEF AnyOrder
<1>2. blk = [nbytes |-> blk.nbytes, eof |-> blk.eof, data |-> blk.data]
  BY <1>1 DEF TypeOK, ShmBlock
<1> USE <1>0, <1>1, <1>2 DEF AnyOrder, TypeOK, EndOfInput, Filled, Whole, OwnSegment,
     OwnRelease, Handed, Sent, EofSet, OldLen, WriterStart, ReaderStart, ReaderAccess,
     Sems, SEM_WRITER, SEM_READER, ShmBlock, Data
<1>3. CASE Writer
  <2> USE DEF WriterGoes, setval, reserve, release, OwnOutput
  <2>1. CASE WriterAttach
    BY <2>1 DEF WriterAttach
  <2>2. CASE WriterInitW
    BY <2>2 DEF WriterInitW
  <2>3. CASE WriterInitR
    BY <2>3 DEF WriterInitR
  <2>4. CASE WriterReserve
    BY <2>4 DEF WriterReserve
  <2>5. CASE WriterTestInput
    BY <2>5 DEF WriterTestInput
  <2>6. CASE WriterFillBegin
    BY <2>6 DEF WriterFillBegin
  <2>7. CASE WriterFillEnd
    BY <2>7 DEF WriterFillEnd
  <2>8. CASE WriterFillNothing
    BY <2>8 DEF WriterFillNothing
  <2>9. CASE WriterSetLength
    BY <2>9 DEF WriterSetLength
  <2>10. CASE WriterClearEof
    BY <2>10 DEF WriterClearEof
  <2>11. CASE WriterRelease
    BY <2>11 DEF WriterRelease
  <2>12. CASE WriterZeroLength
    BY <2>12 DEF WriterZeroLength
  <2>13. CASE WriterSetEof
    BY <2>13 DEF WriterSetEof
  <2>14. CASE WriterFinish
    BY <2>14 DEF WriterFinish
  <2> QED
    BY <1>3, <2>1, <2>2, <2>3, <2>4, <2>5, <2>6, <2>7, <2>8, <2>9,
       <2>10, <2>11, <2>12, <2>13, <2>14 DEF Writer
<1>4. CASE Reader
  <2> USE DEF ReaderGoes, setval, reserve, release
  <2>1. CASE ReaderAttach
    BY <2>1 DEF ReaderAttach, OwnOutput
  <2>2. CASE ReaderInitW
    BY <2>2 DEF ReaderInitW, OwnOutput
  <2>3. CASE ReaderInitR
    BY <2>3 DEF ReaderInitR, OwnOutput
  <2>4. CASE ReaderReserve
    BY <2>4 DEF ReaderReserve, OwnOutput
  <2>5. CASE ReaderTestEof
    BY <2>5 DEF ReaderTestEof, OwnOutput
  <2>6. CASE ReaderTestLength
    BY <2>6 DEF ReaderTestLength, OwnOutput
  <2>7. CASE ReaderWriteBegin
    <3> DEFINE p == [len |-> blk.nbytes, data |-> blk.data]
    <3>1. rpc = "write" /\ rpc' = "writing" /\ out' = Append(out, p)
          /\ UNCHANGED <<wpc, seg, blk, sem, taken, good>>
      BY <2>7 DEF ReaderWriteBegin
    <3>2. p \in Piece /\ p.data.chunk # 0 /\ p.len # OldLen
      BY <3>1 DEF Piece
    <3>3. /\ Len(out') = Len(out) + 1
          /\ \A i \in 1 .. Len(out) : out'[i] = out[i]
          /\ out'[Len(out) + 1] = p
      BY <3>1, <3>2, AppendProperties
    <3>4. Len(out) \in Nat
      BY LenProperties
    <3>5. OwnOutput'
      BY SMTT(30), <3>2, <3>3, <3>4 DEF OwnOutput
    <3> QED
      BY <3>1, <3>5
  <2>8. CASE ReaderWriteEnd
    <3>1. OwnOutput'
      <4>1. CASE out = << >>
        BY <2>8, <4>1 DEF ReaderWriteEnd, OwnOutput
      <4>2. CASE out # << >>
        BY <2>8, <4>2, CopyKeeps DEF ReaderWriteEnd, OwnOutput
      <4> QED
        BY <4>1, <4>2
    <3> QED
      BY <2>8, <3>1 DEF ReaderWriteEnd
  <2>9. CASE ReaderRelease
    BY <2>9 DEF ReaderRelease, OwnOutput
  <2>10. CASE ReaderFinish
    BY <2>10 DEF ReaderFinish, OwnOutput
  <2> QED
    BY <1>4, <2>1, <2>2, <2>3, <2>4, <2>5, <2>6, <2>7, <2>8, <2>9,
       <2>10 DEF Reader
<1>5. CASE \E p \in MayDie : Die(p)
  BY <1>5 DEF Die, OwnOutput
<1>6. CASE UNCHANGED vars
  BY <1>6 DEF vars, OwnOutput
<1> QED
  BY <1>3, <1>4, <1>5, <1>6 DEF Next

\* In whatever order the programs are started, no block of an earlier session is
\* printed, and the reader leaves only on the mark of a writer whose input has ended.
THEOREM ShmNothingOld == Spec => []NothingOld
<1>1. AnyOrder => NothingOld
  BY DEF AnyOrder, EndOfInput, OwnRelease, OwnOutput, EofSet, NothingOld
<1>2. Spec => []AnyOrder
  BY AnyOrderInit, AnyOrderStep, PTL DEF Spec
<1> QED
  BY <1>1, <1>2, PTL
=============================================================================
