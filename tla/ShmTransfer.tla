---------------------------- MODULE ShmTransfer ----------------------------
(***************************************************************************)
(* lab5/02_rw: shm_writer copies its standard input, block by block, into  *)
(* a System V shared segment; shm_reader copies the segment to its         *)
(* standard output.  Two semaphores, SEM_WRITER and SEM_READER, are meant  *)
(* to hand the segment back and forth (bin_sems.hpp, init_sem.hpp).        *)
(*                                                                         *)
(* Every system call and every store into the segment is a step of its     *)
(* own.  A block of input is known by its position 1..NBlocks; what        *)
(* shm_block.data holds is the block last stored there and whether all of  *)
(* its bytes are in place; a byte count is known by the block it counts.   *)
(***************************************************************************)
EXTENDS Integers, Sequences

CONSTANTS
    NBlocks,      \* blocks on the writer's standard input before end of file
    ReaderFirst,  \* TRUE: the writer is started once the reader has initialised
    MayDie,       \* the processes that may be killed at any point
    OldSemVals    \* values an earlier session can have left in a semaphore

ASSUME ShmAssumption ==
    /\ NBlocks \in Nat
    /\ ReaderFirst \in BOOLEAN
    /\ MayDie \subseteq {"writer", "reader"}
    /\ OldSemVals \subseteq Nat

VARIABLES
    wpc, rpc,   \* the next step of the writer and of the reader
    dead,       \* the processes that were killed
    seg,        \* does the shared segment exist?
    blk,        \* the segment: nbytes, eof and data of struct shm_block
    sem,        \* the two semaphore values
    taken,      \* blocks the writer has begun to store in the segment
    good,       \* std::cin.good() in the writer
    out         \* what the reader has written, one entry per fwrite

vars == <<wpc, rpc, dead, seg, blk, sem, taken, good, out>>

SEM_WRITER == 0
SEM_READER == 1
Sems == {SEM_WRITER, SEM_READER}

\* Lengths: 0, the length of a block of this session, or an earlier one's.
OldLen == NBlocks + 1
Lengths == 0 .. OldLen

\* Block 0 stands for whatever an earlier session left in the segment.
Data == [chunk : 0 .. NBlocks, whole : BOOLEAN]
ShmBlock == [nbytes : Lengths, eof : {0, 1}, data : Data]
Piece == [len : Lengths, data : Data]
NoData == [chunk |-> 0, whole |-> TRUE]

WriterStart == {"attach", "setW", "setR"}
ReaderStart == {"attach", "setW", "setR"}
WriterAccess == {"good", "fill", "filling", "put", "put_n", "put_e",
                 "release", "mark", "mark_n", "mark_e", "releof"}
ReaderAccess == {"test", "testn", "write", "writing", "release", "releof"}

TypeOK ==
    /\ wpc \in WriterStart \cup {"reserve", "done"} \cup WriterAccess
    /\ rpc \in ReaderStart \cup {"reserve", "done", "failed"} \cup ReaderAccess
    /\ dead \in SUBSET MayDie
    /\ seg \in BOOLEAN
    /\ blk \in ShmBlock
    /\ sem \in [Sems -> Nat]
    /\ taken \in 0 .. NBlocks
    /\ good \in BOOLEAN
    /\ out \in Seq(Piece)

-----------------------------------------------------------------------------
(* The semaphore calls of init_sem.hpp.                                    *)

\* semctl(SETVAL)
setval(s, v) == sem' = [sem EXCEPT ![s] = v]

\* Mutant of reserve: IPC_NOWAIT, with the failure ignored.
reserveIgnored(s) ==
    sem' = IF sem[s] > 0 THEN [sem EXCEPT ![s] = @ - 1] ELSE sem

\* semop -1, without IPC_NOWAIT or SEM_UNDO: blocks while the value is 0.
reserve(s) ==
    /\ sem[s] > 0
    /\ sem' = [sem EXCEPT ![s] = @ - 1]

\* semop +1
release(s) == sem' = [sem EXCEPT ![s] = @ + 1]

-----------------------------------------------------------------------------
(* The writer.                                                             *)

WriterGoes(from, to) ==
    /\ "writer" \notin dead
    /\ wpc = from
    /\ wpc' = to

\* shmget(IPC_CREAT), shmat and semget(IPC_CREAT).  A new segment is zero.
WriterAttach ==
    /\ WriterGoes("attach", "setW")
    /\ ReaderFirst => rpc \notin ReaderStart
    /\ seg' = TRUE
    /\ UNCHANGED <<rpc, dead, blk, sem, taken, good, out>>

\* ensure_semset(..., true): SEM_WRITER becomes 1, then SEM_READER 0.
WriterInitW ==
    /\ WriterGoes("setW", "setR")
    /\ setval(SEM_WRITER, 1)
    /\ UNCHANGED <<rpc, dead, seg, blk, taken, good, out>>

WriterInitR ==
    /\ WriterGoes("setR", "reserve")
    /\ setval(SEM_READER, 0)
    /\ UNCHANGED <<rpc, dead, seg, blk, taken, good, out>>

WriterReserve ==
    /\ WriterGoes("reserve", "good")
    /\ reserve(SEM_WRITER)
    /\ UNCHANGED <<rpc, dead, seg, blk, taken, good, out>>

\* if (!std::cin.good()): the last read was short, go and mark end of file.
WriterTestInput ==
    /\ WriterGoes("good", IF good THEN "fill" ELSE "mark")
    /\ UNCHANGED <<rpc, dead, seg, blk, sem, taken, good, out>>

\* Mutant: the writer does not look at gcount.
WriterFillUnchecked ==
    /\ WriterGoes("fill", "filling")
    /\ taken' = taken + 1
    /\ blk' = [blk EXCEPT !.data = [chunk |-> taken + 1, whole |-> FALSE]]
    /\ UNCHANGED <<rpc, dead, seg, sem, good, out>>

\* std::cin.read stores into the segment itself, byte after byte.
WriterFillBegin ==
    /\ WriterGoes("fill", "filling")
    /\ taken < NBlocks
    /\ taken' = taken + 1
    /\ blk' = [blk EXCEPT !.data = [chunk |-> taken + 1, whole |-> FALSE]]
    /\ UNCHANGED <<rpc, dead, seg, sem, good, out>>

\* Mutant: a short read in the middle of the input (a pipe) ends the stream.
WriterFillShort ==
    /\ WriterGoes("filling", "put")
    /\ blk' = [blk EXCEPT !.data.whole = TRUE]
    /\ good' \in BOOLEAN
    /\ UNCHANGED <<rpc, dead, seg, sem, taken, out>>

\* The last block may be short; the stream is then no longer good.
WriterFillEnd ==
    /\ WriterGoes("filling", "put")
    /\ blk' = [blk EXCEPT !.data.whole = TRUE]
    /\ good' \in (IF taken = NBlocks THEN BOOLEAN ELSE {TRUE})
    /\ UNCHANGED <<rpc, dead, seg, sem, taken, out>>

\* got <= 0: nothing was left on the input.
WriterFillNothing ==
    /\ WriterGoes("fill", "mark")
    /\ taken = NBlocks
    /\ good' = FALSE
    /\ UNCHANGED <<rpc, dead, seg, blk, sem, taken, out>>

\* Mutant: the length of the block before is left in place.
WriterKeepLength ==
    /\ WriterGoes("put", "put_e") \/ WriterGoes("put_n", "release")
    /\ UNCHANGED <<rpc, dead, seg, blk, sem, taken, good, out>>

\* blk->nbytes = got; blk->eof = 0.  The stores are ordinary ones and nothing
\* but the semaphore call orders them: the compiler may swap the two.
WriterSetLength ==
    /\ WriterGoes("put", "put_e") \/ WriterGoes("put_n", "release")
    /\ blk' = [blk EXCEPT !.nbytes = taken]
    /\ UNCHANGED <<rpc, dead, seg, sem, taken, good, out>>

WriterClearEof ==
    /\ WriterGoes("put", "put_n") \/ WriterGoes("put_e", "release")
    /\ blk' = [blk EXCEPT !.eof = 0]
    /\ UNCHANGED <<rpc, dead, seg, sem, taken, good, out>>

WriterRelease ==
    /\ WriterGoes("release", "reserve")
    /\ release(SEM_READER)
    /\ UNCHANGED <<rpc, dead, seg, blk, taken, good, out>>

\* End of file: nbytes = 0 and eof = 1, in either order too (g++ -O2 swaps
\* these two), and then the reader is released.
WriterZeroLength ==
    /\ WriterGoes("mark", "mark_e") \/ WriterGoes("mark_n", "releof")
    /\ blk' = [blk EXCEPT !.nbytes = 0]
    /\ UNCHANGED <<rpc, dead, seg, sem, taken, good, out>>

WriterSetEof ==
    /\ WriterGoes("mark", "mark_n") \/ WriterGoes("mark_e", "releof")
    /\ blk' = [blk EXCEPT !.eof = 1]
    /\ UNCHANGED <<rpc, dead, seg, sem, taken, good, out>>

WriterFinish ==
    /\ WriterGoes("releof", "done")
    /\ release(SEM_READER)
    /\ UNCHANGED <<rpc, dead, seg, blk, taken, good, out>>

Writer ==
    \/ WriterAttach \/ WriterInitW \/ WriterInitR \/ WriterReserve
    \/ WriterTestInput \/ WriterFillBegin \/ WriterFillEnd
    \/ WriterFillNothing \/ WriterSetLength \/ WriterClearEof
    \/ WriterRelease \/ WriterZeroLength \/ WriterSetEof \/ WriterFinish

-----------------------------------------------------------------------------
(* The reader.                                                             *)

ReaderGoes(from, to) ==
    /\ "reader" \notin dead
    /\ rpc = from
    /\ rpc' = to

\* shmget without IPC_CREAT: the reader gives up when there is no segment.
ReaderAttach ==
    /\ ReaderGoes("attach", IF seg THEN "setW" ELSE "failed")
    /\ UNCHANGED <<wpc, dead, seg, blk, sem, taken, good, out>>

\* ensure_semset(..., false) does what it does for the writer.
ReaderInitW ==
    /\ ReaderGoes("setW", "setR")
    /\ setval(SEM_WRITER, 1)
    /\ UNCHANGED <<wpc, dead, seg, blk, taken, good, out>>

\* Mutant: the reader leaves SEM_READER as an earlier session left it.
ReaderKeepR ==
    /\ ReaderGoes("setR", "reserve")
    /\ UNCHANGED <<wpc, dead, seg, blk, sem, taken, good, out>>

ReaderInitR ==
    /\ ReaderGoes("setR", "reserve")
    /\ setval(SEM_READER, 0)
    /\ UNCHANGED <<wpc, dead, seg, blk, taken, good, out>>

\* Mutant: the reader waits for SEM_READER without taking it.
ReaderPeek ==
    /\ ReaderGoes("reserve", "test")
    /\ sem[SEM_READER] > 0
    /\ UNCHANGED <<wpc, dead, seg, blk, sem, taken, good, out>>

ReaderReserve ==
    /\ ReaderGoes("reserve", "test")
    /\ reserve(SEM_READER)
    /\ UNCHANGED <<wpc, dead, seg, blk, taken, good, out>>

\* if (blk->eof && blk->nbytes == 0): two loads, the second only if needed.
ReaderTestEof ==
    /\ ReaderGoes("test", IF blk.eof = 1 THEN "testn" ELSE "write")
    /\ UNCHANGED <<wpc, dead, seg, blk, sem, taken, good, out>>

ReaderTestLength ==
    /\ ReaderGoes("testn", IF blk.nbytes = 0 THEN "releof" ELSE "write")
    /\ UNCHANGED <<wpc, dead, seg, blk, sem, taken, good, out>>

\* fwrite(blk->data, 1, blk->nbytes, stdout) and fflush: the copy starts with
\* what is in the segment and is torn if the segment changes under it.
ReaderWriteBegin ==
    /\ ReaderGoes("write", "writing")
    /\ out' = Append(out, [len |-> blk.nbytes, data |-> blk.data])
    /\ UNCHANGED <<wpc, dead, seg, blk, sem, taken, good>>

ReaderWriteEnd ==
    /\ ReaderGoes("writing", "release")
    /\ out' = [out EXCEPT ![Len(out)].data.whole = @ /\ blk.data = out[Len(out)].data]
    /\ UNCHANGED <<wpc, dead, seg, blk, sem, taken, good>>

\* Mutant: the reader does not give the segment back.
ReaderReleaseNothing ==
    /\ ReaderGoes("release", "reserve")
    /\ UNCHANGED <<wpc, dead, seg, blk, sem, taken, good, out>>

ReaderRelease ==
    /\ ReaderGoes("release", "reserve")
    /\ release(SEM_WRITER)
    /\ UNCHANGED <<wpc, dead, seg, blk, taken, good, out>>

\* Mutant: the reader leaves without giving the segment back.
ReaderJustLeaves ==
    /\ ReaderGoes("releof", "done")
    /\ UNCHANGED <<wpc, dead, seg, blk, sem, taken, good, out>>

ReaderFinish ==
    /\ ReaderGoes("releof", "done")
    /\ release(SEM_WRITER)
    /\ UNCHANGED <<wpc, dead, seg, blk, taken, good, out>>

Reader ==
    \/ ReaderAttach \/ ReaderInitW \/ ReaderInitR \/ ReaderReserve
    \/ ReaderTestEof \/ ReaderTestLength \/ ReaderWriteBegin
    \/ ReaderWriteEnd \/ ReaderRelease \/ ReaderFinish

-----------------------------------------------------------------------------
\* A process is killed wherever it is.  semop is called without SEM_UNDO, so
\* the kernel gives nothing back.
Die(p) ==
    /\ p \notin dead
    /\ dead' = dead \cup {p}
    /\ UNCHANGED <<wpc, rpc, seg, blk, sem, taken, good, out>>

Init ==
    /\ wpc = "attach"
    /\ rpc = "attach"
    /\ dead = {}
    /\ seg \in BOOLEAN
    /\ blk \in [nbytes : IF seg THEN {0, OldLen} ELSE {0},
                eof : IF seg THEN {0, 1} ELSE {0}, data : {NoData}]
    /\ sem \in [Sems -> OldSemVals]
    /\ taken = 0
    /\ good = TRUE
    /\ out = << >>

Next == Writer \/ Reader \/ (\E p \in MayDie : Die(p))

Spec == Init /\ [][Next]_vars

\* The scheduler runs both processes, and the writer's input is a file or a
\* pipe that ends, so its read returns.
FairSpec == Spec /\ WF_vars(Writer) /\ WF_vars(Reader)

-----------------------------------------------------------------------------
(* Properties.                                                             *)

\* Blocks handed to the reader so far: a block is handed over by the release
\* of SEM_READER, so one that is still being stored does not count.
Sent ==
    IF wpc \in {"filling", "put", "put_n", "put_e", "release"}
    THEN taken - 1 ELSE taken

\* Exactly one of four places holds the right to the segment: the writer's
\* semaphore, the reader's, the writer, the reader.  The semaphores are
\* therefore binary, and writer and reader alternate, once both programs
\* have run ensure_semset.
Holders(w, r) == (IF w THEN 1 ELSE 0) + (IF r THEN 1 ELSE 0)
OneToken ==
    wpc \notin WriterStart /\ rpc \notin ReaderStart =>
        sem[SEM_WRITER] + sem[SEM_READER]
          + Holders(wpc \in WriterAccess, rpc \in ReaderAccess) = 1

\* "At any moment only one process has access to the segment": between its
\* reserveSem and its releaseSem a process is alone.
SegmentExclusive == ~(wpc \in WriterAccess /\ rpc \in ReaderAccess)

\* What the reader has written is exactly the first blocks of the writer's
\* input, each once, in order, whole and with its own length, and all the
\* blocks handed over but at most one: a short count, a torn block or a
\* block overwritten before it was read would break it.
DeliveredPrefix ==
    /\ \A i \in 1 .. Len(out) :
          out[i] = [len |-> i, data |-> [chunk |-> i, whole |-> TRUE]]
    /\ Len(out) \in {Sent, Sent - 1}

\* The reader stops only at the writer's end-of-file mark, after the whole
\* input has been written out.
NothingLostAtExit ==
    rpc \in {"releof", "done"} => wpc = "done" /\ Len(out) = NBlocks

\* However the programs are started, nothing of an earlier session counts: its
\* block is never printed, since each program empties SEM_READER before it uses
\* it, and the reader ends only after the writer has met the end of its own input
\* and set the mark, never on the old one.
NothingOld ==
    /\ \A i \in 1 .. Len(out) : out[i].data.chunk # 0 /\ out[i].len # OldLen
    /\ rpc \in {"releof", "done"} =>
         taken = NBlocks /\ wpc \in {"mark_n", "releof", "done"}

\* Started in that order, a session nobody is killed in ends with the reader
\* done and its output complete, or with a reader that found no segment.
Transferred ==
    <>(dead # {} \/ rpc = "failed" \/ (rpc = "done" /\ Len(out) = NBlocks))

-----------------------------------------------------------------------------
\* The one-place channel the two programs implement: a block is sent when the
\* writer releases SEM_READER and received when the reader begins to write it.
Channel == INSTANCE BlockChannel WITH
    sent <- Sent, received <- Len(out),
    closed <- (wpc = "done"), drained <- (rpc \in {"releof", "done"})

ChannelSpec == Channel!Spec
=============================================================================
