------------------------------ MODULE FileJobs ------------------------------
(* serializeFileAsync, deserializeFileAsync and deserializeFile: jobs that   *)
(* write a bitmap to a file and read one from it, one step for each call     *)
(* into the operating system that can fail (src/src/cpp/serialization.h,     *)
(* serialization-csv.h, mmap.h), with their descriptors, their mappings,     *)
(* their buffers, and the accounting of memory on pool threads (memory.h).   *)
(* All jobs use one path.  Threads, callbacks and freezing are in modules    *)
(* AsyncWorkers and RoaringBitmap32.                                         *)
EXTENDS FileFormats

CONSTANTS Job,          \* slots for calls that are not forgotten yet
          Descriptor,   \* the descriptors the process may have open
          InitialFiles, \* what may be in the file at first, or None
          WriteFormats, ReadFormats, \* the formats that are asked for
          NotTaken,     \* how many bytes write may leave out
          MaxCalls,     \* bound: calls that are made
          None

ASSUME JobsAssumption ==
    /\ Descriptor \subseteq Nat /\ IsFiniteSet(Descriptor) /\ None \notin Descriptor
    /\ Job \subseteq Nat /\ IsFiniteSet(Job)
    /\ WriteFormats \cup ReadFormats \subseteq BinaryFormat \cup TextFormat
    /\ 0 \in NotTaken /\ NotTaken \subseteq Nat /\ MaxCalls \in Nat
    /\ InitialFiles \subseteq Seq(Byte) \cup {None} /\ None \notin Seq(Byte)
    /\ None \notin [values : SUBSET (0 .. UINT32_MAX), in : {"memory", "frozenBuffer", "mapping"}]

VARIABLES file,     \* its bytes, None when it does not exist
          open,     \* the descriptors that are open
          job,      \* what each call is at and holds
          total,    \* gcaware_totalMemCounter; an allocation counts 1
          external, \* what was reported to V8
          pending,  \* _pendingExternalMemoryDelta of each worker
          calls,    \* how many were made
          crashed,  \* whether a mapping was used beyond the end of the file
          leaked,   \* observes: descriptors of calls that ended without a close
          drift     \* observes: frees that were counted without the allocation

memory == <<total, external, pending, drift>>
vars == <<file, open, job, total, external, pending, calls, crashed, leaked, drift>>

Readers == {"deserializeFile", "deserializeFileAsync"}

(* roaring is the bitmap a reader has made and where its containers are, and  *)
(* ok says that no error is set.  cut and alone only observe how the call    *)
(* went: whether the kernel took only a part of a write or there was no      *)
(* buffer for text, and whether no other call changed the file since this    *)
(* one opened it.                                                            *)
Unused == [at |-> "unused", op |-> None, format |-> None, values |-> {}, fd |-> None, pos |-> 0,
           size |-> 0, buf |-> None, todo |-> <<>>, separate |-> FALSE, parse |-> ParseInit, mapped |-> FALSE,
           roaring |-> None, frozenBuffer |-> FALSE, ok |-> TRUE, cut |-> FALSE, alone |-> TRUE]

Init ==
    /\ file \in InitialFiles
    /\ open = {} /\ leaked = {}
    /\ job = [j \in Job |-> Unused]
    /\ total = 0 /\ external = 0 /\ drift = 0
    /\ pending = [j \in Job |-> 0]
    /\ calls = 0
    /\ crashed = FALSE

---------------------------------------------------------------------------
(* Memory.  On a pool thread there is no isolate and a change is left to the *)
(* worker; deserializeFile runs on the main thread.                          *)

OnMainThread(j) == job[j].op = "deserializeFile"
Counts(j, n) ==
    /\ total' = total + n
    /\ external' = IF OnMainThread(j) THEN external + n ELSE external
    /\ pending' = IF OnMainThread(j) THEN pending ELSE [pending EXCEPT ![j] = @ + n]
    /\ UNCHANGED drift

Goes(j, from, new) ==
    /\ ~crashed
    /\ job[j].at = from
    /\ job' = [job EXCEPT ![j] = new]

(* As Goes, when the file changes under the calls that have it open. *)
Opened(k) == job[k].fd # None \/ job[k].at \in {"workDone", "settled"}
GoesAndWrites(j, from, new) ==
    /\ ~crashed
    /\ job[j].at = from
    /\ job' = [k \in Job |-> IF k = j THEN new
                             ELSE IF Opened(k) THEN [job[k] EXCEPT !.alone = FALSE] ELSE job[k]]

Failed(j) == [job[j] EXCEPT !.at = "close", !.ok = FALSE]

(* Using a mapping beyond the end of the file ends the process. *)
Crash(j, from) ==
    /\ ~crashed
    /\ job[j].at = from /\ job[j].mapped /\ Len(file) < job[j].size
    /\ crashed' = TRUE
    /\ UNCHANGED <<file, open, job, memory, calls, leaked>>

---------------------------------------------------------------------------
(* The calls and their opening of the file. *)

(* deserializeFile keeps the main thread busy, on which calls are made,      *)
(* settled and forgotten.                                                    *)
Busy(k) == OnMainThread(k) /\ job[k].at # "settled"
MainThreadIsFree(j) == \A k \in Job \ {j} : ~Busy(k)

(* A call takes the first slot that is not used. *)
Starts(j) ==
    /\ calls < MaxCalls /\ MainThreadIsFree(j)
    /\ job[j].at = "unused" /\ \A k \in Job : job[k].at = "unused" => j <= k

StartSerialize(j) == Starts(j) /\ \E S \in Contents, format \in WriteFormats :
    /\ Goes(j, "unused", [job[j] EXCEPT !.at = "open", !.op = "serializeFileAsync", !.format = format,
                                          !.values = S, !.size = Len(Written(S, format))])
    /\ calls' = calls + 1
    /\ UNCHANGED <<file, open, memory, crashed, leaked>>

StartDeserialize(j) == Starts(j) /\ \E op \in Readers, format \in ReadFormats :
    /\ Goes(j, "unused", [job[j] EXCEPT !.at = "open", !.op = op, !.format = format])
    /\ calls' = calls + 1
    /\ UNCHANGED <<file, open, memory, crashed, leaked>>

OpenFails(j) ==
    /\ Goes(j, "open", [job[j] EXCEPT !.at = "workDone", !.ok = FALSE])
    /\ UNCHANGED <<file, open, memory, calls, crashed, leaked>>

(* The lowest number is taken, if there is one. *)
NewDescriptor == {fd \in Descriptor \ open : \A other \in Descriptor \ open : fd <= other}

Writing(k) == job[k].op = "serializeFileAsync" /\ job[k].fd # None
OpenToWrite(j) == \E fd \in NewDescriptor :
    /\ job[j].op = "serializeFileAsync"
    /\ GoesAndWrites(j, "open",
         [job[j] EXCEPT !.at = IF job[j].format \in TextFormat THEN "buffer" ELSE "ftruncate",
                        !.fd = fd, !.alone = \A k \in Job \ {j} : ~Writing(k)])
    /\ file' = <<>>
    /\ open' = open \cup {fd}
    /\ UNCHANGED <<memory, calls, crashed, leaked>>
OpenToRead(j) == \E fd \in NewDescriptor :
    /\ job[j].op \in Readers /\ file # None
    /\ Goes(j, "open",
         [job[j] EXCEPT !.at = IF job[j].format \in TextFormat THEN "create" ELSE "fstat",
                        !.fd = fd, !.alone = \A k \in Job \ {j} : ~Writing(k)])
    /\ open' = open \cup {fd}
    /\ UNCHANGED <<file, memory, calls, crashed, leaked>>

Close(j) ==
    /\ Goes(j, "close", [job[j] EXCEPT !.at = "workDone", !.fd = None])
    /\ open' = open \ {job[j].fd}
    /\ UNCHANGED <<file, memory, calls, crashed, leaked>>

---------------------------------------------------------------------------
(* Writing text.  What is left to append is a character that opens or closes *)
(* the text, or a value.                                                     *)

ToAppend(S, format) ==
    LET items(kind, s) == [i \in 1 .. Len(s) |-> [kind |-> kind, of |-> s[i]]]
    IN  items("char", Opening(format)) \o items("value", Ascending[S]) \o items("char", Closing(format))

(* The buffer of the writer; without one every append fails and nothing is   *)
(* ever flushed, which is no error.                                          *)
MakeBuffer(j) ==
    \/ /\ Goes(j, "buffer", [job[j] EXCEPT !.at = "append", !.buf = <<>>,
                                             !.todo = ToAppend(job[j].values, job[j].format)])
       /\ Counts(j, 1)
       /\ UNCHANGED <<file, open, calls, crashed, leaked>>
    \/ /\ Goes(j, "buffer", [job[j] EXCEPT !.at = "close", !.cut = TRUE])
       /\ UNCHANGED <<file, open, memory, calls, crashed, leaked>>

(* Mutant: room is made for a digit only. *)
RoomForDigit(item) == 1
Room(item) == IF item.kind = "char" THEN 1 ELSE ValueRoom
NeedsFlush(j, item) == Len(job[j].buf) + Room(item) >= BUFFER_SIZE
Characters(j, item) ==
    IF item.kind = "char" THEN <<item.of>>
    ELSE (IF job[j].separate THEN <<Separator(job[j].format)>> ELSE <<>>) \o Decimal[item.of]

AppendItem(j) ==
    /\ job[j].at = "append" /\ job[j].todo # <<>>
    /\ LET item == Head(job[j].todo)
       IN  /\ ~NeedsFlush(j, item)
           /\ Goes(j, "append", [job[j] EXCEPT !.buf = @ \o Characters(j, item), !.todo = Tail(@),
                                                 !.separate = @ \/ item.kind = "value"])
    /\ UNCHANGED <<file, open, memory, calls, crashed, leaked>>

(* The last flush comes when nothing is left, also after one that failed,    *)
(* which freed the buffer.  How much write takes is not looked at.           *)
MustFlush(j) ==
    /\ job[j].at = "append" /\ job[j].buf # <<>>
    /\ job[j].todo # <<>> => NeedsFlush(j, Head(job[j].todo))
(* What write takes of the bytes it is given. *)
Takes(bytes) == {n \in 1 .. Len(bytes) : Len(bytes) - n \in NotTaken}
Flush(j) == MustFlush(j) /\ \E n \in Takes(job[j].buf) :
    /\ GoesAndWrites(j, "append", [job[j] EXCEPT !.buf = <<>>, !.pos = @ + n,
                                                  !.cut = @ \/ n < Len(job[j].buf)])
    /\ file' = WrittenAt(file, job[j].pos, SubSeq(job[j].buf, 1, n))
    /\ UNCHANGED <<open, memory, calls, crashed, leaked>>
(* Mutant: the end of the text is written without looking for an error. *)
FlushFailsUnnoticed(j) ==
    /\ MustFlush(j)
    /\ Goes(j, "append", [job[j] EXCEPT !.at = "close", !.buf = None, !.todo = <<>>])
    /\ Counts(j, -1)
    /\ UNCHANGED <<file, open, calls, crashed, leaked>>
FlushFails(j) ==
    /\ MustFlush(j)
    /\ Goes(j, "append", [job[j] EXCEPT !.at = "close", !.ok = FALSE, !.buf = None, !.todo = <<>>])
    /\ Counts(j, -1)
    /\ UNCHANGED <<file, open, calls, crashed, leaked>>
TextWritten(j) ==
    /\ job[j].buf = <<>> /\ job[j].todo = <<>>
    /\ Goes(j, "append", [job[j] EXCEPT !.at = "close", !.buf = None])
    /\ Counts(j, -1)
    /\ UNCHANGED <<file, open, calls, crashed, leaked>>

---------------------------------------------------------------------------
(* Writing an image. *)

Truncate(j) ==
    /\ GoesAndWrites(j, "ftruncate", [job[j] EXCEPT !.at = IF job[j].size = 0 THEN "close" ELSE "mapToWrite"])
    /\ file' = Resized(file, job[j].size)
    /\ UNCHANGED <<open, memory, calls, crashed, leaked>>
(* Mutant: the error is returned at once. *)
TruncateFailsOpen(j) ==
    /\ Goes(j, "ftruncate", [job[j] EXCEPT !.at = "workDone", !.fd = None, !.ok = FALSE])
    /\ UNCHANGED <<file, open, memory, calls, crashed, leaked>>
TruncateFails(j) ==
    /\ Goes(j, "ftruncate", Failed(j))
    /\ UNCHANGED <<file, open, memory, calls, crashed, leaked>>

MapToWrite(j) ==
    /\ Goes(j, "mapToWrite", [job[j] EXCEPT !.at = "fill", !.mapped = TRUE])
    /\ UNCHANGED <<file, open, memory, calls, crashed, leaked>>
(* Without a mapping the image is made in memory. *)
MapToWriteFails(j) ==
    \/ /\ Goes(j, "mapToWrite", [job[j] EXCEPT !.at = "write", !.buf = Image[job[j].values][job[j].format]])
       /\ Counts(j, 1)
       /\ UNCHANGED <<file, open, calls, crashed, leaked>>
    \/ /\ Goes(j, "mapToWrite", Failed(j))
       /\ UNCHANGED <<file, open, memory, calls, crashed, leaked>>

Fill(j) ==
    /\ job[j].at = "fill" /\ Len(file) >= job[j].size
    /\ GoesAndWrites(j, "fill", [job[j] EXCEPT !.at = "close", !.mapped = FALSE])
    /\ file' = WrittenAt(file, 0, Image[job[j].values][job[j].format])
    /\ UNCHANGED <<open, memory, calls, crashed, leaked>>

(* Only an error is followed by a close. *)
WriteImage(j) == job[j].at = "write" /\ \E n \in Takes(job[j].buf) :
    /\ GoesAndWrites(j, "write", [job[j] EXCEPT !.at = "workDone", !.buf = None, !.fd = None,
                                                 !.cut = n < Len(job[j].buf)])
    /\ file' = WrittenAt(file, 0, SubSeq(job[j].buf, 1, n))
    /\ leaked' = leaked \cup {job[j].fd}
    /\ Counts(j, -1)
    /\ UNCHANGED <<open, calls, crashed>>
WriteImageFails(j) ==
    /\ Goes(j, "write", [job[j] EXCEPT !.at = "close", !.buf = None, !.ok = FALSE])
    /\ Counts(j, -1)
    /\ UNCHANGED <<file, open, calls, crashed, leaked>>

---------------------------------------------------------------------------
(* Reading text. *)

Bitmap(S, in) == [values |-> S, in |-> in]

CreateForText(j) ==
    \/ /\ Goes(j, "create", [job[j] EXCEPT !.at = "readText", !.roaring = Bitmap({}, "memory"), !.buf = <<>>])
       /\ Counts(j, 2)
       /\ UNCHANGED <<file, open, calls, crashed, leaked>>
    \/ /\ Goes(j, "create", [job[j] EXCEPT !.at = "close", !.ok = FALSE, !.roaring = Bitmap({}, "memory")])
       /\ Counts(j, 1)
       /\ UNCHANGED <<file, open, calls, crashed, leaked>>
    \/ /\ Goes(j, "create", [job[j] EXCEPT !.at = "workDone", !.fd = None, !.ok = FALSE])
       /\ leaked' = leaked \cup {job[j].fd}
       /\ UNCHANGED <<file, open, memory, calls, crashed>>

Rest(j) == Max({Len(file) - job[j].pos, 0})
(* Mutant: a number ends where the bytes that were read end. *)
ReadTextApart(j) == job[j].at = "readText" /\ \E n \in 1 .. Min({BUFFER_SIZE, Rest(j)}) :
    /\ LET parsed == Parse(job[j].parse, SubSeq(file, job[j].pos + 1, job[j].pos + n))
       IN  Goes(j, "readText", [job[j] EXCEPT !.pos = @ + n, !.parse = [ParseInit EXCEPT !.found = Taken(parsed)],
                                                 !.roaring = Bitmap(parsed.found, "memory")])
    /\ UNCHANGED <<file, open, memory, calls, crashed, leaked>>
ReadText(j) == job[j].at = "readText" /\ \E n \in 1 .. Min({BUFFER_SIZE, Rest(j)}) :
    /\ LET parsed == Parse(job[j].parse, SubSeq(file, job[j].pos + 1, job[j].pos + n))
       IN  Goes(j, "readText", [job[j] EXCEPT !.pos = @ + n, !.parse = parsed,
                                                 !.roaring = Bitmap(parsed.found, "memory")])
    /\ UNCHANGED <<file, open, memory, calls, crashed, leaked>>
(* Mutant: only an error ends the loop. *)
EndOfTextIsError(read) == read < 0
(* No bytes are the end, wherever the file ends by now. *)
EndOfText(read) == read = 0
TextEnds(j) ==
    /\ job[j].at = "readText" /\ EndOfText(Rest(j))
    /\ Goes(j, "readText", [job[j] EXCEPT !.at = "close", !.buf = None,
                                             !.roaring = Bitmap(Taken(job[j].parse), "memory")])
    /\ Counts(j, -1)
    /\ UNCHANGED <<file, open, calls, crashed, leaked>>
ReadTextFails(j) ==
    /\ Goes(j, "readText", [job[j] EXCEPT !.at = "close", !.ok = FALSE, !.buf = None])
    /\ Counts(j, -1)
    /\ UNCHANGED <<file, open, calls, crashed, leaked>>

---------------------------------------------------------------------------
(* Reading an image. *)

(* An empty file is an empty bitmap, in every format. *)
Stat(j) ==
    \/ /\ file # <<>>
       /\ Goes(j, "fstat", [job[j] EXCEPT !.at = "mapToRead", !.size = Len(file)])
       /\ UNCHANGED <<file, open, memory, calls, crashed, leaked>>
    \/ /\ file = <<>>
       /\ Goes(j, "fstat", [job[j] EXCEPT !.at = "close", !.roaring = Bitmap({}, "memory")])
       /\ Counts(j, 1)
       /\ UNCHANGED <<file, open, calls, crashed, leaked>>
    \/ /\ Goes(j, "fstat", Failed(j))
       /\ UNCHANGED <<file, open, memory, calls, crashed, leaked>>

MapToRead(j) ==
    /\ Goes(j, "mapToRead", [job[j] EXCEPT !.at = "decode", !.mapped = TRUE])
    /\ UNCHANGED <<file, open, memory, calls, crashed, leaked>>
(* Without a mapping the file is read at once, and has to be as long as it    *)
(* was said to be.                                                           *)
MapToReadFails(j) ==
    \/ /\ Goes(j, "mapToRead", [job[j] EXCEPT !.at = "readImage", !.buf = <<>>])
       /\ Counts(j, 1)
       /\ UNCHANGED <<file, open, calls, crashed, leaked>>
    \/ /\ Goes(j, "mapToRead", Failed(j))
       /\ UNCHANGED <<file, open, memory, calls, crashed, leaked>>
ReadImage(j) ==
    /\ job[j].at = "readImage" /\ Len(file) >= job[j].size
    /\ Goes(j, "readImage", [job[j] EXCEPT !.at = "decode", !.buf = SubSeq(file, 1, job[j].size)])
    /\ UNCHANGED <<file, open, memory, calls, crashed, leaked>>
ReadImageFails(j) ==
    /\ Goes(j, "readImage", [job[j] EXCEPT !.at = "close", !.ok = FALSE, !.buf = None])
    /\ Counts(j, -1)
    /\ UNCHANGED <<file, open, calls, crashed, leaked>>

Bytes(j) == IF job[j].mapped THEN SubSeq(file, 1, job[j].size) ELSE job[j].buf

(* Mutant: a frozen bitmap is made in place. *)
BytesInPlace(format) == IF format = "unsafe_frozen_croaring" THEN "mapping" ELSE "memory"

(* A frozen bitmap points into a copy of the bytes, that is made first and    *)
(* not counted; any other one has containers of its own.                     *)
BytesOf(format) == IF format = "unsafe_frozen_croaring" THEN "frozenBuffer" ELSE "memory"
Decode(j) ==
    LET buffer == IF job[j].buf # None THEN -1 ELSE 0
        frozen == job[j].format = "unsafe_frozen_croaring"
    IN  /\ job[j].at = "decode" /\ (job[j].mapped => Len(file) >= job[j].size)
        /\ \/ \E S \in Decoded(Bytes(j), job[j].format) :
                /\ Goes(j, "decode", [job[j] EXCEPT !.at = "close", !.mapped = FALSE, !.buf = None,
                                                     !.frozenBuffer = frozen, !.roaring = Bitmap(S, BytesOf(job[j].format))])
                /\ Counts(j, 1 + buffer)
           \/ \E copied \in {FALSE, frozen} :
                /\ Goes(j, "decode", [job[j] EXCEPT !.at = "close", !.mapped = FALSE, !.buf = None,
                                                     !.frozenBuffer = copied, !.ok = FALSE])
                /\ Counts(j, buffer)
        /\ UNCHANGED <<file, open, calls, crashed, leaked>>

---------------------------------------------------------------------------
(* The end of a call, on the main thread.  What the worker collected is       *)
(* reported; a reader that did well hands its bitmap, and the buffer it       *)
(* points into, to a new object, and what is left is freed with the worker.  *)

(* Mutant: what was collected is looked at and left. *)
SettleLoading(j) == \E handed \in {TRUE, FALSE} :
    LET freed == IF ~handed /\ job[j].roaring # None THEN -1 ELSE 0
    IN  /\ MainThreadIsFree(j)
        /\ handed => job[j].ok
        /\ ~handed => ~job[j].ok \/ job[j].op = "deserializeFileAsync"
        /\ Goes(j, "workDone",
                IF handed THEN [job[j] EXCEPT !.at = "settled"]
                ELSE [job[j] EXCEPT !.at = "settled", !.ok = FALSE, !.roaring = None, !.frozenBuffer = FALSE])
        /\ total' = total + freed
        /\ external' = external + pending[j] + freed
        /\ UNCHANGED <<file, open, pending, calls, crashed, leaked, drift>>
Settle(j) == \E handed \in {TRUE, FALSE} :
    LET freed == IF ~handed /\ job[j].roaring # None THEN -1 ELSE 0
    IN  /\ MainThreadIsFree(j)
        /\ handed => job[j].ok
        /\ ~handed => ~job[j].ok \/ job[j].op = "deserializeFileAsync"
        /\ Goes(j, "workDone",
                IF handed THEN [job[j] EXCEPT !.at = "settled"]
                ELSE [job[j] EXCEPT !.at = "settled", !.ok = FALSE, !.roaring = None, !.frozenBuffer = FALSE])
        /\ total' = total + freed
        /\ external' = external + pending[j] + freed
        /\ pending' = [pending EXCEPT ![j] = 0]
        /\ UNCHANGED <<file, open, calls, crashed, leaked, drift>>

(* The result is collected: the bitmap is freed, and its buffer through the   *)
(* counted function.                                                         *)
Forget(j) ==
    LET bitmap == IF job[j].roaring # None THEN 1 ELSE 0
        uncounted == IF job[j].frozenBuffer THEN 1 ELSE 0
    IN  /\ ~crashed /\ MainThreadIsFree(j)
        /\ job[j].at = "settled"
        /\ job' = [job EXCEPT ![j] = Unused]
        /\ total' = total - bitmap - uncounted
        /\ external' = external - bitmap - uncounted
        /\ drift' = drift + uncounted
        /\ UNCHANGED <<file, open, pending, calls, crashed, leaked>>

(* What a call does when nothing stands in its way, failures that have a      *)
(* reason in the state of the process included, and what may fail any time.  *)
Refused(j) == NewDescriptor = {} \/ (job[j].op \in Readers /\ file = None)
IsShorter(j) == job[j].at = "readImage" /\ Len(file) < job[j].size
Serializes(j) == job[j].op = "serializeFileAsync" /\
    \/ OpenToWrite(j)
    \/ MakeBuffer(j) \/ AppendItem(j) \/ Flush(j) \/ TextWritten(j)
    \/ Truncate(j) \/ MapToWrite(j) \/ Fill(j) \/ WriteImage(j) \/ Crash(j, "fill")
Deserializes(j) == job[j].op \in Readers /\
    \/ OpenToRead(j) \/ CreateForText(j) \/ ReadText(j) \/ TextEnds(j)
    \/ Stat(j) \/ MapToRead(j) \/ ReadImage(j) \/ (ReadImageFails(j) /\ IsShorter(j))
    \/ Decode(j) \/ Crash(j, "decode")
Works(j) ==
    \/ Serializes(j) \/ Deserializes(j)
    \/ (OpenFails(j) /\ Refused(j)) \/ Close(j) \/ Settle(j)
Fails(j) ==
    \/ OpenFails(j) \/ FlushFails(j) \/ TruncateFails(j) \/ MapToWriteFails(j) \/ WriteImageFails(j)
    \/ ReadTextFails(j) \/ MapToReadFails(j) \/ ReadImageFails(j)

Next == \E j \in Job : StartSerialize(j) \/ StartDeserialize(j) \/ Works(j) \/ Fails(j) \/ Forget(j)

(* The pool and the event loop come to every call, and the calls into the     *)
(* operating system return; they need not fail.                              *)
Spec == Init /\ [][Next]_vars /\ \A j \in Job : WF_vars(Works(j))

---------------------------------------------------------------------------
(* Properties. *)

Places ==
    {"unused", "open", "close", "workDone", "settled",
     "buffer", "append", "ftruncate", "mapToWrite", "fill", "write",
     "create", "readText", "fstat", "mapToRead", "readImage", "decode"}
Held == {job[j].fd : j \in Job} \ {None}

(* Every call is somewhere and holds what it may hold; in particular text    *)
(* never goes beyond the buffer of the writer, although what a number needs  *)
(* is only estimated.                                                        *)
TypeOK ==
    /\ open \subseteq Descriptor /\ leaked \subseteq Descriptor
    /\ \A j \in Job :
        /\ job[j].at \in Places
        /\ job[j].fd \in Descriptor \cup {None}
        /\ job[j].parse \in Parsing
        /\ job[j].at = "append" => Len(job[j].buf) <= BUFFER_SIZE
        /\ job[j].roaring # None => job[j].roaring.values \subseteq 0 .. UINT32_MAX
    /\ {total, external} \cup {pending[j] : j \in Job} \subseteq Int
    /\ drift \in Nat /\ calls \in 0 .. MaxCalls /\ crashed \in BOOLEAN

(* Whatever fails, a descriptor is held by one call or closed, except after   *)
(* an image was written without a mapping and after there was no memory for  *)
(* a bitmap to read text into; a call that is over holds none.               *)
DescriptorsClosed ==
    /\ open = Held \cup leaked /\ Held \cap leaked = {}
    /\ \A j, k \in Job : job[j].fd = job[k].fd /\ job[j].fd # None => j = k
    /\ \A j \in Job : job[j].at \in {"unused", "workDone", "settled"} => job[j].fd = None

(* The counter is what is allocated, less one for every frozen result that   *)
(* was collected; a worker keeps what its call has allocated until the call  *)
(* is settled, and V8 was told of all the rest.                              *)
Allocated(J) == Cardinality({j \in J : job[j].buf # None}) + Cardinality({j \in J : job[j].roaring # None})
Kept(j) == ~OnMainThread(j) /\ job[j].at \notin {"unused", "settled"}
MemoryAccounted ==
    /\ total = Allocated(Job) - drift
    /\ external = Allocated({j \in Job : ~Kept(j)}) - drift
    /\ \A j \in Job : pending[j] = IF Kept(j) THEN Allocated({j}) ELSE 0

(* No bitmap points into bytes that are gone, neither while it is made nor   *)
(* when it was handed over, and a call that has the file for itself never    *)
(* uses a mapping beyond its end.                                            *)
BytesAreThere ==
    /\ \A j \in Job : job[j].roaring # None =>
            CASE job[j].roaring.in = "memory" -> TRUE
              [] job[j].roaring.in = "frozenBuffer" -> job[j].frozenBuffer
              [] job[j].roaring.in = "mapping" -> job[j].mapped
    /\ crashed => \E j \in Job : job[j].mapped /\ ~job[j].alone

(* A serialization that reports success left the whole of the text or image  *)
(* in the file, unless a write was cut short, there was no buffer for text,  *)
(* or another call changed the file.                                         *)
WrittenAsReported ==
    \A j \in Job :
        job[j].op = "serializeFileAsync" /\ job[j].at = "settled" /\ job[j].ok /\ ~job[j].cut /\ job[j].alone
            => file = Written(job[j].values, job[j].format)

(* A bitmap that was read has the values of the set that was written, in     *)
(* whatever pieces text was written and read, and what numbers there are in  *)
(* a text of another origin; and it is frozen when the format says so,       *)
(* unless the file was empty.                                                *)
ReadAsWritten ==
    \A j \in Job :
        job[j].op \in Readers /\ job[j].at \in {"workDone", "settled"} /\ job[j].ok /\ job[j].alone =>
            /\ job[j].format \in TextFormat => job[j].roaring.values = TextValues(file)
            /\ \A S \in Contents :
                    \/ job[j].format \in TextFormat /\ \E format \in TextFormat : file = Text[S][format]
                    \/ job[j].format \in BinaryFormat /\ file = Image[S][job[j].format]
                    => job[j].roaring.values = S
            /\ job[j].frozenBuffer <=> job[j].format = "unsafe_frozen_croaring" /\ file # <<>>

(* Every call ends, with an answer or with an error, unless the process does. *)
JobsEnd == \A j \in Job : (job[j].at \notin {"unused", "settled"}) ~> (job[j].at = "settled" \/ crashed)
============================================================================
