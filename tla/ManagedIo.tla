----------------------------- MODULE ManagedIo -----------------------------
(***************************************************************************)
(* Buffered managed files (runtime/managed_io.rs) over one path.  A handle *)
(* keeps the whole text in a buffer; a flush writes only what changed when *)
(* the fingerprint of the file is that of the last flush, and the whole    *)
(* buffer otherwise.                                                       *)
(*                                                                         *)
(* The Lua state runs one call at a time; other processes write the file   *)
(* at any moment.  A fingerprint is the file's generation: a foreign write *)
(* of the same length within one tick of the file system's clock leaves it *)
(* as it was, and a write between a handle's check and its own write is    *)
(* not seen either.  `deceived` is the set of handles that either happened *)
(* to.                                                                     *)
(***************************************************************************)
EXTENDS Integers, Sequences, SequencesExt, FiniteSets

CONSTANTS IoHandles,     \* file handles, each opened at most once
          IoBytes,       \* byte values
          MaxText,       \* bound on the length of a text
          MaxGeneration, \* bound on writes of the file
          MaxIoFaults    \* bound on failing calls of the file system

VARIABLES ioFile,        \* the file on disk
          generation,    \* what its metadata says of its history
          handle, ioCall,
          currentOutput,
          deceived, flushedNow, ioFaults

ioVars == <<ioFile, generation, handle, ioCall, currentOutput, deceived, flushedNow,
            ioFaults>>

Newline == CHOOSE b \in IoBytes : \A c \in IoBytes : b <= c
Absent == [there |-> FALSE, text |-> <<>>]
NoPrint == -1
Clean == <<0, 0>>
Nobody == "nobody"
Unopened == [state |-> "unopened", kind |-> "read", update |-> FALSE, buffer |-> <<>>, cursor |-> 0,
             flushed |-> 0, initialized |-> FALSE, fingerprint |-> NoPrint, dirty |-> Clean,
             deleteOnClose |-> FALSE]
NoIoCall == [h |-> Nobody, at |-> "idle", then |-> "none"]

IoInit ==
    /\ ioFile \in {Absent} \union {[there |-> TRUE, text |-> <<b>>] : b \in IoBytes}
    /\ generation = 0
    /\ handle = [h \in IoHandles |-> Unopened]
    /\ ioCall = NoIoCall
    /\ currentOutput = Nobody
    /\ deceived = {}
    /\ flushedNow = Nobody
    /\ ioFaults = 0
----------------------------------------------------------------------------
IoMin(a, b) == IF a < b THEN a ELSE b
IoMax(a, b) == IF a > b THEN a ELSE b

Opened(h) == handle[h].state = "open"
Readable(h) == handle[h].kind = "read" \/ handle[h].update
Writable(h) == handle[h].kind # "read" \/ handle[h].update
IoIdle == ioCall = NoIoCall
FaultIo == ioFaults < MaxIoFaults /\ ioFaults' = ioFaults + 1

(* open and tmpfile: only reading and append-update look at the file.      *)
Open(h, kind, update) ==
    /\ IoIdle
    /\ handle[h] = Unopened
    /\ LET reads == kind = "read" \/ (kind = "append" /\ update)
       IN /\ kind = "read" => ioFile.there
          /\ handle' = [handle EXCEPT ![h] =
               [Unopened EXCEPT !.state = "open", !.kind = kind, !.update = update,
                  !.buffer = IF reads THEN ioFile.text ELSE <<>>,
                  !.flushed = IF reads THEN Len(ioFile.text) ELSE 0,
                  !.initialized = (reads /\ ioFile.there) \/ (kind = "append" /\ ~update),
                  !.fingerprint = IF reads /\ update /\ ioFile.there THEN generation
                                  ELSE NoPrint]]
    /\ flushedNow' = Nobody
    /\ UNCHANGED <<ioFile, generation, ioCall, currentOutput, deceived, ioFaults>>

\* reserve_tmpfile_path creates the file; here it is the path of the model, when nothing is there.
Tmpfile(h) ==
    /\ IoIdle
    /\ handle[h] = Unopened
    /\ ~ioFile.there
    /\ generation < MaxGeneration
    /\ ioFile' = [there |-> TRUE, text |-> <<>>]
    /\ generation' = generation + 1
    /\ handle' = [handle EXCEPT ![h] =
         [Unopened EXCEPT !.state = "open", !.kind = "write", !.update = TRUE,
            !.initialized = TRUE, !.fingerprint = generation + 1, !.deleteOnClose = TRUE]]
    /\ flushedNow' = Nobody
    /\ UNCHANGED <<ioCall, currentOutput, deceived, ioFaults>>

\* The position after the next line of the buffer.
LineEnd(h) ==
    LET ends == {i \in handle[h].cursor + 1..Len(handle[h].buffer) : handle[h].buffer[i] = Newline}
    IN IF ends = {} THEN Len(handle[h].buffer) ELSE CHOOSE i \in ends : \A j \in ends : i <= j

ReadTo(h, position) ==
    /\ IoIdle
    /\ Opened(h) /\ Readable(h)
    /\ handle[h].cursor < Len(handle[h].buffer)
    /\ position \in {LineEnd(h), Len(handle[h].buffer), handle[h].cursor + 1}
    /\ handle' = [handle EXCEPT ![h].cursor = position]
    /\ flushedNow' = Nobody
    /\ UNCHANGED <<ioFile, generation, ioCall, currentOutput, deceived, ioFaults>>

DirtyAlone(dirty, from, to) == <<from, to>>

DirtyUnion(dirty, from, to) ==
    IF dirty = Clean THEN <<from, to>> ELSE <<IoMin(dirty[1], from), IoMax(dirty[2], to)>>

\* Update handles write at the cursor, append-update at the end; the others only grow.
Written(f, b) ==
    LET at == IF ~f.update \/ f.kind = "append" THEN Len(f.buffer) ELSE f.cursor
        text == IF at < Len(f.buffer) THEN [f.buffer EXCEPT ![at + 1] = b] ELSE Append(f.buffer, b)
    IN [f EXCEPT !.buffer = text, !.cursor = at + 1,
                 !.dirty = IF f.update THEN DirtyUnion(@, at, at + 1) ELSE @]

WriteByte(h, b) ==
    /\ IoIdle
    /\ Opened(h) /\ Writable(h)
    /\ Len(handle[h].buffer) < MaxText
    /\ handle' = [handle EXCEPT ![h] = Written(@, b)]
    /\ flushedNow' = Nobody
    /\ UNCHANGED <<ioFile, generation, ioCall, currentOutput, deceived, ioFaults>>

\* A position beyond the end is where a gap would start.
SoughtAnywhere(h, next) == next

\* A position beyond the end is the end.
Sought(h, next) == IoMin(next, Len(handle[h].buffer))

Seek(h, next) ==
    /\ IoIdle
    /\ Opened(h)
    /\ Sought(h, next) # handle[h].cursor
    /\ handle' = [handle EXCEPT ![h].cursor = Sought(h, next)]
    /\ flushedNow' = Nobody
    /\ UNCHANGED <<ioFile, generation, ioCall, currentOutput, deceived, ioFaults>>
----------------------------------------------------------------------------
(* flush_state, in two steps: what has to be written, and the writing.     *)

MatchesByLength(h) == ioFile.there /\ handle[h].fingerprint # NoPrint
                      /\ Len(ioFile.text) = handle[h].flushed

\* managed_io_backing_file_matches_last_flush
MatchesLastFlush(h) == ioFile.there /\ handle[h].fingerprint = generation

Plan(h) ==
    LET f == handle[h]
    IN IF f.kind = "read" /\ ~f.update THEN "nothing"
       ELSE IF f.kind = "append" /\ ~f.update
       THEN IF f.flushed = Len(f.buffer) THEN "nothing" ELSE "append"
       ELSE IF ~f.initialized \/ ~MatchesLastFlush(h) THEN "full"
       ELSE IF f.update THEN IF f.dirty = Clean THEN "nothing" ELSE "patch"
       ELSE IF f.flushed = Len(f.buffer) THEN "nothing" ELSE "patch"

\* then: what follows a flush that succeeds.
CheckFlush(h, then) ==
    /\ IoIdle
    /\ Opened(h)
    /\ ioCall' = [h |-> h, at |-> Plan(h), then |-> then]
    /\ flushedNow' = Nobody
    /\ UNCHANGED <<ioFile, generation, handle, currentOutput, deceived, ioFaults>>

\* io.close() without a handle takes the current output first.
CloseCurrentOutput ==
    /\ IoIdle
    /\ currentOutput # Nobody
    /\ Opened(currentOutput)
    /\ ioCall' = [h |-> currentOutput, at |-> Plan(currentOutput), then |-> "close"]
    /\ currentOutput' = Nobody
    /\ flushedNow' = Nobody
    /\ UNCHANGED <<ioFile, generation, handle, deceived, ioFaults>>

\* The dirty range of the buffer written into the file, which gets the length of the buffer.
Patched(h) ==
    LET f == handle[h]
        from == IF f.update THEN f.dirty[1] ELSE f.flushed
        to == IF f.update THEN f.dirty[2] ELSE Len(f.buffer)
    IN [i \in 1..Len(f.buffer) |->
          IF i > from /\ i <= to THEN f.buffer[i]
          ELSE IF i <= Len(ioFile.text) THEN ioFile.text[i] ELSE 0]

WrittenText(h) ==
    CASE ioCall.at = "full" -> handle[h].buffer
      [] ioCall.at = "patch" -> Patched(h)
      [] ioCall.at = "append" ->
           ioFile.text \o SubSeq(handle[h].buffer, handle[h].flushed + 1, Len(handle[h].buffer))
      [] OTHER -> ioFile.text

\* The file when the write stopped after n bytes.
PartlyWritten(h, n) ==
    CASE ioCall.at = "full" -> SubSeq(handle[h].buffer, 1, n)
      [] ioCall.at = "append" ->
           ioFile.text \o SubSeq(handle[h].buffer, handle[h].flushed + 1, handle[h].flushed + n)
      [] OTHER -> [i \in 1..IoMax(n, Len(ioFile.text)) |->
                     IF i <= n THEN Patched(h)[i] ELSE ioFile.text[i]]

Trusting == {g \in IoHandles : handle[g].fingerprint = generation}

\* The file is missing when a patch opens it: the whole buffer is written instead.
FallBackToFull ==
    /\ ioCall.at = "patch"
    /\ ~ioFile.there
    /\ ioCall' = [ioCall EXCEPT !.at = "full"]
    /\ UNCHANGED <<ioFile, generation, handle, currentOutput, deceived, flushedNow,
                   ioFaults>>

Flushed(f, g) ==
    IF ioCall.at = "append" THEN [f EXCEPT !.flushed = Len(f.buffer)]
    ELSE [f EXCEPT !.flushed = Len(f.buffer), !.initialized = TRUE, !.fingerprint = g,
                   !.dirty = Clean]

WriteFlush ==
    LET h == ioCall.h
    IN /\ ioCall.at \in {"full", "patch", "append"}
       /\ ioCall.at = "patch" => ioFile.there
       /\ generation < MaxGeneration
       /\ Len(WrittenText(h)) <= 2 * MaxText
       /\ ioFile' = [there |-> TRUE, text |-> WrittenText(h)]
       /\ generation' = generation + 1
       /\ handle' = [handle EXCEPT ![h] = Flushed(@, generation + 1)]
       /\ deceived' = IF ioCall.at = "full" THEN deceived \ {h} ELSE deceived
       /\ ioCall' = [ioCall EXCEPT !.at = "nothing"]
       /\ UNCHANGED <<currentOutput, flushedNow, ioFaults>>

\* A truncated, half written or half patched file, and an unchanged handle.
FlushFails(n) ==
    /\ ioCall.at \in {"full", "append", "patch"}
    /\ ioCall.at = "patch" => ioFile.there
    /\ n <= Len(handle[ioCall.h].buffer)
    /\ ioCall.at = "append" => n <= Len(handle[ioCall.h].buffer) - handle[ioCall.h].flushed
    /\ generation < MaxGeneration
    /\ FaultIo
    /\ ioFile' = [there |-> TRUE, text |-> PartlyWritten(ioCall.h, n)]
    /\ generation' = generation + 1
    /\ ioCall' = NoIoCall
    /\ UNCHANGED <<handle, currentOutput, deceived, flushedNow>>

\* A call of the file system refuses before anything is written.
FlushRefused ==
    /\ ioCall.at \in {"full", "append", "patch"}
    /\ FaultIo
    /\ ioCall' = NoIoCall
    /\ UNCHANGED <<ioFile, generation, handle, currentOutput, deceived, flushedNow>>

FinishFlush ==
    /\ ioCall.at = "nothing"
    /\ ioCall' = IF ioCall.then = "close" THEN [ioCall EXCEPT !.at = "close"] ELSE NoIoCall
    /\ flushedNow' = ioCall.h
    /\ UNCHANGED <<ioFile, generation, handle, currentOutput, deceived, ioFaults>>

Closed(h) == [handle EXCEPT ![h].state = "closed"]

CloseFile ==
    LET h == ioCall.h
    IN /\ ioCall.at = "close"
       /\ handle' = Closed(h)
       /\ ioFile' = IF handle[h].deleteOnClose THEN Absent ELSE ioFile
       /\ ioCall' = NoIoCall
       /\ flushedNow' = Nobody
       /\ UNCHANGED <<generation, currentOutput, deceived, ioFaults>>

\* The temporary file cannot be removed; the handle stays open.
CloseFails ==
    /\ ioCall.at = "close"
    /\ handle[ioCall.h].deleteOnClose
    /\ FaultIo
    /\ ioCall' = NoIoCall
    /\ UNCHANGED <<ioFile, generation, handle, currentOutput, deceived, flushedNow>>
----------------------------------------------------------------------------
(* io.output; io.write and io.flush act on it, io.read on an input kept    *)
(* the same way.                                                           *)

SetOutput(h) ==
    /\ IoIdle /\ handle[h] # Unopened /\ currentOutput # h
    /\ currentOutput' = h
    /\ UNCHANGED <<ioFile, generation, handle, ioCall, deceived, flushedNow,
                   ioFaults>>

\* Another process replaces the text or removes the file.
ForeignWrite(text) ==
    /\ generation < MaxGeneration
    /\ ioFile' = [there |-> TRUE, text |-> text]
    /\ \/ generation' = generation + 1
       \/ /\ ioFile.there /\ Len(text) = Len(ioFile.text)
          /\ generation' = generation
    /\ deceived' = deceived
         \union (IF generation' = generation THEN Trusting ELSE {})
         \union (IF IoIdle THEN {} ELSE {ioCall.h})
    /\ flushedNow' = Nobody
    /\ UNCHANGED <<handle, ioCall, currentOutput, ioFaults>>

ForeignRemove ==
    /\ ioFile.there
    /\ generation < MaxGeneration
    /\ ioFile' = Absent
    /\ generation' = generation + 1
    /\ deceived' = deceived \union (IF IoIdle THEN {} ELSE {ioCall.h})
    /\ flushedNow' = Nobody
    /\ UNCHANGED <<handle, ioCall, currentOutput, ioFaults>>

IoNext ==
    \/ \E h \in IoHandles :
        \/ \E kind \in {"read", "write", "append"}, update \in BOOLEAN : Open(h, kind, update)
        \/ Tmpfile(h) \/ SetOutput(h)
        \/ \E n \in 0..MaxText : ReadTo(h, n) \/ Seek(h, n)
        \/ \E b \in IoBytes : WriteByte(h, b)
        \/ \E then \in {"return", "close"} : CheckFlush(h, then)
    \/ CloseCurrentOutput \/ FallBackToFull \/ WriteFlush \/ FlushRefused \/ FinishFlush
    \/ \E n \in 0..MaxText : FlushFails(n)
    \/ CloseFile \/ CloseFails
    \/ \E b \in IoBytes : ForeignWrite(<<b>>)
    \/ ForeignRemove
----------------------------------------------------------------------------
\* The variables keep their types.
IoTypeOK ==
    /\ generation \in 0..MaxGeneration
    /\ \A h \in IoHandles :
        /\ handle[h].cursor \in 0..Len(handle[h].buffer)
        /\ handle[h].flushed \in 0..2 * MaxText
        /\ handle[h].dirty[2] <= Len(handle[h].buffer)
    /\ ioCall.h \in IoHandles \union {Nobody}

(* When a flush of a write or update handle returns, the file is the        *)
(* handle's buffer, after any sequence of partial writes, failed flushes    *)
(* and changes by others that the fingerprint shows (flush_write_state,     *)
(* flush_update_state, flush_full_buffer).                                  *)
FlushedIsBuffer ==
    (flushedNow # Nobody /\ flushedNow \notin deceived) =>
        LET f == handle[flushedNow]
        IN (f.kind = "write" \/ f.update) =>
             ioFile.there /\ ioFile.text = f.buffer
============================================================================
