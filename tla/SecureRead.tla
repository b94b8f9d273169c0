------------------------------ MODULE SecureRead -----------------------------
(***************************************************************************)
(* Reading a settings file or a manifest: packages/engine/src/inventory/   *)
(* metadata-internal.ts.  The file is looked at, opened without following  *)
(* a link where the platform can do so, compared with what was looked at,  *)
(* and read up to a bound, while others replace it or write to it.         *)
(***************************************************************************)
EXTENDS Naturals, FiniteSets, Sequences

CONSTANTS
    MaxMetadata,     \* MAX_METADATA_BYTES, in blocks
    MaxWritten,      \* bound: the size to which a file is written
    MaxReplaced      \* bound: how often the path is given another file

ASSUME MetadataBounds == MaxMetadata \in Nat /\ MaxWritten \in Nat /\ MaxReplaced \in Nat

VARIABLES
    metadataPath,    \* what the path is: "none", "other", or a link to or a name
                     \* of the file number `file`
    metadataSize,    \* size of each file
    metadataReader   \* the reader: its step, what it saw, its open file, offset

metadataVars == <<metadataPath, metadataSize, metadataReader>>

MetadataInit ==
    /\ metadataPath \in [kind : {"none", "other", "link", "file"}, file : {1}, moves : {0}]
    /\ metadataSize \in [1 .. MaxReplaced + 1 -> {0, MaxMetadata}]
    /\ \E noFollow \in BOOLEAN : \E expected \in {0, 1, 2} :
          metadataReader = [step |-> "look", noFollow |-> noFollow, expected |-> expected,
                            saw |-> 0, open |-> 0, offset |-> 0,
                            atEnd |-> FALSE, result |-> "none"]

Refuse(code) == [metadataReader EXCEPT !.step = "done", !.result = code]
ReaderMoves == UNCHANGED <<metadataPath, metadataSize>>

LookAtFile ==
    LET p == metadataPath
        r == metadataReader
    IN  /\ r.step = "look"
        /\ metadataReader' = CASE p.kind = "none"  -> Refuse("unreadable")
                               [] p.kind = "link"  -> Refuse("link")
                               [] p.kind = "other" -> Refuse("not file")
                               [] p.kind = "file"  ->
                                     IF metadataSize[p.file] > MaxMetadata THEN Refuse("too large")
                                     ELSE IF r.expected # 0 /\ r.expected # p.file THEN Refuse("changed")
                                     ELSE [r EXCEPT !.step = "open", !.saw = p.file]
        /\ ReaderMoves

OpenFile ==
    LET p == metadataPath
        r == metadataReader
    IN  /\ r.step = "open"
        /\ metadataReader' = CASE p.kind = "none" -> Refuse("unreadable")
                               [] p.kind = "link" /\ r.noFollow -> Refuse("link")
                               [] p.kind = "other" -> Refuse("not file")
                               [] p.kind = "file" \/ (p.kind = "link" /\ ~r.noFollow)
                                     -> [r EXCEPT !.step = "compare", !.open = p.file]
        /\ ReaderMoves

(* Mutant: what was opened is not compared with what was looked at.         *)
CompareSizeOnly ==
    /\ metadataReader.step = "compare"
    /\ metadataReader' = IF metadataSize[metadataReader.open] > MaxMetadata THEN Refuse("too large")
                         ELSE [metadataReader EXCEPT !.step = "read"]
    /\ ReaderMoves

CompareFile ==
    LET r == metadataReader
    IN  /\ r.step = "compare"
        /\ metadataReader' = IF r.open # r.saw \/ (r.expected # 0 /\ r.expected # r.open) THEN Refuse("changed")
                             ELSE IF metadataSize[r.open] > MaxMetadata THEN Refuse("too large")
                             ELSE [r EXCEPT !.step = "read"]
        /\ ReaderMoves

(* The buffer is one larger than the bound, so that a file that grew is     *)
(* recognised.  Mutant: it is as large as the bound itself.                 *)
BufferAsBound == MaxMetadata
BufferLength == MaxMetadata + 1

ReadSome ==
    LET r    == metadataReader
        left == metadataSize[r.open] - r.offset
        room == BufferLength - r.offset
    IN  /\ r.step = "read" /\ room > 0 /\ metadataSize[r.open] > r.offset
        /\ \E n \in 1 .. room : n <= left /\ metadataReader' = [r EXCEPT !.offset = @ + n]
        /\ ReaderMoves

FinishRead ==
    LET r   == metadataReader
        end == metadataSize[r.open] <= r.offset
    IN  /\ r.step = "read" /\ (r.offset >= BufferLength \/ end)
        /\ metadataReader' = IF r.offset > MaxMetadata THEN Refuse("too large")
                             ELSE [r EXCEPT !.step = "done", !.result = "text", !.atEnd = end]
        /\ ReaderMoves

(* The path is given another file, a link to one, or nothing.               *)
ReplaceFile ==
    /\ metadataReader.step # "done"
    /\ metadataPath.moves < MaxReplaced
    /\ \E kind \in {"none", "other", "link", "file"} : \E f \in DOMAIN metadataSize :
          metadataPath' = [kind |-> kind, file |-> f, moves |-> metadataPath.moves + 1]
    /\ UNCHANGED <<metadataSize, metadataReader>>

WriteFile ==
    /\ metadataReader.step # "done"
    /\ \E f \in DOMAIN metadataSize : \E size \in 0 .. MaxWritten : metadataSize' = [metadataSize EXCEPT ![f] = size]
    /\ UNCHANGED <<metadataPath, metadataReader>>

MetadataNext ==
    LookAtFile \/ OpenFile \/ CompareFile \/ ReadSome \/ FinishRead \/ ReplaceFile \/ WriteFile

MetadataSpec == MetadataInit /\ [][MetadataNext]_metadataVars

----------------------------------------------------------------------------

(* Text that is handed out is of the very file that was looked at, and that *)
(* the caller may have asked for; it is within the bound, and it is all of  *)
(* the file: a file that outgrows the bound is refused, never cut off.      *)
WholeFile ==
    metadataReader.result = "text" =>
        /\ metadataReader.open = metadataReader.saw /\ metadataReader.expected \in {0, metadataReader.open}
        /\ metadataReader.offset <= MaxMetadata
        /\ metadataReader.atEnd
=============================================================================
