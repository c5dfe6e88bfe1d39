------------------------------ MODULE Uploads ------------------------------
(***************************************************************************)
(* A file that a client uploads in parts, and downloads in pieces.         *)
(*                                                                         *)
(* A part has a row, made first, and bytes in a file of its own under      *)
(* uploading/.  A request that uses the upload reads the rows, renames the *)
(* file of part 0 to where files are kept, appends the other parts to it,  *)
(* and saves a File.  Handlers are tasks that take a step per statement,   *)
(* or per call of the storage (to open a file and write to it is one).     *)
(*                                                                         *)
(* The client splits its file as it should: parts of one size, and a last  *)
(* one that may be shorter; big files with the number of parts.  It sends  *)
(* parts in any order, many at a time and again, and may use the upload    *)
(* before all are there.  Left out: thumbnails, sizes of photos, duration, *)
(* who may read a file.                                                    *)
(***************************************************************************)
EXTENDS Integers, SequencesExt

CONSTANTS
    Tasks,      \* handlers that can run at once
    Uploads,    \* what can be uploaded: [parts, last, big, saves, uses, mishaps], bounds included
    Mb, Kb      \* units that a piece does not cross, and that it is a multiple of

VARIABLES
    upload,     \* what is uploaded
    row,        \* the row of UploadingFile
    size,       \* part -> size of its row, for those there are
    disk,       \* part -> its file under uploading/: none, empty or full
    stored,     \* what is in the file where files are kept
    files,      \* the rows of File
    told,       \* parts the client was told are saved
    task,       \* task -> the handler it runs, and how far it is
    cause,      \* what has happened that the properties below are about
    left        \* the rest of the budget

vars == <<upload, row, size, disk, stored, files, told, task, cause, left>>

None == "none"
Full == 2
Parts == 0..(upload.parts - 1)
SizeOf(p) == IF p = upload.parts - 1 THEN upload.last ELSE Full
Bytes(p) == [i \in 1..SizeOf(p) |-> <<p, i>>]
Whole(n) == FlattenSeq([i \in 1..n |-> Bytes(i - 1)])
maybe_last(s) == s # Full                   \* a last part need not have the size of the others
Idle == [at |-> "idle", part |-> 0, last |-> -1, counted |-> FALSE, mime |-> FALSE, size |-> 0,
         next |-> 0, due |-> {}, early |-> FALSE]

Init ==
    /\ upload \in Uploads
    /\ row = [there |-> FALSE, total |-> 0, mime |-> FALSE]
    /\ size = <<>>
    /\ disk = [p \in Parts |-> None]
    /\ stored = None
    /\ files = {}
    /\ told = {}
    /\ task = [t \in Tasks |-> Idle]
    /\ cause = [taken |-> 0, mishap |-> FALSE, refused |-> FALSE, spoilt |-> FALSE]
    /\ left = [saves |-> upload.saves, uses |-> upload.uses, mishaps |-> upload.mishaps]

Go(t, at) == task' = [task EXCEPT ![t].at = at]
Stop(t) == task' = [task EXCEPT ![t] = Idle]
Answer(t) == told' = told \cup {task[t].part} /\ Stop(t)
Refuse(t) == cause' = [cause EXCEPT !.refused = TRUE] /\ Stop(t)

-----------------------------------------------------------------------------
(* upload.SaveFilePart, upload.SaveBigFilePart *)

SaveFilePart(t, p) ==
    /\ task[t].at = "idle" /\ left.saves > 0
    /\ left' = [left EXCEPT !.saves = @ - 1]
    /\ task' = [task EXCEPT ![t] = [Idle EXCEPT !.at = "upload", !.part = p]]
    /\ UNCHANGED <<upload, row, size, disk, stored, files, told, cause>>

\* Part 0 has the type of the file.
GetOrCreateUpload(t) ==
    /\ task[t].at = "upload"
    /\ IF ~row.there
       THEN /\ row' = [there |-> TRUE, total |-> IF upload.big THEN upload.parts ELSE 0, mime |-> task[t].part = 0]
            /\ Go(t, "last")
       ELSE row' = row /\ Go(t, IF task[t].part = 0 /\ ~row.mime THEN "mime" ELSE "last")
    /\ UNCHANGED <<upload, size, disk, stored, files, told, cause, left>>

SaveMime(t) ==
    /\ task[t].at = "mime"
    /\ row' = [row EXCEPT !.mime = TRUE]
    /\ Go(t, "last")
    /\ UNCHANGED <<upload, size, disk, stored, files, told, cause, left>>

LastPart(t) ==
    /\ task[t].at = "last"
    /\ task' = [task EXCEPT ![t].at = "existing", ![t].last = Max({-1} \cup DOMAIN size)]
    /\ UNCHANGED <<upload, row, size, disk, stored, files, told, cause, left>>

\* Mutant: a part is refused for its size before it is looked for.
SizeFirst(t) ==
    LET p == task[t].part
    IN  /\ task[t].at = "existing"
        /\ IF (row.total > 0 /\ p >= row.total) \/ (maybe_last(SizeOf(p)) /\ task[t].last >= p)
           THEN Refuse(t) /\ told' = told
           ELSE IF p \in DOMAIN size THEN Answer(t) /\ cause' = cause
           ELSE Go(t, "create") /\ UNCHANGED <<told, cause>>
        /\ UNCHANGED <<upload, row, size, disk, stored, files, left>>

\* What is there already is said to be saved.
ExistingPart(t) ==
    LET p == task[t].part
    IN  /\ task[t].at = "existing"
        /\ IF row.total > 0 /\ p >= row.total THEN Refuse(t) /\ told' = told
           ELSE IF p \in DOMAIN size THEN Answer(t) /\ cause' = cause
           ELSE IF maybe_last(SizeOf(p)) /\ task[t].last >= p THEN Refuse(t) /\ told' = told
           ELSE Go(t, "create") /\ UNCHANGED <<told, cause>>
        /\ UNCHANGED <<upload, row, size, disk, stored, files, left>>

CreatePart(t) ==
    LET p == task[t].part
    IN  /\ task[t].at = "create"
        /\ IF p \in DOMAIN size THEN Answer(t) /\ size' = size
           ELSE /\ size' = [q \in DOMAIN size \cup {p} |-> IF q = p THEN SizeOf(p) ELSE size[q]]
                /\ Go(t, "touch") /\ told' = told
        /\ UNCHANGED <<upload, row, disk, stored, files, cause, left>>

TouchPart(t) ==
    /\ task[t].at = "touch"
    /\ disk' = [disk EXCEPT ![task[t].part] = "empty"]
    /\ Go(t, "write")
    /\ UNCHANGED <<upload, row, size, stored, files, told, cause, left>>

\* It fails if the file was renamed or removed meanwhile.
WritePart(t) ==
    LET p == task[t].part
    IN  /\ task[t].at = "write"
        /\ IF disk[p] = None THEN Stop(t) /\ UNCHANGED <<disk, told>>
           ELSE disk' = [disk EXCEPT ![p] = "full"] /\ Answer(t)
        /\ UNCHANGED <<upload, row, size, stored, files, cause, left>>

-----------------------------------------------------------------------------
(* A request that uses the upload; account.UploadWallPaper gives the        *)
(* number of parts, others do not.                                          *)

UseUpload(t) ==
    /\ task[t].at = "idle" /\ left.uses > 0 /\ row.there
    /\ left' = [left EXCEPT !.uses = @ - 1]
    /\ \E counted \in BOOLEAN :
        task' = [task EXCEPT ![t] = [Idle EXCEPT !.at = "parts", !.counted = counted, !.mime = row.mime, !.due = told]]
    /\ UNCHANGED <<upload, row, size, disk, stored, files, told, cause>>

\* The use comes to nothing.  It spoils an upload of which the client was told
\* that all is saved, unless another use took it.
Spoil(t) ==
    /\ cause' = [cause EXCEPT !.spoilt = @ \/ (task[t].due = Parts /\ ~task[t].early /\ cause.taken <= 1 /\ ~cause.mishap)]
    /\ Stop(t)

\* Mutant: the number of parts is compared only with what the request gives.
CountGiven(n, counted) == n > 0 /\ (counted => n = upload.parts)

CountsAgree(n, counted) == (row.total > 0 => row.total = n) /\ n > 0 /\ (counted => n = upload.parts)

CheckParts(t) ==
    LET n == Cardinality(DOMAIN size)
    IN  /\ task[t].at = "parts"
        /\ IF ~CountsAgree(n, task[t].counted) \/ DOMAIN size # 0..(n - 1) THEN Spoil(t)
           ELSE /\ task' = [task EXCEPT ![t].at = "rename", ![t].last = n - 1, ![t].next = 1,
                        ![t].size = FoldFunction(LAMBDA s, sum : s + sum, 0, size),
                        ![t].early = \E p \in DOMAIN size : disk[p] # "full"]
                /\ cause' = [cause EXCEPT !.taken = @ + 1]
        /\ UNCHANGED <<upload, row, size, disk, stored, files, told, left>>

In(p) == IF disk[p] = "full" THEN Bytes(p) ELSE <<>>

Rename(t) ==
    /\ task[t].at = "rename"
    /\ IF disk[0] = None THEN Spoil(t) /\ UNCHANGED <<disk, stored>>
       ELSE /\ stored' = In(0)
            /\ disk' = [disk EXCEPT ![0] = None]
            /\ Go(t, IF task[t].last = 0 THEN "file" ELSE "append")
            /\ cause' = cause
    /\ UNCHANGED <<upload, row, size, files, told, left>>

AppendPart(t) ==
    LET p == task[t].next
    IN  /\ task[t].at = "append"
        /\ IF disk[p] = None THEN Spoil(t) /\ UNCHANGED <<disk, stored>>
           ELSE /\ stored' = stored \o In(p)
                /\ disk' = [disk EXCEPT ![p] = None]
                /\ task' = [task EXCEPT ![t].next = @ + 1, ![t].at = IF p = task[t].last THEN "file" ELSE @]
                /\ cause' = cause
        /\ UNCHANGED <<upload, row, size, files, told, left>>

SaveFile(t) ==
    LET r == task[t]
    IN  /\ r.at = "file"
        /\ files' = files \cup {[has |-> stored, size |-> r.size, parts |-> r.last + 1, counted |-> r.counted,
                                 mime |-> r.mime, due |-> r.due, early |-> r.early]}
        /\ Stop(t)
        /\ UNCHANGED <<upload, row, size, disk, stored, told, cause, left>>

\* The server stops, or the storage fails.
Crash(t) ==
    /\ task[t] # Idle /\ left.mishaps > 0
    /\ left' = [left EXCEPT !.mishaps = @ - 1]
    /\ cause' = [cause EXCEPT !.mishap = TRUE]
    /\ Stop(t)
    /\ UNCHANGED <<upload, row, size, disk, stored, files, told>>

-----------------------------------------------------------------------------
(* upload.GetFile of a piece *)

Accepted(offset, limit) ==
    /\ limit >= 0 /\ limit <= Mb
    /\ offset \div Mb = (offset + limit - 1) \div Mb
    /\ offset % Kb = 0 /\ limit % Kb = 0

get_file(f, offset, limit) ==
    IF offset >= f.size THEN <<>> ELSE SubSeq(f.has, offset + 1, Min({offset + limit, Len(f.has)}))

Done == (\A t \in Tasks : task[t] = Idle) /\ UNCHANGED vars     \* nobody need upload

Next ==
    \/ \E t \in Tasks :
        \/ \E p \in Parts : SaveFilePart(t, p)
        \/ GetOrCreateUpload(t) \/ SaveMime(t) \/ LastPart(t) \/ ExistingPart(t) \/ CreatePart(t)
        \/ TouchPart(t) \/ WritePart(t)
        \/ UseUpload(t) \/ CheckParts(t) \/ Rename(t) \/ AppendPart(t) \/ SaveFile(t) \/ Crash(t)
    \/ Done

Spec == Init /\ [][Next]_vars

-----------------------------------------------------------------------------
(* Properties *)

\* A saved file has the bytes of its parts in order, and its type, with every
\* part the client was told is saved when it used the upload; of a big file, or
\* one whose parts were counted, it has all parts.  Read in pieces of a size
\* that divides Mb it comes whole.  It may be otherwise only if there was a row
\* of a part whose bytes were not yet written, or never were.
FilesAreWhole ==
    \A f \in files : ~f.early =>
        /\ f.has = Whole(f.parts) /\ f.size = Len(f.has)
        /\ f.due \subseteq 0..(f.parts - 1)
        /\ 0 \in f.due => f.mime
        /\ (upload.big \/ f.counted) => f.parts = upload.parts
        /\ \A limit \in {l \in 1..Mb : Mb % l = 0 /\ l % Kb = 0} :
            \A i \in 1..f.size :
                LET offset == limit * ((i - 1) \div limit)
                IN  Accepted(offset, limit) /\ get_file(f, offset, limit)[i - offset] = f.has[i]

\* No part is refused that is sent as it should be, however often and in what
\* order; and when the client was told of all parts that they are saved, the
\* upload can be used once, unless a part was said to be saved on the word of
\* its row, or the server or the storage failed.
UploadsCanBeUsed == ~cause.refused /\ ~cause.spoilt
=============================================================================
