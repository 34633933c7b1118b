------------------------------- MODULE Archives ------------------------------
(****************************************************************************)
(* The archives of src/fs: what each of them does with the host's files.    *)
(* A path stands for the host's path that snprintf and fs_PathToString make *)
(* of the guest's.                                                          *)
(*                                                                          *)
(* A function of an archive is an operator that yields the set of its       *)
(* possible outcomes [fs, ret, out]: the files afterwards, the value the    *)
(* function returns and what it hands out (the handle of an opened file,    *)
(* the bytes read, the entry of a directory).  The six archives on host     *)
(* directories are copies of one another that differ in a few places, so    *)
(* each function is stated once with the differences as parameters, and     *)
(* every copy names its own.                                                *)
(*                                                                          *)
(* Left out are the host's errors other than those of names and modes, a    *)
(* calloc that fails, a write of no bytes, fnFileExists, which the service  *)
(* never calls, and fnDeinitialize, which frees the archive's record.       *)
(****************************************************************************)
EXTENDS HostFiles

CONSTANTS
    Far,        \* an offset of 2^32 or more
    RomImage    \* the bytes of the loaded RomFS

\* Return values.  "errno" stands for a code of the host passed on as it is.
Ok == "0"
Failed == "-1"
AlreadyExists == "0x82044BE"
NotFormatted == "0xc8a04554"

Returns(fs, ret) == [fs |-> fs, ret |-> ret, out |-> <<>>]
Gives(fs, x) == [fs |-> fs, ret |-> Ok, out |-> x]
Opens(fs, h) == Gives(fs, <<h>>)
OpensNone(fs) == Returns(fs, Ok)     \* fnOpenFile and fnOpenDir return 0
Crashed(fs) == Returns([fs EXCEPT !.up = FALSE], Failed)

\* The chain of tests "if it fails: ERROR, return".
Try(fs, works, then) == IF works THEN Returns(then, Ok) ELSE Returns(fs, Failed)

-----------------------------------------------------------------------------
(* Files. *)

\* Mutant (ReadsWhatItWrote): no fseek, so that a held write is not seen.
ReadStreamUnsought(fs, h, off, sz, mapped, strict) ==
    IF off = Far THEN {Returns(fs, Failed)}
    ELSE {IF ~mapped \/ (strict /\ Len(Slice(view, off, sz)) # sz)
             THEN Returns(fs, Failed) ELSE Gives(fs, Slice(view, off, sz)) : view \in Views(fs, h)}

\* fseek, fread and mem_Write to the guest's buffer, which may not be mapped.
\* Only an archive that is not strict passes on fewer bytes than asked for.
ReadStream(fs, h, off, sz, mapped, strict) ==
    IF off = Far THEN {Returns(fs, Failed)}
    ELSE LET sought == Flushed(fs, h)
         IN  {IF ~mapped \/ (strict /\ Len(Slice(view, off, sz)) # sz)
                 THEN Returns(sought, Failed) ELSE Gives(sought, Slice(view, off, sz)) :
                 view \in Views(sought, h)}

sdmcfile_Read(fs, h, off, sz, mapped) == ReadStream(fs, h, off, sz, mapped, FALSE)
savedatafile_Read(fs, h, off, sz, mapped) == ReadStream(fs, h, off, sz, mapped, TRUE)
extsavedatafile_Read(fs, h, off, sz, mapped) == ReadStream(fs, h, off, sz, mapped, TRUE)
sharedextdfile_Read(fs, h, off, sz, mapped) == ReadStream(fs, h, off, sz, mapped, TRUE)
sysdatafile_Read(fs, h, off, sz, mapped) == ReadStream(fs, h, off, sz, mapped, TRUE)
SaveDatacheck_Read(fs, h, off, sz, mapped) == ReadStream(fs, h, off, sz, mapped, TRUE)

\* The test has >= where > was meant: the image's last byte cannot be read.
rawromfs_Read(fs, h, off, sz, mapped) ==
    {IF off = Far \/ off >= Len(RomImage) \/ off + sz >= Len(RomImage) \/ ~mapped
        THEN Returns(fs, Failed) ELSE Gives(fs, Slice(RomImage, off, sz))}

\* fseek, mem_Read from the guest's buffer and fwrite, and what follows:
\*   "end"   the stream goes to the file's end, its position is the new size
\*   "here"  the position after the write is the new size
\*   "held"  nothing; fwrite may keep the bytes in the stream
WriteStream(fs, h, off, b, mapped, after) ==
    LET sought == Flushed(fs, h)
        s == sought.open[h]
        stored == Put(sought.data[s.ino], off, b)
        Through(sz) == [Stored(sought, h, s.ino, stored) EXCEPT !.open[h].sz = sz]
        held == [sought EXCEPT !.open[h] = [@ EXCEPT !.off = off, !.pend = b, !.old = FALSE]]
    IN  CASE off = Far -> {Returns(fs, Failed)}
          [] off # Far /\ (~mapped \/ s.mode = "r") -> {Returns(sought, Failed)}
          [] OTHER -> CASE after = "end" -> {Gives(Through(Len(stored)), b)}
                        [] after = "here" -> {Gives(Through(off + Len(b)), b)}
                        [] after = "held" -> {Gives(Through(s.sz), b), Gives(held, b)}

\* Mutant (SizeIsKnown): the new size is taken before the seek to the end.
sdmcfile_WriteSizeHere(fs, h, off, b, mapped) == WriteStream(fs, h, off, b, mapped, "here")
sdmcfile_Write(fs, h, off, b, mapped) == WriteStream(fs, h, off, b, mapped, "end")
savedatafile_Write(fs, h, off, b, mapped) == WriteStream(fs, h, off, b, mapped, "here")
extsavedatafile_Write(fs, h, off, b, mapped) == WriteStream(fs, h, off, b, mapped, "held")
sharedextdfile_Write(fs, h, off, b, mapped) == WriteStream(fs, h, off, b, mapped, "held")
sysdatafile_Write(fs, h, off, b, mapped) == WriteStream(fs, h, off, b, mapped, "held")

\* ftruncate goes past the stream: what it holds and what it has buffered stay.
\* The note of the size is changed even when ftruncate fails.
TruncateStream(fs, h, n) ==
    LET s == fs.open[h]
        noted == [fs EXCEPT !.open[h].sz = n]
    IN  {Try(noted, s.mode # "r", Stored(noted, NoHandle, s.ino, Resize(fs.data[s.ino], n)))}

sdmcfile_SetSize(fs, h, n) == TruncateStream(fs, h, n)
savedatafile_SetSize(fs, h, n) == TruncateStream(fs, h, n)
extsavedatafile_SetSize(fs, h, n) == TruncateStream(fs, h, n)

sdmcfile_GetSize(fs, h) == fs.open[h].sz
savedatafile_GetSize(fs, h) == fs.open[h].sz
extsavedatafile_GetSize(fs, h) == fs.open[h].sz
sharedextdfile_GetSize(fs, h) == fs.open[h].sz
sysdatafile_GetSize(fs, h) == fs.open[h].sz
SaveDatacheck_GetSize(fs, h) == fs.open[h].sz
rawromfs_GetSize(fs, h) == Len(RomImage)

\* Mutant (AcknowledgedIsStored): the stream is dropped, not closed.
DropStream(fs, h) == {Returns(Tidy([fs EXCEPT !.open[h] = NoStream]), Ok)}
CloseStream(fs, h) == {Returns(Tidy([Flushed(fs, h) EXCEPT !.open[h] = NoStream]), Ok)}

sdmcfile_Close(fs, h) == CloseStream(fs, h)
savedatafile_Close(fs, h) == CloseStream(fs, h)
extsavedatafile_Close(fs, h) == CloseStream(fs, h)
sharedextdfile_Close(fs, h) == CloseStream(fs, h)
sysdatafile_Close(fs, h) == CloseStream(fs, h)
SaveDatacheck_Close(fs, h) == CloseStream(fs, h)

-----------------------------------------------------------------------------
(* Opening files.  flags is the set of the bits of the open flags.           *)

\* A new stream under any handle; the size is where fseek to the end has led.
Opened(fs, i, mode) ==
    {Opens([fs EXCEPT !.open[h] = [NoStream EXCEPT !.ino = i, !.mode = mode,
                                                   !.sz = Len(fs.data[i])]], h) :
        h \in FreeHandles(fs)}

\* The file is opened to see whether it exists, made if it does not and that
\* is asked for, and opened again.  A directory can be opened to read, and is
\* then refused for its size: fseek and ftell lead to its end, which on the
\* common hosts is the largest long, whose low 32 bits are the -1 that the copies
\* take for a failure (assumed of the host).  Opened to write it is a NULL stream,
\* which only some of the copies test for before they use it.
OpenByProbe(fs, p, flags, tested) ==
    LET made == IF "create" \in flags /\ MayCreate(fs, p) THEN Created(fs, p) ELSE fs
    IN  IF IsFile(made, p)
           THEN Opened(made, At(made, p), IF "write" \in flags THEN "rw" ELSE "r")
        ELSE IF IsDir(fs, p) /\ "write" \in flags /\ ~tested THEN {Crashed(fs)}
        ELSE {OpensNone(fs)}

sdmc_OpenFile(fs, p, flags) == OpenByProbe(fs, p, flags, FALSE)
sharedextd_OpenFile(fs, p, flags) == OpenByProbe(fs, p, flags, FALSE)
sysdata_OpenFile(fs, p, flags) == OpenByProbe(fs, p, flags, TRUE)
SaveDatacheck_OpenFile(fs, p, flags) == OpenByProbe(fs, p, flags, TRUE)

\* The flags choose the mode of one fopen; all is the mode for all three bits.
OpenByMode(fs, p, flags, all) ==
    LET mode == CASE flags = {"read"} -> "rb"
                  [] flags \in {{"write"}, {"read", "write"}} -> "rb+"
                  [] flags \in {{"create"}, {"write", "create"}} -> "wb"
                  [] flags = {"read", "write", "create"} -> all
                  [] OTHER -> ""
        made == IF MayCreate(fs, p) THEN Created(fs, p) ELSE fs
        emptied == Stored(made, NoHandle, At(made, p), <<>>)
    IN  CASE mode = "rb" /\ IsFile(fs, p) -> Opened(fs, At(fs, p), "r")
          [] mode = "rb+" /\ IsFile(fs, p) -> Opened(fs, At(fs, p), "rw")
          [] mode = "wb" /\ IsFile(made, p) -> Opened(emptied, At(made, p), "w")
          [] mode = "wb+" /\ IsFile(made, p) -> Opened(emptied, At(made, p), "rw")
          [] OTHER -> {OpensNone(fs)}

savedata_OpenFile(fs, p, flags) == OpenByMode(fs, p, flags, "wb+")
extsavedata_OpenFile(fs, p, flags) == OpenByMode(fs, p, flags, "")

\* There is one file object for RomFS; every opening gives it another handle,
\* and it remembers the last.  Only a binary path opens it.
romfs_OpenFile(fs, p, flags) ==
    {OpensNone(fs)} \cup
    {Opens([fs EXCEPT !.link = h, !.open[h] = [NoStream EXCEPT !.ino = 1, !.mode = "raw"]], h) :
        h \in FreeHandles(fs)}

-----------------------------------------------------------------------------
(* Directories and names.  An unsafe path is answered as if all had gone     *)
(* well, except where SysData deletes a file.                                *)

CreateEmptyFile(fs, p, n) ==
    {IF p = Unsafe THEN Returns(fs, Ok)
     ELSE IF p # Root /\ At(fs, p) # Absent THEN Returns(fs, AlreadyExists)
     ELSE IF ~MayCreate(fs, p) THEN Returns(fs, "errno")
     ELSE LET made == Created(fs, p)
          IN  Returns([made EXCEPT !.data[made.tree[p]] = Resize(<<>>, n)], Ok)}

sdmc_CreateFile(fs, p, n) == CreateEmptyFile(fs, p, n)
savedata_CreateFile(fs, p, n) == CreateEmptyFile(fs, p, n)
extsavedata_CreateFile(fs, p, n) == CreateEmptyFile(fs, p, n)
sharedextdfile_CreateFile(fs, p, n) == CreateEmptyFile(fs, p, n)

\* remove() takes files and empty directories, rmdir() only the latter.
Remove(fs, p) == Try(fs, MayRemove(fs, p), Unlinked(fs, p))
Rmdir(fs, p) == Try(fs, MayRmdir(fs, p), Unlinked(fs, p))
Mkdir(fs, p) == Try(fs, MayMkdir(fs, p), [fs EXCEPT !.tree[p] = Directory])

UnlessUnsafe(fs, p, outcome) == {IF p = Unsafe THEN Returns(fs, Ok) ELSE outcome}

sdmc_DeleteFile(fs, p) == UnlessUnsafe(fs, p, Remove(fs, p))
sharedextd_DeleteFile(fs, p) == UnlessUnsafe(fs, p, Remove(fs, p))
sysdata_DeleteFile(fs, p) == {IF p = Unsafe THEN Returns(fs, "1") ELSE Remove(fs, p)}

sdmc_DeleteDir(fs, p) == UnlessUnsafe(fs, p, Rmdir(fs, p))
savedata_DeleteDir(fs, p) == UnlessUnsafe(fs, p, Rmdir(fs, p))
extsavedata_DeleteDir(fs, p) == UnlessUnsafe(fs, p, Rmdir(fs, p))
sharedextd_DeleteDir(fs, p) == UnlessUnsafe(fs, p, Rmdir(fs, p))
sysdata_DeleteDir(fs, p) == UnlessUnsafe(fs, p, Rmdir(fs, p))
SaveDatacheck_DeleteDir(fs, p) == UnlessUnsafe(fs, p, Rmdir(fs, p))

sdmc_CreateDir(fs, p) == UnlessUnsafe(fs, p, Mkdir(fs, p))
savedata_CreateDir(fs, p) == UnlessUnsafe(fs, p, Mkdir(fs, p))
extsavedata_CreateDir(fs, p) == UnlessUnsafe(fs, p, Mkdir(fs, p))
sysdata_CreateDir(fs, p) == UnlessUnsafe(fs, p, Mkdir(fs, p))
SaveDatacheck_CreateDir(fs, p) == UnlessUnsafe(fs, p, Mkdir(fs, p))

\* rename() returns -1, never the codes that the service looks for.
sdmc_Rename(fs, p, q) ==
    {IF Unsafe \in {p, q} THEN Returns(fs, Ok)
     ELSE IF MayRename(fs, p, q) THEN Returns(Renamed(fs, p, q), Ok)
     ELSE Returns(fs, Failed)}

\* There is no test for unsafe paths here; what they name may be a directory.
OpenStreamDir(fs, p) ==
    LET opened == Opens([fs EXCEPT !.dir = DirStream(fs, p)], "dir")
    IN  CASE p = Unsafe -> {opened, OpensNone(fs)}
          [] IsDir(fs, p) -> {opened}
          [] OTHER -> {OpensNone(fs)}

sdmc_OpenDir(fs, p) == OpenStreamDir(fs, p)
savedata_OpenDir(fs, p) == OpenStreamDir(fs, p)
extsavedata_OpenDir(fs, p) == OpenStreamDir(fs, p)
sharedextd_OpenDir(fs, p) == OpenStreamDir(fs, p)

\* ent was never set when no entry is asked for: it may point anywhere, to an
\* entry of an earlier call, too.
NoEntryAsked(fs) == {Crashed(fs), Returns(fs, Failed), Returns(fs, Ok)}

\* n entries are taken from the directory's stream and the last of them is
\* handed out, unless it has been deleted meanwhile; when the stream ends
\* before, the answer is that there are none.
ReadStreamDir(fs, n) ==
    LET Past(taken) == [fs EXCEPT !.dir.given = @ \cup taken]
        ended == {taken \in SUBSET MayGive(fs) : Cardinality(taken) < n /\ MustGive(fs) \subseteq taken}
    IN  IF n = 0 THEN NoEntryAsked(fs)
        ELSE {Returns(Past(taken), Ok) : taken \in ended}
             \cup UNION {{IF e \in Present(fs) THEN Gives(Past(taken), <<e>>)
                          ELSE Returns(Past(taken), Failed) : e \in taken} :
                             taken \in kSubset(n, MayGive(fs))}

\* The stream is rewound on every call, and the loop, which does not count,
\* ends when no entry is left.
ReadRewoundDir(fs, n) ==
    LET rewound == [fs EXCEPT !.dir = DirStream(fs, @.path)]
    IN  IF n = 0 THEN NoEntryAsked(rewound)
        ELSE {Returns([rewound EXCEPT !.dir.given = rewound.dir.start], Ok)}

\* Mutant (ListsEveryEntryOnce): the stream is rewound on every call.
sdmc_ReadDirRewound(fs, n) == ReadRewoundDir(fs, n)
sdmc_ReadDir(fs, n) == ReadStreamDir(fs, n)
sharedextd_ReadDir(fs, n) == ReadStreamDir(fs, n)
savedata_ReadDir(fs, n) == ReadRewoundDir(fs, n)
extsavedata_ReadDir(fs, n) == ReadRewoundDir(fs, n)

-----------------------------------------------------------------------------
(* Opening an archive: the path it wants and the functions it offers.  Most  *)
(* read the path from the guest's memory, where it may not be mapped; SDMC   *)
(* does although it has no use for it.                                       *)

NoArchive == [fns |-> {}, result |-> Failed]
OpenedArchive(works, fns, result) ==
    IF works THEN [fns |-> fns, result |-> result] ELSE NoArchive

\* Both save data archives can be opened before there is a directory for them.
savedata_GetResult(fs) == IF IsDir(fs, Root) THEN Ok ELSE NotFormatted
extsavedata_GetResult(fs) == IF IsDir(fs, Root) THEN Ok ELSE NotFormatted

\* DeleteFile is offered, but it is DeleteDir's function.
SaveDataFns == {"CreateDir", "OpenDir", "OpenFile", "CreateFile", "DeleteFile"}
savedata_OpenArchive(fs, t, mapped) == OpenedArchive(TRUE, SaveDataFns, savedata_GetResult(fs))
extsavedata_OpenArchive(fs, t, mapped) == OpenedArchive(TRUE, SaveDataFns, extsavedata_GetResult(fs))

sdmc_OpenArchive(fs, t, mapped) ==
    OpenedArchive(t = "empty" /\ mapped, {"RenameFile", "DeleteFile", "CreateDir", "RenameDir",
                                "DeleteDir", "OpenDir", "OpenFile", "CreateFile"}, Ok)
sharedextd_OpenArchive(fs, t, mapped) ==
    OpenedArchive(t = "binary12" /\ mapped /\ IsDir(fs, Root),
                  {"CreateFile", "DeleteFile", "DeleteDir", "OpenDir", "OpenFile"}, Ok)
sysdata_OpenArchive(fs, t, mapped) ==
    OpenedArchive(t = "binary8" /\ mapped, {"DeleteFile", "CreateDir", "DeleteDir", "OpenFile"}, Ok)
SaveDatacheck_OpenArchive(fs, t, mapped) ==
    OpenedArchive(t = "binary16" /\ mapped, {"CreateDir", "DeleteDir", "OpenFile"}, Ok)
\* RomFS is there when the loaded program has one.
romfs_OpenArchive(fs, t, mapped) == OpenedArchive(t = "empty" /\ IsDir(fs, Root), {"OpenFile"}, Ok)
=============================================================================
