-------------------------------- MODULE FsUser -------------------------------
(****************************************************************************)
(* The file system service (src/services/fs_user.c): its commands fs:USER,  *)
(* file and dir, on one archive of any kind.  An archive handle is the      *)
(* archive itself (arch); the guest uses only handles it has and has not    *)
(* closed.                                                                  *)
(*                                                                          *)
(*   kind    the archive's type, an entry of archive_types                  *)
(*   fs      the host's files, the streams and the directory stream         *)
(*   arch    the archive that is open, or NoArchive                         *)
(*   answer  the result code and the handle that the last command answered  *)
(*   guest   what the answers tell the guest, for the properties:           *)
(*             acked   each file's bytes if all acknowledged calls took     *)
(*                     place as and when they were acknowledged             *)
(*             alone   the handles whose files nobody else has changed      *)
(*                     since they were opened                               *)
(*             cut     the handles whose file was resized after the last    *)
(*                     write through them                                   *)
(*             raced   the files changed while another stream, or the one   *)
(*                     resized itself, held a write back                    *)
(*             exact   since OpenDirectory no name has come or gone and     *)
(*                     entries were asked for one at a time                 *)
(*             given   the entries that were then answered                  *)
(****************************************************************************)
EXTENDS Archives

CONSTANTS
    Kinds,      \* the archive types that are examined
    Flags,      \* the open flags that the guest uses
    Payloads,   \* what the guest writes
    Offsets,    \* where it reads and writes
    Counts,     \* how many bytes or entries it asks for
    Sizes,      \* the sizes it gives a file
    MaxThings,  \* how many names and streams each kind may have (bound)
    Stock       \* the bytes of a file that is there from the start

VARIABLES kind, fs, arch, answer, guest
vars == <<kind, fs, arch, answer, guest>>

ASSUME FsAssumption == /\ Kinds \subseteq {"SDMC", "SaveData", "ExtData", "SharedExtData",
                                            "SysData", "SaveDatacheck", "RomFS"}
                       /\ Far \in Offsets /\ Offsets \cup Counts \cup Sizes \subseteq Nat
                       /\ Flags \subseteq SUBSET {"read", "write", "create"}
                       /\ Payloads \cup Stock \cup {RomImage} \subseteq Seq(Nat)
                       /\ <<>> \notin Payloads

WriteThrough == {"SDMC", "SaveData"}
PathTypes == {"empty", "binary8", "binary12", "binary16"}
NotFound == "0xc8804464"
Reply(rc, handle) == [rc |-> rc, handle |-> handle]

-----------------------------------------------------------------------------
(* The function pointers: which archive's function a command calls.          *)

fnDeleteFile(p) == CASE kind = "SDMC" -> sdmc_DeleteFile(fs, p)
                     [] kind = "SaveData" -> savedata_DeleteDir(fs, p)
                     [] kind = "ExtData" -> extsavedata_DeleteDir(fs, p)
                     [] kind = "SharedExtData" -> sharedextd_DeleteFile(fs, p)
                     [] kind = "SysData" -> sysdata_DeleteFile(fs, p)
fnRenameFile(p, q) == sdmc_Rename(fs, p, q)
fnRenameDir(p, q) == sdmc_Rename(fs, p, q)
fnDeleteDir(p) == CASE kind = "SDMC" -> sdmc_DeleteDir(fs, p)
                    [] kind = "SharedExtData" -> sharedextd_DeleteDir(fs, p)
                    [] kind = "SysData" -> sysdata_DeleteDir(fs, p)
                    [] kind = "SaveDatacheck" -> SaveDatacheck_DeleteDir(fs, p)
fnCreateDir(p) == CASE kind = "SDMC" -> sdmc_CreateDir(fs, p)
                    [] kind = "SaveData" -> savedata_CreateDir(fs, p)
                    [] kind = "ExtData" -> extsavedata_CreateDir(fs, p)
                    [] kind = "SysData" -> sysdata_CreateDir(fs, p)
                    [] kind = "SaveDatacheck" -> SaveDatacheck_CreateDir(fs, p)
fnOpenDir(p) == CASE kind = "SDMC" -> sdmc_OpenDir(fs, p)
                  [] kind = "SaveData" -> savedata_OpenDir(fs, p)
                  [] kind = "ExtData" -> extsavedata_OpenDir(fs, p)
                  [] kind = "SharedExtData" -> sharedextd_OpenDir(fs, p)
fnCreateFile(p, n) == CASE kind = "SDMC" -> sdmc_CreateFile(fs, p, n)
                        [] kind = "SaveData" -> savedata_CreateFile(fs, p, n)
                        [] kind = "ExtData" -> extsavedata_CreateFile(fs, p, n)
                        [] kind = "SharedExtData" -> sharedextdfile_CreateFile(fs, p, n)
fnOpenFile(p, flags) == CASE kind = "SDMC" -> sdmc_OpenFile(fs, p, flags)
                          [] kind = "SaveData" -> savedata_OpenFile(fs, p, flags)
                          [] kind = "ExtData" -> extsavedata_OpenFile(fs, p, flags)
                          [] kind = "SharedExtData" -> sharedextd_OpenFile(fs, p, flags)
                          [] kind = "SysData" -> sysdata_OpenFile(fs, p, flags)
                          [] kind = "SaveDatacheck" -> SaveDatacheck_OpenFile(fs, p, flags)
                          [] kind = "RomFS" -> romfs_OpenFile(fs, p, flags)
fnOpenArchive(t, mapped) == CASE kind = "SDMC" -> sdmc_OpenArchive(fs, t, mapped)
                      [] kind = "SaveData" -> savedata_OpenArchive(fs, t, mapped)
                      [] kind = "ExtData" -> extsavedata_OpenArchive(fs, t, mapped)
                      [] kind = "SharedExtData" -> sharedextd_OpenArchive(fs, t, mapped)
                      [] kind = "SysData" -> sysdata_OpenArchive(fs, t, mapped)
                      [] kind = "SaveDatacheck" -> SaveDatacheck_OpenArchive(fs, t, mapped)
                      [] kind = "RomFS" -> romfs_OpenArchive(fs, t, mapped)
fnRead(h, off, sz, ok) == CASE kind = "SDMC" -> sdmcfile_Read(fs, h, off, sz, ok)
                            [] kind = "SaveData" -> savedatafile_Read(fs, h, off, sz, ok)
                            [] kind = "ExtData" -> extsavedatafile_Read(fs, h, off, sz, ok)
                            [] kind = "SharedExtData" -> sharedextdfile_Read(fs, h, off, sz, ok)
                            [] kind = "SysData" -> sysdatafile_Read(fs, h, off, sz, ok)
                            [] kind = "SaveDatacheck" -> SaveDatacheck_Read(fs, h, off, sz, ok)
                            [] kind = "RomFS" -> rawromfs_Read(fs, h, off, sz, ok)
fnWrite(h, off, b, ok) == CASE kind = "SDMC" -> sdmcfile_Write(fs, h, off, b, ok)
                            [] kind = "SaveData" -> savedatafile_Write(fs, h, off, b, ok)
                            [] kind = "ExtData" -> extsavedatafile_Write(fs, h, off, b, ok)
                            [] kind = "SharedExtData" -> sharedextdfile_Write(fs, h, off, b, ok)
                            [] kind = "SysData" -> sysdatafile_Write(fs, h, off, b, ok)
                            [] OTHER -> {Returns(fs, Failed)}
fnGetSize(h) == CASE kind = "SDMC" -> sdmcfile_GetSize(fs, h)
                  [] kind = "SaveData" -> savedatafile_GetSize(fs, h)
                  [] kind = "ExtData" -> extsavedatafile_GetSize(fs, h)
                  [] kind = "SharedExtData" -> sharedextdfile_GetSize(fs, h)
                  [] kind = "SysData" -> sysdatafile_GetSize(fs, h)
                  [] kind = "SaveDatacheck" -> SaveDatacheck_GetSize(fs, h)
                  [] kind = "RomFS" -> rawromfs_GetSize(fs, h)
fnSetSize(h, n) == CASE kind = "SDMC" -> sdmcfile_SetSize(fs, h, n)
                     [] kind = "SaveData" -> savedatafile_SetSize(fs, h, n)
                     [] kind = "ExtData" -> extsavedatafile_SetSize(fs, h, n)
                     [] OTHER -> {Returns(fs, Failed)}
fnClose(h) == CASE kind = "SDMC" -> sdmcfile_Close(fs, h)
                [] kind = "SaveData" -> savedatafile_Close(fs, h)
                [] kind = "ExtData" -> extsavedatafile_Close(fs, h)
                [] kind = "SharedExtData" -> sharedextdfile_Close(fs, h)
                [] kind = "SysData" -> sysdatafile_Close(fs, h)
                [] kind = "SaveDatacheck" -> SaveDatacheck_Close(fs, h)
                [] kind = "RomFS" -> {Returns(fs, Ok)}
fnReadDir(n) == CASE kind = "SDMC" -> sdmc_ReadDir(fs, n)
                  [] kind = "SaveData" -> savedata_ReadDir(fs, n)
                  [] kind = "ExtData" -> extsavedata_ReadDir(fs, n)
                  [] kind = "SharedExtData" -> sharedextd_ReadDir(fs, n)

-----------------------------------------------------------------------------
(* What a command's outcome tells the guest.                                 *)

Holds(g, i) == fs.open[g].ino = i /\ fs.open[g].pend # <<>>

\* The command by handle by (or NoHandle) leads to the files new; acked is what
\* the guest may now take their bytes to be, torn the files whose held writes
\* the command has overtaken by itself.
Learns(by, new, acked, cut, torn) ==
    LET raced == {i \in Used(new) : \/ i \in guest.raced \cup torn
                                    \/ /\ acked[i] # guest.acked[i]
                                       /\ \E g \in Handles \ {by} : Holds(g, i)}
        Alone(g) == LET i == new.open[g].ino
                    IN  /\ i \notin raced
                        /\ IF IsOpen(fs, g)
                              THEN g \in guest.alone /\ (g = by \/ acked[i] = guest.acked[i])
                              ELSE acked[i] = new.data[i]
    IN  guest' = [acked |-> [i \in Inodes |-> IF i \in Used(new) THEN acked[i] ELSE <<>>],
                  alone |-> {g \in Handles : IsOpen(new, g) /\ Alone(g)},
                  cut |-> {g \in cut : IsOpen(new, g)},
                  raced |-> raced,
                  exact |-> IF fs.dir = NoDir THEN new.dir # NoDir
                            ELSE guest.exact /\ new.tree = fs.tree /\ new.dir # NoDir,
                  given |-> IF new.tree = fs.tree /\ new.dir # NoDir THEN guest.given ELSE {}]

\* Bound: names and streams that exist at once.
Bounded(new) == Cardinality({n \in Names : new.tree[n] # Absent})
                  + Cardinality({h \in Handles : IsOpen(new, h)}) <= MaxThings[kind]

\* A command leads to the outcome o; the archive is not affected.
Does(o, rc, by, acked, cut, torn) ==
    /\ fs.up /\ Bounded(o.fs)
    /\ fs' = o.fs
    /\ answer' = Reply(rc, NoHandle)
    /\ Learns(by, o.fs, acked, cut, torn)
    /\ UNCHANGED <<kind, arch>>

\* A command that changes names, not the bytes of a file that keeps its name.
Changes(o, rc) ==
    Does(o, rc, NoHandle, [i \in Inodes |-> IF i \in Used(fs) THEN guest.acked[i] ELSE o.fs.data[i]],
         guest.cut, {})

\* A command that changes nothing.
Answers(rc, handle) ==
    fs.up /\ answer' = Reply(rc, handle) /\ UNCHANGED <<kind, fs, arch, guest>>

\* Bounds: as many files at once as there are handles; one directory, and no
\* file while it is read; archives are opened and closed while no file is open.
Room == FreeHandles(fs) # {} /\ fs.dir = NoDir
AllClosed == \A h \in Handles : ~IsOpen(fs, h)

NotImplemented(fn) == fn \notin arch.fns /\ Answers(Failed, NoHandle)

-----------------------------------------------------------------------------
(* fs:USER.  A handle that is no archive's is answered as a function that    *)
(* the archive does not have.                                                *)

\* Whatever the archive says, the guest is told that the file is gone.
DeleteFile ==
    \/ NotImplemented("DeleteFile")
    \/ /\ "DeleteFile" \in arch.fns
       /\ \E p \in Paths : \E o \in fnDeleteFile(p) : Changes(o, Ok)

RenameFile ==
    \/ NotImplemented("RenameFile")
    \/ /\ "RenameFile" \in arch.fns
       /\ \E p, q \in Paths : \E o \in fnRenameFile(p, q) : Changes(o, o.ret)

RenameDirectory ==
    \/ NotImplemented("RenameDir")
    \/ /\ "RenameDir" \in arch.fns
       /\ \E p, q \in Paths : \E o \in fnRenameDir(p, q) : Changes(o, o.ret)

DeleteDirectory ==
    \/ NotImplemented("DeleteDir")
    \/ /\ "DeleteDir" \in arch.fns
       /\ \E p \in Paths : \E o \in fnDeleteDir(p) : Changes(o, o.ret)

\* The same call; what is in the directory is not deleted.
DeleteDirectoryRecursively ==
    \/ NotImplemented("DeleteDir")
    \/ /\ "DeleteDir" \in arch.fns
       /\ \E p \in Paths : \E o \in fnDeleteDir(p) : Changes(o, o.ret)

CreateDirectory ==
    \/ NotImplemented("CreateDir")
    \/ /\ "CreateDir" \in arch.fns
       /\ \E p \in Paths : \E o \in fnCreateDir(p) : Changes(o, o.ret)

CreateFile ==
    \/ NotImplemented("CreateFile")
    \/ /\ "CreateFile" \in arch.fns
       /\ \E p \in Paths, n \in Sizes : \E o \in fnCreateFile(p, n) : Changes(o, o.ret)

\* A file has been opened, perhaps by a mode that empties it.
Gets(o, flags, rc) ==
    LET empties == kind \in {"SaveData", "ExtData"} /\ "create" \in flags
        new == {o.fs.open[o.out[k]].ino : k \in DOMAIN o.out}
    IN  /\ fs.up /\ Bounded(o.fs)
        /\ fs' = o.fs
        /\ answer' = Reply(rc, IF o.out = <<>> THEN NoHandle ELSE o.out[1])
        /\ Learns(NoHandle, o.fs, [i \in Inodes |-> IF i \notin Used(fs) \/ (i \in new /\ empties)
                                             THEN o.fs.data[i] ELSE guest.acked[i]],
                  guest.cut, {})
        /\ UNCHANGED <<kind, arch>>

OpenFile ==
    \/ NotImplemented("OpenFile")
    \/ /\ "OpenFile" \in arch.fns
       /\ Room
       /\ \E p \in Paths, flags \in Flags : \E o \in fnOpenFile(p, flags) :
              Gets(o, flags, IF o.out = <<>> THEN NotFound ELSE Ok)

\* The archive lives for this command only; a file that cannot be opened is
\* answered with success and handle 0.
OpenFileDirectly(t, mapped) ==
    \/ fnOpenArchive(t, mapped) = NoArchive /\ Answers(Failed, NoHandle)
    \/ /\ fnOpenArchive(t, mapped) # NoArchive
       /\ Room
       /\ \E p \in Paths, flags \in Flags : \E o \in fnOpenFile(p, flags) : Gets(o, flags, Ok)

OpenDirectory ==
    \/ NotImplemented("OpenDir")
    \/ /\ "OpenDir" \in arch.fns
       /\ fs.dir = NoDir /\ AllClosed
       /\ \E p \in Paths : \E o \in fnOpenDir(p) :
              Changes(o, IF o.out = <<>> THEN NotFound ELSE Ok)

\* The result is the archive's; the handle is handed out whatever it is.
OpenArchive(t, mapped) ==
    /\ fs.up /\ arch = NoArchive /\ AllClosed
    /\ arch' = fnOpenArchive(t, mapped)
    /\ answer' = Reply(arch'.result, NoHandle)
    /\ UNCHANGED <<kind, fs, guest>>

CloseArchive ==
    /\ fs.up /\ arch # NoArchive /\ AllClosed
    /\ arch' = NoArchive
    /\ answer' = Reply(Ok, NoHandle)
    /\ UNCHANGED <<kind, fs, guest>>

\* The save data's directory is made, and what is in one that exists stays
\* there; the service call itself then fails though the answer's result is 0.
FormatThisUserSaveData == kind = "SaveData" /\ Changes(Mkdir(fs, Root), Ok)

\* The same directory is made, whatever archive the command names.
FormatSaveData == kind = "SaveData" /\ Changes(Mkdir(fs, Root), Ok)

-----------------------------------------------------------------------------
(* file and dir. *)

Read(h, off, sz, mapped) ==
    /\ IsOpen(fs, h)
    /\ \E o \in fnRead(h, off, sz, mapped) :
           Does(o, o.ret, h, guest.acked, guest.cut, {})

Write(h, off, b, mapped) ==
    /\ IsOpen(fs, h)
    /\ LET i == fs.open[h].ino
       IN  \E o \in fnWrite(h, off, b, mapped) :
               IF o.ret = Ok
                  THEN Does(o, o.ret, h,
                            [guest.acked EXCEPT ![i] = Put(@, off, b)], guest.cut \ {h}, {})
                  ELSE Does(o, o.ret, h, guest.acked, guest.cut, {})

GetSize(h) ==
    /\ IsOpen(fs, h)
    /\ Answers(Ok, NoHandle)     \* and fnGetSize(h)

SetSize(h, n) ==
    /\ IsOpen(fs, h)
    /\ LET i == fs.open[h].ino
       IN  \E o \in fnSetSize(h, n) :
               IF o.ret = Ok
                  THEN Does(o, o.ret, h, [guest.acked EXCEPT ![i] = Resize(@, n)],
                            guest.cut \cup {h}, IF \E g \in Handles : Holds(g, i) THEN {i} ELSE {})
                  ELSE Does(o, o.ret, h, guest.acked, guest.cut \cup {h}, {})

Close(h) ==
    /\ IsOpen(fs, h)
    /\ \E o \in fnClose(h) : Does(o, o.ret, h, guest.acked, guest.cut, {})

\* The answer is 0 and nothing is flushed.
Flush(h) == IsOpen(fs, h) /\ Answers(Ok, NoHandle)

\* The handle that the file object notes: for RomFS the last one.
OpenLinkFile(h) ==
    /\ IsOpen(fs, h)
    /\ Answers(Ok, IF kind = "RomFS" THEN fs.link ELSE h)

\* svcCloseHandle without Close: the stream stays as it is, and nobody can
\* reach it any more.
file_CloseHandle(h) ==
    /\ IsOpen(fs, h)
    /\ LET i == fs.open[h].ino
           lost == IF Holds(h, i) THEN {i} ELSE {}
       IN  Does(Returns(Tidy([fs EXCEPT !.open[h] = NoStream]), Ok), Ok, h,
                guest.acked, guest.cut, lost)

ReadDir(n) ==
    /\ fs.up /\ fs.dir # NoDir
    /\ \E o \in fnReadDir(n) :
           LET exact == guest.exact /\ n = 1
           IN  /\ fs' = o.fs
               /\ answer' = Reply(o.ret, NoHandle)
               /\ guest' = [guest EXCEPT !.exact = exact,
                                         !.given = IF exact THEN @ \cup {o.out[k] : k \in DOMAIN o.out}
                                                   ELSE {}]
    /\ UNCHANGED <<kind, arch>>

\* The host's stream is not closed; the guest does not use the handle again.
CloseDir == fs.dir # NoDir /\ Changes(Returns([fs EXCEPT !.dir = NoDir], Ok), Ok)

-----------------------------------------------------------------------------
\* The archive's directory may be missing, or hold a file.
Init ==
    /\ kind \in Kinds
    /\ \E first \in Names, i \in {Absent, 1}, root \in {Absent, Directory}, c \in Stock :
           /\ kind = "RomFS" /\ root = Directory => i = 1
           /\ fs = [tree |-> [p \in Names \cup {Root} |->
                                IF p = Root THEN root
                                ELSE IF p = first /\ root = Directory THEN i ELSE Absent],
                    data |-> [j \in Inodes |->
                                IF j = i /\ root = Directory
                                   THEN IF kind = "RomFS" THEN RomImage ELSE c ELSE <<>>],
                    open |-> [h \in Handles |-> NoStream],
                    dir |-> NoDir, link |-> NoHandle, up |-> TRUE]
    /\ arch = NoArchive
    /\ answer = Reply(Ok, NoHandle)
    /\ guest = [acked |-> fs.data, alone |-> {}, cut |-> {}, raced |-> {}, exact |-> FALSE, given |-> {}]

Next ==
    \/ DeleteFile
    \/ RenameFile
    \/ DeleteDirectory
    \/ DeleteDirectoryRecursively
    \/ CreateDirectory
    \/ RenameDirectory
    \/ OpenFile
    \/ OpenDirectory
    \/ CreateFile
    \/ \E t \in PathTypes, mapped \in BOOLEAN : OpenArchive(t, mapped) \/ OpenFileDirectly(t, mapped)
    \/ CloseArchive
    \/ FormatThisUserSaveData
    \/ FormatSaveData
    \/ \E h \in Handles : \/ Close(h)
                          \/ Flush(h)
                          \/ GetSize(h)
                          \/ OpenLinkFile(h)
                          \/ file_CloseHandle(h)
                          \/ \E n \in Sizes : SetSize(h, n)
                          \/ \E off \in Offsets, mapped \in BOOLEAN :
                                \/ \E n \in Counts : Read(h, off, n, mapped)
                                \/ \E b \in Payloads : Write(h, off, b, mapped)
    \/ \E n \in Counts : ReadDir(n)
    \/ CloseDir

Spec == Init /\ [][Next]_vars

-----------------------------------------------------------------------------
(* Properties. *)

\* Writes are not lost: what the guest was told is in a file (savedatafile_Write
\* and the others answer 0 before the bytes have left the stream, and answer no
\* later call when they do) is there once the streams have passed on what they
\* hold; no stream of SDMC and SaveData holds anything, those of the others are
\* not overtaken unless the file is resized, opened twice, or never closed.
AcknowledgedIsStored ==
    /\ \A i \in Inodes \ guest.raced : Settles(fs, i, guest.acked[i])
    /\ kind \in WriteThrough => guest.raced = {} /\ fs.data = guest.acked

\* A handle reads back what it has written, however its stream buffers: while
\* nobody else changes the file, and its size was not set since the last write,
\* the bytes are those that were acknowledged.
ReadsWhatItWrote ==
    \A h \in guest.alone \ guest.cut, off \in Offsets, sz \in Counts :
        \A o \in fnRead(h, off, sz, TRUE) :
            o.ret = Ok => o.out = Slice(guest.acked[fs.open[h].ino], off, sz)

\* GetSize of SDMC is the file's size after any writes and resizings by the
\* handle, although it is a note that sdmcfile_Write and sdmcfile_SetSize keep.
SizeIsKnown ==
    \A h \in guest.alone : kind = "SDMC" /\ fs.open[h].mode = "rw" =>
        fnGetSize(h) = Len(guest.acked[fs.open[h].ino])

\* Reading a directory of SDMC or SharedExtData one entry at a time gives each
\* entry once, and the answer that there is none only after all of them.
ListsEveryEntryOnce ==
    kind \in {"SDMC", "SharedExtData"} /\ guest.exact =>
        \A o \in fnReadDir(1) :
            o.ret = Ok => IF o.out = <<>> THEN guest.given = Entries(fs, fs.dir.path)
                          ELSE o.out[1] \notin guest.given
=============================================================================
