------------------------------ MODULE HostFiles ------------------------------
(****************************************************************************)
(* The host's files as the archives of src/fs see them: one directory per   *)
(* archive, whose entries are files and empty directories, and the C        *)
(* library's streams over them.  Nothing here is under src/: it is what     *)
(* fopen, fseek, fread, fwrite, fflush, fclose, ftruncate, opendir, readdir,*)
(* mkdir, rmdir, remove and rename do on a POSIX host whose disk has room.  *)
(*                                                                          *)
(* A file tree fs is a record:                                              *)
(*   tree   what each path of the archive names: Absent, Directory or the   *)
(*          number of a file                                                *)
(*   data   the bytes of each file, as other programs would read them       *)
(*   open   the stream behind each file handle                              *)
(*   dir    the directory stream behind the directory handle                *)
(*   link   the handle that RomFS noted last in its one file object         *)
(*   up     whether the emulator still runs                                 *)
(****************************************************************************)
EXTENDS Integers, Sequences, FiniteSets, FiniteSetsExt

CONSTANTS
    Names,      \* the names an archive's directory may hold
    Earlier,    \* what a file may have held before
    Handles     \* the file handles that may be open at once (bound)

NoHandle == "0"     \* handles are values of their own, not strings
Root == ""          \* the empty path: the archive's own directory
Unsafe == ".."      \* any path that fs_IsSafePath refuses
Paths == Names \cup {Root, Unsafe}

ASSUME HostAssumption == /\ IsFiniteSet(Names) /\ {Root, Unsafe} \cap Names = {}
                         /\ IsFiniteSet(Handles) /\ NoHandle \notin Handles

Absent == 0
Directory == -1
Inodes == 1 .. (Cardinality(Names) + Cardinality(Handles))

-----------------------------------------------------------------------------
(* The bytes of a file. *)

Byte(c, k) == IF k \in DOMAIN c THEN c[k] ELSE 0

\* c with b put at off; a gap reads as zeros.
Put(c, off, b) ==
    [k \in 1 .. Max({Len(c), off + Len(b)}) |->
        IF k - off \in DOMAIN b THEN b[k - off] ELSE Byte(c, k)]

\* At most n bytes of c from off on.
Slice(c, off, n) == SubSeq(c, off + 1, Min({off + n, Len(c)}))

\* c cut or filled up with zeros to n bytes: ftruncate.
Resize(c, n) == [k \in 1 .. n |-> Byte(c, k)]

-----------------------------------------------------------------------------
(* Streams.  A stream may hold one write that it has not passed on (pend at  *)
(* off).  It may also have the file's bytes in its buffer and serve reads    *)
(* from there; old says that the file has been changed since, past this      *)
(* stream.  sz is the emulator's own note of the size.                       *)

NoStream == [ino |-> Absent, mode |-> "", sz |-> 0, off |-> 0, pend |-> <<>>, old |-> FALSE]

IsOpen(fs, h) == fs.open[h].ino # Absent
FreeHandles(fs) == {h \in Handles : ~IsOpen(fs, h)}

\* The bytes c get into file i by way of stream h, or past all streams (NoHandle).
Stored(fs, h, i, c) ==
    [fs EXCEPT !.data[i] = c,
               !.open = [g \in Handles |->
                           [fs.open[g] EXCEPT !.old = IF g = h THEN FALSE
                              ELSE @ \/ (fs.open[g].ino = i /\ fs.open[g].mode # "w"
                                                           /\ fs.data[i] # c)]]]

\* fseek and fflush: the held write reaches the file.
Flushed(fs, h) ==
    LET s == fs.open[h]
    IN  IF s.pend = <<>> THEN fs
        ELSE [Stored(fs, h, s.ino, Put(fs.data[s.ino], s.off, s.pend)) EXCEPT
                 !.open[h] = [@ EXCEPT !.off = 0, !.pend = <<>>]]

\* What fread may find: the file, or, in an old buffer, bytes it had before.
\* A stream that was opened to write only finds nothing.
Views(fs, h) ==
    LET s == fs.open[h]
    IN  IF s.mode = "w" THEN {<<>>}
        ELSE {fs.data[s.ino]} \cup IF s.old THEN Earlier ELSE {}

\* Whether c is what file i holds once every stream has passed on what it holds,
\* in whatever order they do.
Settles(fs, i, c) ==
    LET holders == {h \in Handles : fs.open[h].ino = i /\ fs.open[h].pend # <<>>}
        Ends == {Len(fs.data[i])} \cup {fs.open[h].off + Len(fs.open[h].pend) : h \in holders}
        Covers(h, k) == k - fs.open[h].off \in DOMAIN fs.open[h].pend
    IN  /\ Len(c) \in Ends /\ \A e \in Ends : e <= Len(c)
        /\ \A k \in DOMAIN c :
              /\ \A h \in holders : Covers(h, k) => c[k] = fs.open[h].pend[k - fs.open[h].off]
              /\ (\A h \in holders : ~Covers(h, k)) => c[k] = Byte(fs.data[i], k)

-----------------------------------------------------------------------------
(* The directory. *)

\* What a path names; nothing does when the archive's directory is missing.
At(fs, p) == IF fs.tree[Root] = Absent \/ p = Unsafe THEN Absent ELSE fs.tree[p]
IsFile(fs, p) == At(fs, p) \in Inodes
IsDir(fs, p) == At(fs, p) = Directory

\* "." and ".." are entries, too.
Entries(fs, p) ==
    {".", ".."} \cup (IF p = Root THEN {n \in Names : At(fs, n) # Absent} ELSE {})

Used(fs) == {i \in Inodes : \/ \E n \in Names : fs.tree[n] = i
                            \/ \E h \in Handles : fs.open[h].ino = i}

\* A file without name and stream is gone.
Tidy(fs) ==
    [fs EXCEPT !.data = [i \in Inodes |-> IF i \in Used(fs) THEN fs.data[i] ELSE <<>>]]

\* Whether p can name a new file, and the new, empty file.
MayCreate(fs, p) == p \in Names /\ fs.tree[Root] = Directory /\ At(fs, p) = Absent
Created(fs, p) == [fs EXCEPT !.tree[p] = CHOOSE i \in Inodes : i \notin Used(fs)]

Unlinked(fs, p) == Tidy([fs EXCEPT !.tree[p] = Absent])

\* rmdir, remove, mkdir and rename succeed or leave everything as it is.
MayRmdir(fs, p) == IsDir(fs, p) /\ (p = Root => Entries(fs, p) = {".", ".."})
MayRemove(fs, p) == IsFile(fs, p) \/ MayRmdir(fs, p)
MayMkdir(fs, p) == IF p = Root THEN fs.tree[Root] = Absent ELSE MayCreate(fs, p)
MayRename(fs, p, q) ==
    /\ At(fs, p) # Absent
    /\ \/ p = q
       \/ /\ Root \notin {p, q}
          /\ At(fs, q) = Absent \/ (IsFile(fs, p) <=> IsFile(fs, q))
Renamed(fs, p, q) ==
    IF p = q THEN fs ELSE Tidy([fs EXCEPT !.tree[q] = fs.tree[p], !.tree[p] = Absent])

\* A directory stream: the entries when it was opened or rewound, and those it
\* has given since.  What of the entries that came or went meanwhile it gives is
\* left open.
DirStream(fs, p) == [path |-> p, start |-> Entries(fs, p), given |-> {}]
NoDir == [path |-> "none", start |-> {}, given |-> {}]
Present(fs) == IF fs.dir.path = Unsafe \/ IsDir(fs, fs.dir.path) THEN Entries(fs, fs.dir.path) ELSE {}
MayGive(fs) == (fs.dir.start \cup Present(fs)) \ fs.dir.given
MustGive(fs) == (fs.dir.start \cap Present(fs)) \ fs.dir.given
=============================================================================
