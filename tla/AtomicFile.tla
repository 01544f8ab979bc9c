----------------------------- MODULE AtomicFile -----------------------------
(***************************************************************************)
(* src/src/storage/file.c: ll_file_save_token and ll_file_load_token, run  *)
(* by any number of threads and processes on one path with no lock.  A     *)
(* save writes a temporary file beside the cache and renames it over; a    *)
(* load opens the file, asks for its size and reads that many bytes.       *)
(*                                                                         *)
(* The file system (external) is a directory of one path and of temporary  *)
(* names, and inodes that live while a name or an open file refers to      *)
(* them.  A file's data reach it in blocks: a record takes Blocks[rec]     *)
(* writes, and a load may come between any two of them.                    *)
(***************************************************************************)
EXTENDS Integers

CONSTANTS
    Writers, Readers, Records, Blank,
    Blocks,        \* how many writes a record takes
    Inodes         \* bound: inodes of the file system

ASSUME BlankAssumption == Blank \in Records
ASSUME BlocksAssumption == Blocks \in [Records -> Nat \ {0}]

NoInode == "no inode"
Nothing == "nothing"
Garbage == "garbage"
NotReading == "not reading"
ASSUME RecordsAssumption == {Nothing, Garbage, NotReading} \cap Records = {}
ASSUME InodesAssumption == NoInode \notin Inodes

VARIABLES
    dir,      \* the inode path names, or NoInode
    temps,    \* the inodes that temporary names beside it name
    orphans,  \* those of them whose writer has died
    data,     \* data[i]: the record written to inode i and how much of it is there
    wpc,      \* wpc[w]: where w is in ll_file_save_token
    tmp,      \* tmp[w]: the temporary file w writes, or NoInode
    saved,    \* saved[w]: what w's save returned
    rpc,      \* rpc[r]: where r is in read_file
    fd,       \* fd[r]: the inode r has open, or NoInode
    size,     \* size[r]: the size r was told
    loaded    \* loaded[r]: what r's last load returned

writerVars == <<wpc, tmp, saved>>
readerVars == <<rpc, fd, size, loaded>>
vars == <<dir, temps, orphans, data, wpc, tmp, saved, rpc, fd, size, loaded>>

Init ==
    /\ dir = NoInode
    /\ temps = {}
    /\ orphans = {}
    /\ data = [i \in Inodes |-> [rec |-> Blank, len |-> 0]]
    /\ wpc = [w \in Writers |-> "idle"]
    /\ tmp = [w \in Writers |-> NoInode]
    /\ saved = [w \in Writers |-> "none"]
    /\ rpc = [r \in Readers |-> "idle"]
    /\ fd = [r \in Readers |-> NoInode]
    /\ size = [r \in Readers |-> 0]
    /\ loaded = [r \in Readers |-> Nothing]

-----------------------------------------------------------------------------
(***************************************************************************)
(* ll_file_save_token                                                      *)
(***************************************************************************)
Open(i) == \E r \in Readers : fd[r] = i
Free(i) == i # dir /\ i \notin temps /\ ~Open(i)

\* Mutant of MakeTemp: every save opens the same temporary name.
MakeSharedTemp(w, rec) ==
    /\ wpc[w] = "idle"
    /\ \E i \in Inodes :
        /\ i \in temps \/ (temps = {} /\ Free(i))
        /\ temps' = temps \cup {i}
        /\ data' = [data EXCEPT ![i] = [rec |-> rec, len |-> 0]]
        /\ tmp' = [tmp EXCEPT ![w] = i]
    /\ wpc' = [wpc EXCEPT ![w] = "write"]
    /\ saved' = [saved EXCEPT ![w] = "none"]
    /\ UNCHANGED <<dir, orphans, readerVars>>

\* mkstemp: a new empty file under a name nobody else has.
MakeTemp(w, rec) ==
    /\ wpc[w] = "idle"
    /\ \E i \in Inodes :
        /\ Free(i)
        /\ temps' = temps \cup {i}
        /\ data' = [data EXCEPT ![i] = [rec |-> rec, len |-> 0]]
        /\ tmp' = [tmp EXCEPT ![w] = i]
    /\ wpc' = [wpc EXCEPT ![w] = "write"]
    /\ saved' = [saved EXCEPT ![w] = "none"]
    /\ UNCHANGED <<dir, orphans, readerVars>>

\* No file can be made, or no memory for the record (lines 45-75).
MakeTempFails(w) ==
    /\ wpc[w] = "idle"
    /\ saved' = [saved EXCEPT ![w] = "failed"]
    /\ UNCHANGED <<dir, temps, orphans, data, wpc, tmp, readerVars>>

\* One write(2) of fputs, fflush or fclose.
Write(w) == LET i == tmp[w] IN
    /\ wpc[w] = "write"
    /\ data[i].len < Blocks[data[i].rec]
    /\ data' = [data EXCEPT ![i].len = @ + 1]
    /\ UNCHANGED <<dir, temps, orphans, writerVars, readerVars>>

\* The disk is full: fputs, fflush or fclose reports it.
WriteFails(w) ==
    /\ wpc[w] = "write"
    /\ wpc' = [wpc EXCEPT ![w] = "remove"]
    /\ UNCHANGED <<dir, temps, orphans, data, tmp, saved, readerVars>>

\* Mutant of Rename: the file is renamed before it is complete.
RenameEarly(w) == LET i == tmp[w] IN
    /\ wpc[w] = "write"
    /\ dir' = i
    /\ temps' = temps \ {i}
    /\ wpc' = [wpc EXCEPT ![w] = "idle"]
    /\ tmp' = [tmp EXCEPT ![w] = NoInode]
    /\ saved' = [saved EXCEPT ![w] = "ok"]
    /\ UNCHANGED <<orphans, data, readerVars>>

\* rename, reached only after the whole record has been written and closed.
Rename(w) == LET i == tmp[w] IN
    /\ wpc[w] = "write"
    /\ data[i].len = Blocks[data[i].rec]
    /\ dir' = i
    /\ temps' = temps \ {i}
    /\ wpc' = [wpc EXCEPT ![w] = "idle"]
    /\ tmp' = [tmp EXCEPT ![w] = NoInode]
    /\ saved' = [saved EXCEPT ![w] = "ok"]
    /\ UNCHANGED <<orphans, data, readerVars>>

\* Mutants of RemoveTemp: the file stays; or the failure goes unreported.
KeepTemp(w) ==
    /\ wpc[w] = "remove"
    /\ wpc' = [wpc EXCEPT ![w] = "idle"]
    /\ tmp' = [tmp EXCEPT ![w] = NoInode]
    /\ saved' = [saved EXCEPT ![w] = "failed"]
    /\ UNCHANGED <<dir, temps, orphans, data, readerVars>>
RemoveTempQuietly(w) ==
    /\ wpc[w] = "remove"
    /\ temps' = temps \ {tmp[w]}
    /\ wpc' = [wpc EXCEPT ![w] = "idle"]
    /\ tmp' = [tmp EXCEPT ![w] = NoInode]
    /\ saved' = [saved EXCEPT ![w] = "ok"]
    /\ UNCHANGED <<dir, orphans, data, readerVars>>

\* remove(tmp) after any failure, a failed rename included.
RemoveTemp(w) ==
    /\ wpc[w] = "remove"
    /\ temps' = temps \ {tmp[w]}
    /\ wpc' = [wpc EXCEPT ![w] = "idle"]
    /\ tmp' = [tmp EXCEPT ![w] = NoInode]
    /\ saved' = [saved EXCEPT ![w] = "failed"]
    /\ UNCHANGED <<dir, orphans, data, readerVars>>

\* The process dies; its temporary file stays in the directory.
Die(w) ==
    /\ wpc[w] # "idle"
    /\ orphans' = orphans \cup {tmp[w]}
    /\ wpc' = [wpc EXCEPT ![w] = "idle"]
    /\ tmp' = [tmp EXCEPT ![w] = NoInode]
    /\ UNCHANGED <<dir, temps, data, saved, readerVars>>

-----------------------------------------------------------------------------
(***************************************************************************)
(* ll_file_load_token and read_file                                        *)
(***************************************************************************)

\* Mutant of Parse: a blank record is a token like any other.
ParseBlankToken(i, len) ==
    IF len < Blocks[data[i].rec] THEN Garbage ELSE data[i].rec

\* What the bytes parse to.  A record cut short is no JSON object: the legacy
\* "timestamp:token" fallback takes what follows its first colon as a token.
Parse(i, len) ==
    IF len < Blocks[data[i].rec] THEN Garbage
    ELSE IF data[i].rec = Blank THEN Nothing
    ELSE data[i].rec

CloseWith(r, token) ==
    /\ loaded' = [loaded EXCEPT ![r] = token]
    /\ rpc' = [rpc EXCEPT ![r] = "idle"]
    /\ fd' = [fd EXCEPT ![r] = NoInode]

\* fopen; without a file the load fails at once when it goes on.
OpenFile(r) ==
    /\ rpc[r] = "idle"
    /\ rpc' = [rpc EXCEPT ![r] = "size"]
    /\ fd' = [fd EXCEPT ![r] = dir]
    /\ UNCHANGED <<dir, temps, orphans, data, writerVars, size, loaded>>

NoFile(r) ==
    /\ rpc[r] = "size"
    /\ fd[r] = NoInode
    /\ CloseWith(r, Nothing)
    /\ UNCHANGED <<dir, temps, orphans, data, writerVars, size>>

\* fseek to the end and ftell; an empty file is no token.
AskSize(r) ==
    /\ rpc[r] = "size"
    /\ fd[r] # NoInode
    /\ size' = [size EXCEPT ![r] = data[fd[r]].len]
    /\ IF data[fd[r]].len = 0 THEN CloseWith(r, Nothing)
       ELSE /\ rpc' = [rpc EXCEPT ![r] = "read"]
            /\ UNCHANGED <<fd, loaded>>
    /\ UNCHANGED <<dir, temps, orphans, data, writerVars>>

\* fread of as many bytes as the size said.
ReadFile(r) ==
    /\ rpc[r] = "read"
    /\ CloseWith(r, Parse(fd[r], size[r]))
    /\ UNCHANGED <<dir, temps, orphans, data, writerVars, size>>

-----------------------------------------------------------------------------
SaveStep(w) ==
    \/ \E rec \in Records : MakeTemp(w, rec)
    \/ MakeTempFails(w) \/ Write(w) \/ WriteFails(w) \/ Rename(w)
    \/ RemoveTemp(w) \/ Die(w)

LoadStep(r) == OpenFile(r) \/ NoFile(r) \/ AskSize(r) \/ ReadFile(r)

Next == (\E w \in Writers : SaveStep(w)) \/ (\E r \in Readers : LoadStep(r))

Spec == Init /\ [][Next]_vars

-----------------------------------------------------------------------------
(***************************************************************************)
(* Properties.                                                             *)
(***************************************************************************)
TypeOK ==
    /\ dir \in Inodes \cup {NoInode}
    /\ temps \subseteq Inodes /\ orphans \subseteq Inodes
    /\ data \in [Inodes -> [rec : Records, len : Nat]]
    /\ wpc \in [Writers -> {"idle", "write", "remove"}]
    /\ tmp \in [Writers -> Inodes \cup {NoInode}]
    /\ saved \in [Writers -> {"none", "ok", "failed"}]
    /\ rpc \in [Readers -> {"idle", "size", "read"}]
    /\ fd \in [Readers -> Inodes \cup {NoInode}]
    /\ size \in [Readers -> Nat]
    /\ loaded \in [Readers -> (Records \ {Blank}) \cup {Nothing, Garbage}]

Whole(i) == data[i].len = Blocks[data[i].rec]

\* The name of the cache, and every open file, always refer to a record that is
\* complete and that nobody writes any more (file.c:58-59).
PublishedIsWhole ==
    /\ dir # NoInode => Whole(dir) /\ dir \notin temps
    /\ \A r \in Readers : fd[r] # NoInode => Whole(fd[r]) /\ fd[r] \notin temps

\* Two saves never write the same temporary file, nor one that a dead process
\* left behind, and each has its own until it renames or removes it.
TempsAreOwned ==
    /\ \A w \in Writers : wpc[w] # "idle" => tmp[w] \in temps \ orphans
    /\ \A w, v \in Writers : wpc[w] # "idle" /\ wpc[v] # "idle" /\ tmp[w] = tmp[v] => w = v

\* No save leaves its temporary file behind, whatever failed on its way, unless
\* its process dies (test_storage_atomic.c:108-114); and no save picks up or
\* removes the file of one that died.
NoTempLeftBehind ==
    temps = orphans \cup {tmp[w] : w \in {v \in Writers : wpc[v] # "idle"}}

Content(i) == IF i = NoInode THEN Nothing ELSE data[i].rec

\* The file is an atomic register: a save takes effect at its rename, a load
\* looks when it opens the file.
Register == INSTANCE CacheRegister WITH
    value <- Content(dir),
    seen <- [r \in Readers |-> IF rpc[r] = "idle" THEN NotReading ELSE Content(fd[r])]

\* A reader or a second writer never sees a partial file, and a save that
\* returned 0 has replaced the record while one that failed has not
\* (file.c:58-88).
ImplementsRegister == Register!Spec
=============================================================================
