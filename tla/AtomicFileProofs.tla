-------------------------- MODULE AtomicFileProofs --------------------------
(***************************************************************************)
(* Proofs that the cache file of AtomicFile is an atomic register, for any *)
(* numbers of writers, readers, inodes and records.                        *)
(***************************************************************************)
EXTENDS AtomicFile, TLAPS

\* A load in progress has a file open, and knows its size before it reads.
ReadersInStep ==
    \A r \in Readers :
        /\ rpc[r] = "idle" => fd[r] = NoInode
        /\ rpc[r] = "read" => fd[r] # NoInode /\ size[r] = data[fd[r]].len

\* What a dead process left behind keeps its name.
OrphansStay == orphans \subseteq temps

\* The inductive invariant: a file that is named or open is whole because
\* writes go to temporary files only, and those have one owner each.
IInv == TypeOK /\ PublishedIsWhole /\ TempsAreOwned /\ OrphansStay /\ ReadersInStep

\* Blank is a record, and neither Nothing nor Garbage is one: what each proof
\* needs of the constants.
LEMMA Constants ==
    /\ Blank \in Records
    /\ Blocks \in [Records -> Nat \ {0}]
    /\ Nothing \notin Records /\ NotReading \notin Records
    /\ NoInode \notin Inodes
BY BlankAssumption, BlocksAssumption, RecordsAssumption, InodesAssumption

\* The initial states satisfy the inductive invariant.
LEMMA InitIInv == Init => IInv
BY Constants
   DEF Init, IInv, TypeOK, PublishedIsWhole, TempsAreOwned, OrphansStay, ReadersInStep

\* Every step preserves types.
LEMMA StepType == IInv /\ [Next]_vars => TypeOK'
<1> USE Constants
<1> SUFFICES ASSUME TypeOK, TempsAreOwned, ReadersInStep, [Next]_vars PROVE TypeOK'
  BY DEF IInv
<1>1. ASSUME NEW w \in Writers, SaveStep(w) PROVE TypeOK'
  <2>1. ASSUME NEW rec \in Records, MakeTemp(w, rec) PROVE TypeOK'
    BY <2>1 DEF TypeOK, MakeTemp, readerVars
  <2>2. CASE MakeTempFails(w)
    BY <2>2 DEF TypeOK, MakeTempFails, readerVars
  <2>3. CASE Write(w)
    BY <2>3 DEF TypeOK, TempsAreOwned, Write, writerVars, readerVars
  <2>4. CASE WriteFails(w)
    BY <2>4 DEF TypeOK, WriteFails, readerVars
  <2>5. CASE Rename(w)
    BY <2>5 DEF TypeOK, TempsAreOwned, Rename, readerVars
  <2>6. CASE RemoveTemp(w)
    BY <2>6 DEF TypeOK, RemoveTemp, readerVars
  <2>7. CASE Die(w)
    BY <2>7 DEF TypeOK, TempsAreOwned, Die, readerVars
  <2> QED
    BY <1>1, <2>1, <2>2, <2>3, <2>4, <2>5, <2>6, <2>7 DEF SaveStep
<1>2. ASSUME NEW r \in Readers, LoadStep(r) PROVE TypeOK'
  <2>1. CASE OpenFile(r)
    BY <2>1 DEF TypeOK, OpenFile, writerVars
  <2>2. CASE NoFile(r)
    BY <2>2 DEF TypeOK, NoFile, CloseWith, writerVars
  <2>3. CASE AskSize(r)
    BY <2>3 DEF TypeOK, AskSize, CloseWith, writerVars
  <2>4. CASE ReadFile(r)
    <3>1. fd[r] \in Inodes
      BY <2>4 DEF TypeOK, ReadersInStep, ReadFile
    <3>2. Parse(fd[r], size[r]) \in (Records \ {Blank}) \cup {Nothing, Garbage}
      BY <3>1 DEF TypeOK, Parse
    <3> QED BY <2>4, <3>2 DEF TypeOK, ReadFile, CloseWith, writerVars
  <2> QED BY <1>2, <2>1, <2>2, <2>3, <2>4 DEF LoadStep
<1>3. CASE UNCHANGED vars
  BY <1>3 DEF TypeOK, vars
<1> QED BY <1>1, <1>2, <1>3 DEF Next

\* What a step does to the files that are named or open: their data stay, and a
\* name given to the cache is the name of a whole file.
LEMMA StepPublished == IInv /\ [Next]_vars => PublishedIsWhole'
<1> USE Constants
<1> SUFFICES ASSUME IInv, [Next]_vars PROVE PublishedIsWhole'
  OBVIOUS
<1> USE DEF IInv
<1>1. ASSUME NEW w \in Writers, SaveStep(w) PROVE PublishedIsWhole'
  <2>1. ASSUME NEW rec \in Records, MakeTemp(w, rec) PROVE PublishedIsWhole'
    <3>1. PICK i \in Inodes : /\ i # dir /\ \A r \in Readers : fd[r] # i
                              /\ temps' = temps \cup {i}
                              /\ data' = [data EXCEPT ![i] = [rec |-> rec, len |-> 0]]
      BY <2>1 DEF MakeTemp, Free, Open
    <3>2. \A j \in Inodes : j # i => data'[j] = data[j]
      BY <3>1 DEF TypeOK
    <3>3. UNCHANGED <<dir, fd>>
      BY <2>1 DEF MakeTemp, readerVars
    <3> QED BY <3>1, <3>2, <3>3 DEF PublishedIsWhole, Whole, TypeOK
  <2>2. CASE MakeTempFails(w)
    BY <2>2 DEF PublishedIsWhole, Whole, MakeTempFails, readerVars
  <2>3. CASE Write(w)
    <3>1. tmp[w] \in temps
      BY <2>3 DEF TempsAreOwned, Write
    <3>2. \A j \in Inodes : j # tmp[w] => data'[j] = data[j]
      BY <2>3 DEF Write, TypeOK
    <3>3. UNCHANGED <<dir, temps, fd>>
      BY <2>3 DEF Write, readerVars
    <3> QED BY <3>1, <3>2, <3>3 DEF PublishedIsWhole, Whole, TypeOK
  <2>4. CASE WriteFails(w)
    BY <2>4 DEF PublishedIsWhole, Whole, WriteFails, readerVars
  <2>5. CASE Rename(w)
    BY <2>5 DEF PublishedIsWhole, Whole, Rename, readerVars
  <2>6. CASE RemoveTemp(w)
    BY <2>6 DEF PublishedIsWhole, Whole, RemoveTemp, readerVars
  <2>7. CASE Die(w)
    BY <2>7 DEF PublishedIsWhole, Whole, Die, readerVars
  <2> QED
    BY <1>1, <2>1, <2>2, <2>3, <2>4, <2>5, <2>6, <2>7 DEF SaveStep
<1>2. ASSUME NEW r \in Readers, LoadStep(r) PROVE PublishedIsWhole'
  <2>1. CASE OpenFile(r)
    BY <2>1 DEF PublishedIsWhole, Whole, OpenFile, TypeOK, writerVars
  <2>2. CASE NoFile(r)
    BY <2>2 DEF PublishedIsWhole, Whole, NoFile, CloseWith, TypeOK, writerVars
  <2>3. CASE AskSize(r)
    BY <2>3 DEF PublishedIsWhole, Whole, AskSize, CloseWith, TypeOK, writerVars
  <2>4. CASE ReadFile(r)
    BY <2>4 DEF PublishedIsWhole, Whole, ReadFile, CloseWith, TypeOK, writerVars
  <2> QED BY <1>2, <2>1, <2>2, <2>3, <2>4 DEF LoadStep
<1>3. CASE UNCHANGED vars
  BY <1>3 DEF PublishedIsWhole, Whole, vars
<1> QED BY <1>1, <1>2, <1>3 DEF Next

\* A writer's step concerns its own temporary file only.
LEMMA StepOwned == IInv /\ [Next]_vars => TempsAreOwned'
<1> USE Constants
<1> SUFFICES ASSUME IInv, [Next]_vars PROVE TempsAreOwned'
  OBVIOUS
<1> USE DEF IInv
<1>1. ASSUME NEW w \in Writers, SaveStep(w) PROVE TempsAreOwned'
  <2>1. ASSUME NEW rec \in Records, MakeTemp(w, rec) PROVE TempsAreOwned'
    <3>1. PICK i \in Inodes : /\ i \notin temps
                              /\ temps' = temps \cup {i}
                              /\ tmp' = [tmp EXCEPT ![w] = i]
      BY <2>1 DEF MakeTemp, Free
    <3>2. wpc' = [wpc EXCEPT ![w] = "write"] /\ orphans' = orphans
      BY <2>1 DEF MakeTemp
    <3> QED BY <3>1, <3>2 DEF TempsAreOwned, OrphansStay, TypeOK
  <2>2. CASE MakeTempFails(w)
    BY <2>2 DEF TempsAreOwned, MakeTempFails
  <2>3. CASE Write(w)
    BY <2>3 DEF TempsAreOwned, Write, writerVars
  <2>4. CASE WriteFails(w)
    BY <2>4 DEF TempsAreOwned, WriteFails, TypeOK
  <2>5. CASE Rename(w)
    BY <2>5 DEF TempsAreOwned, Rename, TypeOK
  <2>6. CASE RemoveTemp(w)
    BY <2>6 DEF TempsAreOwned, RemoveTemp, TypeOK
  <2>7. CASE Die(w)
    BY <2>7 DEF TempsAreOwned, Die, TypeOK
  <2> QED
    BY <1>1, <2>1, <2>2, <2>3, <2>4, <2>5, <2>6, <2>7 DEF SaveStep
<1>2. ASSUME NEW r \in Readers, LoadStep(r) PROVE TempsAreOwned'
  BY <1>2 DEF TempsAreOwned, LoadStep, OpenFile, NoFile, AskSize, ReadFile, writerVars
<1>3. CASE UNCHANGED vars
  BY <1>3 DEF TempsAreOwned, vars
<1> QED BY <1>1, <1>2, <1>3 DEF Next

\* A dead process's file is nobody's: no rename and no remove names it.
LEMMA StepOrphans == IInv /\ [Next]_vars => OrphansStay'
<1> SUFFICES ASSUME IInv, [Next]_vars PROVE OrphansStay'
  OBVIOUS
<1> USE DEF IInv, OrphansStay
<1>1. ASSUME NEW w \in Writers, SaveStep(w) PROVE OrphansStay'
  <2>1. CASE wpc[w] # "idle"
    BY <1>1, <2>1 DEF SaveStep, MakeTemp, MakeTempFails, Write, WriteFails, Rename,
       RemoveTemp, Die, TempsAreOwned
  <2>2. CASE wpc[w] = "idle"
    BY <1>1, <2>2 DEF SaveStep, MakeTemp, MakeTempFails, Write, WriteFails, Rename,
       RemoveTemp, Die
  <2> QED BY <2>1, <2>2
<1>2. CASE UNCHANGED <<temps, orphans>>
  BY <1>2
<1> QED BY <1>1, <1>2 DEF Next, LoadStep, OpenFile, NoFile, AskSize, ReadFile, vars

\* The size a load was told stays the size of the file it has open.
LEMMA StepReaders == IInv /\ [Next]_vars => ReadersInStep'
<1> USE Constants
<1> SUFFICES ASSUME IInv, [Next]_vars PROVE ReadersInStep'
  OBVIOUS
<1> USE DEF IInv
<1>1. ASSUME NEW w \in Writers, SaveStep(w) PROVE ReadersInStep'
  <2>1. ASSUME NEW i \in Inodes, Open(i) PROVE data'[i] = data[i]
    BY <1>1, <2>1 DEF SaveStep, MakeTemp, MakeTempFails, Write, WriteFails, Rename,
       RemoveTemp, Die, Free, Open, TempsAreOwned, PublishedIsWhole, TypeOK
  <2>2. UNCHANGED readerVars
    BY <1>1 DEF SaveStep, MakeTemp, MakeTempFails, Write, WriteFails, Rename,
       RemoveTemp, Die
  <2> QED BY <2>1, <2>2 DEF ReadersInStep, readerVars, Open, TypeOK
<1>2. ASSUME NEW r \in Readers, LoadStep(r) PROVE ReadersInStep'
  <2>1. UNCHANGED data
    BY <1>2 DEF LoadStep, OpenFile, NoFile, AskSize, ReadFile
  <2>2. CASE OpenFile(r)
    BY <2>1, <2>2 DEF ReadersInStep, OpenFile, TypeOK
  <2>3. CASE NoFile(r)
    BY <2>1, <2>3 DEF ReadersInStep, NoFile, CloseWith, TypeOK
  <2>4. CASE AskSize(r)
    BY <2>1, <2>4 DEF ReadersInStep, AskSize, CloseWith, TypeOK
  <2>5. CASE ReadFile(r)
    BY <2>1, <2>5 DEF ReadersInStep, ReadFile, CloseWith, TypeOK
  <2> QED BY <1>2, <2>2, <2>3, <2>4, <2>5 DEF LoadStep
<1>3. CASE UNCHANGED vars
  BY <1>3 DEF ReadersInStep, vars
<1> QED BY <1>1, <1>2, <1>3 DEF Next

\* The inductive invariant holds in every reachable state.
THEOREM Invariance == Spec => []IInv
<1>1. Init => IInv
  BY InitIInv
<1>2. IInv /\ [Next]_vars => IInv'
  BY StepType, StepPublished, StepOwned, StepOrphans, StepReaders DEF IInv
<1> QED BY <1>1, <1>2, PTL DEF Spec

\* file.c:58-59: what the cache's name and every open file refer to is always a
\* complete record that nobody writes.
THEOREM NeverPartial == Spec => []PublishedIsWhole
<1>1. IInv => PublishedIsWhole
  BY DEF IInv
<1> QED BY <1>1, Invariance, PTL

\* Every save in progress has a temporary file of its own (file.c:70-71).
THEOREM OwnTemp == Spec => []TempsAreOwned
<1>1. IInv => TempsAreOwned
  BY DEF IInv
<1> QED BY <1>1, Invariance, PTL

\* The states have the types the code gives them, and a load never returns the
\* blank token that clears the cache (file.c:107-111).
THEOREM Types == Spec => []TypeOK
<1>1. IInv => TypeOK
  BY DEF IInv
<1> QED BY <1>1, Invariance, PTL

\* A temporary name is a dead process's or that of a save in progress.
Used(i) == i \in orphans \/ \E w \in Writers : wpc[w] # "idle" /\ tmp[w] = i
TempsInUse == \A i \in temps : Used(i)

\* A save that ends, well or not, takes its temporary name away.
LEMMA StepInUse == IInv /\ TempsInUse /\ [Next]_vars => TempsInUse'
<1> USE Constants
<1> SUFFICES ASSUME IInv, TempsInUse, [Next]_vars, NEW i \in temps' PROVE Used(i)'
  BY DEF TempsInUse
<1> USE DEF IInv
<1>1. ASSUME NEW w \in Writers, SaveStep(w) PROVE Used(i)'
  <2>1. orphans \subseteq orphans'
    BY <1>1 DEF SaveStep, MakeTemp, MakeTempFails, Write, WriteFails, Rename, RemoveTemp, Die
  <2>2. CASE i \in orphans
    BY <2>1, <2>2 DEF Used
  <2>3. CASE i \in temps \ orphans
    <3>1. PICK v \in Writers : wpc[v] # "idle" /\ tmp[v] = i
      BY <2>3 DEF TempsInUse, Used
    <3>2. CASE v # w
      <4>1. \A u \in Writers : u # w => wpc'[u] = wpc[u] /\ tmp'[u] = tmp[u]
        BY <1>1 DEF SaveStep, MakeTemp, MakeTempFails, Write, WriteFails, Rename,
           RemoveTemp, Die, writerVars, TypeOK
      <4> QED BY <3>1, <3>2, <4>1 DEF Used
    <3>3. CASE v = w /\ Die(w)
      BY <3>1, <3>3 DEF Die, Used
    <3>4. CASE v = w /\ ~Die(w)
      <4>1. ~Rename(w) /\ ~RemoveTemp(w)
        BY <2>3, <3>1, <3>4 DEF Rename, RemoveTemp
      <4>2. wpc'[w] # "idle" /\ tmp'[w] = tmp[w]
        BY <1>1, <3>1, <3>4, <4>1 DEF SaveStep, MakeTemp, MakeTempFails, Write, WriteFails,
           writerVars, TypeOK
      <4> QED BY <3>1, <3>4, <4>2 DEF Used
    <3> QED BY <3>2, <3>3, <3>4
  <2>4. CASE i \notin temps
    <3>1. PICK rec \in Records : MakeTemp(w, rec)
      BY <1>1, <2>4 DEF SaveStep, MakeTempFails, Write, WriteFails, Rename, RemoveTemp, Die
    <3> QED BY <2>4, <3>1 DEF MakeTemp, Used, TypeOK
  <2> QED BY <2>2, <2>3, <2>4
<1>2. CASE UNCHANGED <<temps, orphans, wpc, tmp>>
  BY <1>2 DEF TempsInUse, Used
<1> QED BY <1>1, <1>2
        DEF Next, LoadStep, OpenFile, NoFile, AskSize, ReadFile, writerVars, vars

\* No save leaves its temporary file behind, however it ended, unless its
\* process died (file.c:81-86, test_storage_atomic.c:108-114).
THEOREM NothingLeftBehind == Spec => []NoTempLeftBehind
<1>1. Init => TempsInUse
  BY DEF Init, TempsInUse
<1>2. IInv /\ TempsInUse => NoTempLeftBehind
  BY DEF IInv, TempsInUse, Used, TempsAreOwned, OrphansStay, NoTempLeftBehind
<1> QED BY <1>1, <1>2, StepInUse, Invariance, PTL DEF Spec

-----------------------------------------------------------------------------
\* What a load in progress is going to find.
Looking == [r \in Readers |-> IF rpc[r] = "idle" THEN NotReading ELSE Content(fd[r])]

\* Initially the register holds nothing and no load is in progress.
LEMMA RefinementInit == Init => Register!Init
BY DEF Init, Register!Init, Content, NotReading, Register!NotReading

\* A save takes effect at its rename; its other steps are invisible, or say
\* what it returned.
LEMMA RefinementSave ==
    ASSUME IInv, NEW w \in Writers, SaveStep(w)
    PROVE  Register!Next \/ UNCHANGED Register!registerVars
<1> USE Constants DEF IInv, Register!registerVars
<1>1. ASSUME NEW i \in Inodes, i = dir \/ Open(i), ~Rename(w) PROVE data'[i] = data[i] \/ Write(w)
  BY <1>1 DEF SaveStep, MakeTemp, MakeTempFails, WriteFails, RemoveTemp, Die, Free, TypeOK
<1>2. ASSUME NEW i \in Inodes, i = dir \/ Open(i), ~Rename(w) PROVE data'[i] = data[i]
  <2>1. CASE Write(w)
    BY <1>2, <2>1 DEF Write, Open, TempsAreOwned, PublishedIsWhole, TypeOK
  <2> QED BY <1>1, <1>2, <2>1
<1>3. UNCHANGED <<rpc, fd, loaded>>
  BY DEF SaveStep, MakeTemp, MakeTempFails, Write, WriteFails, Rename, RemoveTemp, Die,
     readerVars
<1>4. ASSUME ~Rename(w) PROVE UNCHANGED <<Content(dir), Looking>>
  <2>1. UNCHANGED dir
    BY <1>4 DEF SaveStep, MakeTemp, MakeTempFails, Write, WriteFails, RemoveTemp, Die
  <2>2. Content(dir)' = Content(dir)
    BY <1>2, <1>4, <2>1 DEF Content, TypeOK
  <2>3. \A r \in Readers : rpc[r] # "idle" => Content(fd[r])' = Content(fd[r])
    BY <1>2, <1>3, <1>4 DEF Content, Open, TypeOK
  <2> QED BY <1>3, <2>2, <2>3 DEF Looking
<1>5. CASE ~Rename(w) /\ \E rec \in Records : MakeTemp(w, rec)
  <2>1. saved' = [saved EXCEPT ![w] = "none"]
    BY <1>5 DEF MakeTemp
  <2> QED BY <2>1, <1>5, <1>3, <1>4 DEF Register!Next, Register!BeginSave, Looking
<1>6. CASE ~Rename(w) /\ (MakeTempFails(w) \/ RemoveTemp(w))
  <2>1. saved' = [saved EXCEPT ![w] = "failed"]
    BY <1>6 DEF MakeTempFails, RemoveTemp
  <2> QED BY <2>1, <1>6, <1>3, <1>4 DEF Register!Next, Register!SaveFails, Looking
<1>7. CASE ~Rename(w) /\ (Write(w) \/ WriteFails(w) \/ Die(w))
  <2>1. UNCHANGED saved
    BY <1>7 DEF Write, WriteFails, Die, writerVars
  <2> QED BY <2>1, <1>7, <1>3, <1>4 DEF Looking
<1>8. CASE Rename(w)
  <2>1. tmp[w] \in Inodes
    BY <1>8 DEF Rename, TempsAreOwned, TypeOK
  <2>2. Content(dir)' = data[tmp[w]].rec /\ data[tmp[w]].rec \in Records
    BY <1>8, <2>1 DEF Rename, Content, TypeOK
  <2>3. UNCHANGED Looking
    BY <1>8, <1>3 DEF Rename, Looking, Content
  <2>4. saved' = [saved EXCEPT ![w] = "ok"]
    BY <1>8 DEF Rename
  <2> QED BY <2>2, <2>3, <2>4, <1>3 DEF Register!Next, Register!Save, Looking
<1> QED BY <1>5, <1>6, <1>7, <1>8 DEF SaveStep

\* A load looks at the register when it opens the file, and returns the token
\* of what it saw.
LEMMA RefinementLoad ==
    ASSUME IInv, NEW r \in Readers, LoadStep(r)
    PROVE  Register!Next \/ UNCHANGED Register!registerVars
<1> USE Constants DEF IInv, Register!registerVars
<1>1. UNCHANGED <<Content(dir), saved, data>>
  BY DEF LoadStep, OpenFile, NoFile, AskSize, ReadFile, Content, writerVars
<1>2. CASE OpenFile(r)
  <2>1. Looking' = [Looking EXCEPT ![r] = Content(dir)]
    BY <1>2 DEF OpenFile, Looking, Content, TypeOK
  <2>2. UNCHANGED loaded
    BY <1>2 DEF OpenFile
  <2>3. Looking[r] = NotReading
    BY <1>2 DEF OpenFile, Looking
  <2> QED BY <1>1, <2>1, <2>2, <2>3
         DEF Register!Next, Register!Look, Looking, NotReading, Register!NotReading
<1>3. CASE AskSize(r) /\ data[fd[r]].len # 0
  <2>1. UNCHANGED <<Looking, loaded>>
    BY <1>1, <1>3 DEF AskSize, Looking, Content, TypeOK
  <2> QED BY <1>1, <2>1 DEF Looking
<1>4. ASSUME NoFile(r) \/ (AskSize(r) /\ data[fd[r]].len = 0) \/ ReadFile(r)
      PROVE  Register!Load(r)
  <2>1. CloseWith(r, Register!TokenOf(Looking[r]))
    <3>1. CASE NoFile(r)
      BY <3>1 DEF NoFile, Looking, Content, Register!TokenOf
    <3>2. CASE AskSize(r) /\ data[fd[r]].len = 0
      BY <3>2 DEF AskSize, TypeOK, PublishedIsWhole, Whole
    <3>3. CASE ReadFile(r)
      <4>1. fd[r] \in Inodes /\ size[r] = Blocks[data[fd[r]].rec]
        BY <3>3 DEF ReadFile, ReadersInStep, PublishedIsWhole, Whole, TypeOK
      <4>2. Looking[r] = data[fd[r]].rec
        BY <3>3, <4>1 DEF ReadFile, Looking, Content
      <4>3. Parse(fd[r], size[r]) = Register!TokenOf(Looking[r])
        BY <4>1, <4>2 DEF Parse, Register!TokenOf, TypeOK
      <4> QED BY <3>3, <4>3 DEF ReadFile
    <3> QED BY <1>4, <3>1, <3>2, <3>3
  <2>2. rpc[r] # "idle"
    BY <1>4 DEF NoFile, AskSize, ReadFile
  <2>3. Looking[r] # NotReading
    <3>1. Content(fd[r]) \in Records \cup {Nothing}
      BY DEF Content, TypeOK
    <3>2. NotReading \notin Records \cup {Nothing}
      BY DEF NotReading, Nothing
    <3> QED BY <2>2, <3>1, <3>2 DEF Looking
  <2>4. Looking' = [Looking EXCEPT ![r] = NotReading]
    BY <1>1, <2>1 DEF CloseWith, Looking, Content, TypeOK
  <2> QED BY <1>1, <2>1, <2>3, <2>4
         DEF Register!Load, Looking, CloseWith, NotReading, Register!NotReading
<1>5. CASE NoFile(r) \/ (AskSize(r) /\ data[fd[r]].len = 0) \/ ReadFile(r)
  BY <1>4, <1>5 DEF Register!Next
<1>6. CASE AskSize(r)
  BY <1>3, <1>5, <1>6
<1> HIDE DEF IInv, Register!registerVars
<1> QED BY <1>2, <1>5, <1>6 DEF LoadStep

\* file.c:58-88: the cache file implements an atomic register; a save that
\* returned 0 replaced the record, one that failed did not, and a load returns
\* one whole record.
THEOREM Refinement == Spec => ImplementsRegister
<1>1. Init => Register!Init
  BY RefinementInit
<1>2. IInv /\ [Next]_vars => [Register!Next]_(Register!registerVars)
  <2> SUFFICES ASSUME IInv, [Next]_vars
               PROVE  Register!Next \/ UNCHANGED Register!registerVars
    OBVIOUS
  <2>1. CASE UNCHANGED vars
    BY <2>1 DEF vars, Register!registerVars, Content
  <2> QED BY <2>1, RefinementSave, RefinementLoad DEF Next
<1> QED BY <1>1, <1>2, Invariance, PTL DEF Spec, ImplementsRegister, Register!Spec
=============================================================================
