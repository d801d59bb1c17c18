------------------------------ MODULE FindFile ------------------------------
(***************************************************************************)
(* FindFirstFileW, FindNextFileW and FindClose (src/src/kernel32/main.c):  *)
(* the scan of a directory through one handle, while the guest itself, by  *)
(* the calls of Files, and other processes create and remove files.        *)
(*                                                                         *)
(* glob takes a sorted snapshot of the names that match, for which it      *)
(* opens the directory; each name is looked up again, with stat, when its  *)
(* turn comes.  The names of the model all match.                          *)
(***************************************************************************)
EXTENDS Files, Sequences

CONSTANTS
  Amounts,   \* what the guest reads and writes at a time
  MaxCalls   \* bound: calls of FindNextFileW

ASSUME FindFileAssumption == Amounts \subseteq Nat /\ MaxCalls \in Nat

VARIABLES
  scan,      \* "none", "first" between glob and stat, "open", "closed"
  paths,     \* gl_pathv, from 1; of a scan that failed what there was
  index,     \* how many of them have had their turn
  results,   \* what the calls returned, in order
  gone       \* the names that have been missing at some time since glob

scanning == <<scan, paths, index, results>>
vars == <<fileVars, scanning, gone>>

(* A call returns a name, a handle with the data left as the guest passed  *)
(* it, or failure.                                                         *)
NoData == -1
Failed == -2

Stat(name) == name \in Dir \ Dangling

(* The snapshot of S: its names in order.                                  *)
Glob(S) ==
  [k \in 1..Cardinality(S) |->
     CHOOSE x \in S : Cardinality({y \in S : y < x}) = k - 1]
-----------------------------------------------------------------------------
(* Nothing matches, or there is no descriptor for the directory, which     *)
(* glob reports as no match.                                               *)
FindFirstFails ==
  /\ scan = "none" /\ (Dir = {} \/ Free = {})
  /\ results' = <<Failed>> /\ paths' = Glob(Dir) /\ index' = 0
  /\ gone' = {} /\ scan' = "closed"
  /\ UNCHANGED fileVars

FindFirst_FromZero ==
  /\ scan = "none" /\ Dir # {} /\ Free # {}
  /\ paths' = Glob(Dir) /\ index' = 0
  /\ gone' = {} /\ scan' = "first"
  /\ UNCHANGED <<fileVars, results>>

FindFirst ==
  /\ scan = "none" /\ Dir # {} /\ Free # {}
  /\ paths' = Glob(Dir) /\ index' = 1
  /\ gone' = {} /\ scan' = "first"
  /\ UNCHANGED <<fileVars, results>>

FindFirstReturns ==
  /\ scan = "first"
  /\ results' = <<IF Stat(paths[1]) THEN paths[1] ELSE NoData>>
  /\ scan' = "open"
  /\ UNCHANGED <<fileVars, paths, index, gone>>

(* The index moves on whether the name was found or not.                   *)
FindNext_SkipsAfterFailure ==
  /\ scan = "open" /\ Len(results) <= MaxCalls
  /\ LET found == index < Len(paths) /\ Stat(paths[index + 1])
     IN /\ results' = Append(results, IF found THEN paths[index + 1] ELSE Failed)
        /\ index' = IF found THEN index + 1 ELSE index + 2
  /\ UNCHANGED <<fileVars, scan, paths, gone>>

FindNext_LastLost ==
  /\ scan = "open" /\ Len(results) <= MaxCalls
  /\ LET found == index + 1 < Len(paths) /\ Stat(paths[index + 1])
     IN results' = Append(results, IF found THEN paths[index + 1] ELSE Failed)
  /\ index' = index + 1
  /\ UNCHANGED <<fileVars, scan, paths, gone>>

FindNext ==
  /\ scan = "open" /\ Len(results) <= MaxCalls
  /\ LET found == index < Len(paths) /\ Stat(paths[index + 1])
     IN results' = Append(results, IF found THEN paths[index + 1] ELSE Failed)
  /\ index' = index + 1
  /\ UNCHANGED <<fileVars, scan, paths, gone>>

FindClose ==
  /\ scan = "open"
  /\ scan' = "closed"
  /\ UNCHANGED <<fileVars, paths, index, results, gone>>
-----------------------------------------------------------------------------
(* What happens to the files between two steps of the scan: calls of the   *)
(* guest, which has one thread, and steps of other processes.              *)
Plain == Name \ (Folder \cup Dangling)
Method == {"FILE_BEGIN", "FILE_CURRENT", "FILE_END"}

FileCall ==
  \/ \E n \in Plain, d \in Disposition, rw \in BOOLEAN : CreateFileW(n, d, rw)
  \/ \E n \in Folder : CreateDirectoryW(n)
  \/ \E n \in Name : DeleteFileW(n) \/ RemoveDirectoryW(n)
  \/ \E h \in 1..MaxFd : CloseHandle(h)
TempCall ==
  \/ \E u \in {0} \cup DOMAIN TempAt : GetTempFileNameW(u)
  \/ \E d \in Disposition : CreateTemp(d)
PositionCall ==
  \E h \in 0..MaxFd :
    \/ \E n \in Amounts : ReadFile(h, n) \/ WriteFile(h, n)
    \/ \E low \in Long, high \in Long \cup {NoHigh}, m \in Method : Move(h, low, high, m)
    \/ Tell(h) \/ \E told \in BOOLEAN : GetFileSize(h, told)

Call == scan # "first" /\ (FileCall \/ TempCall \/ PositionCall \/ Restore)

Meanwhile == gone' = gone \cup (Dir \ Dir') /\ UNCHANGED scanning

FileStep == (Call \/ Tick \/ Create \/ Remove \/ Fill) /\ Meanwhile

ScanStep == FindFirstFails \/ FindFirst \/ FindFirstReturns \/ FindNext \/ FindClose

Init ==
  /\ \E present \in SUBSET Name, sizes \in [Plain -> 0..MaxSize] :
       /\ node = [n \in Name |-> IF n \notin present THEN NoFile
                                 ELSE IF n \in Plain THEN n ELSE NotRegular]
       /\ size = [f \in Node |-> IF f \in present \cap Plain THEN sizes[f] ELSE 0]
  /\ filled \in SUBSET (Dir \cap Folder) /\ others = 0
  /\ fd = [h \in 0..MaxFd |-> Closed] /\ opens = 0 /\ closed = {}
  /\ clock = 1 /\ temp = 0
  /\ word \in {0, 1} /\ mark = NoMark /\ asked = NoQuestion /\ answer = 0
  /\ scan = "none" /\ paths = <<>> /\ index = 0 /\ results = <<>> /\ gone = {}

Next == FileStep \/ ScanStep

Spec == Init /\ [][Next]_vars
-----------------------------------------------------------------------------
TypeOK ==
  /\ node \in [Name -> Node \cup {NoFile, NotRegular}]
  /\ size \in [Node -> 0..MaxSize]
  /\ filled \subseteq Dir \cap Folder /\ others \in 0..MaxOthers
  /\ fd \in [0..MaxFd -> [file : Node \cup {NoFile}, pos : 0..MaxSize, rw : BOOLEAN]]
  /\ fd[0] = Closed
  /\ opens \in 0..MaxFd /\ closed \subseteq 1..MaxFd
  /\ clock \in DOMAIN TempAt /\ temp \in {0} \cup Plain
  /\ word \in Int /\ answer \in Nat
  /\ gone \subseteq Name
  /\ scan \in {"none", "first", "open", "closed"}
  /\ paths \in Seq(Name)
  /\ index \in Nat /\ (scan \in {"first", "open"} => index > 0)
  /\ results \in Seq(Name \cup {NoData, Failed})

Returned == {results[k] : k \in DOMAIN results} \ {NoData, Failed}
Lost(name) == name \in gone \cup Dangling

(* No scan returns a name twice, or out of the order of the snapshot; and  *)
(* a guest that calls on gets all the names that stayed, whatever it and   *)
(* others create and remove meanwhile.                                     *)
ScanExact ==
  /\ \A j, k \in DOMAIN results :
       j < k /\ results[j] \in Name /\ results[k] \in Name => results[j] < results[k]
  /\ scan = "open" /\ index >= Len(paths) =>
       \A k \in DOMAIN paths : Lost(paths[k]) \/ paths[k] \in Returned

(* The first failure, at which a guest stops, comes after the last name;   *)
(* at a name that could not be looked up, which is not the end; or at the  *)
(* very start, with files there, when the guest has opened as many files   *)
(* as there are descriptors, however many of them it has closed.           *)
FailureExplained ==
  \A k \in DOMAIN results :
    results[k] \in {NoData, Failed} =>
      \/ k > Len(paths)
      \/ Lost(paths[k])
      \/ index = 0 /\ opens = MaxFd
-----------------------------------------------------------------------------
(* What CreateFileW costs: a call fails when the guest has opened as many  *)
(* files as there are descriptors, however many of them it has closed; or  *)
(* when OPEN_EXISTING finds nothing, and in no other case: CREATE_NEW      *)
(* opens a file that is there, and TRUNCATE_EXISTING makes one.            *)
OpenExplained ==
  asked.op = "open" =>
    (answer = 0 <=> asked.used = MaxFd \/ (asked.how = "OPEN_EXISTING" /\ ~ asked.there))

(* The guest gets back to a position it has noted, whatever it did in      *)
(* between, unless the low half has its sign bit set: then the call fails  *)
(* and the position stays.                                                 *)
PositionRestored ==
  asked.op = "restore" =>
    IF mark.low < W \div 2 THEN fd[mark.h].pos = mark.pos
    ELSE answer = Invalid /\ fd[mark.h].pos = asked.pos

(* The two halves of a size are those of the file; or the file is below    *)
(* 2^32 bytes, the low half is its size, and the high half is what an      *)
(* earlier call, or nobody, left.                                          *)
SizeTold ==
  asked.op = "size" /\ IsOpen(asked.h) =>
    \/ word * W + answer = SizeOf(asked.h)
    \/ answer = SizeOf(asked.h) /\ SizeOf(asked.h) < W /\ word = asked.word
=============================================================================
