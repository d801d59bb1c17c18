------------------------------- MODULE Files -------------------------------
(***************************************************************************)
(* Files and directories as kernel32 shows them to the guest               *)
(* (src/src/kernel32/main.c): CreateFileW, CloseHandle, ReadFile,          *)
(* WriteFile, SetFilePointer, GetFileSize, GetTempFileNameW, DeleteFileW,  *)
(* CreateDirectoryW and RemoveDirectoryW, on a directory that other        *)
(* processes change too.  FindFile adds scans of the directory.            *)
(*                                                                         *)
(* A HANDLE is a descriptor of the host.  A file lives on while it has a   *)
(* name or a descriptor; of its contents only the size is kept.  A DWORD   *)
(* has W values, and a position two of them.                               *)
(***************************************************************************)
EXTENDS Integers, FiniteSets

CONSTANTS
  Name,      \* names of files: numbers from 1, in the order in which glob sorts them
  Dangling,  \* symbolic links that lead nowhere
  Folder,    \* names of directories
  MaxFd,     \* descriptors the process can have
  W,         \* values of a DWORD; 2^32 in the code
  MaxSize,   \* bound: sizes and positions
  MaxOthers, \* bound: changes by other processes
  TempAt     \* the name GetTempFileNameW makes of each number

ASSUME FilesAssumption ==
  /\ IsFiniteSet(Name) /\ Name = 1..Cardinality(Name)
  /\ Dangling \subseteq Name
  /\ Folder \subseteq Name \ Dangling
  /\ MaxFd \in Nat /\ MaxSize \in Nat /\ MaxOthers \in Nat
  /\ W \in Nat \ {0} /\ W % 2 = 0 /\ MaxSize < W * W
  /\ DOMAIN TempAt \subseteq Nat \ {0} /\ 1 \in DOMAIN TempAt
  /\ \A u \in DOMAIN TempAt : TempAt[u] \in Name \ (Folder \cup Dangling)

VARIABLES
  node,      \* what each name names: a file, NoFile, or NotRegular
  size,      \* sizes of the files
  filled,    \* the directories that are not empty
  others,    \* changes by other processes so far
  fd,        \* the descriptors; 0 stands for INVALID_HANDLE_VALUE
  opens,     \* calls that opened a file: history
  closed,    \* the handles the guest has closed
  clock,     \* seconds
  temp,      \* the guest's last temporary name, or 0
  word,      \* the guest's high half of a position or size
  mark,      \* a position the guest has noted
  asked,     \* the guest's last question about a file or a position: history
  answer     \* the handle, or the low half, it was opens

disk == <<node, size, filled>>
naming == <<clock, temp>>
pointing == <<word, mark>>
fileVars == <<disk, others, fd, opens, closed, naming, pointing, asked, answer>>

NoFile == 0
NotRegular == -1
Node == 1..(Cardinality(Name) + MaxFd + 1)
Closed == [file |-> NoFile, pos |-> 0, rw |-> FALSE]
NoMark == [h |-> 0, low |-> 0, high |-> 0, pos |-> 0]
NoQuestion == [op |-> "none", h |-> 0, word |-> 0, pos |-> 0]

Unasked == asked' = NoQuestion /\ answer' = 0

Dir == {n \in Name : node[n] # NoFile}
Max2(a, b) == IF a > b THEN a ELSE b
Min2(a, b) == IF a < b THEN a ELSE b
Least(S) == CHOOSE x \in S : \A y \in S : x <= y

(* A file nobody has a name or a descriptor of.                            *)
Fresh == Least(Node \ ({node[n] : n \in Name} \cup {fd[h].file : h \in DOMAIN fd}))

(* Of the sizes, those of files that are no more are 0.                    *)
Kept(S, links) ==
  [f \in Node |->
     IF f \in {links[n] : n \in Name} \cup {fd[h].file : h \in DOMAIN fd} THEN S[f] ELSE 0]

Gain(n) ==
  /\ node' = [node EXCEPT ![n] = IF n \in Folder \cup Dangling THEN NotRegular ELSE Fresh]
  /\ UNCHANGED <<size, filled>>

Lose(n) ==
  /\ node' = [node EXCEPT ![n] = NoFile]
  /\ size' = Kept(size, [node EXCEPT ![n] = NoFile])
  /\ filled' = filled \ {n}
-----------------------------------------------------------------------------
(* CreateFileW and CloseHandle.                                            *)
Disposition ==
  {"CREATE_NEW", "CREATE_ALWAYS", "OPEN_EXISTING", "OPEN_ALWAYS", "TRUNCATE_EXISTING"}

Truncates(disposition) == disposition \in {"CREATE_ALWAYS", "TRUNCATE_EXISTING"}

Free == {h \in 1..MaxFd : fd[h].file = NoFile}

Creates_NotNew(disposition) == disposition \notin {"OPEN_EXISTING", "CREATE_NEW"}

Creates(disposition) == disposition # "OPEN_EXISTING"

(* CREATE_NEW opens a file that is there, and TRUNCATE_EXISTING makes one  *)
(* that is not.  `rw` is FALSE when GENERIC_READ alone is asked for.       *)
CreateFileW(n, disposition, rw) ==
  /\ IF Free = {} \/ (n \notin Dir /\ ~ Creates(disposition))
     THEN answer' = 0 /\ UNCHANGED <<disk, fd, opens>>
     ELSE LET f == IF n \in Dir THEN node[n] ELSE Fresh
              h == Least(Free)
          IN /\ node' = [node EXCEPT ![n] = f]
             /\ size' = IF Truncates(disposition) THEN [size EXCEPT ![f] = 0] ELSE size
             /\ fd' = [fd EXCEPT ![h] = [file |-> f, pos |-> 0, rw |-> rw]]
             /\ opens' = opens + 1
             /\ answer' = h
             /\ UNCHANGED filled
  /\ asked' = [op |-> "open", how |-> disposition, there |-> n \in Dir, used |-> opens]
  /\ UNCHANGED <<others, closed, naming, pointing>>

(* The guest is done with the handle; the descriptor stays.                *)
CloseHandle(h) ==
  /\ h \notin Free \cup closed
  /\ closed' = closed \cup {h}
  /\ Unasked
  /\ UNCHANGED <<disk, others, fd, opens, naming, pointing>>
-----------------------------------------------------------------------------
(* Names made from the number the guest gives or, when it is 0, from the   *)
(* clock, in seconds; nothing is created.                                  *)
Tick ==
  /\ clock + 1 \in DOMAIN TempAt
  /\ clock' = clock + 1
  /\ Unasked
  /\ UNCHANGED <<disk, others, fd, opens, closed, temp, pointing>>

GetTempFileNameW(unique) ==
  /\ temp' = TempAt[IF unique = 0 THEN clock ELSE unique]
  /\ Unasked
  /\ UNCHANGED <<disk, others, fd, opens, closed, clock, pointing>>

CreateTemp(disposition) ==
  /\ temp # 0
  /\ CreateFileW(temp, disposition, TRUE)
-----------------------------------------------------------------------------
(* Reading and writing at the position.  A handle that is open may be one  *)
(* the guest has closed.                                                   *)
IsOpen(h) == fd[h].file # NoFile
SizeOf(h) == size[fd[h].file]

ReadFile(h, n) ==
  /\ fd' = IF IsOpen(h)
           THEN [fd EXCEPT ![h].pos = Max2(@, Min2(@ + n, SizeOf(h)))] ELSE fd
  /\ Unasked
  /\ UNCHANGED <<disk, others, opens, closed, naming, pointing>>

WriteFile(h, n) ==
  /\ fd[h].pos + n <= MaxSize
  /\ IF IsOpen(h) /\ fd[h].rw
     THEN /\ fd' = [fd EXCEPT ![h].pos = @ + n]
          /\ size' = [size EXCEPT ![fd[h].file] = Max2(@, fd[h].pos + n)]
     ELSE UNCHANGED <<fd, size>>
  /\ Unasked
  /\ UNCHANGED <<node, filled, others, opens, closed, naming, pointing>>
-----------------------------------------------------------------------------
(* Positions.  A LONG is a DWORD read as a signed number.  The low half is *)
(* extended with its sign before the high half is put over it: when it is  *)
(* negative the high half is gone.                                         *)
Long == (-(W \div 2))..(W \div 2 - 1)
Signed(dword) == IF dword < W \div 2 THEN dword ELSE dword - W
NoHigh == W   \* a NULL pointer: no LONG
Invalid == W - 1

Distance_LowOnly(low, high) == low

Distance(low, high) ==
  IF high = NoHigh \/ low < 0 THEN low ELSE high * W + low

Base(h, method) ==
  CASE method = "FILE_BEGIN" -> 0
    [] method = "FILE_CURRENT" -> fd[h].pos
    [] method = "FILE_END" -> IF IsOpen(h) THEN SizeOf(h) ELSE 0

(* On success `word` is what the high half of the new position is.         *)
SetFilePointer(h, low, high, method) ==
  LET new == Base(h, method) + Distance(low, high)
  IN /\ new <= MaxSize
     /\ IF IsOpen(h) /\ new >= 0
        THEN /\ fd' = [fd EXCEPT ![h].pos = new]
             /\ answer' = new % W
             /\ word' = IF high = NoHigh THEN word ELSE new \div W
        ELSE /\ answer' = Invalid
             /\ word' = IF high = NoHigh THEN word ELSE high
             /\ UNCHANGED fd
     /\ UNCHANGED <<disk, others, opens, closed, naming>>

Move(h, low, high, method) ==
  /\ SetFilePointer(h, low, high, method)
  /\ asked' = NoQuestion
  /\ UNCHANGED mark

(* The guest asks where it is and notes the two halves it is told ...      *)
Tell(h) ==
  /\ IsOpen(h)
  /\ SetFilePointer(h, 0, 0, "FILE_CURRENT")
  /\ mark' = [h |-> h, low |-> answer', high |-> word', pos |-> fd[h].pos]
  /\ asked' = NoQuestion

(* ... and goes back there.                                                *)
Restore ==
  /\ mark # NoMark
  /\ SetFilePointer(mark.h, Signed(mark.low), mark.high, "FILE_BEGIN")
  /\ asked' = [op |-> "restore", h |-> mark.h, word |-> mark.high, pos |-> fd[mark.h].pos]
  /\ UNCHANGED mark

(* The high half is told only of a size that has one, and then without a   *)
(* look at whether the guest asks for it: `told` is FALSE when its pointer *)
(* is NULL, and a process that writes through NULL is no more.             *)
GetFileSize_Above(h, told) ==
  /\ IsOpen(h) /\ SizeOf(h) > W => told
  /\ answer' = IF IsOpen(h) THEN SizeOf(h) % W ELSE 0
  /\ word' = IF IsOpen(h) /\ SizeOf(h) > W THEN SizeOf(h) \div W
             ELSE IF told /\ ~ IsOpen(h) THEN 0 ELSE word
  /\ asked' = [op |-> "size", h |-> h, told |-> told, word |-> word]
  /\ UNCHANGED <<disk, others, fd, opens, closed, naming, mark>>

GetFileSize(h, told) ==
  /\ IsOpen(h) /\ SizeOf(h) >= W => told
  /\ answer' = IF IsOpen(h) THEN SizeOf(h) % W ELSE 0
  /\ word' = IF IsOpen(h) /\ SizeOf(h) >= W THEN SizeOf(h) \div W
             ELSE IF told /\ ~ IsOpen(h) THEN 0 ELSE word
  /\ asked' = [op |-> "size", h |-> h, told |-> told, word |-> word]
  /\ UNCHANGED <<disk, others, fd, opens, closed, naming, mark>>
-----------------------------------------------------------------------------
(* Names.  remove takes directories too, if they are empty.                *)
rest == <<others, fd, opens, closed, naming, pointing>>

DeleteFileW(n) ==
  /\ IF n \in Dir \ filled THEN Lose(n) ELSE UNCHANGED disk
  /\ Unasked
  /\ UNCHANGED rest

CreateDirectoryW(n) ==
  /\ IF n \in Dir THEN UNCHANGED disk ELSE Gain(n)
  /\ Unasked
  /\ UNCHANGED rest

(* A directory with all that is in it, for which a descriptor is needed,   *)
(* or a file.                                                              *)
RemoveDirectoryW(n) ==
  /\ IF n \in Dir /\ (n \in Folder => Free # {}) THEN Lose(n) ELSE UNCHANGED disk
  /\ Unasked
  /\ UNCHANGED rest
-----------------------------------------------------------------------------
(* Other processes.                                                        *)
OtherStep ==
  /\ others < MaxOthers /\ others' = others + 1
  /\ Unasked
  /\ UNCHANGED <<fd, opens, closed, naming, pointing>>

Create == OtherStep /\ \E n \in Name \ Dir : Gain(n)

Remove == OtherStep /\ \E n \in Dir : Lose(n)

Fill ==
  /\ OtherStep
  /\ \E n \in (Dir \cap Folder) \ filled : filled' = filled \cup {n}
  /\ UNCHANGED <<node, size>>
=============================================================================
