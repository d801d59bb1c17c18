----------------------------- MODULE MCFindFile -----------------------------
(***************************************************************************)
(* One matter at a time, every step of it a step of Next: a scan among     *)
(* names that come and go, with descriptors used up before it; temporary   *)
(* files; positions in the file of one handle.                             *)
(***************************************************************************)
EXTENDS FindFile

VARIABLE focus

MCTempAt == [u \in 1..3 |-> IF u = 2 THEN 2 ELSE 1]

Emptied == word = 0 /\ \A f \in Node : size[f] = 0

MCInit ==
  /\ Init
  /\ \/ focus = "scan" /\ Emptied
     \/ focus = "temp" /\ Emptied /\ Dir \subseteq {1, 2}
     \/ focus = "positions" /\ Dir \subseteq {1}

Change ==
  \/ Create \/ Remove \/ Fill
  \/ /\ scan # "first"
     /\ \/ CreateFileW(1, "OPEN_ALWAYS", FALSE)
        \/ \E n \in Folder : CreateDirectoryW(n)
        \/ \E n \in Name : DeleteFileW(n) \/ RemoveDirectoryW(n)

Scanning == ScanStep \/ (Change /\ Meanwhile)

Temporary ==
  \/ TempCall
  \/ Tick
  \/ \E n \in {1, 2} : DeleteFileW(n)
  \/ \E d \in Disposition : CreateFileW(1, d, TRUE)
  \/ \E h \in 1..MaxFd : CloseHandle(h)

Opened == \E d \in Disposition, rw \in BOOLEAN : opens = 0 /\ CreateFileW(1, d, rw)

Positions == Opened \/ PositionCall \/ Restore

MCNext ==
  /\ \/ focus = "scan" /\ Scanning
     \/ focus = "temp" /\ Temporary /\ Meanwhile
     \/ focus = "positions" /\ Positions /\ Meanwhile
  /\ UNCHANGED focus

MCSpec == MCInit /\ [][MCNext]_<<vars, focus>>
=============================================================================
