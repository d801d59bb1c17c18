------------------------------- MODULE Search -------------------------------
(***************************************************************************)
(* The search for a library among import paths and spellings:              *)
(* load_dll_library and loaderlib_native_open_lib (loaderlib/loader.c),    *)
(* behind LoadLibraryW, its copy LoadLibraryExW and process_imports; and   *)
(* GetModuleHandleW and A, which look only.  Each open and dlopen is a     *)
(* step, between which other processes may create and remove files.  Once  *)
(* a file is mapped and registered, its imports are loaded and its entry   *)
(* point runs, which may load more: `stack` holds the loads under way.     *)
(*                                                                         *)
(* Host file names have case, guest names do not.  There is one library;   *)
(* its names differ in the case of their parts, in the number of their     *)
(* extensions and in a leading directory.  Names begin with a letter.      *)
(***************************************************************************)
EXTENDS Integers, Sequences

CONSTANTS
  PathCount,    \* IMPORT_PATHS_LEN; main adds one path, "./"
  Asked,        \* the names LoadLibraryW is called with, without C:\ prefix
  Looked,       \* the names GetModuleHandleW and A are called with
  Imported,     \* the names in import directories
  FileNames,    \* the PE files there may be, with the path each is under
  NativeNames,  \* the native libraries there may be: X for libX.so
  MaxLibs,      \* bound: libraries in the table
  MaxChanges,   \* bound: files created or removed by others
  MaxFaults     \* bound: allocations that fail

Case == {"lower", "upper", "Title"}
LibName == [dir : Seq(Case), stem : Case, ext : Seq({"lower", "upper"})]
Entry == [name : LibName, type : {"PE", "NATIVE"}]
Status == {"SUCCESS", "NOT_FOUND", "INVALID"}
Frame == [want : LibName, asker : {"guest", "import"}, entry : Nat, status : Status]
None == [dir |-> <<>>, stem |-> "none", ext |-> <<>>]

ASSUME SearchAssumption ==
  /\ PathCount \in Nat \ {0}
  /\ Asked \cup Looked \cup Imported \subseteq LibName
  /\ \A n \in Imported : n.ext # <<>>
  /\ FileNames \cup NativeNames \subseteq (1..PathCount) \X LibName
  /\ MaxLibs \in Nat /\ MaxChanges \in Nat /\ MaxFaults \in Nat

(* The build installs native libraries in one directory, under names that  *)
(* have none.                                                              *)
ASSUME NativesAssumption == \A f \in NativeNames : f[2].dir = <<>>

VARIABLES
  files,    \* the PE files there are
  natives,  \* the native libraries there are; never changes
  libs,     \* the table of libraries
  stack,    \* the loads under way, innermost last: of what name, for whom,
            \* its entry, and the status of its imports so far
  pc,       \* "idle", "open", "map", "native"
  asker,    \* who asked last: "guest" or "import", of the stack's last load
  want,     \* the name searched for
  path,     \* index of the import path
  spelling, \* which spelling comes next
  found,    \* *res: the entry of a load whose imports are incomplete, or 0
  opened,   \* the file open for mapping
  fds,      \* descriptors open
  given,    \* the handles returned: entries by number of extensions
  missed,   \* the name the last search reported as not found, or None
  why,      \* why it did: "absent", "refused", or the status of its imports
  broken,   \* the entries whose load returned NOT_FOUND or INVALID
  steady,   \* the files there since the search began
  changes, faults

fs == <<files, natives, changes>>
cursor == <<want, asker, path, spelling>>
report == <<missed, why>>
history == <<given, report, broken, steady>>
vars == <<fs, libs, stack, pc, cursor, found, opened, fds, history, faults>>
-----------------------------------------------------------------------------
(* The name with its case changed; the last extension, when it is kept, as *)
(* it was: the loop stops three characters short of the end.               *)
Recased(n, c, keep) ==
  [dir |-> [k \in DOMAIN n.dir |-> c], stem |-> c,
   ext |-> [k \in DOMAIN n.ext |-> IF keep /\ k = Len(n.ext) THEN n.ext[k] ELSE c]]

(* The case to try second is the one the first letter is not in.           *)
First(n) == IF n.dir # <<>> THEN n.dir[1] ELSE n.stem
OtherCase(n) == IF First(n) = "lower" THEN "upper" ELSE "lower"

LastIs(n, c) == n.ext # <<>> /\ n.ext[Len(n.ext)] = c
LastExt(n) == LastIs(n, "lower")
WithoutExt(n) == [n EXCEPT !.ext = SubSeq(@, 1, Len(@) - 1)]

(* string_strip_postfix(".dll") minds the case.                            *)
Stripped_Never(n) == n

Stripped(n) == IF LastExt(n) THEN WithoutExt(n) ELSE n

FileSpelling(n, k) == IF k = 1 THEN n ELSE Recased(n, OtherCase(n), TRUE)
NativeSpelling(n, k) ==
  IF k = 1 THEN Stripped(n) ELSE Recased(Stripped(n), OtherCase(n), FALSE)

(* LoadLibraryW appends .dll unless the name ends so, minding the case.    *)
Completed(n) == IF LastExt(n) THEN n ELSE [n EXCEPT !.ext = Append(@, "lower")]
LastPart(n) == [n EXCEPT !.dir = <<>>]

(* GetModuleHandleW takes off .dll and then .DLL; GetModuleHandleA one of  *)
(* them in any case.                                                       *)
HandleNameW(n) ==
  LET m == Stripped(n) IN IF LastIs(m, "upper") THEN WithoutExt(m) ELSE m
HandleNameA(n) == IF n.ext # <<>> THEN WithoutExt(n) ELSE n

(* strncasecmp of names of one length.                                     *)
SameName_MindsCase(a, b) == a = b

SameName(a, b) == Len(a.dir) = Len(b.dir) /\ Len(a.ext) = Len(b.ext)

Find(s, n) ==
  IF \E i \in DOMAIN s : SameName(s[i].name, n)
  THEN CHOOSE i \in DOMAIN s :
         SameName(s[i].name, n) /\ \A j \in 1..(i - 1) : ~ SameName(s[j].name, n)
  ELSE 0

Top == stack[Len(stack)]
Give(n, i) == given' = given \cup {<<Len(n.ext), i>>}

(* Both callers print that the library was not found; process_imports      *)
(* goes on and remembers the status.                                       *)
Report(reason) ==
  /\ missed' = want /\ why' = reason
  /\ stack' = IF asker = "import" /\ stack # <<>>
              THEN [stack EXCEPT ![Len(stack)].status = "NOT_FOUND"] ELSE stack
-----------------------------------------------------------------------------
(* The two callers: the table first, then the search.  They are code of    *)
(* the guest, and process_imports of the executable or of the last load.   *)
StartSearch(n, who) ==
  /\ pc' = "open" /\ want' = n /\ asker' = who /\ path' = 1 /\ spelling' = 1
  /\ found' = 0 /\ missed' = None /\ why' = "none" /\ steady' = files
  /\ UNCHANGED <<fs, libs, stack, opened, fds, given, broken, faults>>

LoadLibraryHit(n) ==
  /\ pc = "idle"
  /\ Find(libs, LastPart(Completed(n))) # 0
  /\ Give(Completed(n), Find(libs, LastPart(Completed(n))))
  /\ UNCHANGED <<fs, libs, stack, pc, cursor, found, opened, fds, report, broken,
                 steady, faults>>

LoadLibraryW(n) ==
  /\ pc = "idle" /\ Len(libs) < MaxLibs
  /\ Find(libs, LastPart(Completed(n))) = 0
  /\ StartSearch(Completed(n), "guest")

Import(n) ==
  /\ pc = "idle" /\ Len(libs) < MaxLibs
  /\ Find(libs, WithoutExt(n)) = 0
  /\ StartSearch(n, "import")

GetModuleHandle(n) ==
  /\ pc = "idle" /\ Find(libs, n) # 0
  /\ Give(n, Find(libs, n))
  /\ UNCHANGED <<fs, libs, stack, pc, cursor, found, opened, fds, report, broken,
                 steady, faults>>
-----------------------------------------------------------------------------
(* The next attempt, of two at each import path; afterwards `then`.        *)
Advance_LastPathSkipped(then) ==
  IF spelling = 1
  THEN spelling' = 2 /\ UNCHANGED <<path, pc>>
  ELSE /\ spelling' = 1
       /\ IF path + 1 < PathCount
          THEN path' = path + 1 /\ UNCHANGED pc
          ELSE path' = 1 /\ pc' = then

Advance_SpellingFirst(then) ==
  IF path < PathCount
  THEN path' = path + 1 /\ UNCHANGED <<spelling, pc>>
  ELSE /\ path' = 1
       /\ IF spelling = 1
          THEN spelling' = 2 /\ UNCHANGED pc
          ELSE spelling' = 1 /\ pc' = then

Advance(then) ==
  IF spelling = 1
  THEN spelling' = 2 /\ UNCHANGED <<path, pc>>
  ELSE /\ spelling' = 1
       /\ IF path < PathCount
          THEN path' = path + 1 /\ UNCHANGED pc
          ELSE path' = 1 /\ pc' = then

OpenFile ==
  /\ pc = "open"
  /\ LET f == <<path, FileSpelling(want, spelling)>>
     IN IF f \in files
        THEN /\ opened' = f /\ fds' = fds + 1 /\ pc' = "map"
             /\ UNCHANGED <<path, spelling>>
        ELSE Advance("native") /\ UNCHANGED <<opened, fds>>
  /\ UNCHANGED <<fs, libs, stack, want, asker, found, history, faults>>

(* map_pe succeeds and the library is registered without its directory;    *)
(* its imports and its entry point come next.  The TLS callbacks before    *)
(* that run unbound: they can make no call (Loader has how that ends).     *)
MapFile ==
  /\ pc = "map"
  /\ libs' = Append(libs, [name |-> LastPart(want), type |-> "PE"])
  /\ stack' = Append(stack, [want |-> want, asker |-> asker, entry |-> Len(libs) + 1,
                             status |-> "SUCCESS"])
  /\ fds' = fds - 1 /\ pc' = "idle"
  /\ UNCHANGED <<fs, cursor, found, opened, history, faults>>

(* process_imports, at an ordinal a native library lacks or at its end,    *)
(* and the entry point have returned.  Success gives the caller the entry; *)
(* so does INVALID, and LoadLibraryW says besides that nothing was found;  *)
(* NOT_FOUND sends both callers to the native library, with *res set.      *)
Bound(s) ==
  /\ pc = "idle" /\ stack # <<>>
  /\ s = "SUCCESS" => Top.status = "SUCCESS"
  /\ stack' = SubSeq(stack, 1, Len(stack) - 1)
  /\ want' = Top.want /\ asker' = Top.asker /\ path' = 1 /\ spelling' = 1
  /\ IF s = "NOT_FOUND"
     THEN pc' = "native" /\ found' = Top.entry /\ UNCHANGED given
     ELSE /\ IF Top.asker = "guest" THEN Give(Top.want, Top.entry) ELSE UNCHANGED given
          /\ UNCHANGED <<pc, found>>
  /\ IF s = "INVALID" /\ Top.asker = "guest"
     THEN missed' = Top.want /\ why' = s ELSE UNCHANGED report
  /\ broken' = IF s = "SUCCESS" THEN broken ELSE broken \cup {Top.entry}
  /\ UNCHANGED <<fs, libs, opened, fds, steady, faults>>

(* map_pe rejects the file; a status other than NOT_FOUND ends the search. *)
RejectFile_Leaves ==
  /\ pc = "map"
  /\ pc' = "idle" /\ Report("refused")
  /\ UNCHANGED <<fs, libs, cursor, found, opened, fds, given, broken, steady, faults>>

RejectFile ==
  /\ pc = "map"
  /\ fds' = fds - 1 /\ pc' = "idle" /\ Report("refused")
  /\ UNCHANGED <<fs, libs, cursor, found, opened, given, broken, steady, faults>>

(* There is no memory for the PeFile, and the file stays open.             *)
MapNoMemory ==
  /\ pc = "map" /\ faults < MaxFaults
  /\ faults' = faults + 1 /\ pc' = "idle" /\ Report("refused")
  /\ UNCHANGED <<fs, libs, cursor, found, opened, fds, given, broken, steady>>

(* dlopen; the library is registered under the name as it was asked for.   *)
(* Where there is none but a file was mapped the guest is given that, and  *)
(* told that nothing was found; an import is bound to it without a word.   *)
OpenNative ==
  /\ pc = "native"
  /\ IF <<path, NativeSpelling(want, spelling)>> \in natives
     THEN /\ libs' = Append(libs, [name |-> want, type |-> "NATIVE"]) /\ pc' = "idle"
          /\ IF asker = "guest" THEN Give(want, Len(libs')) ELSE UNCHANGED given
          /\ UNCHANGED <<path, spelling, report, stack>>
     ELSE /\ Advance("idle")
          /\ IF pc' = "idle" /\ (found = 0 \/ asker = "guest")
             THEN Report(IF found = 0 THEN "absent" ELSE "NOT_FOUND")
             ELSE UNCHANGED <<report, stack>>
          /\ IF pc' = "idle" /\ found # 0 /\ asker = "guest"
             THEN Give(want, found) ELSE UNCHANGED given
          /\ UNCHANGED libs
  /\ UNCHANGED <<fs, want, asker, found, opened, fds, broken, steady, faults>>
-----------------------------------------------------------------------------
Create ==
  /\ changes < MaxChanges /\ changes' = changes + 1
  /\ \E f \in FileNames \ files : files' = files \cup {f}
  /\ UNCHANGED <<natives, libs, stack, pc, cursor, found, opened, fds, history, faults>>

Remove ==
  /\ changes < MaxChanges /\ changes' = changes + 1
  /\ \E f \in files : files' = files \ {f} /\ steady' = steady \ {f}
  /\ UNCHANGED <<natives, libs, stack, pc, cursor, found, opened, fds, given, report,
                 broken, faults>>

Init ==
  /\ files \in SUBSET FileNames /\ natives \in SUBSET NativeNames
  /\ libs = <<>> /\ stack = <<>> /\ pc = "idle" /\ fds = 0 /\ opened = <<1, None>>
  /\ want = None /\ asker = "guest" /\ path = 1 /\ spelling = 1 /\ found = 0
  /\ given = {} /\ missed = None /\ why = "none" /\ broken = {} /\ steady = {}
  /\ changes = 0 /\ faults = 0

Next ==
  \/ \E n \in Asked : LoadLibraryHit(n) \/ LoadLibraryW(n)
  \/ \E n \in Imported : Import(n)
  \/ \E n \in Looked : GetModuleHandle(HandleNameW(n)) \/ GetModuleHandle(HandleNameA(n))
  \/ OpenFile \/ MapFile \/ RejectFile \/ MapNoMemory \/ OpenNative
  \/ \E s \in Status : Bound(s)
  \/ Create \/ Remove

Spec == Init /\ [][Next]_vars
-----------------------------------------------------------------------------
TypeOK ==
  /\ files \subseteq FileNames /\ natives \subseteq NativeNames
  /\ libs \in Seq(Entry) /\ pc \in {"idle", "open", "map", "native"}
  /\ stack \in Seq(Frame) /\ \A k \in DOMAIN stack : stack[k].entry \in 1..Len(libs)
  /\ asker \in {"guest", "import"} /\ want \in LibName \cup {None}
  /\ path \in 1..PathCount /\ spelling \in 1..2 /\ found \in 0..Len(libs)
  /\ opened \in FileNames \cup {<<1, None>>} /\ fds \in Nat
  /\ given \subseteq Nat \X (1..Len(libs)) /\ broken \subseteq 1..Len(libs)
  /\ missed \in LibName \cup {None} /\ steady \subseteq files
  /\ why \in {"none", "absent", "refused", "NOT_FOUND", "INVALID"}
  /\ changes \in 0..MaxChanges /\ faults \in 0..MaxFaults

(* Handles are stable: all calls of LoadLibraryW for one last component,   *)
(* in whatever case and directory, and of GetModuleHandle that come to     *)
(* look for the same, return one entry, though files come and go, loads    *)
(* nest and imports register the name again.  With one exception: where a  *)
(* file's imports were incomplete and a native library of its name was     *)
(* opened as well, the call that loaded both returns the latter and every  *)
(* other the former.  (Entries: their addresses are LibTable's.)           *)
HandlesStable ==
  \A g, h \in given :
    g[1] = h[1] /\ g[2] < h[2] => g[2] \in broken /\ libs[h[2]].type = "NATIVE"

(* A library is reported as not found only if one of these is so.  No file *)
(* was there throughout with the name as given, nor with all of it but the *)
(* last extension in the case its first letter is not in: that is what a   *)
(* mixed-case file, or one whose extension is in the other case, is missed *)
(* by.  Or a file with one of these names was there and refused.  Or it    *)
(* was loaded, is in the table, and its imports were incomplete.  And a    *)
(* native library of the build, lib<name>.so in lower case, is missed by   *)
(* no name that ends in .dll, whatever its case, unless a file was refused *)
(* or imports an ordinal that is not there: but by one that ends in .DLL.  *)
MissExplained ==
  missed # None =>
    /\ why = "absent" =>
         \A f \in steady :
           f[2] \notin {missed, Recased(missed, OtherCase(missed), TRUE)}
    /\ why = "refused" =>
         opened[2] \in {missed, Recased(missed, OtherCase(missed), TRUE)}
    /\ why \in {"NOT_FOUND", "INVALID"} =>
         \E i \in broken : libs[i] = [name |-> LastPart(missed), type |-> "PE"]
    /\ why \in {"absent", "NOT_FOUND"} /\ missed.dir = <<>> /\ missed.ext = <<"lower">> =>
         \A p \in 1..PathCount :
           <<p, [dir |-> <<>>, stem |-> "lower", ext |-> <<>>]>> \notin natives

(* The file opened is the one of the earliest import path: no file that    *)
(* was there throughout and that either spelling names is in an earlier    *)
(* one, nor in the same one under the very name.                           *)
EarliestPath ==
  pc = "map" =>
    \A f \in steady :
      /\ f[2] \in {FileSpelling(want, 1), FileSpelling(want, 2)} => f[1] >= opened[1]
      /\ f = <<opened[1], want>> => opened = f

(* A search leaves no descriptor open, but where memory ran out.           *)
DescriptorsClosed == pc \in {"idle", "native"} => fds = faults
=============================================================================
