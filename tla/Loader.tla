------------------------------- MODULE Loader -------------------------------
(***************************************************************************)
(* How winexec brings a program up: loaderlib_execute, process_imports,    *)
(* load_dll_library, loaderlib_load_lib, allocate_tls and invoke_entry of  *)
(* src/src/loaderlib, with the calls the guest makes back into the loader  *)
(* (LoadLibraryW, GetProcAddress, ExitProcess of kernel32).                *)
(*                                                                         *)
(* There is one thread.  What makes the loader hard is re-entry: loading a *)
(* DLL loads its imports, and runs guest code, which loads more DLLs while *)
(* the outer loads are in progress.  `stack` is the C stack: frames of the *)
(* loader ("load") and of guest code ("guest").                            *)
(*                                                                         *)
(* Memory, relocation and the search for files are abstracted: an image is *)
(* what map_pe says of it, its imports, its exports, its TLS directory and *)
(* whether it has an entry point.                                          *)
(***************************************************************************)
EXTENDS Integers, Sequences, FiniteSets

CONSTANTS
  Stem,        \* library names without extension
  Worlds,      \* the file systems and hosts considered: see WorldOK
  FirstCap,    \* first capacity of the table of libraries; 8 in the code
  TlsSlots,    \* TLS slots of a TEB; 64 in the code
  StackLimit,  \* frames on the C stack from which no further DLL can be loaded
  GuestCalls,  \* bound: LoadLibraryW calls the guest makes in all
  MaxFaults    \* bound: system calls that fail in all

ASSUME LoaderAssumption ==
  /\ FirstCap \in Nat \ {0}
  /\ TlsSlots \in Nat
  /\ StackLimit \in Nat \ {0}
  /\ GuestCalls \in Nat
  /\ MaxFaults \in Nat

VARIABLES
  world,      \* the files and the host: never changes
  stack,      \* the C stack, innermost frame last
  insts,      \* the mapped PE images, the executable first
  libs,       \* the table of loaded libraries and its allocation: LibTable
  cap,
  block,
  handles,    \* the HMODULEs the guest holds
  tlsIndex,   \* TLS_INDEX
  exePath,    \* EXE_PATH of the native kernel32
  atexits,    \* how often msvcrt's onexit_handler is registered with atexit
  calls,      \* LoadLibraryW calls so far
  faults,     \* failed system calls so far
  outcome     \* "running", "exit", a status main reports, or a crash

table == <<libs, cap, block>>
process == <<tlsIndex, exePath, atexits>>
guest == <<handles, calls>>
vars == <<world, stack, insts, table, process, guest, faults, outcome>>

Exe == "exe"

(* A library name: with .dll, without, or cut four characters short of a   *)
(* name that has no .dll.                                                  *)
ModName == [stem : Stem, ext : {"dll", "bare", "cut"}]
Dll(stem) == [stem |-> stem, ext |-> "dll"]

Cut4_NoCut(name) == name

Cut4(name) ==
  [name EXCEPT !.ext = IF name.ext = "dll" THEN "bare" ELSE "cut"]

(* What an import address table holds: the name's address the linker left, *)
(* NULL, an address in a native library, or one in a PE instance (> 0).    *)
Raw == -2
Null == -1
Native == 0

NoTls == -2        \* no TLS directory
NoCallbacks == -1  \* a TLS directory whose callback array is NULL

Symbol == [ord : BOOLEAN, sym : STRING]
Import == [lib : ModName, reqs : Seq(Symbol)]
Verdict == {"SUCCESS", "BAD_FORMAT", "BAD_ARCH", "NO_MEM", "BASE_TAKEN"}
Image == [verdict : Verdict, imports : Seq(Import), exports : SUBSET Symbol,
          tls : Int, entry : BOOLEAN]

(* A world: the PE files, the native libraries with what they export, and  *)
(* which of the code's two stores to address 0 trap on the host.  On an    *)
(* ordinary host both do; the one in loaderlib_execute then ends every run *)
(* before anything is mapped, and a world without it shows the rest.       *)
WorldOK(w) ==
  /\ w.traps \subseteq {"execute", "mapper"}
  /\ DOMAIN w.img \subseteq Stem \cup {Exe}
  /\ DOMAIN w.nat \subseteq Stem
  /\ \A f \in DOMAIN w.img : w.img[f] \in Image
  /\ \A s \in DOMAIN w.nat : w.nat[s] \subseteq Symbol

ASSUME WorldsAssumption == \A w \in Worlds : WorldOK(w)

Crashes == {"debugTrap", "mapFailed", "stackOverflow", "tlsAssert",
            "tlsNull", "setArgsNull", "exePathNull", "staleHandle",
            "wrongType", "entryZero", "unboundCall"}
Statuses == {"NOT_FOUND", "BAD_FORMAT", "BAD_ARCH", "NO_MEM", "IMPORT_NOT_FOUND"}
Outcomes == {"running", "exit"} \cup Statuses \cup Crashes
-----------------------------------------------------------------------------
(* Frames of the stack.  `load` is load_dll_library (for instance 1,       *)
(* loaderlib_execute) with the process_imports it calls, `call` is         *)
(* LoadLibraryW, and `guest` is an entry point or a TLS callback.          *)
NoName == [stem |-> "", ext |-> "cut"]

LoadFrame(n, pc) ==
  [kind |-> "load", inst |-> n, pc |-> pc, imp |-> 1, cb |-> 0,
   status |-> "SUCCESS", res |-> {}, want |-> NoName, loaded |-> {}, native |-> {}]
CallFrame(n, name) ==
  [LoadFrame(n, "search") EXCEPT !.kind = "call", !.want = name]
GuestFrame(n) == [LoadFrame(n, "run") EXCEPT !.kind = "guest"]

Top == stack[Len(stack)]
Below == stack[Len(stack) - 1]
At(kind, pc) == stack # <<>> /\ Top.kind = kind /\ Top.pc = pc
Replace(f) == SubSeq(stack, 1, Len(stack) - 1) \o <<f>>
Push(st, f) == Append(st, f)
Popped == SubSeq(stack, 1, Len(stack) - 1)

IsExe(f) == f.inst = 1
ImageOf(n) == world.img[insts[n].image]
ImportsOf(n) == ImageOf(n).imports

(* The pointers into the table that some frame or the guest still has.     *)
Held ==
  handles \cup UNION {stack[i].res \cup stack[i].loaded \cup stack[i].native :
                        i \in 1..Len(stack)}

T == INSTANCE LibTable WITH Name <- ModName, Handle <- Nat, held <- Held

PointerTo(i) == T!PointerTo(block', i, libs')

(* add_loaded_lib: its result is PointerTo(Len(libs')).                    *)
Register_NoGrow(name, kind, handle) ==
  /\ libs' = Append(libs, [name |-> name, kind |-> kind, handle |-> handle])
  /\ UNCHANGED <<cap, block>>

Register(name, kind, handle) ==
  /\ T!Reallocate
  /\ libs' = Append(libs, [name |-> name, kind |-> kind, handle |-> handle])

Stop(why) ==
  /\ outcome' = why
  /\ UNCHANGED <<world, stack, insts, table, process, guest, faults>>

Fault == faults < MaxFaults /\ faults' = faults + 1
-----------------------------------------------------------------------------
(* map_pe of the file of `stem`, on top of the frames `st`: a new instance *)
(* whose address table still holds what the linker wrote.  `parent`, the   *)
(* instance whose import or call asked for it, is a history variable.      *)
Unresolved(image) ==
  [i \in DOMAIN image.imports |-> [j \in DOMAIN image.imports[i].reqs |-> Raw]]

Instance(stem, parent) ==
  [image |-> stem, parent |-> parent, phase |-> "loading", tls |-> -1,
   iat |-> Unresolved(world.img[stem])]

Map(stem, st, parent, pc) ==
  IF Len(st) >= StackLimit
  THEN Stop("stackOverflow")
  ELSE /\ insts' = Append(insts, Instance(stem, parent))
       /\ stack' = Push(st, LoadFrame(Len(insts) + 1, pc))
       /\ UNCHANGED <<world, table, process, guest, faults, outcome>>

SetPhase(n, phase) == [insts EXCEPT ![n].phase = phase]

(* What map_pe reports of an image that it does not map.  An image without *)
(* relocations whose address is taken is NO_MEM in the 32-bit build.       *)
Refusal(verdict) == IF verdict = "BASE_TAKEN" THEN "NO_MEM" ELSE verdict
Traps(verdict) == verdict = "BASE_TAKEN" /\ "mapper" \in world.traps
-----------------------------------------------------------------------------
(* loaderlib_execute, up to process_imports.                               *)
Starting == stack = <<>> /\ insts = <<>>

ExecuteNotFound ==
  /\ Starting
  /\ Exe \notin DOMAIN world.img
  /\ Stop("NOT_FOUND")

Executing == Starting /\ Exe \in DOMAIN world.img
PastTrap == Executing /\ "execute" \notin world.traps
ExeVerdict == world.img[Exe].verdict

ExecuteTrap ==
  /\ Executing
  /\ "execute" \in world.traps
  /\ Stop("debugTrap")

(* open fails, the mmap of the file fails (MAP_FAILED, where the code      *)
(* looks for NULL), or the mmap of the image does.                         *)
ExecuteFault ==
  /\ Fault
  /\ \/ Executing /\ outcome' = "NOT_FOUND"
     \/ PastTrap /\ outcome' = "mapFailed"
     \/ PastTrap /\ outcome' = "NO_MEM"
  /\ UNCHANGED <<world, stack, insts, table, process, guest>>

ExecuteBaseTaken ==
  /\ PastTrap
  /\ Traps(ExeVerdict)
  /\ Stop("debugTrap")

ExecuteRejected ==
  /\ PastTrap
  /\ ExeVerdict # "SUCCESS" /\ ~ Traps(ExeVerdict)
  /\ Stop(Refusal(ExeVerdict))

ExecuteMap ==
  /\ PastTrap
  /\ ExeVerdict = "SUCCESS"
  /\ Map(Exe, stack, 0, "import")
-----------------------------------------------------------------------------
(* The search for a library, which process_imports and LoadLibraryW share: *)
(* the table, then a PE file, then a native library.                       *)
Want(f) == IF f.kind = "load" THEN ImportsOf(f.inst)[f.imp].lib ELSE f.want
Key(f) == IF f.kind = "load" THEN Cut4(Want(f)) ELSE f.want

Searching == stack # <<>> /\ Top.pc = "search"
Absent == Searching /\ T!Find(libs, Key(Top)) = 0
FileThere(name) == name.ext = "dll" /\ name.stem \in DOMAIN world.img
NativeThere(name) == name.stem \in DOMAIN world.nat
VerdictOf(name) == world.img[name.stem].verdict

SearchHit ==
  /\ Searching
  /\ T!Find(libs, Key(Top)) # 0
  /\ stack' = Replace([Top EXCEPT !.pc = "found",
                        !.loaded = {T!PointerTo(block, T!Find(libs, Key(Top)), libs)}])
  /\ UNCHANGED <<world, insts, table, process, guest, faults, outcome>>

SearchLoad ==
  /\ Absent
  /\ FileThere(Want(Top))
  /\ VerdictOf(Want(Top)) = "SUCCESS"
  /\ Map(Want(Top).stem, Replace([Top EXCEPT !.pc = "await"]), Top.inst, "tls")

SearchTrap ==
  /\ Absent
  /\ FileThere(Want(Top))
  /\ Traps(VerdictOf(Want(Top)))
  /\ Stop("debugTrap")

SearchRejected ==
  /\ Absent
  /\ FileThere(Want(Top))
  /\ VerdictOf(Want(Top)) # "SUCCESS"
  /\ ~ Traps(VerdictOf(Want(Top)))
  /\ stack' = Replace([Top EXCEPT !.pc = "found"])
  /\ UNCHANGED <<world, insts, table, process, guest, faults, outcome>>

SearchMapFails ==
  /\ Absent
  /\ FileThere(Want(Top))
  /\ Fault
  /\ outcome' = "mapFailed"
  /\ UNCHANGED <<world, stack, insts, table, process, guest>>

(* malloc of the PeFile, or the mmap of the image, fails: STATUS_NO_MEM.   *)
(* Or fstat and stat fail, and the size that was never set is below that   *)
(* of a DOS header: STATUS_BAD_FORMAT.                                     *)
SearchNoMemory ==
  /\ Absent
  /\ FileThere(Want(Top))
  /\ Fault
  /\ stack' = Replace([Top EXCEPT !.pc = "found"])
  /\ UNCHANGED <<world, insts, table, process, guest, outcome>>

(* open fails: there is no such file, or the process has no descriptor     *)
(* left.  The native library of the same stem stands in.                   *)
OpenFails ==
  \/ ~ FileThere(Want(Top)) /\ UNCHANGED faults
  \/ FileThere(Want(Top)) /\ Fault

SearchNative ==
  /\ Absent
  /\ OpenFails
  /\ NativeThere(Want(Top))
  /\ Register(Want(Top), "NATIVE", 0)
  /\ stack' = Replace([Top EXCEPT !.pc = "found", !.native = {PointerTo(Len(libs'))}])
  /\ UNCHANGED <<world, insts, process, guest, outcome>>

SearchMissing ==
  /\ Absent
  /\ OpenFails
  /\ ~ NativeThere(Want(Top))
  /\ stack' = Replace([Top EXCEPT !.pc = "found"])
  /\ UNCHANGED <<world, insts, table, process, guest, outcome>>
-----------------------------------------------------------------------------
(* load_dll_library after map_pe: TLS, registration, imports, entry.       *)
TlsFull_OffByOne == tlsIndex > TlsSlots

TlsFull == tlsIndex >= TlsSlots

AllocateTls ==
  /\ At("load", "tls")
  /\ IF ImageOf(Top.inst).tls = NoTls
     THEN /\ stack' = Replace([Top EXCEPT !.pc = IF IsExe(Top) THEN "entry" ELSE "register"])
          /\ UNCHANGED <<world, insts, table, process, guest, faults, outcome>>
     ELSE IF TlsFull
     THEN Stop("tlsAssert")
     ELSE /\ tlsIndex' = tlsIndex + 1
          /\ insts' = [insts EXCEPT ![Top.inst].tls = tlsIndex]
          /\ stack' = Replace([Top EXCEPT !.pc = "callbacks"])
          /\ UNCHANGED <<world, table, exePath, atexits, guest, faults, outcome>>

(* The mmap of the TLS block fails; the assertion looks for NULL.          *)
TlsMapFails ==
  /\ At("load", "tls")
  /\ ImageOf(Top.inst).tls # NoTls /\ ~ TlsFull
  /\ Fault
  /\ outcome' = "mapFailed"
  /\ UNCHANGED <<world, stack, insts, table, process, guest>>

TlsNoArray ==
  /\ At("load", "callbacks")
  /\ ImageOf(Top.inst).tls = NoCallbacks
  /\ Stop("tlsNull")

TlsCallback_NoAdvance ==
  /\ At("load", "callbacks")
  /\ Top.cb < ImageOf(Top.inst).tls
  /\ stack' = Push(stack, GuestFrame(Top.inst))
  /\ UNCHANGED <<world, insts, table, process, guest, faults, outcome>>

TlsCallback ==
  /\ At("load", "callbacks")
  /\ Top.cb < ImageOf(Top.inst).tls
  /\ stack' = Push(Replace([Top EXCEPT !.cb = Top.cb + 1]), GuestFrame(Top.inst))
  /\ UNCHANGED <<world, insts, table, process, guest, faults, outcome>>

TlsDone ==
  /\ At("load", "callbacks")
  /\ Top.cb = ImageOf(Top.inst).tls
  /\ stack' = Replace([Top EXCEPT !.pc = IF IsExe(Top) THEN "entry" ELSE "register"])
  /\ UNCHANGED <<world, insts, table, process, guest, faults, outcome>>

RegisterDll ==
  /\ At("load", "register")
  /\ Register(Dll(insts[Top.inst].image), "PE", Top.inst)
  /\ stack' = Replace([Top EXCEPT !.pc = "import", !.res = {PointerTo(Len(libs'))}])
  /\ UNCHANGED <<world, insts, process, guest, faults, outcome>>
-----------------------------------------------------------------------------
(* process_imports.                                                        *)
NextImport ==
  /\ At("load", "import")
  /\ Top.imp <= Len(ImportsOf(Top.inst))
  /\ stack' = Replace([Top EXCEPT !.pc = "search", !.loaded = {}, !.native = {}])
  /\ UNCHANGED <<world, insts, table, process, guest, faults, outcome>>

ImportNotFound ==
  /\ At("load", "found")
  /\ Top.loaded = {} /\ Top.native = {}
  /\ stack' = Replace([Top EXCEPT !.pc = "import", !.imp = Top.imp + 1,
                                  !.status = "NOT_FOUND"])
  /\ UNCHANGED <<world, insts, table, process, guest, faults, outcome>>

(* Binding one descriptor.  `loaded` serves the names when it is set, and  *)
(* `native` the ordinals: both are set when load_dll_library reports an    *)
(* import that its DLL lacks as STATUS_NOT_FOUND.                          *)
NativeExports(f) == UNION {world.nat[p.lib.name.stem] : p \in f.native}

(* The entry the table holds for a pointer; a dangling pointer may still   *)
(* find the old entry in freed memory.                                     *)
Target(p) == IF p.block = block THEN libs[p.idx] ELSE p.lib
Dangles(p) == p.block # block

(* The requests before the first that ends process_imports with            *)
(* STATUS_INVALID.                                                         *)
Aborts_AnyLib(f, req) == req.ord /\ req \notin NativeExports(f)

Aborts(f, req) == req.ord /\ f.native # {} /\ req \notin NativeExports(f)
FromPe(f, req) == f.loaded # {} /\ (req.ord => f.native = {})

Served(f, reqs) == {j \in DOMAIN reqs : \A k \in 1..j : ~ Aborts(f, reqs[k])}

Slot(f, req) ==
  IF FromPe(f, req)
  THEN LET n == (CHOOSE l \in {Target(p) : p \in f.loaded} : TRUE).handle
       IN IF req \in ImageOf(n).exports THEN n ELSE Null
  ELSE IF req \in NativeExports(f) THEN Native ELSE Null

(* A missing name sets the status; a missing ordinal of a PE does not.     *)
Missing(f, req) == ~ req.ord /\ Slot(f, req) = Null

Binding == At("load", "found") /\ (Top.loaded # {} \/ Top.native # {})
Reqs == ImportsOf(Top.inst)[Top.imp].reqs
UsesPe == \E j \in Served(Top, Reqs) : FromPe(Top, Reqs[j])

(* msvcrt.dll and kernel32.dll are told of the process through their       *)
(* native handle, which a library found in the table or in a file lacks.   *)
Told == Want(Top).ext = "dll" /\ Want(Top).stem \in {"msvcrt", "kernel32"}

BindTellsNull ==
  /\ Binding
  /\ Told /\ Top.native = {}
  /\ Stop(IF Want(Top).stem = "msvcrt" THEN "setArgsNull" ELSE "exePathNull")

BindStale ==
  /\ Binding
  /\ ~ (Told /\ Top.native = {})
  /\ UsesPe
  /\ \E p \in Top.loaded : Dangles(p)
  /\ Stop("staleHandle")

BindWrongType ==
  /\ Binding
  /\ ~ (Told /\ Top.native = {})
  /\ UsesPe
  /\ \E p \in Top.loaded : Target(p).kind = "NATIVE"
  /\ Stop("wrongType")

Tell_WrongBranch ==
  /\ atexits' = IF Told /\ Want(Top).stem = "msvcrt" THEN atexits + 1 ELSE atexits
  /\ exePath' = IF Told /\ Want(Top).stem = "msvcrt"
                THEN (IF IsExe(Top) THEN "exe" ELSE "null") ELSE exePath

Tell ==
  /\ atexits' = IF Told /\ Want(Top).stem = "msvcrt" THEN atexits + 1 ELSE atexits
  /\ exePath' = IF Told /\ Want(Top).stem = "kernel32"
                THEN (IF IsExe(Top) THEN "exe" ELSE "null") ELSE exePath

Bind ==
  /\ Binding
  /\ ~ (Told /\ Top.native = {})
  /\ UsesPe => \A p \in Top.loaded : Target(p).kind = "PE"
  /\ Tell
  /\ LET served == Served(Top, Reqs)
         missing == \E j \in served : Missing(Top, Reqs[j])
     IN /\ insts' = [insts EXCEPT ![Top.inst].iat[Top.imp] =
                       [j \in DOMAIN Reqs |-> IF j \in served THEN Slot(Top, Reqs[j]) ELSE Raw]]
        /\ stack' = Replace(
             IF served # DOMAIN Reqs THEN [Top EXCEPT !.pc = "bound", !.status = "INVALID"]
             ELSE [Top EXCEPT !.pc = "import", !.imp = Top.imp + 1,
                              !.status = IF missing THEN "NOT_FOUND" ELSE @])
  /\ UNCHANGED <<world, table, tlsIndex, guest, faults, outcome>>

ImportsDone ==
  /\ At("load", "import")
  /\ Top.imp > Len(ImportsOf(Top.inst))
  /\ stack' = Replace([Top EXCEPT !.pc = "bound", !.loaded = {}, !.native = {}])
  /\ UNCHANGED <<world, insts, table, process, guest, faults, outcome>>

(* A DLL is attached whatever the status; the executable runs only when    *)
(* all its imports were found.                                             *)
BoundDll ==
  /\ At("load", "bound") /\ ~ IsExe(Top)
  /\ insts' = SetPhase(Top.inst, "bound")
  /\ stack' = Replace([Top EXCEPT !.pc = "entry"])
  /\ UNCHANGED <<world, table, process, guest, faults, outcome>>

BoundExe_AnyStatus ==
  /\ At("load", "bound") /\ IsExe(Top)
  /\ insts' = SetPhase(Top.inst, "bound")
  /\ stack' = Replace([Top EXCEPT !.pc = "tls"])
  /\ UNCHANGED <<world, table, process, guest, faults, outcome>>

BoundExe_NoTls ==
  /\ At("load", "bound") /\ IsExe(Top)
  /\ Top.status = "SUCCESS"
  /\ insts' = SetPhase(Top.inst, "bound")
  /\ stack' = Replace([Top EXCEPT !.pc = "entry"])
  /\ UNCHANGED <<world, table, process, guest, faults, outcome>>

BoundExe ==
  /\ At("load", "bound") /\ IsExe(Top)
  /\ Top.status = "SUCCESS"
  /\ insts' = SetPhase(Top.inst, "bound")
  /\ stack' = Replace([Top EXCEPT !.pc = "tls"])
  /\ UNCHANGED <<world, table, process, guest, faults, outcome>>

BoundExeFails ==
  /\ At("load", "bound") /\ IsExe(Top)
  /\ Top.status # "SUCCESS"
  /\ Stop("IMPORT_NOT_FOUND")
-----------------------------------------------------------------------------
(* invoke_entry, and the return of load_dll_library.                       *)
EntryZero ==
  /\ At("load", "entry")
  /\ ~ ImageOf(Top.inst).entry
  /\ Stop("entryZero")

InvokeEntry_AttachesEarly ==
  /\ At("load", "entry")
  /\ ImageOf(Top.inst).entry
  /\ insts' = SetPhase(Top.inst, "attached")
  /\ stack' = Push(Replace([Top EXCEPT !.pc = "return"]), GuestFrame(Top.inst))
  /\ UNCHANGED <<world, table, process, guest, faults, outcome>>

InvokeEntry ==
  /\ At("load", "entry")
  /\ ImageOf(Top.inst).entry
  /\ insts' = SetPhase(Top.inst, "entered")
  /\ stack' = Push(Replace([Top EXCEPT !.pc = "return"]), GuestFrame(Top.inst))
  /\ UNCHANGED <<world, table, process, guest, faults, outcome>>

(* Back in main: the program is over.                                      *)
ReturnToMain ==
  /\ At("load", "return") /\ IsExe(Top)
  /\ insts' = SetPhase(Top.inst, "attached")
  /\ outcome' = "exit"
  /\ UNCHANGED <<world, stack, table, process, guest, faults>>

(* Back in the caller.  A DLL that lacks an import was loaded all the      *)
(* same; STATUS_NOT_FOUND makes the caller try a native library as well.   *)
FallsBack == Top.status = "NOT_FOUND" /\ NativeThere(Want(Below))
Resume(native) ==
  SubSeq(stack, 1, Len(stack) - 2)
    \o <<[Below EXCEPT !.pc = "found", !.loaded = Top.res, !.native = native]>>

ReturnToCaller ==
  /\ At("load", "return") /\ ~ IsExe(Top)
  /\ insts' = SetPhase(Top.inst, "attached")
  /\ \/ /\ ~ FallsBack
        /\ stack' = Resume({})
        /\ UNCHANGED table
     \/ /\ FallsBack
        /\ Register(Want(Below), "NATIVE", 0)
        /\ stack' = Resume({PointerTo(Len(libs'))})
  /\ UNCHANGED <<world, process, guest, faults, outcome>>
-----------------------------------------------------------------------------
(* Guest code.  It runs, calls through its address table, loads libraries  *)
(* once its imports are bound, uses its handles, and returns or exits.     *)
Running == At("guest", "run")

GuestCallsImport ==
  /\ Running
  /\ \E i \in DOMAIN insts[Top.inst].iat :
       \E j \in DOMAIN insts[Top.inst].iat[i] :
         insts[Top.inst].iat[i][j] \in {Raw, Null}
  /\ Stop("unboundCall")

LoadLibraryW ==
  /\ Running
  /\ insts[Top.inst].phase # "loading"
  /\ calls < GuestCalls
  /\ calls' = calls + 1
  /\ \E s \in Stem : stack' = Push(stack, CallFrame(Top.inst, Dll(s)))
  /\ UNCHANGED <<world, insts, table, process, handles, faults, outcome>>

(* The handle is the native library's when there is one, else what         *)
(* load_dll_library left in `lib`, whatever its status was.                *)
LoadLibraryReturns ==
  /\ At("call", "found")
  /\ handles' = handles \cup (IF Top.native # {} THEN Top.native ELSE Top.loaded)
  /\ stack' = Popped
  /\ UNCHANGED <<world, insts, table, process, calls, faults, outcome>>

(* GetProcAddress reads the table entry behind the handle.                 *)
UseHandle ==
  /\ Running
  /\ insts[Top.inst].phase # "loading"
  /\ \E p \in handles : Dangles(p)
  /\ Stop("staleHandle")

GuestReturns ==
  /\ Running
  /\ stack' = Popped
  /\ UNCHANGED <<world, insts, table, process, guest, faults, outcome>>

ExitProcess ==
  /\ Running
  /\ insts[Top.inst].phase # "loading"
  /\ Stop("exit")
-----------------------------------------------------------------------------
Init ==
  /\ world \in Worlds
  /\ stack = <<>> /\ insts = <<>>
  /\ libs = <<>> /\ cap = 0 /\ block = 0
  /\ tlsIndex = 0 /\ exePath = "null" /\ atexits = 0
  /\ handles = {} /\ calls = 0 /\ faults = 0
  /\ outcome = "running"

ExecuteStep ==
  \/ ExecuteNotFound \/ ExecuteTrap \/ ExecuteFault \/ ExecuteBaseTaken
  \/ ExecuteRejected \/ ExecuteMap
SearchStep ==
  \/ SearchHit \/ SearchLoad \/ SearchTrap \/ SearchRejected
  \/ SearchMapFails \/ SearchNoMemory \/ SearchNative \/ SearchMissing
LoadStep ==
  \/ AllocateTls \/ TlsMapFails \/ TlsNoArray \/ TlsCallback \/ TlsDone \/ RegisterDll
  \/ NextImport \/ ImportNotFound \/ BindTellsNull \/ BindStale
  \/ BindWrongType \/ Bind \/ ImportsDone \/ BoundDll \/ BoundExe
  \/ BoundExeFails \/ EntryZero \/ InvokeEntry \/ ReturnToMain
  \/ ReturnToCaller
GuestStep ==
  \/ GuestCallsImport \/ LoadLibraryW \/ LoadLibraryReturns \/ UseHandle
  \/ GuestReturns \/ ExitProcess

Step == outcome = "running" /\ (ExecuteStep \/ SearchStep \/ LoadStep \/ GuestStep)

(* The process has ended.                                                  *)
Ended == outcome # "running" /\ UNCHANGED vars

Next == Step \/ Ended

(* There is one thread and it always runs; guest code that never returns   *)
(* is left out.                                                            *)
Spec == Init /\ [][Next]_vars /\ WF_vars(Step)
-----------------------------------------------------------------------------
Frame ==
  [kind : {"load", "call", "guest"}, inst : 1..Len(insts),
   pc : {"tls", "callbacks", "register", "import", "search", "await", "found",
         "bound", "entry", "return", "run"},
   imp : Nat \ {0}, cb : Nat, status : {"SUCCESS", "NOT_FOUND", "INVALID"},
   res : SUBSET T!Pointer, want : ModName \cup {NoName},
   loaded : SUBSET T!Pointer, native : SUBSET T!Pointer]

TypeOK ==
  /\ world \in Worlds
  /\ stack \in Seq(Frame) /\ Len(stack) <= StackLimit + 2
  /\ \A n \in DOMAIN insts :
       /\ insts[n].image \in DOMAIN world.img
       /\ insts[n].phase \in {"loading", "bound", "entered", "attached"}
       /\ insts[n].tls \in -1..(TlsSlots - 1)
       /\ insts[n].parent \in 0..(n - 1)
       /\ \A i \in DOMAIN insts[n].iat : \A j \in DOMAIN insts[n].iat[i] :
            insts[n].iat[i][j] \in -2..Len(insts)
  /\ T!TableTypeOK
  /\ tlsIndex \in 0..TlsSlots /\ exePath \in {"null", "exe"} /\ atexits \in Nat
  /\ handles \subseteq T!Pointer /\ calls \in 0..GuestCalls
  /\ faults \in 0..MaxFaults /\ outcome \in Outcomes

-----------------------------------------------------------------------------
(* What a world must be for the program to come up: the properties below   *)
(* say that these are all the conditions the loader needs.                 *)
Files(w) == DOMAIN w.img
Imported(w, f) ==
  {w.img[f].imports[i].lib : i \in DOMAIN w.img[f].imports}
IsFile(w, name) == name.ext = "dll" /\ name.stem \in Files(w)
Provided(w, name) ==
  IF IsFile(w, name) THEN w.img[name.stem].exports ELSE w.nat[name.stem]

(* The C stack suffices: the files lie in h layers, each importing from    *)
(* lower ones only, so that at most h load frames are nested; with every   *)
(* LoadLibraryW of the guest come two more frames and as many again.       *)
Shallow(w) ==
  \E h \in 1..StackLimit :
    /\ h + GuestCalls * (h + 2) <= StackLimit
    /\ \E rank \in [Files(w) -> 1..h] :
         \A f \in Files(w) : \A name \in Imported(w, f) :
           name.stem \in Files(w) => rank[name.stem] < rank[f]
Resolvable(w, f) ==
  \A i \in DOMAIN w.img[f].imports :
    LET import == w.img[f].imports[i]
    IN /\ IsFile(w, import.lib) \/ import.lib.stem \in DOMAIN w.nat
       /\ \A j \in DOMAIN import.reqs : import.reqs[j] \in Provided(w, import.lib)
OnlyDllNames(w) == \A f \in Files(w) : \A name \in Imported(w, f) : name.ext = "dll"
ToldAreNative(w) == {"msvcrt", "kernel32"} \cap Files(w) = {}
EarlyCallbacks(w) == \E f \in Files(w) \cap Stem : w.img[f].tls > 0

WellFormed(w) ==
  /\ w.traps = {} /\ Exe \in Files(w)
  /\ Shallow(w) /\ OnlyDllNames(w) /\ ToldAreNative(w) /\ ~ EarlyCallbacks(w)
  /\ \A f \in Files(w) : /\ Resolvable(w, f)
                         /\ w.img[f].verdict = "SUCCESS" /\ w.img[f].entry
                         /\ w.img[f].tls # NoCallbacks

(* The mapped modules with a TLS directory.                                *)
WithTls == {n \in DOMAIN insts : ImageOf(n).tls # NoTls}

(* A well-formed program is brought up and runs to its end, while no       *)
(* system call fails, the first allocation of the table suffices and no    *)
(* more modules with a TLS directory are mapped than there are TLS slots.  *)
WellFormedRuns ==
  outcome \notin {"running", "exit"} =>
    \/ ~ WellFormed(world)
    \/ faults > 0
    \/ Len(libs) > FirstCap
    \/ Cardinality(WithTls) > TlsSlots

(* Every crash of the loader has one of these reasons, and no other: which *)
(* condition on the world (or which bound) rules out which crash.          *)
CrashesExplained ==
  /\ outcome = "debugTrap" => world.traps # {}
  /\ outcome = "mapFailed" => faults > 0
  /\ outcome = "staleHandle" => Len(libs) > FirstCap
  /\ outcome = "wrongType" => ~ OnlyDllNames(world)
  /\ outcome \in {"setArgsNull", "exePathNull"} =>
       ~ ToldAreNative(world) \/ ~ OnlyDllNames(world)
  /\ outcome = "stackOverflow" => ~ Shallow(world)
  /\ outcome = "tlsAssert" => Cardinality(WithTls) > TlsSlots
  /\ outcome = "tlsNull" => \E n \in DOMAIN insts : ImageOf(n).tls = NoCallbacks
  /\ outcome = "entryZero" => \E n \in DOMAIN insts : ~ ImageOf(n).entry
  /\ outcome = "unboundCall" =>
       \/ EarlyCallbacks(world) \/ faults > 0
       \/ \E f \in Files(world) :
            \/ ~ Resolvable(world, f)
            \/ world.img[f].verdict # "SUCCESS"
-----------------------------------------------------------------------------
Providers(n) ==
  UNION {{insts[n].iat[i][j] : j \in DOMAIN insts[n].iat[i]} : i \in DOMAIN insts[n].iat}
Ran(n) ==
  \/ insts[n].phase \in {"entered", "attached"}
  \/ \E i \in DOMAIN stack : stack[i].kind = "guest" /\ stack[i].inst = n

(* A module is bound only to PE modules whose own entry point has already  *)
(* returned: no import leads into a half-initialised DLL, whatever the     *)
(* import graph and whatever the entry points load.                        *)
DependenciesAttached ==
  \A n \in DOMAIN insts : \A m \in Providers(n) :
    m > 0 => insts[m].phase = "attached"

(* No code of the executable runs before each of its imports has been      *)
(* found; an ordinal a PE library lacks is the one thing that goes by.     *)
ExeRunsOnlyBound ==
  insts # <<>> /\ Ran(1) =>
    \A i \in DOMAIN insts[1].iat : \A j \in DOMAIN insts[1].iat[i] :
      /\ insts[1].iat[i][j] # Raw
      /\ insts[1].iat[i][j] = Null => ImportsOf(1)[i].reqs[j].ord

(* A module with a TLS directory has a slot of its own before any of its   *)
(* code runs, the TLS callbacks included.                                  *)
TlsBeforeCode ==
  \A n \in DOMAIN insts :
    Ran(n) /\ ImageOf(n).tls # NoTls =>
      /\ insts[n].tls # -1
      /\ \A m \in DOMAIN insts \ {n} : insts[m].tls # insts[n].tls

(* EXE_PATH is lost only to a DLL: with no DLL that imports kernel32, an   *)
(* executable that imports it finds its path there.                        *)
ExePathKept ==
  insts # <<>> /\ Ran(1) /\ exePath = "null" =>
    \/ Dll("kernel32") \notin Imported(world, Exe)
    \/ \E n \in 2..Len(insts) : Dll("kernel32") \in Imported(world, insts[n].image)

(* Loading is depth first: the loader implements LoadTree, in which a      *)
(* module attaches after all it caused to load.                            *)
Tree ==
  INSTANCE LoadTree WITH
    parent <- [n \in 1..Len(insts) |-> insts[n].parent],
    attached <- {n \in DOMAIN insts : insts[n].phase = "attached"},
    ended <- outcome # "running"

LoadsDepthFirst == Tree!TreeSpec

(* Every run ends, cyclic imports included (those by exhausting the stack).*)
Termination == <>(outcome # "running")
-----------------------------------------------------------------------------
(* What the repository says of itself, and the code does not do.           *)

(* loaderlib.h:21 "Gets a loaded library based on name, name doesn't       *)
(* include .dll": a library loaded as x.dll is found as x.                 *)
FoundWithoutDll ==
  \A i \in DOMAIN libs : libs[i].name.ext = "dll" =>
    T!Find(libs, [libs[i].name EXCEPT !.ext = "bare"]) # 0

(* main.c:61 "invalid arch, try the other one from (winexec, winexec32)":  *)
(* what an executable of the other architecture ends with.                 *)
BadArchReported ==
  Exe \in Files(world) /\ ExeVerdict = "BAD_ARCH" =>
    outcome \in {"running", "BAD_ARCH"}
=============================================================================
