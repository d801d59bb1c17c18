# winexec in TLA+

winexec runs Windows programs on Linux (and managarm): it maps a PE file,
relocates it, binds its imports to PE libraries or to native re-implementations
of `kernel32`, `msvcrt` and others, gives it TLS, and calls its entry point.
This directory models the program in TLA+, checks the models with TLC and proves
some of their properties with TLAPS. Paths below are relative to the root of the
repository.

## The system

| Component | Where | State it keeps | Operations |
|---|---|---|---|
| launcher | `src/main.c` | TEB/PEB of the one thread | `main`: set up TEB, `loaderlib_execute`, report its status |
| library table | `src/loaderlib/main.c` | `LOADERLIB_LOADED_LIBS`, its length and capacity | `add_loaded_lib`, `loaderlib_get_lib`, `loaderlib_unload_lib` (empty) |
| module loading | `src/loaderlib/{main,loader,imports,tls,entry}.c` | the C stack, mapped images and their address tables, `TLS_INDEX`, `EXE_PATH`, `PREFIXES` | `loaderlib_execute`, `loaderlib_load_lib`, `load_dll_library`, `process_imports`, `allocate_tls`, `invoke_entry` |
| image mapping | `src/loaderlib/mapper.c` | the address space | `map_pe`, and `mprotect` of the import address table |
| relocation | `src/loaderlib/relocs.c` | the words of the image | `apply_relocations` |
| export lookup | `src/loaderlib/exports.c` | none | lookup by ordinal, name, hint |
| strings | `include/str.h` | `String`: data, length, size | all `string_*` |
| library search | `src/loaderlib/{main,loader}.c` | the import paths, one open descriptor | the loops over paths and spellings of `load_dll_library` and `loaderlib_native_open_lib` |
| text conversion | `include/utf.h`, `include/lib/utils.h` | none | four codecs, `utf16_to_str`, `str_to_utf16`, `utf16_to_str_with_len` |
| kernel32 | `src/kernel32` | `EXE_PATH`, scan data, descriptors and their positions | modules, directory scans, files, temporary names, heap, time, version |
| msvcrt | `src/msvcrt` | `ONEXIT_FUNCS`, `ONEXIT_FUNCS_LEN`, arguments | `set_args`, `_initterm(_e)`, `_onexit`, `exit`, the `printf` family, forwards |
| user32 | `src/user32` | none | `wsprintfW`; everything else is a stub |
| other native libraries | `src/{advapi32,ole32,...}` | one flag in ole32 | nearly all stubs |
| printf | `src/printlib` | the arguments by position, flags, count | `printf_core`, twice over the format |

How they interact. `main` calls `loaderlib_execute`, which maps the executable
and calls `process_imports`; that calls `load_dll_library` for every import,
which calls `process_imports` for the DLL and then the DLL's entry point. Guest
code calls back: `LoadLibraryW` of kernel32 enters the loader again while outer
loads are unfinished. Everybody shares the table, and holds pointers into it
(`HMODULE` is the address of a table entry). The loader stores into the native
libraries (`EXE_PATH` of kernel32, `set_args` of msvcrt) when a module imports
them.

What is hard. There is one thread and no lock. The hard behaviours are re-entry
(guest code running in the middle of a load), order (what runs before what is
bound or registered), partial failure (a nested load that fails), pointers that
outlive a reallocation, fixed capacities, and arithmetic on words read from a
file. Another process can change the directories a scan or a search reads.
Nothing is persisted and nothing is sent, so there are no crashes to recover
from and no messages to lose. `PROJECT.json` lists every hazard at its line.

What makes each component correct:

- table: a pointer denotes the library it was issued for; lookups are stable;
  nothing overflows.
- loading: dependencies are attached first, no code of the executable runs
  unbound, TLS comes before code, a well-formed program comes up, and every
  crash has a known condition.
- search: the earliest file wins, what is reported missing is, one name keeps
  one handle, and descriptors are closed.
- mapping: a well-formed image is mapped byte for byte and executable where it
  was; a failed call leaves no mapping.
- relocation: every address moves exactly once, nothing else changes, the walk
  stays inside the directory.
- exports: a hint never changes what a name means; what is absent is NULL.
- strings and text: no access outside the buffer, the right text, and the way
  there and back: a path reported to the guest leads it back to the file.
- scans: no name twice or out of order, none lost, and no failure without a cause.
- files: an open fails for a reason; a position that was noted is found again; a
  size is told as it is.
- `printf` and `wsprintfW`: what C (or Windows) says a call writes is written.
- msvcrt: each function runs as often as it should, and `exit` ends.

## Modules

Each name in the `map` of `PROJECT.json` gives the lines it models.

| Module | Models | State | Actions |
|---|---|---|---|
| `LibTable` | the table | `libs`, `cap`, `block` (which allocation), `held` (pointers callers have) | `AddLoadedLib`, `GetLib`, `Forget` |
| `LoadTree` | abstract: loading is depth first | `parent`, `attached`, `ended` | `Open`, `Attach`, `End` |
| `Loader` | execute, load, bind, TLS, entry, guest re-entry | the C stack, the instances, the table, handles, `TLS_INDEX`, `EXE_PATH` | one per step of those functions, and one per failing call |
| `Mapper` | `map_pe`, 32- and 64-bit | program counter, pages, bytes, rights | one per stage of `map_pe`, with its failures |
| `Relocs` | `apply_relocations` | cursor, image words | `NextBlock`, `ApplyEntry`, `WriteOutside`, the ends of blocks, of the directory and of memory |
| `Exports` | the lookups of `exports.c` | a directory, a request | one step per request |
| `StringBuffer` | `str.h`, cell by cell | cells, length, size, whether the string was left without a terminator | one per operation |
| `Utf` | codecs and conversions | text, buffer, result | one per conversion |
| `GuestPath` | names of files between guest and host: the conversions of `Utf` on the strings of `StringBuffer`, as `FindFirstFileW`, `FindNextFileW` and every call with a path do them | those of both, the stage of a path, the host's name | `ReportNew` to `ReportBackslashes`, `Reuse` to `Slashes`, and the two modules' own |
| `Files` | `CreateFileW`, `CloseHandle`, `ReadFile`, `WriteFile`, `SetFilePointer`, `GetFileSize`, temporary names, deletion, directories | names, files and sizes, descriptors and positions, the clock, the guest's DWORD | one per call, and what other processes do |
| `FindFile` (extends `Files`) | `FindFirstFileW`, `FindNextFileW`, `FindClose` | the glob result, the index, the results | one per call, in between any step of `Files` |
| `Printf` | `vfprintf_musl`, `printf_core`, `pop_arg`, `getint`, `pad`, `fmt_*` | format, arguments, `nl_type`, `nl_arg`, count, output, stores | one per directive and pass |
| `Wsprintf` | `wsprintfW` | format, arguments, cursor, output | one per turn of its loop |
| `Msvcrt` | start-up and exit functions | the table of functions, the stack of turns | `SetArgs`, `OnExit`, `InitTurn`, `HandlerTurn`, ... |
| `Search` | the search for one library's file, with `LoadLibraryW`, imports and `GetModuleHandle` in front | files, the table, the loads under way, the cursor over paths and spellings, descriptors | one per attempt to open, map or `dlopen`, one for the end of a load's imports (`Bound`); files created and removed by others |

`Loader` instantiates `LibTable` for its lookup and registration, and states that
it implements `LoadTree` (`LoadsDepthFirst`); `MCLoader` states that it implements
`LibTable` (`UsesTable`), with finitely many handles. Both are refinement mappings:
the tree is that of the instances and their parents, the pointers held are those
on the stack and the handles of the guest. `MCFormat` puts `Printf` and `Wsprintf`
side by side. `MC*` modules hold the instances for
TLC, `*Proofs` modules the theorems. Definitions with an underscore and a second
name (`Find_Last`) are mutated forms of the definition of the first name, used
to see that each property depends on the code. `PROJECT.json` pairs them.

### Decisions of the abstraction

- A name in the table stands for a class of names equal up to case, as
  `loaderlib_get_lib` compares them. In `Loader` a name also remembers whether it
  ends in `.dll`, since `process_imports` cuts four characters before it looks.
- `loaderlib_execute` stores to address 0 before it maps the file, and the
  64-bit mapper does when an address is taken. A world of `Loader` says whether
  those stores trap. On an ordinary host both do and nothing further happens
  (`Trapping`), which is among the worlds; the others show what the rest of the
  code does when the store goes by (page 0 mapped).
- A dangling pointer finds either the old entry or garbage (`BindStale`,
  `UseHandle`): reading freed memory is a nondeterministic choice.
- `mmap` returns `MAP_FAILED` and the code looks for NULL; the failing call is
  an action whose outcome is the crash of the use that follows.
- Guest code is any sequence of calls to its imports, `LoadLibraryW`, a use of a
  handle, `ExitProcess` and return. Its calls are made where it runs: entry
  points and TLS callbacks.

- `Search` has of an image what its imports come to: any status, after any
  searches of other names on its behalf (`Bound`). A status of NOT_FOUND sends
  the caller on to the native library although the file is registered, as in the
  code; INVALID is an ordinal that a native library lacks.
- Of a file `Files` keeps the size only. A DWORD has `W` values, so that a
  position needs both halves and the sign bit of the low one matters. A guest
  that gives `GetFileSize` a NULL pointer and has a file of 4 GiB or more writes
  through it and is no more. Descriptors are numbers from 1 to `MaxFd`; `CloseHandle` closes none, as in the code.
- A format of `Printf` is a sequence of texts and directives, not of characters:
  the parser of one directive is abstracted to what it yields. An integer type is
  the number of its values: a char has `CharValues`, a short the square of that, an
  int the square of a short's and an argument the square of an int's, as one byte,
  two, four and eight are in the code. Characters are code points.
- A field of `Relocs` is a row of 16-bit cells, worth the sum of its cells times the
  powers of `C`; adding to it changes each of its cells. The blocks of an image are
  those the walk meets, behind the directory too, each with the entries it counts,
  until the memory ends. A field outside of the image traps or goes somewhere else,
  and one across its end leaves any value in the cells it has there. Relocations of
  the directory by itself, and fields not on a 16-bit boundary, are left out.
- Behind a text of the host there are zeros as far as `Utf` looks; whether a
  conversion does look there is what `ReadsInside` says. The texts of a guest are
  given with the unit behind their terminator.
- `Wsprintf` goes over the format character by character, since which character
  is taken for a specifier is what can go wrong. For a character below `#` behind a
  sign the flag test shifts by a negative number, which C leaves open: which of them
  pass for flags is a constant (`LowFlags`). With the shift of x86 they are 3, 13
  and 16.

## Runs

| Run | Question | Bounds |
|---|---|---|
| `lib_table` | do pointers into the table denote what they were issued for, through two reallocations? | 2 names, 1 handle, first capacity 2 (8 in the code), 5 libraries, 2 pointers held |
| `loader` | does a program that should run do so and end, has every crash a listed reason, is what runs bound, does the loader implement `LoadTree` and `LibTable`? | 27 worlds, first capacity 4 (8), 3 TLS slots (64), 16 frames, 2 guest loads, 1 failing call |
| `search` | which file is chosen, which is missed, do handles and descriptors stay right? | 2 paths, 5 files, 2 native libraries, 4 names loaded, 2 looked up, 3 imported; a search begins while fewer than 2 libraries are in the table, 1 change of the files, 1 failed allocation |
| `exports` | when is a hint harmless? | 3 names, numbers below 4, ordinal bases 0, 1, 3 |
| `mapper` | what do small images map to? | pages of 2 bytes, 4-bit addresses |
| `relocs` | what does relocation change, and when does it leave the directory? | halves of 2 bits, block sizes of 5 (`U32` = 32), every kind of entry, sound and broken directories |
| `text` | does any operation on strings leave its allocation or lose text; what does a conversion read, write and keep; which paths lead the guest back? | 2 characters, texts up to 5, minimum size 2; texts of 3 characters on both sides of each encoding boundary, ill-formed sequences among them, ended or counted, capacities 0 to 7; paths of 3 characters, or a drive and 3, buffers of 4 and 260 |
| `find_file` | what can a scan report while files change; when does an open fail; where does a position lead? | 4 names, of them 1 dangling link and 1 directory, 2 descriptors, `W` = 4 and sizes to 9 (so the high half is 0, 1 or 2), 3 numbers for temporary names, two of which make one name, 5 calls of `FindNextFileW`, 1 change by another process |
| `format` | do `printf` and `wsprintfW` write what they should? | chars of 4 values (so ints of 256), up to 3 directives of some sixty, counts on both sides of 127, 6 lists of arguments; formats of `wsprintfW` of up to 4 characters, a space and a carriage return (one of `LowFlags`) among them, 9 lists |
| `msvcrt` | what runs at start and exit? | 2 functions, room for 3 (32), 2 importers |
| `loader_found` | violation: `loaderlib.h:21` | 4 worlds |
| `loader_arch` | violation: the message of `main.c:61` | one executable of the other architecture |

Why the bounds are enough. A capacity is made small so that it is reached, twice
where doubling matters: with a first capacity of 2 the fifth library is the
second move, and with 4 a program of five libraries makes the pointers of an
import in progress dangle. One failing call at any place is what the error paths
tell apart; the code never retries. Two guest loads are what it takes to load one
library while another is loading and to hold a handle over it. Cycles need a
limit on the stack; 16 frames hold several rounds of the two-DLL cycle, and all that a
program of three layers without a cycle needs: 3 frames, and 5 for each guest load
(`Shallow`). Two
import paths are one more than `main` adds, so that the order of paths and
spellings matters, and one change of the files is a file that goes or comes in
the middle of a search. Words are narrowed until a carry, a wrap and a maximum
are all reached (`U32 = 16`, `C = 4`, `MaxU16 = 3`), and what the code calls
0xFFFF is the largest narrow word.
Descriptors are few so that they run out before a scan. In `find_file` each
behaviour is about one matter (`focus` of `MCFindFile`): a scan and the calls
that change names; temporary names; or the position in one file. Every step is
one of `FindFile`, and no property relates two of these matters but
`FailureExplained`, whose cause, descriptors used up, is part of the first. An
int of 256 values lets a count pass `INT_MAX` with a field of 128 characters, and
3 directives are what it takes to name positions out of order and leave one out.
`CHECK_DEADLOCK FALSE` is given where the system stops at a bound (`lib_table`,
`search`, `find_file`), after a lookup has been answered (`exports`), and after
`exit` (`msvcrt`). Type invariants are part of the modules; those on which proofs
rest are proved.

### What the runs show

Holds:

- The loader is depth first whatever the import graph and whatever entry points
  load (`LoadsDepthFirst`, `DependenciesAttached`), and uses the table by its
  operations only.
- A well-formed program comes up when no call fails, the first allocation of the
  table suffices (8 libraries) and no more modules with a TLS directory are mapped than
  there are TLS slots (64) (`WellFormedRuns`).
- Every crash has one of the reasons in `CrashesExplained`, a TLS directory without
  an array of callbacks and an image without an entry point included.
- The executable runs no code before each import was found, but for an ordinal
  a PE library lacks, which is NULL and goes by (`ExeRunsOnlyBound`).
- One name keeps one handle through `LoadLibraryW` and `GetModuleHandle`,
  however it is spelled, with one exception: where the imports of its file were
  incomplete and there is a native library of the name, the call that loads both
  returns the native one and every later call the file (`HandlesStable`). The
  earliest import path wins (`EarliestPath`), though files come and go.
- What is reported as not found is one of three (`MissExplained`): there was no such
  file; there was one, and it was refused; or it was loaded, is in the table, and its
  imports were incomplete. A file whose name mixes cases, or whose extension
  is in the other case, is missed by any name but its own; and a native library is
  missed by a name that ends in `.DLL`, so an import of `KERNEL32.DLL` finds none, and
  where a file of the name was refused or asks for an ordinal that is not there.
- A descriptor stays open only where memory runs out (`DescriptorsClosed`).
- A hint is harmless with an ordinal base of 0 (`HintHarmless`); with a base of
  1, which linkers write, it yields the neighbouring function, since the lookup
  by hint subtracts the base and the lookup by name does not
  (`HintTakesOrdinal`).
- Relocation by a sound directory moves each address once and changes nothing else; an
  address split in two halves loses the carry of the low one (`Relocated`). Only an
  unsound one makes the walk leave the directory (`WalkStaysInside`).
- A string holds the text that was meant, with a terminator behind it unless it comes
  straight from `string_new_with_size` or `string_clear`, which leave none there
  (`HoldsText`).
- A scan returns each name once and in order, and a guest that goes on past
  failures gets every name that stayed (`ScanExact`). An early failure has a cause
  (`FailureExplained`): a name that went or is a dangling link, or descriptors
  used up by files the guest has long closed.
- Each open costs a descriptor for good: `CreateFileW` fails when the guest has opened
  as many files as there are descriptors, however many handles it has closed, or when
  `OPEN_EXISTING` finds nothing, and in no other case. So `CREATE_NEW` opens a file that
  is there, and two temporary names that are one (of one second, or of one number the
  guest gave) share a file without a word (`OpenExplained`).
- `SetFilePointer` brings the guest back to a position it noted unless the low
  half has its sign bit set; then the call fails and nothing moves
  (`PositionRestored`). `GetFileSize` leaves the high half as it was when it should
  be 0 (`SizeTold`).
- A path reported by a scan leads back to the file if it fits, is sound UTF-8 without a
  backslash or a character from U+FFFF on (those are written low surrogate first), and
  does not look like a path of drive C where none was asked for (`PathKept`). Text of a
  guest survives the way there and back (`RoundTrips`).
- `wsprintfW` writes what it should unless a number is negative, a char is beyond
  ASCII, or `%%` stands before text (`WsprintfExact`). `printf` prints what C says
  and counts it, stores with `%n` in an integer as wide as the guest's, but for `%ln`,
  which stores a `long` of the host over a guest's of half that, and fails where an int
  cannot hold the count (`PrintfExact`). It says nothing of calls C does not allow:
  positions mixed with arguments in order, left out or of two types.
- Functions given to `_onexit` run once per module that imports msvcrt
  (`RunsOncePerImporter`).

Findings (`PROJECT.json`, `findings`):

1. `loader_found`: `loaderlib.h:21` says a library is asked for without `.dll`.
   It is registered with it, so it is not found, and each importer maps a copy
   of its own, with a TLS slot of its own.
2. `loader_arch`: the message for the wrong architecture is never reached on a
   host where the store to address 0 traps.

### Fairness

`Loader` assumes `WF_vars(Step)`: there is one thread, it never blocks, and a
guest function that never returns is left out. `Msvcrt` assumes that the exit handler goes on once it runs and that
the functions it calls return. No other module assumes fairness or states
liveness.

## Proofs

`PromiseProofs` is about the two specifications `Loader` implements. Of `LibTable`
(from `FirstCapAssumption`: the first capacity is positive) the invariant is the type, `CapInv` (the table fits its capacity, and fills more
than half of it once it has grown; the first capacity belongs to the first
allocation, and there is no pointer before it) and `HeldInv`: every pointer held is into this or an earlier allocation, at
an index the table has, and what it was issued for is what is there now. The
last part makes `HandlesDenote` inductive, since a lookup copies a pointer from
the entry and growing keeps every entry. From it: `TableTypeCorrect`,
`TableCapacityFits`, `TableHandlesDenote`, `TableFirstAllocationSafe`, and the
action property `TableLookupStable`, each for any names, handles, first capacity
and number of registrations.

Of `LoadTree` (no assumption), `TreeTypeOK`, `OneTree` and `ChildrenFirst`
together are inductive: a module is opened under the innermost one, which is not
attached, and a module that attaches has no later one left that is not. From
it `TreeIsOne` and `TreeChildrenFirst`, for any number of modules.

`LoaderProofs` (from `LoaderAssumption` and `WorldsAssumption`: positive bounds,
and worlds whose images are images) carries both over to the loader. The sixty
actions are sorted once into kinds of steps (`Kinds`: the top frame goes on, calls
the guest, loads a module, returns, attaches, or the process ends) and everything
else is proved of the kinds.

- `ShapeInv`: frames are linked as calls are (a guest frame is above the load frame
  of its module, at its callbacks or its entry; a load frame is above one that
  awaits it), instances never decrease up the stack, and every pointer anybody
  holds was issued for an entry that is still in the table.
- `AttachedInv`: a module is attached when no load frame of it is on the stack. With
  `ShapeInv` this makes the module of the top frame the innermost one, which is what
  `LoadTree` asks of a step: `LoaderDepthFirst`.
- `BindInv`: what a frame has registered is its own module, and what it has found is
  a native library or a module attached by then. A library found in the table
  cannot be a DLL, since it was looked up without `.dll` and is registered with it. So
  an import binds to attached modules only: `LoaderDependenciesAttached`.
- `TableMoves` and `HeldStep`: a step adds at most one entry, and hands out at most the
  pointer to what it added or found. So each step is one of `LibTable`:
  `LoaderUsesTable`.

- `SlotInv`: TLS slots are given out in turn, so no two modules have one, and a module
  with a TLS directory has its slot once its load frame is past `allocate_tls` (the
  executable binds its imports before that, a DLL after) and when its code has begun.
  Code runs above a frame at its callbacks or its entry: `LoaderTlsBeforeCode`.
- `ExeInv`: the executable's frame is the outermost one; while its status is a success,
  every import before the one it is at is complete, and past its imports all are. The
  status never becomes a success again, and anything else ends the run where the
  executable would go on: `LoaderExeRunsOnlyBound`. To be complete, an import of
  kernel32 must also have left the path of the executable there, or a DLL that imports
  kernel32 is mapped: `LoaderExePathKept`.
- What is proved of `LibTable` and `LoadTree` holds of the loader by the two
  refinements: `LoaderHandlesDenote`, `LoaderFirstAllocationSafe`, `LoaderLookupStable`,
  `LoaderChildrenFirst`. The theorems of `PromiseProofs` are instantiated (`P`) and the
  instance is shown to be the one `Loader` uses (`LoaderTable`, `LoaderTree`).
- `TraceInv`: where what a search found came from. A PE library that was found has the
  file of the wanted name, a native one is found in the table only in a program that
  imports by a name without `.dll`, and a frame that awaits a module lies below the frame
  of that module.
- `CountInv`: `TLS_INDEX` is the number of modules that have a slot, and only modules with a
  TLS directory take one. So the assertion fails only if there are more of these than slots.
- `NestInv`: if the files lie in `h` layers, each importing from lower ones, the height of a
  frame plus the layer of its module is at most `h + 1 + c * (h + 2)` after `c` calls of
  `LoadLibraryW`. So a stack that overflows belongs to a program with a cycle, or with more
  layers than `Shallow` grants.
- `CleanInv`: if each import can be resolved, no file is rejected, no call fails and no
  DLL has TLS callbacks, every frame's status stays a success and the address table of a
  module is bound up to the import at hand. So code that runs calls nothing unbound.
- `EndInv`, all of these: each action that ends a run (`Endings`) meets one of the reasons
  listed: `LoaderCrashesExplained`. That a well-formed program comes up follows, since its
  world excludes all reasons but the ones `WellFormedRuns` names: `LoaderWellFormedRuns`.

All of this holds for any files, import graph, guest calls, failures and bounds. TLC
checks the same properties on the instance of the run `loader`, with a
liveness property (`Termination`), which is not proved.

`ImageProofs` is about a mapped image. Of `Exports` (from the assumptions on the
constants) the invariant says that an answer is what the lookup of its request yields; the
rest are lemmas about the lookups: `HintHarmlessAlways`, `HintTakesOrdinalAlways`,
`AbsentIsNullAlways`, for directories of any size.

Of `Relocs` (a cell has at least two values; the images are images) the invariant is
`MovedInv`: the entry at the cursor is one of the directory and nothing outside of fields
has changed (`RelocsInv`); as many bytes have been passed as the blocks behind take, so the
walk ends with the last (`WalkInv`); and a field holds what its entry makes of it, or what
it held at first if the cursor is before it (`FieldsInv`). What an entry makes of a field
needs arithmetic: a row of digits is the digits of its sum (`FieldOfDigits`, `OneDigitMore`),
so adding to the cells adds to the number (`PlusAdds`), and two halves that are moved apart
add up but for the carry (`HalvesAdd`). Sums are unfolded with `Induction`. Hence
`RelocsRelocated` and `RelocsWalkStaysInside`, for cells with any number of values and any
sound directory.

`GuestPathProofs` is about `StringBuffer`, `Utf` and `GuestPath` together (from the
assumptions on the constants: characters are bytes other than the terminator, texts are
terminated, the smallest allocation is positive, the buffer of a path has 2 units or more).

- `StringInv`: the fields are numbers, and the two properties of strings themselves, neither
  of which is inductive alone: growing copies what the string holds, and what it holds is
  inside the allocation. `StringStaysInside` and `StringHoldsText`. The strings that
  conversions and paths are made of are never left bare (`BareInv`).
- `ConvertInv`: the types and what each stage converts (`Kinds`); the position is within the
  text, or has passed the terminator with the 0xFFFF before it (`DecodeInv`, `CountedInv`),
  or with a sequence of bytes that ends short (`EncodeInv`); what has been written is within
  the buffer, but for a pair at its end (`BufferInv`). `TextReadsInside`,
  `TextStaysInBuffer`.
- The codecs: `Decode16`, `Decode8`, `Encode8` and `Encode16` bound what each reads and
  yields, and `ReadBack` says that a character below 0xFFFF is read back as it was written,
  from one, two or three bytes.
- Spellings: bytes spell characters if each is where the one before ends (`Spells`,
  `SpelledOut`). Spellings may be joined (`JoinedSpelled`), slashes may be turned in them
  (`SlashedSpelled`), and a text has one only (`OneSpelling`). A sound name is the spelling of
  its characters (`Characters`), by unfolding the recursion that says where they start.
- `TripInv`: on the way of a guest's text, the bytes spell what has been read, and what has
  been written back is the beginning of it. `PathInv`: a path reported is the spelling of what
  the guest is told, what it hands back spells the same bytes, and stripping the drive and
  turning the slashes undoes what was done to report it. `StageInv` says which stage has what.
  Together: `TextRoundTrips`, for texts, names and buffers of any length.

`SearchProofs` (from `SearchAssumption` and `NativesAssumption`: the build
installs native libraries under names without a directory). Invariant: every
entry of the table is without a directory; a handle is the first entry with its
number of extensions (one library, so that is its name), or the second, native one,
of a load whose imports were incomplete, which alone has that number besides
(`GivenFirst`); the loads under way each have their entry (`Loads`), which is the only handle of its name meanwhile if the guest
asked for it (`GuestHeld`); what the guest searches for, the table lacks (`GuestFresh`); no
file that stayed has been passed over at the paths and spellings tried, and no native
library; one descriptor is open while a file is mapped. `LeastNumber`, from the well-foundedness of the naturals, gives the first
entry `Find` chooses. All four properties of the run `search` are proved:
`SearchHandlesStable`, `SearchEarliestPath`, `SearchMissExplained`,
`SearchDescriptorsClosed`, for any names, paths, files and bounds.

`MapperProofs` (from the assumptions on the constants). The invariant says what
each stage of `map_pe` has settled (`Stages`), that the mapping starts cleared,
and that the sections copied so far are in place and the rest is as the headers
left it (`Filled`); a second one (`Executable`) follows the rights of pages, and
rests on lemmas about division by the page size. All four properties of the run
`mapper` are proved, for any page size, width and images:
`MapFailureUnmaps`, `MapWellFormedMaps`, `MapImageFaithful`,
`MapSectionsExecutable`, and `MapTypeCorrect`.

`FilesProofs` (from `FilesAssumption`: names are numbered as `glob` sorts them, a
size fits in two DWORDs). The invariant types the file system and the descriptors, and
says that the descriptors in use are as many as the calls that opened a file: none is
ever given back. With the question and answer of the last call that makes
`FilesOpenExplained`. `FilesPositionRestored` and
`FilesSizeTold` rest on arithmetic: a number below `W * W` is its two halves, and a
low half with its sign bit set is taken for a negative one. Scans (`FindFile`) need two
more parts. When no descriptor is left the guest has opened `MaxFd` files, and that stays so
(`StaysFull`). `ScanInv`: the snapshot increases, its names are there or have been missing
since, and a call that had its turn at a name returned it, or the name is lost; past the last
name calls fail. With the facts that a finite set of numbers has one of each rank
(`EveryRank`) and that the snapshot lists them so (`GlobSorts`): `FilesScanExact` and
`FilesFailureExplained`.

`RuntimeProofs` is about what the guest calls of the C runtime and of user32.

Of `Msvcrt` (from the assumptions on functions and arrays), `HandlerInv`: there are as
many runs of the handler to come as modules that import msvcrt and have not been served
(`Counts`); each entry of the table knows how many runs had begun when it came
(`Registered`); and what has been called is what the runs have reached, once, except by runs
that were over when an entry came (`CalledOnce`): `MsvcrtRunsOncePerImporter`. `InitInv`: what
`_initterm` has called is what lies up to the cell it is at, by the lemmas on that
recursion (`UpToUnfolds`, `UpToGrows`): `MsvcrtInittermExact`.

Of `Wsprintf` (from `WsprintfAssumption`: a format has one terminator, which is its last
character, and `LowFlags` are characters below `#` other than it), `WsInv`: in a call the function is made for, the next
character is one at which the reference begins an item, what was written and what the reference
makes of the rest are together what was wanted, and as many arguments were taken as signs lie
behind. `WsprintfExact` alone speaks of the end of a call only. A turn takes a text, a run of signs
and a specifier: the reference reads the text and the pairs one by one (`RunReads`, by
`Induction`), a run of an odd number of signs ends in the one that starts a specifier
(`OnlySign`), after a run of an even number the format ends (`PairsStand`), and signs are counted
by those behind (`TakenBy`). What is wanted is a recursion from the end of the format
(`RestUnfolds`); numbers are digits by `DecimalTyped`. Together: `WsprintfExactAlways`, for formats
and arguments of any length.

Of `Printf` (from `PrintfAssumption`: the number of values of a char is even, formats are of
texts and directives, what is passed are slots, NULL leads to no string):

- Numbers: types are squares of each other, so each divides a slot (`TypesDivide`), and the
  remainder of a remainder is that of the number (`Residue`). `PopMeans`: a popped argument is
  the value C says the argument has, and a negative one is printed as its magnitude
  (`SignedValue`); `IntRead` is the same of widths and precisions. `DigitsAre`: 0 has no
  digits, and any other number has some and does not begin with a zero.
- One field (`FieldIs`): what `printf_core` computes from flags, width and precision (`Field`) is
  what C says (`CShown`), and it overflows just where that is longer than an int can count, for
  numbers (`FieldNumber`) and for characters and strings (`FieldPlain`).
- Whole formats: a concatenation grows by its next part (`ConcatIs`, `ConcatGrows`), and the
  first slot of a directive in order lies behind those of the ones before it (`SlotsBefore`);
  both are recursions that `Induction` unfolds. `CallIs`: a call that C allows takes
  all its arguments in order (`Ordered`) or all by position (`ByPosition`), from slots that were passed.
- `PrintfInv`. In the first pass, nothing is printed, `l10n` says whether a directive came, and
  `nl_type` has the types the directives so far give to positions (`TypesNoted`); so at its end the
  gap is behind all of them (`LastTypedIs`) and each position is popped by its type (`Placed`).
  In the second, what is printed, counted and stored is what C says of the items so far
  (`SecondPass`), and as many slots are used as these take (`InTurn`). That the second pass was
  reached at all means that no directive named by position has a type missing (`Sorted`), which
  is `RefusedFirst`.

Together: `PrintfExactAlways`, for any formats, arguments, strings and types. TLC has the same
property on the run `format`; `PrintfInv` holds there too.

Recursion. The induction theorems of the library take an operator, which the provers here
cannot instantiate. Where a definition is a recursive function, the lemma `Induction` takes
its place: a set that has 0 and, with each natural number, the next one, has them all; it
follows from the least number principle.

Only model-checked: liveness, which is outside of what TLAPS proves here: `Termination` of
`Loader` and `ExitEnds` of `Msvcrt`. Every other property of a passing run is the property of a
listed theorem; `UsesTable` of `MCLoader` differs from what `LoaderUsesTable` states in that
the instance of `LibTable` has finitely many handles there. `WsprintfExactAlways` and `PrintfExactAlways` are about `WsSpec` and
`PrintfSpec`; `MCFormat` runs one or the other.

## Not modelled, and why

- `vfwprintf_musl.c` has no caller. Of `printf`, floating point, wide strings and
  `%m` are left out: their digits come from the C library or from long loops over
  data that no property is about.
- The stubs of `user32`, `advapi32`, `ole32` and other libraries return constants;
  the ordinal tables are constants, of which `Loader` uses that they exist;
  headers hold types.
- Heap, time, versions and mutexes of kernel32 are thin wrappers of the C library
  without state of their own; so is `MulDiv`, which multiplies in 32 bits before
  it widens. `WideCharToMultiByte` copies the whole result whatever the size of
  the buffer: one `memcpy` after conversions that `Utf` models.
- The TEB and the segment registers are set up once, in a straight line.
- `loaderlib_unload_lib` is empty and `free_pe` has no caller.

## Plan

1. Core (done): `LibTable`, `LoadTree`, `Loader`, `Exports`, with proofs about all
   of them, the two refinements included.
2. Around it (done): `Search`, `Mapper`, `Relocs`, `StringBuffer`, `Utf`,
   `GuestPath`, `Files`, `FindFile`, `Msvcrt`, `Printf`, `Wsprintf`.
3. Proofs of every safety property of these (done).
4. A run of `Loader` in which the search of `Search` stands for its one-step
   search, if the state space allows it.
