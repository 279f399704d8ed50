---------------------------- MODULE MemoryManager ---------------------------
(***************************************************************************)
(* The memory manager (esf/memory_manager): allocations of the large heap  *)
(* and of the DMA area, named by a handle id, which their users map or, in *)
(* a large heap that cannot be mapped, open as a file.  A handle is an id  *)
(* with an offset: each offset of one allocation is mapped or opened on    *)
(* its own, but all files of an allocation share one descriptor and its    *)
(* position.                                                               *)
(*                                                                         *)
(* Every call works under s_memory_manager_mutex and is one action, except *)
(* the accesses to files: they copy the descriptor and the position of the *)
(* handle, go to the file under the mutex of the handle only, and look the *)
(* handle up again to store the new position.                              *)
(***************************************************************************)
EXTENDS Naturals, FiniteSets

CONSTANTS Tasks,         \* threads that use the manager
          Ids,           \* 1..MEMORY_MANAGER_MAX_MAPS
          Offsets,       \* address offsets users put into a handle
          AreaSize,      \* the size of an allocation
          Sizes,         \* how much one access reads or writes
          Targets,       \* the positions users seek
          MapSupport,    \* PlLheapIsMapSupport: the large heap can be mapped
          MaxHeapFails   \* bound: failures of the heap and of its files

VARIABLES minit,         \* s_is_initialized
          entries,       \* s_handle_info_list: an entry for each id
          access,        \* the file access of each task
          position,      \* where the descriptor of an allocation stands
          disturbed,     \* allocations whose descriptor had two users at once, or
                         \* one whose access failed
          misplaced,     \* an access met the descriptor at another place
          dangling,      \* an access used a handle that was closed under it
          heapFails
vars == <<minit, entries, access, position, disturbed, misplaced, dangling, heapFails>>

fileVars == <<access, position, disturbed, misplaced, dangling>>

NoEntry == [area |-> "none", mapped |-> FALSE, fd |-> FALSE, count |-> 0,
            infos |-> [o \in {} |-> 0]]
Idle == [at |-> "idle"]

Init == /\ minit = FALSE
        /\ entries = [i \in Ids |-> NoEntry]
        /\ access = [t \in Tasks |-> Idle]
        /\ position = [i \in Ids |-> 0]
        /\ disturbed = {} /\ misplaced = {} /\ dangling = FALSE /\ heapFails = 0

Exists(i) == entries[i].area # "none"
MayFail == heapFails < MaxHeapFails
HeapFails == MayFail /\ heapFails' = heapFails + 1

\* A large heap that cannot be mapped is the only one with files.
FileIoPreCheck(i) == entries[i].area = "LargeHeap" /\ ~MapSupport
CanMap(i) == entries[i].area = "Dma" \/ MapSupport

Using(i, o) == {t \in Tasks : access[t].at # "idle" /\ access[t].id = i /\ access[t].off = o}
InFile(i, o) == {t \in Using(i, o) : access[t].at \in {"seek", "file"}}

MapInfo(e) == DOMAIN e.infos
WithInfo(e, o, info) ==
    [e EXCEPT !.infos = [p \in MapInfo(e) \cup {o} |-> IF p = o THEN info ELSE @[p]]]
WithoutInfo(e, o) == [e EXCEPT !.infos = [p \in MapInfo(e) \ {o} |-> @[p]]]
Counted(e, n) == [e EXCEPT !.count = n]

----------------------------------------------------------------------------
(* Initialize and Finalize.                                                *)

CleanUpAllMemoryInfo == entries' = [i \in Ids |-> NoEntry]

Initialize ==
    /\ ~minit /\ minit' = TRUE
    /\ CleanUpAllMemoryInfo
    /\ UNCHANGED <<fileVars, heapFails>>

\* Everything is unmapped, closed and freed, whoever uses it; an access that
\* is under way loses the mutex it holds or waits for.
Finalize ==
    /\ minit /\ minit' = FALSE
    /\ CleanUpAllMemoryInfo
    /\ dangling' = (dangling \/ \E t \in Tasks : access[t].at \in {"wait", "seek", "file"})
    /\ access' = [t \in Tasks |-> IF access[t].at = "idle" THEN Idle
                                  ELSE [access[t] EXCEPT !.at = "gone"]]
    /\ UNCHANGED <<position, disturbed, misplaced, heapFails>>

----------------------------------------------------------------------------
(* Allocations and their maps.                                             *)

\* The lowest id that is free.  The memory is given back when no id is left.
GetFreeHandleId(i) == ~Exists(i) /\ \A j \in Ids : j < i => Exists(j)

Allocate(a) ==
    /\ minit
    /\ \E i \in Ids : /\ GetFreeHandleId(i)
                      /\ entries' = [entries EXCEPT ![i] = [NoEntry EXCEPT !.area = a]]
                      /\ position' = [position EXCEPT ![i] = 0]
                      /\ disturbed' = disturbed \ {i}
                      /\ misplaced' = misplaced \ {i}
    /\ UNCHANGED <<minit, access, dangling, heapFails>>

\* Mutant of Free: only a map keeps the memory.
FreeUnmapped(i) ==
    /\ minit /\ Exists(i) /\ ~entries[i].mapped
    /\ entries' = [entries EXCEPT ![i] = NoEntry]
    /\ UNCHANGED <<minit, fileVars, heapFails>>

\* DiscardMemoryInfo: refused while the memory is mapped or its file open; a
\* heap that fails keeps the entry.
Free(i) ==
    /\ minit /\ Exists(i) /\ ~entries[i].mapped /\ ~entries[i].fd
    /\ entries' = [entries EXCEPT ![i] = NoEntry]
    /\ UNCHANGED <<minit, fileVars, heapFails>>

\* MapMemoryInfo: the first map of an allocation maps the whole of it; a
\* handle that is mapped already gets its address again.  When there is no
\* memory for the record of the handle, the allocation stays mapped.
Map(i, o) ==
    /\ minit /\ Exists(i) /\ CanMap(i) /\ o < AreaSize
    /\ LET e == [entries[i] EXCEPT !.mapped = TRUE] IN
       \/ /\ entries' = [entries EXCEPT ![i] =
                 IF o \in MapInfo(e) THEN e
                 ELSE Counted(WithInfo(e, o, [file |-> FALSE]), e.count + 1)]
          /\ UNCHANGED heapFails
       \/ /\ o \notin MapInfo(e) /\ HeapFails
          /\ entries' = [entries EXCEPT ![i] = e]
    /\ UNCHANGED <<minit, fileVars>>

\* UnmapMemory, once no handle is left.
UnmapMemory(e) == [e EXCEPT !.mapped = e.count # 0]

\* UnmapMemoryInfo: the last handle unmaps the allocation; that the heap
\* refuses is not told.
Unmap(i, o) ==
    /\ minit /\ Exists(i) /\ entries[i].mapped /\ o \in MapInfo(entries[i])
    /\ LET n == IF entries[i].count > 0 THEN entries[i].count - 1 ELSE 0 IN
       entries' = [entries EXCEPT ![i] = UnmapMemory(WithoutInfo(Counted(@, n), o))]
    /\ UNCHANGED <<minit, fileVars, heapFails>>

----------------------------------------------------------------------------
(* Files.                                                                  *)

\* EsfMemoryManagerFopen: the descriptor is opened for the first handle of
\* the allocation; a seek to the start of the handle follows.  When there is no
\* memory for the record of the handle, the descriptor stays open.
Opened(t, i, o) ==
    /\ access' = [access EXCEPT ![t] = [at |-> "opened", id |-> i, off |-> o]]
    /\ disturbed' = IF MapInfo(entries[i]) \ {o} # {} THEN disturbed \cup {i} ELSE disturbed

Fopen(t, i, o) ==
    /\ minit /\ access[t] = Idle /\ Exists(i)
    /\ LET e == [entries[i] EXCEPT !.fd = TRUE] IN
       \/ /\ o \in MapInfo(e) /\ e.infos[o].file
          /\ e.infos[o].opens < 2 \* bound
          /\ entries' = [entries EXCEPT ![i].infos[o].opens = @ + 1]
          /\ Opened(t, i, o) /\ UNCHANGED heapFails
       \/ /\ o \notin MapInfo(e) /\ FileIoPreCheck(i) /\ o <= AreaSize
          /\ \/ /\ entries' = [entries EXCEPT ![i] = Counted(
                      WithInfo(e, o, [file |-> TRUE, opens |-> 1, pos |-> 0]), e.count + 1)]
                /\ Opened(t, i, o) /\ UNCHANGED heapFails
             \/ /\ entries' = [entries EXCEPT ![i] = e]
                /\ HeapFails /\ UNCHANGED <<access, disturbed>>
    /\ position' = [position EXCEPT ![i] = IF entries[i].fd THEN @ ELSE 0]
    /\ UNCHANGED <<minit, misplaced, dangling>>

\* EsfMemoryManagerFclose: the last close of a handle removes it, waiting for
\* the access that is in the file and freeing the mutex under the one that
\* waits; the last handle closes the descriptor, which may fail.
Fclose(i, o) ==
    /\ minit /\ Exists(i) /\ o \in MapInfo(entries[i]) /\ entries[i].infos[o].file
    /\ IF entries[i].infos[o].opens > 1
       THEN /\ entries' = [entries EXCEPT ![i].infos[o].opens = @ - 1]
            /\ UNCHANGED <<access, dangling, heapFails>>
       ELSE /\ InFile(i, o) = {}
            /\ LET e == Counted(WithoutInfo(entries[i], o), entries[i].count - 1) IN
               \/ /\ entries' = [entries EXCEPT ![i] = [e EXCEPT !.fd = e.count # 0]]
                  /\ UNCHANGED heapFails
               \/ /\ e.count = 0 /\ HeapFails
                  /\ entries' = [entries EXCEPT ![i] = e]
            /\ LET waiting == {t \in Using(i, o) : access[t].at = "wait"} IN
               /\ dangling' = (dangling \/ waiting # {})
               /\ access' = [t \in Tasks |-> IF t \in waiting THEN [access[t] EXCEPT !.at = "gone"]
                                             ELSE access[t]]
    /\ UNCHANGED <<minit, position, disturbed, misplaced>>

\* Under the mutex of the manager: the checks, and the copy of the position.
\* Fpwrite and Fpread compare the end of the handle with the position they
\* have, not with the one they are about to go to.
FileIo(t, kind, i, o, to, size) ==
    /\ Exists(i) /\ o \in MapInfo(entries[i]) /\ entries[i].infos[o].file
    /\ to <= AreaSize - o
    /\ entries[i].infos[o].pos + size <= AreaSize - o
    /\ access' = [access EXCEPT ![t] =
          [at |-> "wait", kind |-> kind, id |-> i, off |-> o, to |-> to, size |-> size,
           from |-> IF kind = "access" THEN entries[i].infos[o].pos ELSE 0]]
    /\ disturbed' = IF Using(i, o) \ {t} # {} THEN disturbed \cup {i} ELSE disturbed
    /\ UNCHANGED <<minit, entries, position, misplaced, dangling, heapFails>>

FileIoFseek(t, i, o, to) == FileIo(t, "seek", i, o, to, 0)
FwriteFread(t, i, o, size) == FileIo(t, "access", i, o, 0, size)
PwritePread(t, i, o, to, size) == FileIo(t, "paccess", i, o, to, size)

\* The calls of a task, one at a time: what they write and what they read go
\* the same way.
Calls(t) == minit /\ access[t] = Idle
Fseek(t, i, o, to) == Calls(t) /\ FileIoFseek(t, i, o, to)
Fwrite(t, i, o, size) == Calls(t) /\ FwriteFread(t, i, o, size)
Fread(t, i, o, size) == Calls(t) /\ FwriteFread(t, i, o, size)
Fpwrite(t, i, o, to, size) == Calls(t) /\ PwritePread(t, i, o, to, size)
Fpread(t, i, o, to, size) == Calls(t) /\ PwritePread(t, i, o, to, size)

\* The seek to the start with which Fopen ends, under a lock of its own: the
\* handle may be closed by then, and its offset mapped.
FopenSeek(t) ==
    LET a == access[t] IN
    /\ a.at = "opened"
    /\ \/ FileIo(t, "seek", a.id, a.off, 0, 0)
       \/ /\ ~(/\ Exists(a.id) /\ a.off \in MapInfo(entries[a.id])
               /\ entries[a.id].infos[a.off].file)
          /\ access' = [access EXCEPT ![t] = Idle]
          /\ UNCHANGED <<minit, entries, position, disturbed, misplaced, dangling, heapFails>>

\* The mutex of the handle.
EnterFile(t) ==
    LET a == access[t] IN
    /\ a.at = "wait" /\ InFile(a.id, a.off) = {}
    /\ access' = [access EXCEPT ![t].at = IF a.kind = "access" THEN "file" ELSE "seek"]
    /\ UNCHANGED <<minit, entries, position, disturbed, misplaced, dangling, heapFails>>

\* Mutant of FseekExec: the position counts from the start of the allocation.
FseekExecFromStart(t) ==
    LET a == access[t] IN
    /\ a.at = "seek"
    /\ \/ /\ position' = [position EXCEPT ![a.id] = a.to]
          /\ access' = [access EXCEPT ![t].from = a.to,
                                      ![t].at = IF a.kind = "seek" THEN "store" ELSE "file"]
          /\ UNCHANGED <<disturbed, heapFails>>
       \/ /\ HeapFails /\ access' = [access EXCEPT ![t] = Idle] /\ UNCHANGED position
          /\ disturbed' = disturbed \cup {a.id}
    /\ UNCHANGED <<minit, entries, misplaced, dangling>>

\* FileIoFseekExec: the position counts from the offset of the handle.  When
\* the seek fails, a Fopen leaves the handle open, and Fpwrite and Fpread
\* unlock the mutex of the manager, which they do not hold.
FseekExec(t) ==
    LET a == access[t] IN
    /\ a.at = "seek"
    /\ \/ /\ position' = [position EXCEPT ![a.id] = a.off + a.to]
          /\ access' = [access EXCEPT ![t].from = a.to,
                                      ![t].at = IF a.kind = "seek" THEN "store" ELSE "file"]
          /\ UNCHANGED <<disturbed, heapFails>>
       \/ /\ HeapFails /\ access' = [access EXCEPT ![t] = Idle] /\ UNCHANGED position
          /\ disturbed' = disturbed \cup {a.id}
    /\ UNCHANGED <<minit, entries, misplaced, dangling>>

\* FileIoFwriteFreadExec: the bytes are those at the descriptor's position.
\* An access that fails, as one beyond the end of the allocation does, may
\* have moved the descriptor, and its new position is not stored.
AccessExec(t) ==
    LET a == access[t]
        inside == position[a.id] + a.size <= AreaSize IN
    /\ a.at = "file"
    /\ misplaced' = IF position[a.id] # a.off + a.from THEN misplaced \cup {a.id} ELSE misplaced
    /\ position' = [position EXCEPT ![a.id] = IF inside THEN @ + a.size ELSE @]
    /\ \/ /\ inside
          /\ access' = [access EXCEPT ![t].at = "store", ![t].from = @ + a.size]
          /\ UNCHANGED <<disturbed, heapFails>>
       \/ /\ IF inside THEN HeapFails ELSE UNCHANGED heapFails
          /\ access' = [access EXCEPT ![t] = Idle]
          /\ disturbed' = disturbed \cup {a.id}
    /\ UNCHANGED <<minit, entries, dangling>>

\* The handle is looked up again; one that is gone by now is an error.  What a
\* mapped handle would be given is never read.
Store(t) ==
    LET a == access[t] IN
    /\ a.at \in {"store", "gone"}
    /\ access' = [access EXCEPT ![t] = Idle]
    /\ entries' = IF /\ a.at = "store" /\ a.off \in MapInfo(entries[a.id])
                     /\ entries[a.id].infos[a.off].file
                  THEN [entries EXCEPT ![a.id].infos[a.off].pos = a.from]
                  ELSE entries
    /\ UNCHANGED <<minit, position, disturbed, misplaced, dangling, heapFails>>

----------------------------------------------------------------------------

Next ==
    \/ Initialize \/ Finalize
    \/ \E a \in {"LargeHeap", "Dma"} : Allocate(a)
    \/ \E i \in Ids : Free(i)
    \/ \E i \in Ids, o \in Offsets :
          \/ Map(i, o) \/ Unmap(i, o) \/ Fclose(i, o)
          \/ \E t \in Tasks :
                \/ Fopen(t, i, o)
                \/ \E to \in Targets : Fseek(t, i, o, to)
                \/ \E size \in Sizes :
                      \/ Fwrite(t, i, o, size) \/ Fread(t, i, o, size)
                      \/ \E to \in Targets : \/ Fpwrite(t, i, o, to, size)
                                             \/ Fpread(t, i, o, to, size)
    \/ \E t \in Tasks : \/ FopenSeek(t) \/ EnterFile(t)
                        \/ FseekExec(t) \/ AccessExec(t) \/ Store(t)

Spec == Init /\ [][Next]_vars

----------------------------------------------------------------------------

\* An access that has its allocation to itself, by one handle and one task at
\* a time, meets the descriptor where the handle was left: every way in which
\* a handle is opened, closed, sought and written keeps the position of the
\* handle and the one of the descriptor together (memory_manager.c
\* EsfMemoryManagerFopen, FileIoFseekExec, FileIoFwriteFread).
AloneIsInPlace == misplaced \subseteq disturbed

\* Memory goes back to the heap only when no handle maps it and no file of it
\* is open; only the end of the manager takes it from its users
\* (memory_manager.c EsfMemoryManagerDiscardMemoryInfo).
FreedIsUnused ==
    [][\A i \in Ids : Exists(i) /\ ~Exists(i)' /\ minit'
                       => MapInfo(entries[i]) = {} /\ ~entries[i].fd]_vars
=============================================================================
