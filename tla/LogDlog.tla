------------------------------ MODULE LogDlog ------------------------------
(***************************************************************************)
(* The debug log of the log manager (log_manager_internal.c): writers fill *)
(* the current of two RAM planes under one mutex; a full plane is handed   *)
(* to the collector thread by a message that holds the plane's address and *)
(* size, built after the mutex is given back.  The collector copies the    *)
(* plane without the mutex, takes the mutex to clear it, and registers the *)
(* copy for the upload.  When nothing is received for a second it swaps    *)
(* the planes itself if a critical log has waited too long, and sends the  *)
(* message to its own queue.                                               *)
(*                                                                         *)
(* A log is its number, and takes one unit of a plane.  overrun says that  *)
(* data may have been given up: a plane was taken back before it was       *)
(* collected, nobody could be told of it, or a copy could not be allocated *)
(* or registered.                                                          *)
(***************************************************************************)
EXTENDS Integers, Sequences, SequencesExt

CONSTANTS Writers,      \* threads that write logs
          PlaneSize,    \* logs a plane holds (CONFIG_..._DLOG_SIZE_OF_BUF)
          DlogQueue,    \* messages the queue holds (LOG_MANAGER_INTERNAL_MSG_QUEUE_SIZE)
          MaxLogs       \* bound: logs written

VARIABLES plane,      \* the two planes: memory, units stored, critical flag
          current,    \* s_dlog_buff_idx
          oldest,     \* s_dlog_oldest_buff_idx
          stored,     \* s_dlog_store_of_temp_bytebuffer
          halfUse,    \* s_is_dlog_buffer_status = kBufferStatusHalfUse
          critical,   \* s_critical_log_pending
          dqueue,     \* messages for the collector
          writer,     \* where each writer is, and its message
          collector,  \* where the collector is, and what it holds
          uploads,    \* chunks registered for the upload
          logs,       \* logs written: their criticality, in order
          overrun     \* data may have been given up

dlogVars == <<plane, current, oldest, stored, halfUse, critical, dqueue,
              writer, collector, uploads, logs, overrun>>

Planes == {0, 1}
Other(p) == 1 - p
Idle == [at |-> "idle"]
Bulk == [data |-> <<>>, critical |-> FALSE]  \* a bulk log, whose data is left out

Init ==
  /\ plane = [p \in Planes |-> [mem |-> <<>>, used |-> 0, critical |-> FALSE]]
  /\ current = 0 /\ oldest = 0 /\ stored = 0
  /\ halfUse = FALSE /\ critical = FALSE
  /\ dqueue = <<>>
  /\ writer = [w \in Writers |-> Idle]
  /\ collector = Idle
  /\ uploads = <<>> /\ logs = <<>> /\ overrun = FALSE

-----------------------------------------------------------------------------
(* BYTEBUFFER_Clear rewinds the plane: its memory keeps the old bytes.     *)
Cleared(pl) == [pl EXCEPT !.used = 0, !.critical = FALSE]

(* BYTEBUFFER_PushBack at the write position.                              *)
Pushed(pl, l) ==
  [pl EXCEPT !.mem = SubSeq(@, 1, pl.used) \o <<l>>
                     \o SubSeq(@, pl.used + 2, Len(@)),
             !.used = @ + 1]

(* EsfLogManagerInternalChangeDlogByteBuffer: the plane that was current   *)
(* is the one to collect.  If the other one has not been collected yet, it *)
(* is cleared and its logs are given up.                                   *)
SwappedPlanes ==
  IF halfUse THEN [plane EXCEPT ![Other(current)] = Cleared(@)] ELSE plane

(* Mutant: the size to collect is not taken along.                         *)
SwapKeepingSize ==
  /\ oldest' = current
  /\ current' = Other(current)
  /\ UNCHANGED stored
  /\ halfUse' = TRUE
  /\ overrun' = (overrun \/ halfUse)

Swap ==
  /\ oldest' = current
  /\ current' = Other(current)
  /\ stored' = plane[current].used
  /\ halfUse' = TRUE
  /\ overrun' = (overrun \/ halfUse)

(* The write of a log, under s_mutex_for_bytebuffer and                    *)
(* s_critical_log_mutex.                                                   *)
Mark(pls, p, l, crit) ==
  [pls EXCEPT ![p] = [Pushed(@, l) EXCEPT !.critical = pls[p].critical \/ crit]]

WriteFits(w, crit) ==
  /\ plane[current].used < PlaneSize
  /\ plane' = Mark(plane, current, Len(logs) + 1, crit)
  /\ critical' = (critical \/ crit)
  /\ UNCHANGED <<current, oldest, stored, halfUse, writer, overrun>>

WriteFull(w, crit) ==
  /\ plane[current].used >= PlaneSize
  /\ Swap
  /\ IF SwappedPlanes[Other(current)].used < PlaneSize
       THEN /\ plane' = Mark(SwappedPlanes, Other(current), Len(logs) + 1, crit)
            /\ critical' = crit
            /\ writer' = [writer EXCEPT ![w] = [at |-> "collect"]]
       ELSE /\ plane' = SwappedPlanes  \* the push fails: nobody is told
            /\ critical' = FALSE
            /\ UNCHANGED writer

WriteDlog(w) ==
  /\ writer[w] = Idle /\ Len(logs) < MaxLogs
  /\ \E crit \in BOOLEAN :
       /\ WriteFits(w, crit) \/ WriteFull(w, crit)
       /\ logs' = Append(logs, crit)
  /\ UNCHANGED <<dqueue, collector, uploads>>

(* EsfLogManagerInternalDlogFullCollector builds the message from the      *)
(* global variables, without a mutex.                                      *)
PlaneMsg ==
  [cmd |-> "plane", of |-> oldest, size |-> stored,
   critical |-> plane[oldest].critical]

FullCollector(w) ==
  /\ writer[w].at = "collect"
  /\ writer' = [writer EXCEPT ![w] = [at |-> "send", msg |-> PlaneMsg]]
  /\ UNCHANGED <<plane, current, oldest, stored, halfUse, critical, dqueue,
                 collector, uploads, logs, overrun>>

(* EsfLogManagerInternalSendBulkDlog copies the caller's data; the module  *)
(* must be a known one and the copy needs memory, or nothing is sent.      *)
SendBulkDlog(w) ==
  /\ writer[w] = Idle
  /\ writer' = [writer EXCEPT ![w] = [at |-> "send", msg |-> [cmd |-> "bulk"]]]
  /\ UNCHANGED <<plane, current, oldest, stored, halfUse, critical, dqueue,
                 collector, uploads, logs, overrun>>

(* UtilityMsgSend waits for a free slot of the queue, without a timeout.   *)
SendCmd(w) ==
  /\ writer[w].at = "send" /\ Len(dqueue) < DlogQueue
  /\ dqueue' = Append(dqueue, writer[w].msg)
  /\ writer' = [writer EXCEPT ![w] = Idle]
  /\ UNCHANGED <<plane, current, oldest, stored, halfUse, critical, collector,
                 uploads, logs, overrun>>

(* Without memory it fails: a bulk log is freed, a plane is not collected, *)
(* and stays in half use until it is taken back.                           *)
SendCmdFails(w) ==
  /\ writer[w].at = "send"
  /\ overrun' = (overrun \/ writer[w].msg.cmd = "plane")
  /\ writer' = [writer EXCEPT ![w] = Idle]
  /\ UNCHANGED <<plane, current, oldest, stored, halfUse, critical, dqueue,
                 collector, uploads, logs>>

-----------------------------------------------------------------------------
(* The collector, EsfLogManagerInternalWriteDlogThread.                    *)
Collecting(c) ==
  /\ collector' = c
  /\ UNCHANGED <<writer, logs>>

Receive ==
  /\ collector = Idle /\ dqueue # <<>>
  /\ dqueue' = Tail(dqueue)
  /\ LET msg == Head(dqueue) IN
       IF msg.cmd = "bulk"
         THEN Collecting([at |-> "register", chunk |-> Bulk])
         ELSE Collecting([at |-> "backup", msg |-> msg])
  /\ UNCHANGED <<plane, current, oldest, stored, halfUse, critical, uploads, overrun>>

(* EsfLogManagerInternalBackupBuffer: without memory the plane is not      *)
(* cleared and nothing collects it.  The copy is made without the mutex.   *)
BackupFails ==
  /\ collector.at = "backup"
  /\ Collecting(Idle)
  /\ overrun' = TRUE
  /\ UNCHANGED <<plane, current, oldest, stored, halfUse, critical, dqueue, uploads>>

BackupCopy ==
  /\ collector.at = "backup"
  /\ LET msg == collector.msg IN
       Collecting([at |-> "clear",
                   chunk |-> [data |-> SubSeq(plane[msg.of].mem, 1, msg.size),
                              critical |-> msg.critical]])
  /\ UNCHANGED <<plane, current, oldest, stored, halfUse, critical, dqueue,
                 uploads, overrun>>

(* Mutant: the plane is given back and not cleared.                        *)
BackupNoClear ==
  /\ collector.at = "clear"
  /\ halfUse' = FALSE
  /\ Collecting([at |-> "register", chunk |-> collector.chunk])
  /\ UNCHANGED <<plane, current, oldest, stored, critical, dqueue, uploads, overrun>>

(* The plane it clears is the one that is the oldest now.                  *)
BackupClear ==
  /\ collector.at = "clear"
  /\ plane' = [plane EXCEPT ![oldest] = Cleared(@)]
  /\ halfUse' = FALSE
  /\ Collecting([at |-> "register", chunk |-> collector.chunk])
  /\ UNCHANGED <<current, oldest, stored, critical, dqueue, uploads, overrun>>

(* The copy is registered for the upload, or freed: the encryption or the  *)
(* registration failed, or the list is full.                               *)
Register ==
  /\ collector.at = "register"
  /\ Collecting(Idle)
  /\ \/ collector.chunk = Bulk /\ UNCHANGED <<uploads, overrun>>
     \/ /\ collector.chunk # Bulk
        /\ \/ uploads' = Append(uploads, collector.chunk) /\ UNCHANGED overrun
           \/ overrun' = TRUE /\ UNCHANGED uploads
  /\ UNCHANGED <<plane, current, oldest, stored, halfUse, critical, dqueue>>

(* A second without a message: EsfLogManagerInternalHandleCriticalLogTiming *)
(* swaps the planes if the critical log is old enough.                      *)
CriticalTiming ==
  /\ collector = Idle /\ dqueue = <<>> /\ critical
  /\ Swap
  /\ plane' = SwappedPlanes
  /\ critical' = FALSE
  /\ Collecting([at |-> "timing"])
  /\ UNCHANGED <<dqueue, uploads>>

TimingCollector ==
  /\ collector.at = "timing"
  /\ Collecting([at |-> "send", msg |-> PlaneMsg])
  /\ UNCHANGED <<plane, current, oldest, stored, halfUse, critical, dqueue,
                 uploads, overrun>>

TimingSend ==
  /\ collector.at = "send" /\ Len(dqueue) < DlogQueue
  /\ dqueue' = Append(dqueue, collector.msg)
  /\ Collecting(Idle)
  /\ UNCHANGED <<plane, current, oldest, stored, halfUse, critical, uploads, overrun>>

TimingSendFails ==
  /\ collector.at = "send"
  /\ overrun' = TRUE
  /\ Collecting(Idle)
  /\ UNCHANGED <<plane, current, oldest, stored, halfUse, critical, dqueue, uploads>>

-----------------------------------------------------------------------------
Write(w) ==
  \/ WriteDlog(w) \/ FullCollector(w) \/ SendBulkDlog(w)
  \/ SendCmd(w) \/ SendCmdFails(w)
Collect ==
  \/ Receive \/ BackupFails \/ BackupCopy \/ BackupClear \/ Register
  \/ CriticalTiming \/ TimingCollector \/ TimingSend \/ TimingSendFails

Next == (\E w \in Writers : Write(w)) \/ Collect
Spec == Init /\ [][Next]_dlogVars

-----------------------------------------------------------------------------
(* The half-use flag, the fill levels and the pending flag, which three    *)
(* functions maintain on two threads, agree: with no plane to collect the  *)
(* other plane is empty (so a push after a swap finds room), and a pending *)
(* critical log is in the current plane, whose flag is set.                *)
PlanesAgree ==
  /\ current # oldest => stored <= PlaneSize
  /\ ~halfUse => plane[Other(current)].used = 0 /\ ~plane[Other(current)].critical
  /\ critical => plane[current].critical /\ plane[current].used > 0

(* The logs after number n, up to number m, and the last log of the first  *)
(* i chunks registered.                                                    *)
Run(n, m) == [k \in 1..(m - n) |-> n + k]
LastLog(i) == IF i = 0 THEN 0 ELSE Last(uploads[i].data)

(* What is on its way to the upload: with no overrun only one plane can be.*)
InHand ==
  (IF collector.at = "register" THEN collector.chunk.data ELSE <<>>)
  \o (IF halfUse THEN SubSeq(plane[oldest].mem, 1, stored) ELSE <<>>)

(* Until a plane is taken back or given up, the chunks registered,         *)
(* what is in hand and the current plane hold all the logs, once and in    *)
(* order, although the plane is announced and copied outside the mutex; no *)
(* chunk is empty, and it is marked critical if one of its logs is.        *)
EveryLogOnce ==
  ~overrun =>
    /\ \A i \in DOMAIN uploads :
         /\ uploads[i].data # <<>>
         /\ uploads[i].data = Run(LastLog(i - 1), LastLog(i))
         /\ uploads[i].critical <=> \E l \in ToSet(uploads[i].data) : logs[l]
    /\ InHand \o SubSeq(plane[current].mem, 1, plane[current].used)
         = Run(LastLog(Len(uploads)), Len(logs))

(* The planes and the logs in them agree (bytebuffer.c).                   *)
DlogIsSound == PlanesAgree /\ EveryLogOnce

=============================================================================
