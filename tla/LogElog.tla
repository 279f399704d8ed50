------------------------------ MODULE LogElog ------------------------------
(***************************************************************************)
(* The event log of the log manager (log_manager_internal.c): senders put  *)
(* messages into the queue of the elog thread, which sends them to the     *)
(* cloud, or saves a few of them while the agent is not connected and      *)
(* sends them again later.  The thread also sends commands to itself.      *)
(* s_elog_queue_cnt is counted up before a message is put and counted down *)
(* after one was taken, so that nobody, the thread least of all, waits for *)
(* a slot: senders stop at ElogQueue, the thread itself at ElogQueue + 2.  *)
(*                                                                         *)
(* The EVP agent is external: it connects and disconnects, and reports the *)
(* end of a telemetry it accepted in a call of SYS_process_event.          *)
(***************************************************************************)
EXTENDS Integers, Sequences, FiniteSets, SequencesExt

CONSTANTS Senders,
          ElogQueue,   \* LOG_MANAGER_INTERNAL_ELOG_QUEUE_NUM
          SaveMax,     \* LOG_MANAGER_INTERNAL_ELOG_SAVE_NUM
          MaxElogs     \* bound: event logs sent

VARIABLES equeue,     \* the queue of the elog thread
          ecount,     \* s_elog_queue_cnt
          sender,     \* per sender, idle or with a message it has counted
          thread,     \* where the elog thread is
          eclient,    \* s_elog_sys_client # NULL
          connected,  \* EVP_getAgentStatus() = EVP_AGENT_STATUS_CONNECTED
          askedReg,   \* client_reg_req_flag
          saved,      \* s_elog_save_message
          accepted,   \* telemetries the agent has not ended
          delivered,  \* event logs the agent reported as sent
          deinit,     \* how far EsfLogManagerInternalDeinit is
          elogs       \* event logs sent so far

elogVars == <<equeue, ecount, sender, thread, eclient, connected, askedReg,
              saved, accepted, delivered, deinit, elogs>>

QueueSize == ElogQueue + 2  \* LOG_MANAGER_INTERNAL_MSG_QUEUE_SIZE

(* The value of the command is the priority of its message.                *)
Priority == [wait |-> 1, send |-> 2, resend |-> 3, register |-> 4, destroy |-> 5]
Msg(cmd, id) == [cmd |-> cmd, id |-> id]
Cmd(cmd) == Msg(cmd, 0)
At(p) == [at |-> p]

Init ==
  /\ equeue = <<>> /\ ecount = 0
  /\ sender = [s \in Senders |-> At("idle")]
  /\ thread = At("recv")
  /\ eclient \in BOOLEAN  \* Setup goes on when the agent refuses the client
  /\ connected = FALSE /\ askedReg = FALSE
  /\ saved = <<>> /\ accepted = {} /\ delivered = {}
  /\ deinit = At("no") /\ elogs = 0

-----------------------------------------------------------------------------
(* Mutant: the senders may use the whole queue.                            *)
SendElogUnreserved(s) ==
  /\ sender[s] = At("idle") /\ deinit = At("no") /\ elogs < MaxElogs
  /\ elogs' = elogs + 1
  /\ \/ /\ ecount < QueueSize
        /\ ecount' = ecount + 1
        /\ sender' = [sender EXCEPT ![s] = [at |-> "put", msg |-> Msg("send", elogs + 1)]]
     \/ UNCHANGED <<ecount, sender>>
  /\ UNCHANGED <<equeue, thread, eclient, connected, askedReg, saved, accepted,
                 delivered, deinit>>

(* EsfLogManagerInternalSendElog with SendCmdToElogThread: a message that  *)
(* is not wanted, cannot be serialised or finds the count at the limit is  *)
(* dropped.                                                                *)
SendElog(s) ==
  /\ sender[s] = At("idle") /\ deinit = At("no") /\ elogs < MaxElogs
  /\ elogs' = elogs + 1
  /\ \/ /\ ecount < ElogQueue
        /\ ecount' = ecount + 1
        /\ sender' = [sender EXCEPT ![s] = [at |-> "put", msg |-> Msg("send", elogs + 1)]]
     \/ UNCHANGED <<ecount, sender>>
  /\ UNCHANGED <<equeue, thread, eclient, connected, askedReg, saved, accepted,
                 delivered, deinit>>

(* UtilityMsgSend waits for a slot without a timeout; it fails without     *)
(* memory, and after Deinit closed the queue.  Then the count is taken     *)
(* back and the message freed.                                             *)
SenderPut(s) ==
  /\ sender[s].at = "put"
  /\ \/ /\ deinit # At("closed") /\ Len(equeue) < QueueSize
        /\ equeue' = Append(equeue, sender[s].msg)
        /\ UNCHANGED ecount
     \/ ecount' = ecount - 1 /\ UNCHANGED equeue
  /\ sender' = [sender EXCEPT ![s] = At("idle")]
  /\ UNCHANGED <<thread, eclient, connected, askedReg, saved, accepted,
                 delivered, deinit, elogs>>

-----------------------------------------------------------------------------
(* UtilityMsgRecv takes the first message of the highest priority.         *)
First == CHOOSE i \in DOMAIN equeue :
           \A j \in DOMAIN equeue :
             \/ Priority[equeue[j].cmd] < Priority[equeue[i].cmd]
             \/ equeue[j].cmd = equeue[i].cmd /\ j >= i

Receive ==
  /\ thread = At("recv") /\ equeue # <<>>
  /\ thread' = [at |-> "count", msg |-> equeue[First]]
  /\ equeue' = RemoveAt(equeue, First)
  /\ UNCHANGED <<ecount, sender, eclient, connected, askedReg, saved, accepted,
                 delivered, deinit, elogs>>

CountDown ==
  /\ thread.at = "count"
  /\ ecount' = ecount - 1
  /\ thread' = [thread EXCEPT !.at = thread.msg.cmd]
  /\ UNCHANGED <<equeue, sender, eclient, connected, askedReg, saved, accepted,
                 delivered, deinit, elogs>>

Handling == UNCHANGED <<equeue, ecount, sender, connected, deinit, elogs>>
ForceSend(msg) == thread' = [at |-> "force", msg |-> msg]

(* kCmdIsRegister: with a client already there is nothing to do.           *)
HandleRegister ==
  /\ thread.at = "register"
  /\ \/ eclient /\ thread' = At("recv") /\ UNCHANGED eclient
     \/ ~eclient /\ ForceSend(Cmd("register")) /\ UNCHANGED eclient
     \/ ~eclient /\ ForceSend(Cmd("wait")) /\ eclient' = TRUE
  /\ Handling /\ UNCHANGED <<askedReg, saved, accepted, delivered>>

(* Mutant: the message that is loaded stays in the list.                   *)
LoadElogKeeping(place) ==
  \/ saved = <<>> /\ thread' = At("recv") /\ UNCHANGED saved
  \/ saved # <<>> /\ thread' = [at |-> place, msg |-> Msg("resend", Head(saved))] /\ UNCHANGED saved

(* EsfLogManagerInternalLoadElog takes the oldest saved message; without   *)
(* memory it stays.                                                        *)
LoadElog(place) ==
  \/ saved = <<>> /\ thread' = At("recv") /\ UNCHANGED saved
  \/ saved # <<>> /\ thread' = At("recv") /\ UNCHANGED saved
  \/ saved # <<>> /\ saved' = Tail(saved) /\ thread' = [at |-> place, msg |-> Msg("resend", Head(saved))]

(* kCmdIsWait polls the agent once a second.                               *)
HandleWait ==
  /\ thread.at = "wait"
  /\ \/ ~connected /\ ForceSend(Cmd("wait")) /\ UNCHANGED <<askedReg, saved>>
     \/ connected /\ askedReg' = FALSE /\ LoadElog("force")
  /\ Handling /\ UNCHANGED <<eclient, accepted, delivered>>

(* kCmdIsSend and kCmdIsResend with a connection: a telemetry that is      *)
(* refused is freed.                                                       *)
SendTelemetry ==
  /\ thread.at \in {"send", "resend"} /\ eclient /\ connected
  /\ accepted' \in {accepted, accepted \cup {thread.msg.id}}
  /\ thread' = At("event")
  /\ Handling /\ UNCHANGED <<eclient, askedReg, saved, delivered>>

(* Without one the message is saved (EsfLogManagerInternalSaveElog), or    *)
(* dropped when SaveMax are saved or there is no memory, and the client is *)
(* registered, once until the connection is back.                          *)
SaveElog(id) ==
  \/ Len(saved) < SaveMax /\ saved' = Append(saved, id)
  \/ UNCHANGED saved

SaveForLater ==
  /\ thread.at \in {"send", "resend"} /\ ~(eclient /\ connected)
  /\ SaveElog(thread.msg.id)
  /\ IF askedReg THEN thread' = At("recv") /\ UNCHANGED askedReg
     ELSE ForceSend(Cmd("register")) /\ askedReg' = TRUE
  /\ Handling /\ UNCHANGED <<eclient, accepted, delivered>>

(* SYS_process_event without a limit of time returns after an event, which *)
(* need not be about the telemetry just sent, or fails, or stays.          *)
EventOther ==
  /\ thread.at = "event"
  /\ thread' = At("recv")
  /\ Handling /\ UNCHANGED <<eclient, askedReg, saved, accepted, delivered>>

(* EsfLogManagerInternalElogCallback, SYS_REASON_FINISHED: the next saved  *)
(* message is sent again, within the limit of the senders.                 *)
EventFinished(id) ==
  /\ thread.at = "event" /\ id \in accepted
  /\ accepted' = accepted \ {id}
  /\ delivered' = delivered \cup {id}
  /\ LoadElog("try")
  /\ Handling /\ UNCHANGED <<eclient, askedReg>>

EventError(id) ==
  /\ thread.at = "event" /\ id \in accepted
  /\ accepted' = accepted \ {id}
  /\ SaveElog(id)
  /\ thread' = At("recv")
  /\ Handling /\ UNCHANGED <<eclient, askedReg, delivered>>

(* Mutant: the thread sends to itself and does not count it.               *)
SelfSendUncounted ==
  /\ thread.at \in {"force", "try"}
  /\ IF ecount < (IF thread.at = "force" THEN QueueSize ELSE ElogQueue)
       THEN thread' = [thread EXCEPT !.at = "put"]
       ELSE thread' = At("recv")
  /\ UNCHANGED <<equeue, ecount, sender, eclient, connected, askedReg, saved,
                 accepted, delivered, deinit, elogs>>

(* SendCmdForceToElogThread says Ok when it sends nothing;                 *)
(* SendCmdToElogThread fails, and the message is freed.                    *)
CountUp ==
  /\ thread.at \in {"force", "try"}
  /\ IF ecount < (IF thread.at = "force" THEN QueueSize ELSE ElogQueue)
       THEN ecount' = ecount + 1 /\ thread' = [thread EXCEPT !.at = "put"]
       ELSE thread' = At("recv") /\ UNCHANGED ecount
  /\ UNCHANGED <<equeue, sender, eclient, connected, askedReg, saved, accepted,
                 delivered, deinit, elogs>>

(* Mutant: a message that could not be sent stays counted.                 *)
ThreadPutCounted ==
  /\ thread.at = "put" /\ Len(equeue) < QueueSize
  /\ equeue' \in {equeue, Append(equeue, thread.msg)}
  /\ thread' = At("recv")
  /\ UNCHANGED <<ecount, sender, eclient, connected, askedReg, saved, accepted,
                 delivered, deinit, elogs>>

(* A command that cannot be sent for lack of memory is gone, which is only *)
(* logged: the thread may then poll the agent no more.                     *)
ThreadPut ==
  /\ thread.at = "put"
  /\ \/ /\ Len(equeue) < QueueSize
        /\ equeue' = Append(equeue, thread.msg)
        /\ UNCHANGED ecount
     \/ ecount' = ecount - 1 /\ UNCHANGED equeue
  /\ thread' = At("recv")
  /\ UNCHANGED <<sender, eclient, connected, askedReg, saved, accepted,
                 delivered, deinit, elogs>>

(* Mutant: the thread goes on receiving.                                   *)
HandleDestroyLate ==
  /\ thread.at = "destroy"
  /\ thread' = At("recv")
  /\ Handling /\ UNCHANGED <<eclient, askedReg, saved, accepted, delivered>>

HandleDestroy ==
  /\ thread.at = "destroy"
  /\ thread' = At("ended")
  /\ Handling /\ UNCHANGED <<eclient, askedReg, saved, accepted, delivered>>

(* The agent gains or loses its connection.                                *)
Reconnect ==
  /\ connected' = ~connected
  /\ UNCHANGED <<equeue, ecount, sender, thread, eclient, askedReg, saved,
                 accepted, delivered, deinit, elogs>>

-----------------------------------------------------------------------------
(* Deinit: EsfLogManagerInternalDestroyElogThread sends the destroy        *)
(* command as the thread sends its own, and joins the thread, also when    *)
(* there was no room for it; then the saved messages and the queue are     *)
(* cleared, the queue is closed and the client unregistered.  When it      *)
(* could not be sent, Deinit has failed: the log manager is Invalid, its   *)
(* thread goes on, and Deinit is not taken again.                          *)
DestroyElogThread ==
  /\ deinit = At("no")
  /\ IF ecount < QueueSize
       THEN ecount' = ecount + 1 /\ deinit' = [at |-> "put", msg |-> Cmd("destroy")]
       ELSE deinit' = At("unsent") /\ UNCHANGED ecount
  /\ UNCHANGED <<equeue, sender, thread, eclient, connected, askedReg, saved,
                 accepted, delivered, elogs>>

DestroyPut ==
  /\ deinit.at = "put"
  /\ \/ /\ Len(equeue) < QueueSize
        /\ equeue' = Append(equeue, deinit.msg) /\ deinit' = At("join")
        /\ UNCHANGED ecount
     \/ ecount' = ecount - 1 /\ deinit' = At("failed") /\ UNCHANGED equeue
  /\ UNCHANGED <<sender, thread, eclient, connected, askedReg, saved,
                 accepted, delivered, elogs>>

Close ==
  /\ deinit.at \in {"join", "unsent"} /\ thread = At("ended")
  /\ saved' = <<>> /\ equeue' = <<>> /\ ecount' = 0
  /\ eclient' = FALSE /\ accepted' = {}
  /\ deinit' = At("closed")
  /\ UNCHANGED <<sender, thread, connected, askedReg, delivered, elogs>>

(* A new start, when no call of SendElog is left from before.              *)
SetupElog ==
  /\ deinit = At("closed") /\ \A s \in Senders : sender[s] = At("idle")
  /\ ecount = 0
  /\ deinit' = At("no") /\ thread' = At("recv") /\ askedReg' = FALSE
  /\ eclient' \in BOOLEAN
  /\ UNCHANGED <<equeue, ecount, sender, connected, saved, accepted, delivered, elogs>>

-----------------------------------------------------------------------------
ElogThread ==
  \/ Receive \/ CountDown \/ HandleRegister \/ HandleWait \/ SendTelemetry
  \/ SaveForLater \/ CountUp \/ ThreadPut \/ HandleDestroy
EventReturns ==
  EventOther \/ \E id \in accepted : EventFinished(id) \/ EventError(id)
Next ==
  \/ \E s \in Senders : SendElog(s) \/ SenderPut(s)
  \/ ElogThread \/ EventReturns \/ Reconnect
  \/ DestroyElogThread \/ DestroyPut \/ Close \/ SetupElog
Spec == Init /\ [][Next]_elogVars

-----------------------------------------------------------------------------
(* Until the queue is closed the count is the messages in the queue, those *)
(* counted and not yet put and the one taken and not yet counted down; so  *)
(* no put ever waits, and the thread never waits for itself.               *)
Holds(b) == IF b THEN 1 ELSE 0
QueueCountIsExact ==
  deinit # At("closed") =>
    /\ ecount = Len(equeue) + Cardinality({s \in Senders : sender[s].at = "put"})
                + Holds(thread.at \in {"count", "put"}) + Holds(deinit.at = "put")
    /\ ecount <= QueueSize

(* An event log is in one place: with a sender, in the queue, with the     *)
(* thread, with the agent, saved or delivered.  None is sent twice.        *)
ElogPlaces(id) ==
  Cardinality({s \in Senders : sender[s].at = "put" /\ sender[s].msg.id = id})
  + Cardinality({i \in DOMAIN equeue : equeue[i].id = id})
  + Holds(thread.at \in {"count", "send", "resend", "put", "try", "force"}
          /\ thread.msg.id = id)
  + Cardinality({i \in DOMAIN saved : saved[i] = id})
  + Holds(id \in accepted) + Holds(id \in delivered)
ElogInOnePlace == \A id \in 1..elogs : ElogPlaces(id) <= 1

(* "Allocate a queue space to destroy thread": the slots the senders leave *)
(* free are there for the destroy command when Deinit needs one.           *)
DestroyIsSent == deinit # At("unsent")

(* A Deinit that has counted its command ends: with the queue closed, or   *)
(* with an error because the command could not be sent.  Once the command  *)
(* is in the queue the thread takes it, although the thread puts commands  *)
(* into the same queue itself, and whatever was lost before.  Only an      *)
(* agent that never returns from SYS_process_event keeps Deinit waiting.   *)
DeinitCompletes ==
  deinit.at \in {"put", "join"} ~>
    deinit.at \in {"closed", "failed"} \/ [](thread = At("event"))

(* What Deinit waits for is under way: its command and the thread's own    *)
(* find a slot, the command is the next the thread takes, and nothing else *)
(* ends the thread, so that the join is not of a thread that left early    *)
(* and a Deinit that failed leaves the thread running.                     *)
DestroyIsHeard ==
  /\ deinit.at = "put" \/ thread.at = "put" => Len(equeue) < QueueSize
  /\ deinit.at = "join" /\ thread = At("recv") =>
       equeue # <<>> /\ equeue[First].cmd = "destroy"
  /\ thread = At("ended") => deinit.at \in {"join", "closed"}

(* The queue is sound: its count, each log in one place, room for the      *)
(* destroy command, and an end to Deinit's wait (log_manager_internal.c).  *)
ElogQueueIsSound ==
  QueueCountIsExact /\ ElogInOnePlace /\ DestroyIsSent /\ DestroyIsHeard

=============================================================================
