----------------------------- MODULE LogUpload -----------------------------
(***************************************************************************)
(* The upload of debug logs (log_manager_list.c and the blob thread of     *)
(* log_manager_internal.c).  The collector registers chunks at the head of *)
(* a list for the local and one for the cloud upload; the blob thread      *)
(* takes the local list, the cloud list and one event of the EVP agent in  *)
(* turn.  No function is told which entry it is about: each searches its   *)
(* list for the priority entry, else the oldest critical one, else the     *)
(* oldest one, under the mutex of the list.                                *)
(*                                                                         *)
(* The agent is external: it calls back for an upload it was given until   *)
(* that upload ends, and after an error of SYS_process_event it does not   *)
(* call back for uploads it was given before.                              *)
(***************************************************************************)
EXTENDS Integers, Sequences, SequencesExt, FiniteSets

CONSTANTS UploadListMax,   \* CONFIG_EXTERNAL_LOG_MANAGER_LOCAL/CLOUD_LIST_MAX_NUM
          MaxRetry,        \* LOG_MANAGER_INTERNAL_MAX_RETRY_COUNT
          MaxChunks,       \* bound: chunks registered
          MaxUnfilled      \* bound: kinds unfilled at a time

VARIABLES list,      \* per kind, the entries from the head on
          blob,      \* where the blob thread is, and the entry it holds
          finFlag,   \* s_blob_thread_fin_flag
          client,    \* s_dlog_sys_client # NULL
          given,     \* per kind, uploads the agent has and has not ended
          unfilled,  \* kinds of which the agent got no data for an upload
          chunks     \* chunks registered so far

uploadVars == <<list, blob, finFlag, client, given, unfilled, chunks>>

Kinds == {"local", "cloud"}

Init ==
  /\ list = [k \in Kinds |-> <<>>]
  /\ blob = [at |-> "loop"] /\ finFlag = FALSE
  /\ client \in BOOLEAN  \* Setup goes on when the agent refuses the client
  /\ given = [k \in Kinds |-> {}] /\ unfilled = {}
  /\ chunks = 0

-----------------------------------------------------------------------------
(* The search every function of the list makes: each loop keeps the last   *)
(* match, and entries are inserted at the head, so the last is the oldest. *)
LastOf(match) ==
  IF match = {} THEN 0 ELSE CHOOSE i \in match : \A j \in match : j <= i

Target(l) ==
  LET priority == LastOf({i \in DOMAIN l : l[i].priority})
      critical == LastOf({i \in DOMAIN l : l[i].critical})
  IN IF priority # 0 THEN priority
     ELSE IF critical # 0 THEN critical
     ELSE Len(l)

(* EsfLogManagerSetLocalUploadStatus, EsfLogManagerSetCloudUploadStatus.   *)
WithStatus(l, status) ==
  IF l = <<>> THEN l
  ELSE [l EXCEPT ![Target(l)].status = status,
                 ![Target(l)].priority = @ /\ status # "request"]

(* EsfLogManagerUnregister...ListDataPriority.                             *)
WithoutTarget(l) == IF l = <<>> THEN l ELSE RemoveAt(l, Target(l))

(* Mutant: the entry that is taken is not made the priority.               *)
WithoutPriority(l) == l

(* EsfLogManagerGet...PriorityUploadData makes its result the priority.    *)
WithPriority(l) == IF l = <<>> THEN l ELSE [l EXCEPT ![Target(l)].priority = TRUE]

(* EsfLogManagerInternalHandleUploadRetry: the count is of the entry the   *)
(* agent calls back for, the status of the target of the list.  An entry   *)
(* that is no longer there was freed, and its count is whatever is there.  *)
Retried(l, id) ==
  LET counted == [i \in DOMAIN l |->
                    IF l[i].id = id THEN [l[i] EXCEPT !.retries = @ + 1] ELSE l[i]]
      again == \E i \in DOMAIN l : l[i].id = id /\ l[i].retries + 1 < MaxRetry
      freed == \A i \in DOMAIN l : l[i].id # id
  IN {WithStatus(counted, status) : status \in
        {s \in {"request", "finished"} : freed \/ (s = "request" <=> again)}}

-----------------------------------------------------------------------------
(* The collector thread checks the length of the list, the only one to     *)
(* make it longer, and inserts a new entry.                                *)
RegisterList(k) ==
  /\ chunks < MaxChunks
  /\ Len(list[k]) < UploadListMax
  /\ \E crit \in BOOLEAN :
       list' = [list EXCEPT ![k] =
                  <<[id |-> chunks + 1, critical |-> crit, priority |-> FALSE,
                     status |-> "request", retries |-> 0]>> \o @]
  /\ chunks' = chunks + 1
  /\ UNCHANGED <<blob, finFlag, client, given, unfilled>>

(* The blob thread at the top of its loop.                                 *)
SendBlobLoop ==
  /\ blob.at = "loop"
  /\ IF finFlag THEN blob' = [at |-> "ended"] /\ UNCHANGED client
     ELSE IF client THEN blob' = [at |-> "local"] /\ UNCHANGED client
     ELSE client' \in BOOLEAN /\ UNCHANGED blob
  /\ UNCHANGED <<list, finFlag, given, unfilled, chunks>>

NextKind(k) == IF k = "local" THEN [at |-> "cloud"] ELSE [at |-> "event"]

(* LocalUpload and CloudUpload take the target and look at its status.     *)
GetPriority(k) ==
  /\ blob.at = k
  /\ list' = [list EXCEPT ![k] = WithPriority(@)]
  /\ blob' = IF list[k] = <<>> THEN NextKind(k)
             ELSE [at |-> "upload", kind |-> k, entry |-> list[k][Target(list[k])]]
  /\ UNCHANGED <<finFlag, client, given, unfilled, chunks>>

(* A request is given to the agent.  Without memory for the names nothing  *)
(* happens; a refused one is requested again.                              *)
PutBlob ==
  /\ blob.at = "upload" /\ blob.entry.status = "request"
  /\ LET k == blob.kind IN
       /\ blob' = NextKind(k)
       /\ \/ UNCHANGED <<list, given>>
          \/ /\ list' = [list EXCEPT ![k] = WithStatus(@, "request")]
             /\ UNCHANGED given
          \/ /\ list' = [list EXCEPT ![k] = WithStatus(@, "uploading")]
             /\ given' = [given EXCEPT ![k] = @ \cup {blob.entry.id}]
  /\ UNCHANGED <<finFlag, client, unfilled, chunks>>

UploadRuns ==
  /\ blob.at = "upload" /\ blob.entry.status = "uploading"
  /\ blob' = NextKind(blob.kind)
  /\ UNCHANGED <<list, finFlag, client, given, unfilled, chunks>>

(* A finished entry is removed; its owner is called back or its data freed.*)
UnregisterPriority ==
  /\ blob.at = "upload" /\ blob.entry.status = "finished"
  /\ list' = [list EXCEPT ![blob.kind] = WithoutTarget(@)]
  /\ blob' = NextKind(blob.kind)
  /\ UNCHANGED <<finFlag, client, given, unfilled, chunks>>

(* SYS_process_event.  TIMEOUT, and MORE_DATA with a buffer, leave the     *)
(* upload running.                                                         *)
EventNone ==
  /\ blob.at = "event"
  /\ blob' = [at |-> "loop"]
  /\ UNCHANGED <<list, finFlag, client, given, unfilled, chunks>>

(* MORE_DATA without a buffer: an upload is requested again and the agent  *)
(* is told nothing, so it still has the one it asked about.                *)
EventUnfilled(k, id) ==
  /\ blob.at = "event" /\ id \in given[k]
  /\ blob' = [at |-> "loop"]
  /\ list' = [list EXCEPT ![k] = WithStatus(@, "request")]
  /\ unfilled' = unfilled \cup {k} /\ Cardinality(unfilled') <= MaxUnfilled
  /\ UNCHANGED <<finFlag, client, given, chunks>>

(* An upload of the agent ends.  Of an unfilled kind it may have a chunk   *)
(* several times, and may call back again for each it was given.           *)
Ends(k, id) ==
  /\ blob.at = "event" /\ id \in given[k]
  /\ blob' = [at |-> "loop"]
  /\ given' = IF k \in unfilled THEN given ELSE [given EXCEPT ![k] = @ \ {id}]

EventFinished(k, id) ==
  /\ Ends(k, id)
  /\ list' = [list EXCEPT ![k] = WithStatus(@, "finished")]
  /\ UNCHANGED <<finFlag, client, unfilled, chunks>>

(* SYS_REASON_ERROR, or a callback with an error or a status that is not   *)
(* one of success (EsfLogManagerInternalCheckBlobCallbackArguments).       *)
EventError(k, id) ==
  /\ Ends(k, id)
  /\ \E l \in Retried(list[k], id) : list' = [list EXCEPT ![k] = l]
  /\ UNCHANGED <<finFlag, client, unfilled, chunks>>

(* An error of the call requests both uploads again; SHOULD_EXIT gives the *)
(* client back too.                                                        *)
ProcessEventFails ==
  /\ blob.at = "event"
  /\ blob' = [at |-> "loop"]
  /\ client' \in BOOLEAN
  /\ list' = [k \in Kinds |-> WithStatus(list[k], "request")]
  /\ given' = [k \in Kinds |-> {}] /\ unfilled' = {}
  /\ UNCHANGED <<finFlag, chunks>>

-----------------------------------------------------------------------------
(* Deinit: DestroyBlobCollector raises the flag and joins the thread; the  *)
(* lists are deleted afterwards and the client is forgotten.  Setup starts *)
(* the thread again.                                                       *)
DestroyBlobCollector ==
  /\ ~finFlag /\ blob.at # "ended"
  /\ finFlag' = TRUE
  /\ UNCHANGED <<list, blob, client, given, unfilled, chunks>>

DeleteUploadLists ==
  /\ finFlag /\ blob.at = "ended"
  /\ finFlag' = FALSE
  /\ list' = [k \in Kinds |-> <<>>]
  /\ given' = [k \in Kinds |-> {}] /\ unfilled' = {}
  /\ client' = FALSE
  /\ UNCHANGED <<blob, chunks>>

SetupUpload ==
  /\ blob.at = "ended" /\ ~finFlag
  /\ blob' = [at |-> "loop"]
  /\ client' \in BOOLEAN
  /\ UNCHANGED <<list, finFlag, given, unfilled, chunks>>

-----------------------------------------------------------------------------
Events(Event(_, _)) == \E k \in Kinds : \E id \in given[k] : Event(k, id)
BlobThread ==
  \/ SendBlobLoop \/ (\E k \in Kinds : GetPriority(k))
  \/ PutBlob \/ UploadRuns \/ UnregisterPriority
  \/ EventNone \/ Events(EventUnfilled) \/ Events(EventFinished) \/ Events(EventError) \/ ProcessEventFails
Next ==
  \/ BlobThread
  \/ \E k \in Kinds : RegisterList(k)
  \/ DestroyBlobCollector \/ DeleteUploadLists \/ SetupUpload
Spec == Init /\ [][Next]_uploadVars

(* The agent is given one upload of a kind at a time, and while it has it, *)
(* that chunk is in its list, is the only priority entry and is marked as  *)
(* uploading: what a callback does to "the target" it does to the chunk    *)
(* the callback is about, whatever was registered in between.  After a     *)
(* callback without a buffer the code requests a chunk that the agent has, *)
(* and none of it holds until the uploads of that kind are begun anew.     *)
GivenIsTheTarget ==
  \A k \in Kinds \ unfilled : \A id \in given[k] :
    /\ given[k] = {id}
    /\ list[k] # <<>>
    /\ LET e == list[k][Target(list[k])] IN
         e.id = id /\ e.priority /\ e.status = "uploading"

=============================================================================
