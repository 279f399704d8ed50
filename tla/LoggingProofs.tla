---------------------------- MODULE LoggingProofs ----------------------------
(***************************************************************************)
(* Proofs about the log library, the uploads, the event log, the settings  *)
(* and the debug log of the log manager, and about the timers, for the one *)
(* run that model-checks them all.  Each part has an inductive invariant   *)
(* of its own: a step of the part keeps it, and a step of another part     *)
(* leaves its variables alone.                                             *)
(***************************************************************************)
EXTENDS MCLogging, SequenceTheorems, FiniteSetTheorems, WellFoundedInduction, TLAPS

-----------------------------------------------------------------------------
(* The log library. *)

(* Who calls, and which modules are known, does not change. *)
LibraryIInv ==
  /\ user = [u \in LogUsers |-> user[u]]
  /\ modParams = [m \in LogModules |-> modParams[m]]
  /\ modCallback = [m \in LogModules |-> modCallback[m]]
  /\ toldSince = [m \in LogModules |-> toldSince[m]]
  /\ LevelIsTold

\* Every step of the log library keeps its invariant.
LEMMA LibraryStep == LibraryIInv /\ Library!Next => LibraryIInv'
<1> SUFFICES ASSUME LibraryIInv, Library!Next PROVE LibraryIInv'
  OBVIOUS
<1> USE DEF LibraryIInv, LevelIsTold, Library!LevelIsTold, Library!Calls, Library!AtRest
<1>1. CASE Library!UtilityLogInit \/ Library!UtilityLogDeinit
  BY <1>1 DEF Library!UtilityLogInit, Library!UtilityLogDeinit
<1>2. ASSUME NEW u \in LogUsers, Library!WriteDlogInternal(u) PROVE LibraryIInv'
  BY <1>2 DEF Library!WriteDlogInternal
<1>3. ASSUME NEW u \in LogUsers, Library!Tell(u) PROVE LibraryIInv'
  BY <1>3 DEF Library!Tell
<1>4. ASSUME NEW u \in LogUsers, NEW m \in LogModules, Library!RegisterSetDLogLevelCallback(u, m)
      PROVE  LibraryIInv'
  <2>1. user' = [user EXCEPT ![u] = [at |-> "tell", module |-> m, level |-> modParams[m].level]]
    BY <1>4 DEF Library!RegisterSetDLogLevelCallback
  <2>2. user'[u].at = "tell" /\ user'[u].module = m /\ user'[u].level = modParams[m].level
    BY <2>1
  <2>3. /\ user[u] = [at |-> "idle"] /\ modParams' = modParams
        /\ modCallback' = [modCallback EXCEPT ![m] = TRUE]
        /\ toldSince' = [toldSince EXCEPT ![m] = {}]
    BY <1>4 DEF Library!RegisterSetDLogLevelCallback
  <2>4. \A v \in LogUsers \ {u} : user'[v] = user[v]
    BY <2>1
  <2>5. LevelIsTold'
    BY <2>2, <2>3, <2>4
  <2>6. user' = [v \in LogUsers |-> user'[v]]
    BY <2>1
  <2> QED BY <2>3, <2>5, <2>6
<1>5. ASSUME NEW u \in LogUsers, NEW m \in LogModules, NEW l \in Library!DlogLevels,
             Library!WriteDLog(u, m, l) \/ Library!WriteBulkDLog(u, m, l)
      PROVE  LibraryIInv'
  BY <1>5 DEF Library!WriteDLog, Library!WriteBulkDLog
<1>6. ASSUME NEW u \in LogUsers, NEW m \in LogModules, NEW l \in Library!DlogLevels,
             NEW d \in Library!Dests, NEW f \in {{}, {"another"}}, Library!UpdateDlog(u, m, d, l, f)
      PROVE  LibraryIInv'
  <2> DEFINE p == [dest |-> d, level |-> l, filter |-> f]
  <2>1. /\ user[u].at = "idle" /\ modCallback' = modCallback /\ toldSince' = toldSince
        /\ modParams' = [modParams EXCEPT ![m] = p] /\ p.level = l
        /\ \/ ~modCallback[m] /\ user' = user
           \/ user' = [user EXCEPT ![u] = [at |-> "tell", module |-> m, level |-> l]]
    BY <1>6 DEF Library!UpdateDlog
  <2> HIDE DEF p
  <2>2. CASE ~modCallback[m] /\ user' = user
    BY <2>1, <2>2
  <2>3. CASE user' = [user EXCEPT ![u] = [at |-> "tell", module |-> m, level |-> l]]
    <3>1. user'[u].at = "tell" /\ user'[u].module = m /\ user'[u].level = l
      BY <2>3
    <3>2. \A v \in LogUsers \ {u} : user'[v] = user[v]
      BY <2>3
    <3> QED BY <2>1, <2>3, <3>1, <3>2
  <2> QED BY <2>1, <2>2, <2>3
<1>7. ASSUME NEW m \in LogModules, Library!UnregisterSetDLogLevelCallback(m) PROVE LibraryIInv'
  BY <1>7 DEF Library!UnregisterSetDLogLevelCallback
<1> QED BY <1>1, <1>2, <1>3, <1>4, <1>5, <1>6, <1>7 DEF Library!Next

(* A registered module hears of the level its logs are judged by           *)
(* (utility_log.c).                                                        *)
THEOREM SpecLevelIsTold == Spec => []LevelIsTold
<1>1. Init => LibraryIInv
  BY DEF Init, Library!Init, LibraryIInv, LevelIsTold, Library!LevelIsTold
<1>2. LibraryIInv /\ [Next]_vars => LibraryIInv'
  <2> SUFFICES ASSUME LibraryIInv, [Next]_vars PROVE LibraryIInv'
    OBVIOUS
  <2>1. CASE Library!Next
    BY <2>1, LibraryStep
  <2>2. CASE UNCHANGED libraryVars
    BY <2>2 DEF libraryVars, LibraryIInv, LevelIsTold, Library!LevelIsTold
  <2> QED BY <2>1, <2>2 DEF Next, vars
<1>3. LibraryIInv => LevelIsTold
  BY DEF LibraryIInv
<1> QED BY <1>1, <1>2, <1>3, PTL DEF Spec

-----------------------------------------------------------------------------
(* The upload of debug logs. *)

\* A set of numbers that is bounded has a greatest one.
LEMMA GreatestExists ==
  ASSUME NEW n \in Nat, NEW T \in SUBSET (1..n), T # {}
  PROVE  \E i \in T : \A j \in T : j <= i
<1> DEFINE R == {p \in Nat \X Nat : p[1] < p[2]}
           U == {k \in Nat : n - k \in T}
<1>1. IsWellFoundedOn(R, Nat)
  BY NatLessThanWellFounded, Zenon DEF OpToRel
<1>2. U \subseteq Nat /\ U # {}
  <2>1. PICK i \in T : TRUE
    OBVIOUS
  <2>2. n - i \in Nat /\ n - (n - i) = i
    BY <2>1
  <2> QED BY <2>1, <2>2
<1>3. PICK k \in U : \A m \in U : ~ (<<m, k>> \in R)
  BY <1>1, <1>2, WFMin
<1>4. \A m \in U : k <= m
  <2>1. \A a, b \in Nat : a < b => <<a, b>> \in R
    OBVIOUS
  <2>2. k \in U
    BY <1>3
  <2> HIDE DEF R, U
  <2>3. \A m \in U : ~(m < k)
    BY <1>2, <1>3, <2>1, <2>2, Zenon
  <2> QED BY <1>2, <2>2, <2>3
<1>5. ASSUME NEW j \in T PROVE j <= n - k
  <2>1. n - j \in U
    BY <1>5
  <2> QED BY <2>1, <1>4
<1> QED BY <1>3, <1>5

(* What an entry of a list of uploads is. *)
Entries ==
  [id : Nat, critical : BOOLEAN, priority : BOOLEAN,
   status : {"request", "uploading", "finished"}, retries : Nat]

\* The priority entry of a list is the only one.
OnePriority(l, i) ==
  i \in DOMAIN l /\ l[i].priority /\ \A j \in DOMAIN l : l[j].priority => j = i

\* The search of a list gives one of the matches, if there is one.
LEMMA LastOfIsIn ==
  ASSUME NEW n \in Nat, NEW T \in SUBSET (1..n)
  PROVE  /\ T # {} => Upload!LastOf(T) \in T
         /\ T = {} => Upload!LastOf(T) = 0
<1>1. CASE T # {}
  <2>1. PICK i \in T : \A j \in T : j <= i
    BY <1>1, GreatestExists
  <2> QED BY <1>1, <2>1 DEF Upload!LastOf
<1> QED BY <1>1 DEF Upload!LastOf

\* The target of a list is an entry of it, and the priority entry if one is.
LEMMA TargetIsIn ==
  ASSUME NEW l \in Seq(Entries), l # <<>>
  PROVE  /\ Upload!Target(l) \in DOMAIN l
         /\ \A i : OnePriority(l, i) => Upload!Target(l) = i
         /\ (\E i \in DOMAIN l : l[i].priority) => l[Upload!Target(l)].priority
<1> DEFINE P == {i \in DOMAIN l : l[i].priority}
           C == {i \in DOMAIN l : l[i].critical}
<1>1. Len(l) \in Nat /\ DOMAIN l = 1..Len(l) /\ Len(l) > 0
  OBVIOUS
<1>2. P \in SUBSET (1..Len(l)) /\ C \in SUBSET (1..Len(l))
  BY <1>1
<1>3. Upload!Target(l) = IF Upload!LastOf(P) # 0 THEN Upload!LastOf(P)
                         ELSE IF Upload!LastOf(C) # 0 THEN Upload!LastOf(C) ELSE Len(l)
  BY DEF Upload!Target
<1>4. /\ P # {} => Upload!LastOf(P) \in P
      /\ P = {} => Upload!LastOf(P) = 0
      /\ C # {} => Upload!LastOf(C) \in C
      /\ C = {} => Upload!LastOf(C) = 0
  BY <1>1, <1>2, LastOfIsIn
<1>5. \A i : OnePriority(l, i) => P = {i}
  BY DEF OnePriority
<1>6. P # {} => Upload!Target(l) \in P
  <2> HIDE DEF P, C
  <2> QED BY <1>1, <1>2, <1>3, <1>4
<1>7. Upload!Target(l) \in DOMAIN l
  <2>1. CASE P # {}
    BY <2>1, <1>6
  <2>2. CASE P = {} /\ C # {}
    <3>1. 0 \notin C /\ C \subseteq DOMAIN l
      BY <1>1
    <3> HIDE DEF P, C
    <3> QED BY <2>2, <3>1, <1>3, <1>4
  <2>3. CASE P = {} /\ C = {}
    <3> HIDE DEF P, C
    <3> QED BY <2>3, <1>1, <1>3, <1>4
  <2> QED BY <2>1, <2>2, <2>3
<1> QED BY <1>5, <1>6, <1>7

(* A new status is given to the target, and nothing else changes but its
   priority when it is requested again. *)
LEMMA WithStatusOK ==
  ASSUME NEW l \in Seq(Entries), NEW s \in {"request", "uploading", "finished"}
  PROVE  /\ Upload!WithStatus(l, s) \in Seq(Entries) /\ Len(Upload!WithStatus(l, s)) = Len(l)
         /\ DOMAIN Upload!WithStatus(l, s) = DOMAIN l
         /\ \A i \in DOMAIN l :
              /\ Upload!WithStatus(l, s)[i].id = l[i].id
              /\ Upload!WithStatus(l, s)[i].priority => l[i].priority
              /\ s # "request" /\ l[i].priority => Upload!WithStatus(l, s)[i].priority
              /\ s = "request" /\ i = Upload!Target(l) => ~Upload!WithStatus(l, s)[i].priority
              /\ i = Upload!Target(l) => Upload!WithStatus(l, s)[i].status = s
              /\ i # Upload!Target(l) => Upload!WithStatus(l, s)[i] = l[i]
<1>1. CASE l = <<>>
  BY <1>1 DEF Upload!WithStatus
<1>2. CASE l # <<>>
  <2> DEFINE t == Upload!Target(l)
             e == [l[t] EXCEPT !.status = s, !.priority = @ /\ s # "request"]
  <2>1. t \in DOMAIN l /\ t \in 1..Len(l) /\ DOMAIN l = 1..Len(l) /\ l[t] \in Entries
    BY <1>2, TargetIsIn
  <2>2. Upload!WithStatus(l, s) = [l EXCEPT ![t] = e]
    BY <1>2, <2>1 DEF Upload!WithStatus
  <2>3. /\ e \in Entries /\ e.id = l[t].id /\ e.status = s
        /\ e.priority <=> (l[t].priority /\ s # "request")
    BY <2>1 DEF Entries
  <2> HIDE DEF t, e
  <2>4. /\ [l EXCEPT ![t] = e] \in Seq(Entries) /\ Len([l EXCEPT ![t] = e]) = Len(l)
        /\ \A j \in 1..Len(l) : [l EXCEPT ![t] = e][j] = IF j = t THEN e ELSE l[j]
    BY <2>1, <2>3, ExceptSeq
  <2>5. DOMAIN [l EXCEPT ![t] = e] = DOMAIN l
    OBVIOUS
  <2> QED BY <2>1, <2>2, <2>3, <2>4, <2>5 DEF t
<1> QED BY <1>1, <1>2

(* No two entries of a list are the priority entry. *)
AtMostOne(l) == \A i, j \in DOMAIN l : l[i].priority /\ l[j].priority => i = j

(* The target of a list is a priority entry with this number and status. *)
TargetIs(l, id, status) ==
  /\ l # <<>>
  /\ l[Upload!Target(l)].id = id /\ l[Upload!Target(l)].priority
  /\ l[Upload!Target(l)].status = status

\* The only priority entry of a list is its target.
LEMMA OnePriorityIsTheTarget ==
  ASSUME NEW l \in Seq(Entries), NEW i \in DOMAIN l, l[i].priority, AtMostOne(l)
  PROVE  Upload!Target(l) = i /\ TargetIs(l, l[i].id, l[i].status)
<1>1. l # <<>> /\ OnePriority(l, i)
  BY DEF OnePriority, AtMostOne
<1>2. Upload!Target(l) = i
  BY <1>1, TargetIsIn
<1> QED BY <1>1, <1>2 DEF TargetIs

(* A chunk that is registered does not become the target of a list with a
   priority entry. *)
LEMMA PrependedOK ==
  ASSUME NEW l \in Seq(Entries), AtMostOne(l), NEW e \in Entries, ~e.priority
  PROVE  /\ <<e>> \o l \in Seq(Entries) /\ AtMostOne(<<e>> \o l)
         /\ \A id, s : TargetIs(l, id, s) => TargetIs(<<e>> \o l, id, s)
<1> DEFINE m == <<e>> \o l
<1>1. /\ m \in Seq(Entries) /\ DOMAIN m = 1..Len(l) + 1 /\ DOMAIN l = 1..Len(l) /\ Len(l) \in Nat
      /\ m[1] = e /\ \A i \in 2..Len(l) + 1 : m[i] = l[i - 1]
  OBVIOUS
<1> HIDE DEF m
<1>2. AtMostOne(m)
  <2> SUFFICES ASSUME NEW i \in DOMAIN m, NEW j \in DOMAIN m, m[i].priority, m[j].priority
               PROVE  i = j
    BY DEF AtMostOne
  <2>1. i \in 2..Len(l) + 1 /\ j \in 2..Len(l) + 1
    BY <1>1
  <2>2. i - 1 \in DOMAIN l /\ j - 1 \in DOMAIN l /\ m[i] = l[i - 1] /\ m[j] = l[j - 1]
    BY <1>1, <2>1
  <2>3. i - 1 = j - 1
    BY <2>2 DEF AtMostOne
  <2> QED BY <2>1, <2>3
<1>3. ASSUME NEW id, NEW s, TargetIs(l, id, s) PROVE TargetIs(m, id, s)
  <2> DEFINE t == Upload!Target(l)
  <2>1. t \in DOMAIN l /\ l[t].priority /\ l[t].id = id /\ l[t].status = s
    BY <1>3, TargetIsIn DEF TargetIs
  <2> HIDE DEF t
  <2>2. t + 1 \in DOMAIN m /\ m[t + 1] = l[t]
    BY <1>1, <2>1
  <2> QED BY <1>1, <1>2, <2>1, <2>2, OnePriorityIsTheTarget
<1> QED BY <1>1, <1>2, <1>3 DEF m

\* What is taken is the only priority entry, and so the target.
LEMMA WithPriorityOK ==
  ASSUME NEW l \in Seq(Entries), AtMostOne(l)
  PROVE  /\ Upload!WithPriority(l) \in Seq(Entries) /\ AtMostOne(Upload!WithPriority(l))
         /\ l # <<>> => TargetIs(Upload!WithPriority(l), l[Upload!Target(l)].id, l[Upload!Target(l)].status)
<1>1. CASE l = <<>>
  BY <1>1 DEF Upload!WithPriority
<1>2. CASE l # <<>>
  <2> DEFINE t == Upload!Target(l)
             e == [l[t] EXCEPT !.priority = TRUE]
             m == [l EXCEPT ![t] = e]
  <2>1. /\ t \in DOMAIN l /\ t \in 1..Len(l) /\ DOMAIN l = 1..Len(l) /\ l[t] \in Entries
        /\ (\E i \in DOMAIN l : l[i].priority) => l[t].priority
    BY <1>2, TargetIsIn
  <2>2. Upload!WithPriority(l) = m
    BY <1>2, <2>1 DEF Upload!WithPriority
  <2>3. e \in Entries /\ e.id = l[t].id /\ e.status = l[t].status /\ e.priority
    BY <2>1 DEF Entries
  <2> HIDE DEF t, e
  <2>4. /\ m \in Seq(Entries) /\ DOMAIN m = DOMAIN l
        /\ \A j \in DOMAIN l : m[j] = IF j = t THEN e ELSE l[j]
    BY <2>1, <2>3, ExceptSeq
  <2>5. \A i \in DOMAIN l : l[i].priority => i = t
    BY <2>1 DEF AtMostOne
  <2> HIDE DEF m
  <2>6. AtMostOne(m)
    BY <2>4, <2>5 DEF AtMostOne
  <2>7. TargetIs(m, e.id, e.status)
    BY <2>1, <2>3, <2>4, <2>6, OnePriorityIsTheTarget
  <2> QED BY <2>2, <2>3, <2>4, <2>6, <2>7 DEF t
<1> QED BY <1>1, <1>2

\* The target stays the target when its status changes.
LEMMA WithStatusKeeps ==
  ASSUME NEW l \in Seq(Entries), AtMostOne(l), NEW s \in {"request", "uploading", "finished"}
  PROVE  /\ Upload!WithStatus(l, s) \in Seq(Entries) /\ AtMostOne(Upload!WithStatus(l, s))
         /\ \A id, old : TargetIs(l, id, old) /\ s # "request" => TargetIs(Upload!WithStatus(l, s), id, s)
<1> DEFINE m == Upload!WithStatus(l, s)
           t == Upload!Target(l)
<1>1. /\ m \in Seq(Entries) /\ DOMAIN m = DOMAIN l
      /\ \A i \in DOMAIN l : /\ m[i].id = l[i].id /\ (m[i].priority => l[i].priority)
                             /\ s # "request" /\ l[i].priority => m[i].priority
                             /\ i = t => m[i].status = s
  BY WithStatusOK
<1> HIDE DEF m
<1>2. AtMostOne(m)
  BY <1>1 DEF AtMostOne
<1>3. ASSUME NEW id, NEW old, TargetIs(l, id, old), s # "request" PROVE TargetIs(m, id, s)
  <2>1. t \in DOMAIN l /\ l[t].priority /\ l[t].id = id
    BY <1>3, TargetIsIn DEF TargetIs
  <2>2. m[t].priority /\ m[t].id = id /\ m[t].status = s
    BY <1>1, <1>3, <2>1
  <2> QED BY <1>1, <1>2, <2>1, <2>2, OnePriorityIsTheTarget
<1> QED BY <1>1, <1>2, <1>3 DEF m

Removed(l, t) == SubSeq(l, 1, t - 1) \o SubSeq(l, t + 1, Len(l))

\* A sequence with one place taken out.
LEMMA RemovedIs ==
  ASSUME NEW S, NEW l \in Seq(S), NEW t \in 1..Len(l)
  PROVE  /\ Removed(l, t) \in Seq(S)
         /\ Len(Removed(l, t)) = Len(l) - 1
         /\ DOMAIN Removed(l, t) = 1..Len(l) - 1
         /\ \A i \in 1..Len(l) - 1 : Removed(l, t)[i] = l[IF i < t THEN i ELSE i + 1]
<1> DEFINE c == Removed(l, t)
<1> DEFINE a == SubSeq(l, 1, t - 1)
           b == SubSeq(l, t + 1, Len(l))
<1>1. Len(l) \in Nat /\ \A i \in 1..Len(l) : l[i] \in S
  OBVIOUS
<1>2. c = a \o b
  BY DEF Removed
<1> HIDE DEF c
<1>3. /\ a \in Seq(S) /\ Len(a) = t - 1 /\ \A i \in 1..t - 1 : a[i] = l[i]
  BY <1>1, SubSeqProperties
<1>4. /\ b \in Seq(S) /\ Len(b) = Len(l) - t /\ \A i \in 1..Len(l) - t : b[i] = l[t + i]
  <2>1. \A i \in t + 1..Len(l) : l[i] \in S
    BY <1>1
  <2>2. /\ b \in Seq(S) /\ Len(b) = IF t + 1 <= Len(l) THEN Len(l) - (t + 1) + 1 ELSE 0
        /\ \A i \in 1..Len(l) - (t + 1) + 1 : b[i] = l[(t + 1) + i - 1]
    BY <1>1, <2>1, SubSeqProperties
  <2> HIDE DEF b
  <2>3. Len(b) = Len(l) - t /\ Len(l) - (t + 1) + 1 = Len(l) - t
    BY <1>1, <2>2
  <2>4. ASSUME NEW i \in 1..Len(l) - t PROVE b[i] = l[t + i]
    <3>1. (t + 1) + i - 1 = t + i /\ i \in 1..Len(l) - (t + 1) + 1
      BY <1>1
    <3> QED BY <2>2, <3>1
  <2> QED BY <2>2, <2>3, <2>4
<1> HIDE DEF a, b
<1>b. /\ a \o b \in Seq(S) /\ Len(a \o b) = Len(a) + Len(b)
      /\ \A i \in 1..Len(a) + Len(b) : (a \o b)[i] = IF i <= Len(a) THEN a[i] ELSE b[i - Len(a)]
  BY <1>3, <1>4, ConcatProperties
<1>a. /\ c \in Seq(S) /\ Len(c) = Len(a) + Len(b)
      /\ \A i \in 1..Len(a) + Len(b) : c[i] = IF i <= Len(a) THEN a[i] ELSE b[i - Len(a)]
  BY <1>2, <1>b, Zenon
<1>5. Len(c) = Len(l) - 1 /\ DOMAIN c = 1..Len(l) - 1
  BY <1>a, <1>1, <1>3, <1>4
<1>6. ASSUME NEW i \in 1..Len(l) - 1 PROVE c[i] = l[IF i < t THEN i ELSE i + 1]
  <2>0. i \in 1..Len(a) + Len(b)
    BY <1>1, <1>3, <1>4
  <2>1. CASE i < t
    <3>1. i <= Len(a) /\ i \in 1..t - 1
      BY <2>1, <1>3
    <3>2. c[i] = a[i]
      BY <2>0, <3>1, <1>a
    <3> QED BY <2>1, <3>1, <3>2, <1>3
  <2>2. CASE ~(i < t)
    <3>1. ~(i <= Len(a)) /\ i - Len(a) \in 1..Len(l) - t /\ t + (i - Len(a)) = i + 1
      BY <2>2, <1>1, <1>3
    <3>2. c[i] = b[i - Len(a)]
      BY <2>0, <3>1, <1>a
    <3>3. b[i - Len(a)] = l[t + (i - Len(a))]
      BY <3>1, <1>4
    <3> QED BY <2>2, <3>1, <3>2, <3>3
  <2> QED BY <2>1, <2>2
<1> QED BY <1>a, <1>5, <1>6 DEF c

\* Without its priority entry a list has none.
LEMMA WithoutTargetOK ==
  ASSUME NEW l \in Seq(Entries), AtMostOne(l), NEW id, NEW s, TargetIs(l, id, s)
  PROVE  Upload!WithoutTarget(l) \in Seq(Entries) /\ AtMostOne(Upload!WithoutTarget(l))
<1> DEFINE t == Upload!Target(l)
           c == Upload!WithoutTarget(l)
<1>1. t \in 1..Len(l) /\ DOMAIN l = 1..Len(l) /\ Len(l) \in Nat /\ l[t].priority
  BY TargetIsIn DEF TargetIs
<1>2. c = Removed(l, t)
  BY DEF Upload!WithoutTarget, Upload!RemoveAt, TargetIs, Removed
<1> HIDE DEF t, c
<1>5. /\ c \in Seq(Entries) /\ DOMAIN c = 1..Len(l) - 1
      /\ \A i \in 1..Len(l) - 1 : c[i] = l[IF i < t THEN i ELSE i + 1]
  BY <1>1, <1>2, RemovedIs
<1>6. \A i \in DOMAIN c : ~c[i].priority
  <2> SUFFICES ASSUME NEW i \in 1..Len(l) - 1 PROVE ~c[i].priority
    BY <1>5
  <2> DEFINE j == IF i < t THEN i ELSE i + 1
  <2>1. j \in 1..Len(l) /\ j # t
    BY <1>1
  <2>2. c[i] = l[j]
    BY <1>5
  <2> HIDE DEF j
  <2> QED BY <1>1, <2>1, <2>2 DEF AtMostOne
<1> QED BY <1>5, <1>6 DEF AtMostOne, c

\* A retry leaves one priority entry at most.
LEMMA RetriedOK ==
  ASSUME NEW l \in Seq(Entries), AtMostOne(l), NEW id
  PROVE  \A r \in Upload!Retried(l, id) : r \in Seq(Entries) /\ AtMostOne(r)
<1> DEFINE m == [i \in DOMAIN l |-> IF l[i].id = id THEN [l[i] EXCEPT !.retries = @ + 1] ELSE l[i]]
<1>1. DOMAIN l = 1..Len(l) /\ Len(l) \in Nat /\ \A i \in DOMAIN l : l[i] \in Entries
  OBVIOUS
<1>2. ASSUME NEW i \in DOMAIN l PROVE m[i] \in Entries /\ m[i].priority = l[i].priority
  <2>1. l[i] \in Entries
    BY <1>1
  <2>2. \A e \in Entries :
          /\ [e EXCEPT !.retries = @ + 1] \in Entries
          /\ [e EXCEPT !.retries = @ + 1].priority = e.priority
    <3>1. ASSUME NEW e \in Entries, NEW r \in Nat
          PROVE  [e EXCEPT !.retries = r] \in Entries /\ [e EXCEPT !.retries = r].priority = e.priority
      BY DEF Entries
    <3>2. \A e \in Entries : e.retries + 1 \in Nat
      BY DEF Entries
    <3> QED BY <3>1, <3>2
  <2>3. m[i] = IF l[i].id = id THEN [l[i] EXCEPT !.retries = @ + 1] ELSE l[i]
    OBVIOUS
  <2> HIDE DEF m
  <2> QED BY <2>1, <2>2, <2>3
<1>3. DOMAIN m = DOMAIN l
  OBVIOUS
<1>4. m \in Seq(Entries)
  BY <1>1, <1>2, SeqDef
<1>5. \A r \in Upload!Retried(l, id) : \E s \in {"request", "finished"} : r = Upload!WithStatus(m, s)
  BY DEF Upload!Retried
<1> HIDE DEF m
<1>6. AtMostOne(m)
  BY <1>2, <1>3 DEF AtMostOne
<1> QED BY <1>4, <1>5, <1>6, WithStatusKeeps

(* While the blob thread holds an entry, that entry is the priority entry  *)
(* of its list with the status it was read with: the collector may make    *)
(* the list longer meanwhile.                                              *)
UploadTypeOK ==
  /\ list \in [Upload!Kinds -> Seq(Entries)]
  /\ given \in [Upload!Kinds -> SUBSET Nat]
  /\ chunks \in Nat
BlobHoldsTheTarget ==
  blob.at = "upload" =>
    /\ blob.kind \in Upload!Kinds /\ blob.entry.id \in Nat
    /\ TargetIs(list[blob.kind], blob.entry.id, blob.entry.status)
UploadIInv ==
  /\ UploadTypeOK
  /\ \A k \in Upload!Kinds : AtMostOne(list[k])
  /\ BlobHoldsTheTarget
  /\ GivenIsTheTarget

\* What the agent was given is the priority entry and is being uploaded.
LEMMA GivenMeans ==
  GivenIsTheTarget <=>
    \A k \in Upload!Kinds \ unfilled : \A id \in given[k] :
      given[k] = {id} /\ TargetIs(list[k], id, "uploading")
BY DEF GivenIsTheTarget, Upload!GivenIsTheTarget, TargetIs

\* The same of the state after a step.
LEMMA GivenMeansNext ==
  (\A k \in Upload!Kinds \ unfilled' : \A id \in given'[k] :
     given'[k] = {id} /\ TargetIs(list'[k], id, "uploading"))
  => GivenIsTheTarget'
BY DEF GivenIsTheTarget, Upload!GivenIsTheTarget, TargetIs

\* An entry that is not being uploaded is not with the agent.
LEMMA NotGiven ==
  ASSUME UploadIInv, blob.at = "upload", blob.entry.status # "uploading"
  PROVE  blob.kind \notin unfilled => given[blob.kind] = {}
BY GivenMeans DEF UploadIInv, BlobHoldsTheTarget, TargetIs

\* Every step of the upload keeps its invariant.
LEMMA UploadStep == UploadIInv /\ Upload!Next => UploadIInv'
<1> SUFFICES ASSUME UploadIInv, Upload!Next PROVE UploadIInv'
  OBVIOUS
<1>g. \A k \in Upload!Kinds \ unfilled : \A id \in given[k] :
        given[k] = {id} /\ TargetIs(list[k], id, "uploading")
  BY GivenMeans DEF UploadIInv
<1>t. /\ \A k \in Upload!Kinds : list[k] \in Seq(Entries) /\ AtMostOne(list[k])
      /\ list = [k \in Upload!Kinds |-> list[k]]
      /\ UploadTypeOK
  BY DEF UploadIInv, UploadTypeOK
<1>n. \A k : Upload!NextKind(k).at # "upload"
  BY DEF Upload!NextKind
<1>1. ASSUME NEW k \in Upload!Kinds, Upload!RegisterList(k) PROVE UploadIInv'
  <2>1. PICK c \in BOOLEAN :
          list' = [list EXCEPT ![k] =
                     <<[id |-> chunks + 1, critical |-> c, priority |-> FALSE,
                        status |-> "request", retries |-> 0]>> \o @]
    BY <1>1 DEF Upload!RegisterList
  <2> DEFINE e == [id |-> chunks + 1, critical |-> c, priority |-> FALSE,
                   status |-> "request", retries |-> 0]
  <2>2. e \in Entries /\ ~e.priority
    BY <1>t DEF Entries, UploadTypeOK
  <2>3. list' = [list EXCEPT ![k] = <<e>> \o list[k]]
    BY <2>1, <1>t
  <2> HIDE DEF e
  <2>4. /\ <<e>> \o list[k] \in Seq(Entries) /\ AtMostOne(<<e>> \o list[k])
        /\ \A id, s : TargetIs(list[k], id, s) => TargetIs(<<e>> \o list[k], id, s)
    BY <1>t, <2>2, PrependedOK
  <2>5. /\ UNCHANGED <<blob, given, unfilled>> /\ chunks' = chunks + 1
    BY <1>1 DEF Upload!RegisterList
  <2>6. \A l \in Upload!Kinds : list'[l] = IF l = k THEN <<e>> \o list[k] ELSE list[l]
    BY <2>3, <1>t
  <2>7. UploadTypeOK'
    BY <1>t, <2>3, <2>4, <2>5 DEF UploadTypeOK
  <2>8. BlobHoldsTheTarget'
    <3> SUFFICES ASSUME blob.at = "upload"
                 PROVE  /\ blob.kind \in Upload!Kinds /\ blob.entry.id \in Nat
                        /\ TargetIs(list'[blob.kind], blob.entry.id, blob.entry.status)
      BY <2>5 DEF BlobHoldsTheTarget, TargetIs
    <3> QED BY <2>4, <2>6 DEF UploadIInv, BlobHoldsTheTarget
  <2>9. GivenIsTheTarget'
    <3>1. \A l \in Upload!Kinds \ unfilled' : \A id \in given'[l] :
            given'[l] = {id} /\ TargetIs(list'[l], id, "uploading")
      BY <1>g, <2>4, <2>5, <2>6
    <3> QED BY <3>1, GivenMeansNext
  <2>10. \A l \in Upload!Kinds : AtMostOne(list'[l])
    BY <1>t, <2>4, <2>6
  <2> QED BY <2>7, <2>8, <2>9, <2>10 DEF UploadIInv, AtMostOne
<1>2. CASE Upload!SendBlobLoop \/ Upload!UploadRuns \/ Upload!EventNone
           \/ Upload!DestroyBlobCollector \/ Upload!SetupUpload
  <2>1. UNCHANGED <<list, given, unfilled, chunks>> /\ (blob' = blob \/ blob'.at # "upload")
    BY <1>2, <1>n DEF Upload!SendBlobLoop, Upload!UploadRuns, Upload!EventNone,
       Upload!DestroyBlobCollector, Upload!SetupUpload
  <2>2. BlobHoldsTheTarget'
    BY <2>1 DEF UploadIInv, BlobHoldsTheTarget, TargetIs
  <2>3. GivenIsTheTarget'
    BY <2>1, <1>g, GivenMeansNext
  <2>4. UploadTypeOK' /\ \A l \in Upload!Kinds : AtMostOne(list'[l])
    BY <1>t, <2>1 DEF UploadTypeOK
  <2> QED BY <2>2, <2>3, <2>4 DEF UploadIInv, AtMostOne
<1>3. ASSUME NEW k \in Upload!Kinds, Upload!GetPriority(k) PROVE UploadIInv'
  <2> DEFINE m == Upload!WithPriority(list[k])
             e == list[k][Upload!Target(list[k])]
  <2>1. /\ m \in Seq(Entries) /\ AtMostOne(m)
        /\ list[k] # <<>> => TargetIs(m, e.id, e.status)
    BY <1>t, WithPriorityOK
  <2>2. list[k] # <<>> => e \in Entries
    BY <1>t, TargetIsIn
  <2>3. \A id : TargetIs(list[k], id, "uploading") => TargetIs(m, id, "uploading")
    BY <2>1 DEF TargetIs
  <2>4. /\ list' = [list EXCEPT ![k] = m] /\ UNCHANGED <<given, unfilled, chunks>>
        /\ blob' = IF list[k] = <<>> THEN Upload!NextKind(k)
                   ELSE [at |-> "upload", kind |-> k, entry |-> e]
    BY <1>3, <1>t DEF Upload!GetPriority
  <2> HIDE DEF m, e
  <2>5. \A l \in Upload!Kinds : list'[l] = IF l = k THEN m ELSE list[l]
    BY <2>4, <1>t
  <2>6. UploadTypeOK'
    BY <1>t, <2>1, <2>4 DEF UploadTypeOK
  <2>7. BlobHoldsTheTarget'
    <3>1. CASE list[k] = <<>>
      BY <3>1, <2>4, <1>n DEF BlobHoldsTheTarget
    <3>2. CASE list[k] # <<>>
      <4>1. blob'.kind = k /\ blob'.entry.id = e.id /\ blob'.entry.status = e.status
        BY <3>2, <2>4
      <4>2. e.id \in Nat /\ TargetIs(list'[k], e.id, e.status)
        BY <3>2, <2>1, <2>2, <2>5 DEF Entries
      <4> QED BY <4>1, <4>2 DEF BlobHoldsTheTarget, TargetIs
    <3> QED BY <3>1, <3>2
  <2>8. GivenIsTheTarget'
    BY <1>g, <2>3, <2>4, <2>5, GivenMeansNext
  <2>9. \A l \in Upload!Kinds : AtMostOne(list'[l])
    BY <1>t, <2>1, <2>5
  <2> QED BY <2>6, <2>7, <2>8, <2>9 DEF UploadIInv, AtMostOne
<1>4. CASE Upload!PutBlob
  <2> DEFINE k == blob.kind
             id == blob.entry.id
             m == Upload!WithStatus(list[k], "request")
             u == Upload!WithStatus(list[k], "uploading")
  <2>1. /\ k \in Upload!Kinds /\ id \in Nat /\ TargetIs(list[k], id, "request")
        /\ k \notin unfilled => given[k] = {}
    BY <1>4, NotGiven DEF Upload!PutBlob, UploadIInv, BlobHoldsTheTarget
  <2>2. /\ m \in Seq(Entries) /\ AtMostOne(m) /\ u \in Seq(Entries) /\ AtMostOne(u)
        /\ TargetIs(u, id, "uploading")
    BY <1>t, <2>1, WithStatusKeeps
  <2>3. /\ blob'.at # "upload" /\ UNCHANGED <<chunks, unfilled>>
        /\ \/ UNCHANGED <<list, given>>
           \/ list' = [list EXCEPT ![k] = m] /\ given' = given
           \/ list' = [list EXCEPT ![k] = u] /\ given' = [given EXCEPT ![k] = given[k] \cup {id}]
    BY <1>4, <1>n, <1>t, <2>1 DEF Upload!PutBlob, UploadTypeOK
  <2> HIDE DEF k, id, m, u
  <2>4. BlobHoldsTheTarget'
    BY <2>3 DEF BlobHoldsTheTarget
  <2>5. CASE UNCHANGED <<list, given>>
    <3>1. GivenIsTheTarget'
      BY <2>3, <2>5, <1>g, GivenMeansNext
    <3> QED BY <2>3, <2>4, <2>5, <3>1, <1>t DEF UploadIInv, UploadTypeOK, AtMostOne
  <2>6. CASE list' = [list EXCEPT ![k] = m] /\ given' = given
    <3>1. \A l \in Upload!Kinds : list'[l] = IF l = k THEN m ELSE list[l]
      BY <2>6, <1>t
    <3>2. GivenIsTheTarget'
      BY <2>1, <2>3, <2>6, <3>1, <1>g, GivenMeansNext
    <3>3. UploadTypeOK' /\ \A l \in Upload!Kinds : AtMostOne(list'[l])
      BY <1>t, <2>2, <2>3, <2>6, <3>1 DEF UploadTypeOK
    <3> QED BY <2>4, <3>2, <3>3 DEF UploadIInv, AtMostOne
  <2>7. CASE list' = [list EXCEPT ![k] = u] /\ given' = [given EXCEPT ![k] = given[k] \cup {id}]
    <3>1. \A l \in Upload!Kinds : list'[l] = IF l = k THEN u ELSE list[l]
      BY <2>7, <1>t
    <3>2. \A l \in Upload!Kinds \ unfilled : given'[l] = IF l = k THEN {id} ELSE given[l]
      BY <2>1, <2>7, <1>t DEF UploadTypeOK
    <3>3. GivenIsTheTarget'
      BY <2>2, <2>3, <3>1, <3>2, <1>g, GivenMeansNext
    <3>4. UploadTypeOK'
      BY <1>t, <2>1, <2>2, <2>3, <2>7 DEF UploadTypeOK
    <3>5. \A l \in Upload!Kinds : AtMostOne(list'[l])
      BY <1>t, <2>2, <3>1
    <3> QED BY <2>4, <3>3, <3>4, <3>5 DEF UploadIInv, AtMostOne
  <2> QED BY <2>3, <2>5, <2>6, <2>7
<1>5. CASE Upload!UnregisterPriority
  <2> DEFINE k == blob.kind
             m == Upload!WithoutTarget(list[k])
  <2>1. /\ k \in Upload!Kinds /\ TargetIs(list[k], blob.entry.id, "finished")
        /\ k \notin unfilled => given[k] = {}
    BY <1>5, NotGiven DEF Upload!UnregisterPriority, UploadIInv, BlobHoldsTheTarget
  <2>2. m \in Seq(Entries) /\ AtMostOne(m)
    BY <1>t, <2>1, WithoutTargetOK
  <2>3. /\ blob'.at # "upload" /\ UNCHANGED <<given, unfilled, chunks>>
        /\ list' = [list EXCEPT ![k] = m]
    BY <1>5, <1>n, <1>t, <2>1 DEF Upload!UnregisterPriority
  <2> HIDE DEF k, m
  <2>4. \A l \in Upload!Kinds : list'[l] = IF l = k THEN m ELSE list[l]
    BY <2>3, <1>t
  <2>5. BlobHoldsTheTarget'
    BY <2>3 DEF BlobHoldsTheTarget
  <2>6. GivenIsTheTarget'
    BY <2>1, <2>3, <2>4, <1>g, GivenMeansNext
  <2>7. UploadTypeOK' /\ \A l \in Upload!Kinds : AtMostOne(list'[l])
    BY <1>t, <2>2, <2>3, <2>4 DEF UploadTypeOK
  <2> QED BY <2>5, <2>6, <2>7 DEF UploadIInv, AtMostOne
<1>6. ASSUME NEW k \in Upload!Kinds, NEW id \in given[k],
             \/ Upload!EventFinished(k, id) \/ Upload!EventError(k, id)
             \/ Upload!EventUnfilled(k, id)
      PROVE  UploadIInv'
  <2>1. PICK m : /\ m \in {Upload!WithStatus(list[k], "finished"), Upload!WithStatus(list[k], "request")}
                         \cup Upload!Retried(list[k], id)
                 /\ list' = [list EXCEPT ![k] = m]
    BY <1>6, <1>t DEF Upload!EventFinished, Upload!EventError, Upload!EventUnfilled
  <2>2. m \in Seq(Entries) /\ AtMostOne(m)
    BY <2>1, <1>t, WithStatusKeeps, RetriedOK
  <2>3. /\ blob'.at # "upload" /\ chunks' = chunks
        /\ \/ unfilled' = unfilled \cup {k} /\ given' = given
           \/ /\ unfilled' = unfilled
              /\ given' = IF k \in unfilled THEN given ELSE [given EXCEPT ![k] = @ \ {id}]
    BY <1>6 DEF Upload!EventFinished, Upload!EventError, Upload!EventUnfilled, Upload!Ends
  <2>4. \A l \in Upload!Kinds : list'[l] = IF l = k THEN m ELSE list[l]
    BY <2>1, <1>t
  <2>a. /\ given \in [Upload!Kinds -> SUBSET Nat]
        /\ k \notin unfilled => given[k] \ {id} = {}
    BY <1>g, <1>t DEF UploadTypeOK
  <2>5. /\ \A l \in Upload!Kinds \ unfilled' : given'[l] = IF l = k THEN {} ELSE given[l]
        /\ given' \in [Upload!Kinds -> SUBSET Nat]
        /\ unfilled \subseteq unfilled'
    <3>1. CASE unfilled' = unfilled \cup {k} /\ given' = given
      <4>1. \A l \in Upload!Kinds \ unfilled' : l # k
        BY <3>1
      <4> QED BY <2>a, <3>1, <4>1
    <3>2. CASE unfilled' = unfilled /\ k \in unfilled /\ given' = given
      <4>1. \A l \in Upload!Kinds \ unfilled' : l # k
        BY <3>2
      <4> QED BY <2>a, <3>2, <4>1
    <3>3. CASE unfilled' = unfilled /\ k \notin unfilled /\ given' = [given EXCEPT ![k] = @ \ {id}]
      <4>1. given' = [given EXCEPT ![k] = {}]
        BY <2>a, <3>3
      <4> QED BY <2>a, <3>3, <4>1
    <3> QED BY <2>3, <3>1, <3>2, <3>3
  <2>6. BlobHoldsTheTarget'
    BY <2>3 DEF BlobHoldsTheTarget
  <2>7. GivenIsTheTarget'
    BY <2>4, <2>5, <1>g, GivenMeansNext
  <2>8. UploadTypeOK'
    BY <1>t, <2>1, <2>2, <2>3, <2>5 DEF UploadTypeOK
  <2>9. \A l \in Upload!Kinds : AtMostOne(list'[l])
    BY <1>t, <2>2, <2>4
  <2> QED BY <2>6, <2>7, <2>8, <2>9 DEF UploadIInv, AtMostOne
<1>7. CASE Upload!ProcessEventFails \/ Upload!DeleteUploadLists
  <2>1. /\ blob'.at # "upload" /\ chunks' = chunks
        /\ given' = [k \in Upload!Kinds |-> {}]
    BY <1>7 DEF Upload!ProcessEventFails, Upload!DeleteUploadLists
  <2>2. /\ list' = [k \in Upload!Kinds |-> list'[k]]
        /\ \A k \in Upload!Kinds : list'[k] \in {<<>>, Upload!WithStatus(list[k], "request")}
    BY <1>7 DEF Upload!ProcessEventFails, Upload!DeleteUploadLists
  <2>3. \A k \in Upload!Kinds : list'[k] \in Seq(Entries) /\ AtMostOne(list'[k])
    <3>1. <<>> \in Seq(Entries) /\ AtMostOne(<<>>)
      BY DEF AtMostOne
    <3> QED BY <3>1, <2>2, <1>t, WithStatusKeeps
  <2>4. UploadTypeOK'
    BY <1>t, <2>1, <2>2, <2>3 DEF UploadTypeOK
  <2>5. BlobHoldsTheTarget'
    BY <2>1 DEF BlobHoldsTheTarget
  <2>6. GivenIsTheTarget'
    BY <2>1, GivenMeansNext
  <2> QED BY <2>3, <2>4, <2>5, <2>6 DEF UploadIInv, AtMostOne
<1> QED
  BY <1>1, <1>2, <1>3, <1>4, <1>5, <1>6, <1>7
  DEF Upload!Next, Upload!BlobThread, Upload!Events

(* What a blob callback does to the target of a list it does to the chunk  *)
(* it is about, for uploads none of which was called back without a buffer *)
(* (log_manager_list.c).                                                   *)
THEOREM SpecGivenIsTheTarget == Spec => []GivenIsTheTarget
<1>1. Init => UploadIInv
  <2> SUFFICES ASSUME Upload!Init PROVE UploadIInv
    BY DEF Init
  <2>1. UploadTypeOK /\ BlobHoldsTheTarget /\ \A k \in Upload!Kinds : AtMostOne(list[k])
    BY DEF Upload!Init, UploadTypeOK, BlobHoldsTheTarget, AtMostOne
  <2>2. GivenIsTheTarget
    BY GivenMeans DEF Upload!Init
  <2> QED BY <2>1, <2>2 DEF UploadIInv
<1>2. UploadIInv /\ [Next]_vars => UploadIInv'
  <2> SUFFICES ASSUME UploadIInv, [Next]_vars PROVE UploadIInv'
    OBVIOUS
  <2>1. CASE Upload!Next
    BY <2>1, UploadStep
  <2>2. CASE UNCHANGED uploadVars
    BY <2>2 DEF uploadVars, UploadIInv, UploadTypeOK, BlobHoldsTheTarget, AtMostOne,
       TargetIs, GivenIsTheTarget, Upload!GivenIsTheTarget
  <2> QED BY <2>1, <2>2 DEF Next, vars
<1>3. UploadIInv => GivenIsTheTarget
  BY DEF UploadIInv
<1> QED BY <1>1, <1>2, <1>3, PTL DEF Spec

-----------------------------------------------------------------------------
(* The queue of the event log. *)

(* The messages of the elog thread.                                        *)
Commands == {"wait", "send", "resend", "register", "destroy"}
Messages == [cmd : Commands, id : Nat]

\* The two names of the cardinality mean the same.
LEMMA ElogCardinality == \A S : Elog!Cardinality(S) = Cardinality(S)
BY DEF Cardinality, Elog!Cardinality

\* A non-empty set of numbers has a smallest one.
LEMMA LeastExists ==
  ASSUME NEW T \in SUBSET Nat, T # {}
  PROVE  \E i \in T : \A j \in T : i <= j
<1> DEFINE R == {p \in Nat \X Nat : p[1] < p[2]}
<1>1. IsWellFoundedOn(R, Nat)
  BY NatLessThanWellFounded, Zenon DEF OpToRel
<1>2. PICK k \in T : \A m \in T : ~ (<<m, k>> \in R)
  BY <1>1, WFMin
<1>3. \A a, b \in Nat : a < b => <<a, b>> \in R
  OBVIOUS
<1> HIDE DEF R
<1>4. \A m \in T : ~(m < k)
  BY <1>2, <1>3, Zenon
<1> QED BY <1>2, <1>4

\* The queue has a first message of the highest priority.
LEMMA FirstIsIn ==
  ASSUME NEW q \in Seq(Messages), q = equeue, q # <<>>
  PROVE  /\ Elog!First \in DOMAIN q
         /\ \A j \in DOMAIN q : \/ Elog!Priority[q[j].cmd] < Elog!Priority[q[Elog!First].cmd]
                               \/ q[j].cmd = q[Elog!First].cmd
<1> DEFINE pr == [i \in DOMAIN q |-> Elog!Priority[q[i].cmd]]
           T == {pr[i] : i \in DOMAIN q}
<1>0. DOMAIN q = 1..Len(q) /\ Len(q) \in Nat /\ 1 \in DOMAIN q
      /\ \A i \in DOMAIN q : q[i] \in Messages
  OBVIOUS
<1>1. \A i \in DOMAIN q : q[i].cmd \in Commands
  BY <1>0 DEF Messages
<1>2. /\ \A c \in Commands : Elog!Priority[c] \in 1..5
      /\ \A c, d \in Commands : Elog!Priority[c] = Elog!Priority[d] => c = d
  BY DEF Elog!Priority, Commands
<1>3. /\ \A i \in DOMAIN q : pr[i] \in 1..5
      /\ \A i, j \in DOMAIN q : pr[i] = pr[j] => q[i].cmd = q[j].cmd
  BY <1>1, <1>2
<1>t. T \in SUBSET (1..5) /\ T # {}
  BY <1>0, <1>3
<1>4. PICK p \in T : \A r \in T : r <= p
  <2> HIDE DEF T
  <2> QED BY <1>t, GreatestExists
<1> DEFINE S == {i \in DOMAIN q : pr[i] = p}
<1>5. S \in SUBSET Nat /\ S # {}
  BY <1>0, <1>4
<1>6. PICK i \in S : \A j \in S : i <= j
  BY <1>5, LeastExists
<1>7. ASSUME NEW j \in DOMAIN q
      PROVE  \/ pr[j] < pr[i]
             \/ q[j].cmd = q[i].cmd /\ j >= i
  <2>1. pr[j] <= pr[i] /\ pr[j] \in 1..5 /\ pr[i] \in 1..5 /\ i \in DOMAIN q
    BY <1>3, <1>4, <1>6
  <2>2. pr[j] = pr[i] => j \in S
    BY <1>6
  <2> HIDE DEF pr, S
  <2> QED BY <1>1, <1>3, <1>6, <2>1, <2>2
<1>8. \E k \in DOMAIN q : \A j \in DOMAIN q :
        \/ Elog!Priority[q[j].cmd] < Elog!Priority[q[k].cmd]
        \/ q[j].cmd = q[k].cmd /\ j >= k
  BY <1>6, <1>7
<1> QED BY <1>8 DEF Elog!First

\* What is left of a set of places after one place is taken out.
LEMMA RemovedCount ==
  ASSUME NEW m \in Nat, NEW i \in 1..m, NEW A \in SUBSET (1..m), NEW B \in SUBSET (1..m - 1),
         \A k \in B : (IF k < i THEN k ELSE k + 1) \in A
  PROVE  /\ Cardinality(A) \in Nat /\ Cardinality(B) \in Nat
         /\ Cardinality(B) + Elog!Holds(i \in A) <= Cardinality(A)
<1>f. IsFiniteSet(1..m) /\ IsFiniteSet(1..m - 1)
  BY FS_Interval
<1>s. IsFiniteSet(A) /\ IsFiniteSet(B)
  BY <1>f, FS_Subset
<1>1. /\ IsFiniteSet(A) /\ Cardinality(A) \in Nat
      /\ IsFiniteSet(B) /\ Cardinality(B) \in Nat
  BY <1>s, FS_CardinalityType
<1>2. /\ IsFiniteSet(A \ {i})
      /\ Cardinality(A \ {i}) = IF i \in A THEN Cardinality(A) - 1 ELSE Cardinality(A)
  BY <1>1, FS_RemoveElement
<1> DEFINE f == [k \in B |-> IF k < i THEN k ELSE k + 1]
<1>3. f \in Injection(B, A \ {i})
  BY DEF Injection, IsInjective
<1>4. Cardinality(B) <= Cardinality(A \ {i})
  BY <1>2, <1>3, FS_Injection
<1> QED BY <1>1, <1>2, <1>4 DEF Elog!Holds

\* ... and after one is added at the end.
LEMMA AddedCount ==
  ASSUME NEW m \in Nat, NEW A \in SUBSET (1..m), NEW B \in SUBSET (1..m + 1), NEW p \in BOOLEAN,
         \A k \in B : k \in A \/ (k = m + 1 /\ p)
  PROVE  /\ Cardinality(A) \in Nat /\ Cardinality(B) \in Nat
         /\ Cardinality(B) <= Cardinality(A) + Elog!Holds(p)
<1>f. IsFiniteSet(1..m)
  BY FS_Interval
<1>s. IsFiniteSet(A)
  BY <1>f, FS_Subset
<1>1. IsFiniteSet(A) /\ Cardinality(A) \in Nat
  BY <1>s, FS_CardinalityType
<1>2. CASE p
  <2>1. B \in SUBSET (A \cup {m + 1}) /\ m + 1 \notin A
    OBVIOUS
  <2>2. IsFiniteSet(A \cup {m + 1}) /\ Cardinality(A \cup {m + 1}) = Cardinality(A) + 1
    BY <1>1, <2>1, FS_AddElement
  <2>3. IsFiniteSet(B) /\ Cardinality(B) <= Cardinality(A \cup {m + 1})
    <3> DEFINE C == A \cup {m + 1}
    <3>1. IsFiniteSet(C) /\ B \in SUBSET C
      BY <2>1, <2>2
    <3> HIDE DEF C
    <3>2. IsFiniteSet(B) /\ Cardinality(B) <= Cardinality(C)
      BY <3>1, FS_Subset
    <3> QED BY <3>2 DEF C
  <2> QED BY <1>1, <1>2, <2>2, <2>3, FS_CardinalityType DEF Elog!Holds
<1>3. CASE ~p
  <2>1. B \in SUBSET A
    BY <1>3
  <2>2. IsFiniteSet(B) /\ Cardinality(B) <= Cardinality(A)
    BY <1>1, <2>1, FS_Subset
  <2> QED BY <1>1, <1>3, <2>2, FS_CardinalityType DEF Elog!Holds
<1> QED BY <1>2, <1>3

ThreadPlaces == {"count", "put", "force", "try"} \cup Commands
ElogTypeOK ==
  /\ equeue \in Seq(Messages)
  /\ ecount \in Int
  /\ sender \in [Senders -> {Elog!At("idle")} \cup [at : {"put"}, msg : Messages]]
  /\ thread \in {Elog!At("recv"), Elog!At("event"), Elog!At("ended")}
                \cup [at : ThreadPlaces, msg : Messages]
  /\ deinit \in {Elog!At("no"), Elog!At("join"), Elog!At("closed"), Elog!At("failed")}
                \cup [at : {"put"}, msg : {Elog!Cmd("destroy")}]
  /\ saved \in Seq(Nat) /\ accepted \in SUBSET Nat /\ elogs \in Nat

(* The counts the invariant is about.                                      *)
Putting == Cardinality({s \in Senders : sender[s].at = "put"})
Waiting(id) == Cardinality({s \in Senders : sender[s].at = "put" /\ sender[s].msg.id = id})
Queued(id) == Cardinality({i \in DOMAIN equeue : equeue[i].id = id})
InThread(id) == Elog!Holds(thread.at \in {"count", "send", "resend", "put", "try", "force"}
                           /\ thread.msg.id = id)
Kept(id) == Cardinality({i \in DOMAIN saved : saved[i] = id})
AtAgent(id) == Elog!Holds(id \in accepted) + Elog!Holds(id \in delivered)

(* An event log that was sent is in one place at most, one that was not is *)
(* nowhere yet.                                                            *)
InOnePlace(id) ==
  Waiting(id) + Queued(id) + InThread(id) + Kept(id) + AtAgent(id)
    <= IF id <= elogs THEN 1 ELSE 0
CountIsExact ==
  deinit # Elog!At("closed") =>
    /\ ecount = Len(equeue) + Putting
                + Elog!Holds(thread.at \in {"count", "put"}) + Elog!Holds(deinit.at = "put")
    /\ ecount <= ElogQueue + 2
(* The thread counts a message up only after it has counted one down.      *)
SlotIsFree ==
  deinit = Elog!At("no") =>
    /\ ecount <= ElogQueue + 1
    /\ thread.at \notin {"recv", "count", "put"} => ecount <= ElogQueue
ClosedIsEmpty ==
  deinit = Elog!At("closed") => equeue = <<>> /\ thread = Elog!At("ended")
ElogIInv ==
  /\ ElogTypeOK /\ CountIsExact /\ SlotIsFree /\ ClosedIsEmpty
  /\ \A id \in Nat \ {0} : InOnePlace(id)

(* Where the destroy command is: the queue, the thread.  There is none     *)
(* before Deinit joins, and from then on until the thread has ended; there *)
(* is none after a Deinit that could not send it.                          *)
DestroyQueued == \E i \in DOMAIN equeue : equeue[i].cmd = "destroy"
DestroyTaken == thread.at = "destroy" \/ (thread.at = "count" /\ thread.msg.cmd = "destroy")
DestroyInv ==
  /\ \A s \in Senders : sender[s].at = "put" => sender[s].msg.cmd # "destroy"
  /\ thread.at \in {"put", "force", "try"} => thread.msg.cmd # "destroy"
  /\ deinit.at \in {"no", "put", "failed"} => ~DestroyQueued /\ ~DestroyTaken /\ thread.at # "ended"
  /\ deinit.at = "join" => DestroyQueued \/ DestroyTaken \/ thread.at = "ended"

\* A message that is put is counted once more.
LEMMA PutIsQueued ==
  ASSUME ElogTypeOK, NEW m \in Messages, equeue' = Append(equeue, m)
  PROVE  /\ equeue' \in Seq(Messages) /\ Len(equeue') = Len(equeue) + 1
         /\ Len(equeue) \in Nat
         /\ \A id : /\ Queued(id) \in Nat /\ Queued(id)' \in Nat
                    /\ Queued(id)' <= Queued(id) + Elog!Holds(m.id = id)
<1>1. /\ equeue' \in Seq(Messages) /\ Len(equeue') = Len(equeue) + 1 /\ Len(equeue) \in Nat
      /\ \A i \in 1..Len(equeue) : equeue'[i] = equeue[i]
      /\ equeue'[Len(equeue) + 1] = m
      /\ DOMAIN equeue = 1..Len(equeue) /\ DOMAIN equeue' = 1..Len(equeue) + 1
  BY AppendProperties DEF ElogTypeOK
<1>2. ASSUME NEW id
      PROVE  /\ Queued(id) \in Nat /\ Queued(id)' \in Nat
             /\ Queued(id)' <= Queued(id) + Elog!Holds(m.id = id)
  <2> DEFINE A == {i \in DOMAIN equeue : equeue[i].id = id}
             B == {i \in DOMAIN equeue' : equeue'[i].id = id}
             p == m.id = id
  <2>1. /\ A \in SUBSET (1..Len(equeue)) /\ B \in SUBSET (1..Len(equeue) + 1) /\ p \in BOOLEAN
        /\ \A k \in B : k \in A \/ (k = Len(equeue) + 1 /\ p)
    BY <1>1
  <2>2. Queued(id) = Cardinality(A) /\ Queued(id)' = Cardinality(B)
    BY DEF Queued
  <2> HIDE DEF A, B, p
  <2>3. /\ Cardinality(A) \in Nat /\ Cardinality(B) \in Nat
        /\ Cardinality(B) <= Cardinality(A) + Elog!Holds(p)
    BY <1>1, <2>1, AddedCount
  <2> QED BY <2>2, <2>3 DEF p
<1> QED BY <1>1, <1>2

\* A message that is received is counted once less.
LEMMA ReceivedIsNotQueued ==
  ASSUME ElogTypeOK, Elog!Receive
  PROVE  /\ equeue' \in Seq(Messages) /\ Len(equeue') = Len(equeue) - 1
         /\ thread'.at = "count" /\ thread' \in [at : {"count"}, msg : Messages]
         /\ \A id : /\ Queued(id) \in Nat /\ Queued(id)' \in Nat
                    /\ Queued(id)' + Elog!Holds(thread'.msg.id = id) <= Queued(id)
<1> DEFINE q == equeue
           f == Elog!First
           r == equeue'
<1>1. /\ q \in Seq(Messages) /\ DOMAIN q = 1..Len(q) /\ Len(q) \in Nat /\ f \in 1..Len(q)
      /\ q[f] \in Messages
  BY FirstIsIn DEF Elog!Receive, ElogTypeOK
<1>2. thread' = [at |-> "count", msg |-> q[f]]
  BY DEF Elog!Receive
<1>3. r = Removed(q, f)
  BY DEF Elog!Receive, Elog!RemoveAt, Removed
<1> HIDE DEF f, q, r
<1>5. /\ r \in Seq(Messages) /\ Len(r) = Len(q) - 1 /\ DOMAIN r = 1..Len(q) - 1
      /\ \A i \in 1..Len(q) - 1 : r[i] = q[IF i < f THEN i ELSE i + 1]
  BY <1>1, <1>3, RemovedIs
<1>8. ASSUME NEW id
      PROVE  /\ Queued(id) \in Nat /\ Queued(id)' \in Nat
             /\ Queued(id)' + Elog!Holds(q[f].id = id) <= Queued(id)
  <2> DEFINE A == {i \in DOMAIN q : q[i].id = id}
             B == {i \in DOMAIN r : r[i].id = id}
  <2>1. /\ A \in SUBSET (1..Len(q)) /\ B \in SUBSET (1..Len(q) - 1)
        /\ \A k \in B : (IF k < f THEN k ELSE k + 1) \in A
        /\ f \in A <=> q[f].id = id
    BY <1>1, <1>5
  <2>2. Queued(id) = Cardinality(A) /\ Queued(id)' = Cardinality(B)
    BY DEF Queued, q, r
  <2> HIDE DEF A, B
  <2>3. /\ Cardinality(A) \in Nat /\ Cardinality(B) \in Nat
        /\ Cardinality(B) + Elog!Holds(f \in A) <= Cardinality(A)
    BY <1>1, <2>1, RemovedCount
  <2>4. Elog!Holds(f \in A) = Elog!Holds(q[f].id = id)
    BY <2>1 DEF Elog!Holds
  <2> QED BY <2>2, <2>3, <2>4
<1> QED BY <1>1, <1>2, <1>5, <1>8 DEF q, r

\* A sender that has counted a message.
LEMMA SenderCounts ==
  ASSUME ElogTypeOK, NEW s \in Senders, sender[s] = Elog!At("idle"), NEW m \in Messages,
         sender' = [sender EXCEPT ![s] = [at |-> "put", msg |-> m]]
  PROVE  /\ Putting \in Nat /\ Putting' = Putting + 1
         /\ \A id : Waiting(id) \in Nat /\ Waiting(id)' = Waiting(id) + Elog!Holds(m.id = id)
<1>1. /\ sender[s].at # "put" /\ sender'[s].at = "put" /\ sender'[s].msg = m
      /\ \A o \in Senders \ {s} : sender'[o] = sender[o]
  BY DEF ElogTypeOK, Elog!At
<1>2. ASSUME NEW A \in SUBSET Senders, NEW B, NEW p \in BOOLEAN, s \notin A,
             B = IF p THEN A \cup {s} ELSE A
      PROVE  Cardinality(A) \in Nat /\ Cardinality(B) = Cardinality(A) + Elog!Holds(p)
  <2>1. IsFiniteSet(A) /\ Cardinality(A) \in Nat
    BY ElogAssumption, FS_Subset, FS_CardinalityType
  <2>2. Cardinality(A \cup {s}) = Cardinality(A) + 1
    BY <1>2, <2>1, FS_AddElement
  <2> QED BY <1>2, <2>1, <2>2 DEF Elog!Holds
<1>3. Putting \in Nat /\ Putting' = Putting + 1
  <2> DEFINE A == {o \in Senders : sender[o].at = "put"}
             B == {o \in Senders : sender'[o].at = "put"}
  <2>1. s \notin A /\ A \in SUBSET Senders /\ B = A \cup {s}
    BY <1>1
  <2>2. Putting = Cardinality(A) /\ Putting' = Cardinality(B)
    BY DEF Putting
  <2> HIDE DEF A, B
  <2>3. Cardinality(A) \in Nat /\ Cardinality(B) = Cardinality(A) + Elog!Holds(TRUE)
    BY <1>2, <2>1
  <2> QED BY <2>2, <2>3 DEF Elog!Holds
<1>4. ASSUME NEW id
      PROVE Waiting(id) \in Nat /\ Waiting(id)' = Waiting(id) + Elog!Holds(m.id = id)
  <2> DEFINE A == {o \in Senders : sender[o].at = "put" /\ sender[o].msg.id = id}
             B == {o \in Senders : sender'[o].at = "put" /\ sender'[o].msg.id = id}
             p == m.id = id
  <2>1. s \notin A /\ A \in SUBSET Senders /\ p \in BOOLEAN /\ B = IF p THEN A \cup {s} ELSE A
    BY <1>1
  <2>2. Waiting(id) = Cardinality(A) /\ Waiting(id)' = Cardinality(B)
    BY DEF Waiting
  <2> HIDE DEF A, B, p
  <2>3. Cardinality(A) \in Nat /\ Cardinality(B) = Cardinality(A) + Elog!Holds(p)
    BY <1>2, <2>1
  <2> QED BY <2>2, <2>3 DEF p
<1> QED BY <1>3, <1>4

\* A sender that has put its message, or given it up.
LEMMA SenderRests ==
  ASSUME ElogTypeOK, NEW s \in Senders, sender[s].at = "put",
         sender' = [sender EXCEPT ![s] = Elog!At("idle")]
  PROVE  /\ sender[s].msg \in Messages
         /\ Putting' \in Nat /\ Putting = Putting' + 1
         /\ \A id : /\ Waiting(id)' \in Nat
                    /\ Waiting(id) = Waiting(id)' + Elog!Holds(sender[s].msg.id = id)
<1> DEFINE m == sender[s].msg
<1>1. /\ sender'[s].at # "put" /\ m \in Messages
      /\ \A o \in Senders \ {s} : sender'[o] = sender[o]
  BY DEF ElogTypeOK, Elog!At
<1> HIDE DEF m
<1>m. sender[s].msg = m
  BY DEF m
<1>2. ASSUME NEW A \in SUBSET Senders, NEW B, NEW p \in BOOLEAN, s \notin A,
             B = IF p THEN A \cup {s} ELSE A
      PROVE  Cardinality(A) \in Nat /\ Cardinality(B) = Cardinality(A) + Elog!Holds(p)
  <2>1. IsFiniteSet(A) /\ Cardinality(A) \in Nat
    BY ElogAssumption, FS_Subset, FS_CardinalityType
  <2>2. Cardinality(A \cup {s}) = Cardinality(A) + 1
    BY <1>2, <2>1, FS_AddElement
  <2> QED BY <1>2, <2>1, <2>2 DEF Elog!Holds
<1>3. Putting' \in Nat /\ Putting = Putting' + 1
  <2> DEFINE A == {o \in Senders : sender'[o].at = "put"}
             B == {o \in Senders : sender[o].at = "put"}
  <2>1. s \notin A /\ A \in SUBSET Senders /\ B = A \cup {s}
    BY <1>1
  <2>2. Putting' = Cardinality(A) /\ Putting = Cardinality(B)
    BY DEF Putting
  <2> HIDE DEF A, B
  <2>3. Cardinality(A) \in Nat /\ Cardinality(B) = Cardinality(A) + Elog!Holds(TRUE)
    BY <1>2, <2>1
  <2> QED BY <2>2, <2>3 DEF Elog!Holds
<1>4. ASSUME NEW id
      PROVE Waiting(id)' \in Nat /\ Waiting(id) = Waiting(id)' + Elog!Holds(m.id = id)
  <2> DEFINE A == {o \in Senders : sender'[o].at = "put" /\ sender'[o].msg.id = id}
             B == {o \in Senders : sender[o].at = "put" /\ sender[o].msg.id = id}
             p == m.id = id
  <2>1. s \notin A /\ A \in SUBSET Senders /\ p \in BOOLEAN /\ B = IF p THEN A \cup {s} ELSE A
    BY <1>1, <1>m
  <2>2. Waiting(id)' = Cardinality(A) /\ Waiting(id) = Cardinality(B)
    BY DEF Waiting
  <2> HIDE DEF A, B, p
  <2>3. Cardinality(A) \in Nat /\ Cardinality(B) = Cardinality(A) + Elog!Holds(p)
    BY <1>2, <2>1
  <2> QED BY <2>2, <2>3 DEF p
<1> QED BY <1>1, <1>3, <1>4, <1>m

\* A log that is saved is counted at most once more.
LEMMA SavedIsKept ==
  ASSUME ElogTypeOK, NEW x \in Nat, Elog!SaveElog(x)
  PROVE  /\ saved' \in Seq(Nat)
         /\ \A id : /\ Kept(id) \in Nat /\ Kept(id)' \in Nat
                    /\ Kept(id)' <= Kept(id) + Elog!Holds(x = id)
<1>1. /\ saved \in Seq(Nat) /\ DOMAIN saved = 1..Len(saved) /\ Len(saved) \in Nat
  BY DEF ElogTypeOK
<1>2. saved' = saved \/ saved' = Append(saved, x)
  BY DEF Elog!SaveElog
<1>3. /\ saved' \in Seq(Nat) /\ DOMAIN saved' \subseteq 1..Len(saved) + 1
      /\ \A i \in DOMAIN saved' : (i \in DOMAIN saved /\ saved'[i] = saved[i])
                                  \/ (i = Len(saved) + 1 /\ saved'[i] = x)
  <2>1. CASE saved' = saved
    BY <1>1, <2>1
  <2>2. CASE saved' = Append(saved, x)
    <3>1. /\ saved' \in Seq(Nat) /\ Len(saved') = Len(saved) + 1
          /\ \A i \in 1..Len(saved) : saved'[i] = saved[i]
          /\ saved'[Len(saved) + 1] = x
      BY <1>1, <2>2, AppendProperties
    <3>2. DOMAIN saved' = 1..Len(saved) + 1
      BY <3>1
    <3> QED BY <1>1, <3>1, <3>2
  <2> QED BY <1>2, <2>1, <2>2
<1>4. ASSUME NEW id
      PROVE  /\ Kept(id) \in Nat /\ Kept(id)' \in Nat
             /\ Kept(id)' <= Kept(id) + Elog!Holds(x = id)
  <2> DEFINE A == {i \in DOMAIN saved : saved[i] = id}
             B == {i \in DOMAIN saved' : saved'[i] = id}
             p == x = id
  <2>1. /\ A \in SUBSET (1..Len(saved)) /\ B \in SUBSET (1..Len(saved) + 1) /\ p \in BOOLEAN
        /\ \A k \in B : k \in A \/ (k = Len(saved) + 1 /\ p)
    BY <1>1, <1>3
  <2>2. Kept(id) = Cardinality(A) /\ Kept(id)' = Cardinality(B)
    BY DEF Kept
  <2> HIDE DEF A, B, p
  <2>3. /\ Cardinality(A) \in Nat /\ Cardinality(B) \in Nat
        /\ Cardinality(B) <= Cardinality(A) + Elog!Holds(p)
    BY <1>1, <2>1, AddedCount
  <2> QED BY <2>2, <2>3 DEF p
<1> QED BY <1>3, <1>4

\* A log that is loaded moves from the saved ones to the thread.
LEMMA LoadedIsNotKept ==
  ASSUME ElogTypeOK, NEW place \in {"force", "try"}, Elog!LoadElog(place)
  PROVE  /\ saved' \in Seq(Nat)
         /\ thread' \in {Elog!At("recv")} \cup [at : {place}, msg : Messages]
         /\ \A id : /\ Kept(id) \in Nat /\ Kept(id)' \in Nat
                    /\ Kept(id)' + InThread(id)' <= Kept(id)
<1>1. saved \in Seq(Nat) /\ DOMAIN saved = 1..Len(saved) /\ Len(saved) \in Nat
  BY DEF ElogTypeOK
<1>2. CASE saved' = saved /\ thread' = Elog!At("recv")
  <2>1. ASSUME NEW id PROVE Kept(id) \in Nat /\ Kept(id)' = Kept(id) /\ InThread(id)' = 0
    <3>1. {i \in DOMAIN saved : saved[i] = id} \in SUBSET (1..Len(saved))
      BY <1>1
    <3>2. IsFiniteSet(1..Len(saved))
      BY <1>1, FS_Interval
    <3>3. Kept(id) \in Nat
      BY <3>1, <3>2, FS_Subset, FS_CardinalityType DEF Kept
    <3>4. Kept(id)' = Kept(id) /\ InThread(id)' = 0
      BY <1>2 DEF Kept, InThread, Elog!At, Elog!Holds
    <3> QED BY <3>3, <3>4
  <2> QED BY <1>1, <1>2, <2>1
<1>3. CASE /\ saved # <<>> /\ saved' = Tail(saved)
           /\ thread' = [at |-> place, msg |-> Elog!Msg("resend", Head(saved))]
  <2>1. /\ Head(saved) = saved[1] /\ Head(saved) \in Nat /\ saved' \in Seq(Nat)
        /\ Len(saved') = Len(saved) - 1
        /\ \A i \in 1..Len(saved') : saved'[i] = saved[i + 1]
    BY <1>1, <1>3, HeadTailProperties
  <2>2. DOMAIN saved' = 1..Len(saved) - 1 /\ 1 \in 1..Len(saved)
    BY <1>1, <1>3, <2>1
  <2>3. /\ thread'.at = place /\ thread'.msg.id = saved[1]
        /\ thread' \in [at : {place}, msg : Messages]
    BY <1>3, <2>1 DEF Elog!Msg, Messages, Commands
  <2>4. ASSUME NEW id
        PROVE  /\ Kept(id) \in Nat /\ Kept(id)' \in Nat
               /\ Kept(id)' + InThread(id)' <= Kept(id)
    <3> DEFINE A == {i \in DOMAIN saved : saved[i] = id}
               B == {i \in DOMAIN saved' : saved'[i] = id}
    <3>1. /\ A \in SUBSET (1..Len(saved)) /\ B \in SUBSET (1..Len(saved) - 1)
          /\ \A k \in B : (IF k < 1 THEN k ELSE k + 1) \in A
          /\ 1 \in A <=> saved[1] = id
      BY <1>1, <2>1, <2>2
    <3>2. Kept(id) = Cardinality(A) /\ Kept(id)' = Cardinality(B)
      BY DEF Kept
    <3> HIDE DEF A, B
    <3>3. /\ Cardinality(A) \in Nat /\ Cardinality(B) \in Nat
          /\ Cardinality(B) + Elog!Holds(1 \in A) <= Cardinality(A)
      BY <1>1, <2>2, <3>1, RemovedCount
    <3>4. InThread(id)' = Elog!Holds(1 \in A)
      BY <2>3, <3>1 DEF InThread, Elog!Holds
    <3> QED BY <3>2, <3>3, <3>4
  <2> QED BY <2>1, <2>3, <2>4
<1> QED BY <1>2, <1>3 DEF Elog!LoadElog

\* What a step leaves alone keeps its counts.
LEMMA ElogSame ==
  /\ sender' = sender => Putting' = Putting /\ \A id : Waiting(id)' = Waiting(id)
  /\ equeue' = equeue => Len(equeue') = Len(equeue) /\ \A id : Queued(id)' = Queued(id)
  /\ thread' = thread => \A id : InThread(id)' = InThread(id)
  /\ saved' = saved => \A id : Kept(id)' = Kept(id)
  /\ accepted' = accepted /\ delivered' = delivered => \A id : AtAgent(id)' = AtAgent(id)
BY DEF Putting, Waiting, Queued, InThread, Kept, AtAgent

\* The counts are numbers.
LEMMA CountsAreNat ==
  ASSUME ElogTypeOK
  PROVE  /\ Putting \in Nat /\ Len(equeue) \in Nat
         /\ \A id : /\ Waiting(id) \in Nat /\ Queued(id) \in Nat /\ Kept(id) \in Nat
                    /\ InThread(id) \in Nat /\ AtAgent(id) \in Nat
                    /\ InThread(id)' \in Nat /\ AtAgent(id)' \in Nat
<1>1. ASSUME NEW A \in SUBSET Senders PROVE Cardinality(A) \in Nat
  <2>1. IsFiniteSet(A)
    BY ElogAssumption, FS_Subset
  <2> QED BY <2>1, FS_CardinalityType
<1>2. ASSUME NEW n \in Nat, NEW A \in SUBSET (1..n) PROVE Cardinality(A) \in Nat
  <2>1. IsFiniteSet(1..n)
    BY FS_Interval
  <2>2. IsFiniteSet(A)
    BY <2>1, FS_Subset
  <2> QED BY <2>2, FS_CardinalityType
<1>3. /\ Len(equeue) \in Nat /\ DOMAIN equeue = 1..Len(equeue)
      /\ Len(saved) \in Nat /\ DOMAIN saved = 1..Len(saved)
  BY DEF ElogTypeOK
<1>4. Putting \in Nat /\ \A id : Waiting(id) \in Nat
  BY <1>1 DEF Putting, Waiting
<1>5. ASSUME NEW id PROVE Queued(id) \in Nat /\ Kept(id) \in Nat
  <2> DEFINE A == {i \in DOMAIN equeue : equeue[i].id = id}
             B == {i \in DOMAIN saved : saved[i] = id}
  <2>1. A \in SUBSET (1..Len(equeue)) /\ B \in SUBSET (1..Len(saved))
    BY <1>3
  <2>2. Queued(id) = Cardinality(A) /\ Kept(id) = Cardinality(B)
    BY DEF Queued, Kept
  <2> HIDE DEF A, B
  <2> QED BY <1>2, <1>3, <2>1, <2>2
<1>6. \A id : /\ InThread(id) \in Nat /\ AtAgent(id) \in Nat
              /\ InThread(id)' \in Nat /\ AtAgent(id)' \in Nat
  BY DEF InThread, AtAgent, Elog!Holds
<1> QED BY <1>3, <1>4, <1>5, <1>6

\* What the thread holds, in words of its place.
LEMMA ThreadShape ==
  ASSUME ElogTypeOK
  PROVE  /\ thread.at \in {"recv", "event", "ended"} \cup ThreadPlaces
         /\ thread.at \in ThreadPlaces => thread.msg \in Messages /\ thread.msg.id \in Nat
         /\ deinit.at \in {"no", "join", "closed", "failed", "put"}
         /\ deinit = Elog!At("closed") <=> deinit.at = "closed"
         /\ deinit = Elog!At("no") <=> deinit.at = "no"
         /\ thread = Elog!At("ended") <=> thread.at = "ended"
<1>1. thread \in {Elog!At("recv"), Elog!At("event"), Elog!At("ended")}
      \/ (thread \in [at : ThreadPlaces, msg : Messages])
  BY DEF ElogTypeOK
<1>2. deinit \in {Elog!At("no"), Elog!At("join"), Elog!At("closed"), Elog!At("failed")}
      \/ (deinit.at = "put" /\ deinit \in [at : {"put"}, msg : {Elog!Cmd("destroy")}])
  BY DEF ElogTypeOK
<1>3. \A m \in Messages : m.id \in Nat
  BY DEF Messages
<1> QED BY <1>1, <1>2, <1>3 DEF Elog!At, ThreadPlaces, Commands

\* A step that makes no count larger keeps a log in one place.
LEMMA StillInOnePlace ==
  ASSUME ElogTypeOK, NEW id \in Nat \ {0}, InOnePlace(id), elogs' = elogs \/ elogs' = elogs + 1,
         Waiting(id)' \in Nat, Queued(id)' \in Nat, Kept(id)' \in Nat,
         Waiting(id)' + Queued(id)' + InThread(id)' + Kept(id)' + AtAgent(id)'
           <= Waiting(id) + Queued(id) + InThread(id) + Kept(id) + AtAgent(id)
  PROVE  InOnePlace(id)'
<1>1. /\ Waiting(id) \in Nat /\ Queued(id) \in Nat /\ Kept(id) \in Nat
      /\ InThread(id) \in Nat /\ AtAgent(id) \in Nat
      /\ InThread(id)' \in Nat /\ AtAgent(id)' \in Nat /\ elogs \in Nat
  BY CountsAreNat DEF ElogTypeOK
<1> QED BY <1>1 DEF InOnePlace

(* Every step of the senders keeps the invariant.                          *)
LEMMA SenderStep ==
  ASSUME ElogIInv, NEW s \in Senders, Elog!SendElog(s) \/ Elog!SenderPut(s)
  PROVE  ElogIInv'
<1>t. ElogTypeOK
  BY DEF ElogIInv
<1>u. UNCHANGED <<thread, deinit, saved, accepted, delivered>>
  BY DEF Elog!SendElog, Elog!SenderPut
<1>s. /\ \A id : InThread(id)' = InThread(id) /\ Kept(id)' = Kept(id) /\ AtAgent(id)' = AtAgent(id)
  BY <1>u, ElogSame
<1>1. CASE Elog!SendElog(s) /\ ecount' = ecount /\ sender' = sender
  <2>1. equeue' = equeue /\ elogs' = elogs + 1 /\ deinit = Elog!At("no")
    BY <1>1 DEF Elog!SendElog
  <2>2. ElogTypeOK'
    BY <1>t, <1>u, <1>1, <2>1 DEF ElogTypeOK
  <2>3. CountIsExact' /\ SlotIsFree' /\ ClosedIsEmpty'
    BY <1>u, <1>1, <2>1, ElogSame DEF ElogIInv, CountIsExact, SlotIsFree, ClosedIsEmpty
  <2>4. \A id \in Nat \ {0} : InOnePlace(id)'
    <3> SUFFICES ASSUME NEW id \in Nat \ {0} PROVE InOnePlace(id)'
      OBVIOUS
    <3>1. /\ Waiting(id)' = Waiting(id) /\ Queued(id)' = Queued(id) /\ InThread(id)' = InThread(id)
          /\ Kept(id)' = Kept(id) /\ AtAgent(id)' = AtAgent(id)
      BY <1>s, <1>1, <2>1, ElogSame
    <3>2. InOnePlace(id)
      BY DEF ElogIInv
    <3> QED BY <1>t, <2>1, <3>1, <3>2, StillInOnePlace, CountsAreNat
  <2> QED BY <2>2, <2>3, <2>4 DEF ElogIInv
<1>2. CASE /\ Elog!SendElog(s) /\ ecount < ElogQueue /\ ecount' = ecount + 1
           /\ sender' = [sender EXCEPT ![s] = [at |-> "put", msg |-> Elog!Msg("send", elogs + 1)]]
  <2> DEFINE m == Elog!Msg("send", elogs + 1)
  <2>1. /\ equeue' = equeue /\ elogs' = elogs + 1 /\ deinit = Elog!At("no")
        /\ sender[s] = Elog!At("idle")
    BY <1>2 DEF Elog!SendElog
  <2>2. m \in Messages /\ m.id = elogs + 1
    BY <1>t DEF Elog!Msg, Messages, Commands, ElogTypeOK
  <2>3. sender' = [sender EXCEPT ![s] = [at |-> "put", msg |-> m]]
    BY <1>2
  <2> HIDE DEF m
  <2>4. /\ Putting \in Nat /\ Putting' = Putting + 1
        /\ \A id : Waiting(id) \in Nat /\ Waiting(id)' = Waiting(id) + Elog!Holds(m.id = id)
    BY <1>t, <2>1, <2>2, <2>3, SenderCounts
  <2>5. ElogTypeOK'
    <3>1. sender' \in [Senders -> {Elog!At("idle")} \cup [at : {"put"}, msg : Messages]]
      BY <1>t, <2>2, <2>3 DEF ElogTypeOK
    <3> QED BY <1>t, <1>u, <1>2, <2>1, <3>1 DEF ElogTypeOK
  <2>6. CountIsExact' /\ SlotIsFree' /\ ClosedIsEmpty'
    <3>1. CountIsExact /\ ecount \in Int /\ Len(equeue) \in Nat /\ ElogQueue \in Nat
      BY <1>t, ElogAssumption, CountsAreNat DEF ElogIInv, ElogTypeOK
    <3>2. CountIsExact'
      BY <1>u, <1>2, <2>1, <2>4, <3>1 DEF CountIsExact, Elog!Holds
    <3>3. SlotIsFree' /\ ClosedIsEmpty'
      BY <1>u, <1>2, <2>1, <3>1 DEF ElogIInv, SlotIsFree, ClosedIsEmpty
    <3> QED BY <3>2, <3>3
  <2>7. ASSUME NEW id \in Nat \ {0} PROVE InOnePlace(id)'
    <3>1. InOnePlace(id) /\ elogs \in Nat
      BY <1>t DEF ElogIInv, ElogTypeOK
    <3>2. Waiting(id)' = Waiting(id) + IF id = elogs + 1 THEN 1 ELSE 0
      BY <2>2, <2>4 DEF Elog!Holds
    <3> QED BY <1>s, <1>t, <2>1, <2>4, <3>1, <3>2, ElogSame, CountsAreNat DEF InOnePlace
  <2> QED BY <2>5, <2>6, <2>7 DEF ElogIInv
<1>3. CASE Elog!SenderPut(s)
  <2>1. /\ sender[s].at = "put" /\ sender' = [sender EXCEPT ![s] = Elog!At("idle")]
        /\ elogs' = elogs
        /\ \/ deinit # Elog!At("closed") /\ equeue' = Append(equeue, sender[s].msg) /\ ecount' = ecount
           \/ equeue' = equeue /\ ecount' = ecount - 1
    BY <1>3 DEF Elog!SenderPut
  <2> DEFINE m == sender[s].msg
  <2>2. /\ m \in Messages /\ Putting' \in Nat /\ Putting = Putting' + 1
        /\ \A id : Waiting(id)' \in Nat /\ Waiting(id) = Waiting(id)' + Elog!Holds(m.id = id)
    BY <1>t, <2>1, SenderRests
  <2>3. sender' \in [Senders -> {Elog!At("idle")} \cup [at : {"put"}, msg : Messages]]
    BY <1>t, <2>1 DEF ElogTypeOK
  <2>4. CASE deinit # Elog!At("closed") /\ equeue' = Append(equeue, m) /\ ecount' = ecount
    <3> HIDE DEF m
    <3>1. /\ equeue' \in Seq(Messages) /\ Len(equeue') = Len(equeue) + 1 /\ Len(equeue) \in Nat
          /\ \A id : /\ Queued(id) \in Nat /\ Queued(id)' \in Nat
                     /\ Queued(id)' <= Queued(id) + Elog!Holds(m.id = id)
      BY <1>t, <2>2, <2>4, PutIsQueued
    <3>2. ElogTypeOK'
      BY <1>t, <1>u, <2>1, <2>3, <2>4, <3>1 DEF ElogTypeOK
    <3>3. CountIsExact' /\ SlotIsFree' /\ ClosedIsEmpty'
      BY <1>u, <2>2, <2>4, <3>1 DEF ElogIInv, CountIsExact, SlotIsFree, ClosedIsEmpty, Elog!Holds
    <3>4. ASSUME NEW id \in Nat \ {0} PROVE InOnePlace(id)'
      <4>1. InOnePlace(id) /\ Elog!Holds(m.id = id) \in Nat
        BY DEF ElogIInv, Elog!Holds
      <4>2. /\ Waiting(id)' \in Nat /\ Waiting(id) = Waiting(id)' + Elog!Holds(m.id = id)
            /\ Queued(id) \in Nat /\ Queued(id)' \in Nat
            /\ Queued(id)' <= Queued(id) + Elog!Holds(m.id = id)
            /\ InThread(id)' = InThread(id) /\ Kept(id)' = Kept(id) /\ AtAgent(id)' = AtAgent(id)
            /\ InThread(id) \in Nat /\ Kept(id) \in Nat /\ AtAgent(id) \in Nat
        BY <1>s, <1>t, <2>2, <3>1, CountsAreNat
      <4>3. Waiting(id)' + Queued(id)' + InThread(id)' + Kept(id)' + AtAgent(id)'
              <= Waiting(id) + Queued(id) + InThread(id) + Kept(id) + AtAgent(id)
        BY <4>1, <4>2
      <4> QED BY <1>t, <2>1, <4>1, <4>2, <4>3, StillInOnePlace
    <3> QED BY <3>2, <3>3, <3>4 DEF ElogIInv
  <2>5. CASE equeue' = equeue /\ ecount' = ecount - 1
    <3> HIDE DEF m
    <3>1. ElogTypeOK'
      BY <1>t, <1>u, <2>1, <2>3, <2>5 DEF ElogTypeOK
    <3>2. CountIsExact' /\ SlotIsFree' /\ ClosedIsEmpty'
      <4>1. CountIsExact /\ SlotIsFree /\ ClosedIsEmpty /\ ecount \in Int /\ Len(equeue) \in Nat
            /\ ElogQueue \in Nat
        BY <1>t, ElogAssumption, CountsAreNat DEF ElogIInv, ElogTypeOK
      <4>2. CountIsExact'
        BY <1>u, <2>2, <2>5, <4>1 DEF CountIsExact, Elog!Holds
      <4>3. SlotIsFree' /\ ClosedIsEmpty'
        BY <1>u, <2>5, <4>1 DEF SlotIsFree, ClosedIsEmpty
      <4> QED BY <4>2, <4>3
    <3>3. ASSUME NEW id \in Nat \ {0} PROVE InOnePlace(id)'
      <4>1. InOnePlace(id) /\ Elog!Holds(m.id = id) \in Nat
        BY DEF ElogIInv, Elog!Holds
      <4>2. /\ Waiting(id)' \in Nat /\ Waiting(id) = Waiting(id)' + Elog!Holds(m.id = id)
            /\ Queued(id)' = Queued(id)
            /\ InThread(id)' = InThread(id) /\ Kept(id)' = Kept(id) /\ AtAgent(id)' = AtAgent(id)
            /\ InThread(id) \in Nat /\ Kept(id) \in Nat /\ AtAgent(id) \in Nat /\ Queued(id) \in Nat
        BY <1>s, <1>t, <2>2, <2>5, CountsAreNat, ElogSame
      <4>3. Waiting(id)' + Queued(id)' + InThread(id)' + Kept(id)' + AtAgent(id)'
              <= Waiting(id) + Queued(id) + InThread(id) + Kept(id) + AtAgent(id)
        BY <4>1, <4>2
      <4> QED BY <1>t, <2>1, <4>1, <4>2, <4>3, StillInOnePlace
    <3> QED BY <3>1, <3>2, <3>3 DEF ElogIInv
  <2> QED BY <2>1, <2>4, <2>5
<1> QED BY <1>1, <1>2, <1>3 DEF Elog!SendElog

(* Every step of Deinit and of Setup, and of the connection, keeps the
   invariant. *)
LEMMA DeinitStep ==
  ASSUME ElogIInv,
         Elog!DestroyElogThread \/ Elog!DestroyPut \/ Elog!Close \/ Elog!SetupElog \/ Elog!Reconnect
  PROVE  ElogIInv'
<1>t. /\ ElogTypeOK /\ ecount \in Int /\ Len(equeue) \in Nat /\ ElogQueue \in Nat /\ Putting \in Nat
      /\ CountIsExact /\ SlotIsFree /\ ClosedIsEmpty
  BY ElogAssumption, CountsAreNat DEF ElogIInv, ElogTypeOK
<1>1. CASE Elog!DestroyElogThread
  <2>1. /\ deinit = Elog!At("no") /\ ecount <= ElogQueue + 1
        /\ UNCHANGED <<equeue, sender, thread, saved, accepted, delivered, elogs>>
    BY <1>1, <1>t DEF Elog!DestroyElogThread, SlotIsFree
  <2>2. ecount' = ecount + 1 /\ deinit' = [at |-> "put", msg |-> Elog!Cmd("destroy")]
    BY <1>1, <1>t, <2>1 DEF Elog!DestroyElogThread, Elog!QueueSize
  <2>3. deinit.at = "no" /\ deinit'.at = "put" /\ deinit' # Elog!At("no") /\ deinit' # Elog!At("closed")
        /\ deinit # Elog!At("closed")
    BY <2>1, <2>2 DEF Elog!At
  <2>4. ElogTypeOK'
    BY <1>t, <2>1, <2>2 DEF ElogTypeOK
  <2>5. CountIsExact'
    BY <1>t, <2>1, <2>2, <2>3, ElogSame DEF CountIsExact, Elog!Holds
  <2>6. SlotIsFree' /\ ClosedIsEmpty'
    BY <2>3 DEF SlotIsFree, ClosedIsEmpty
  <2>7. \A id \in Nat \ {0} : InOnePlace(id)'
    BY <2>1, ElogSame DEF ElogIInv, InOnePlace
  <2> QED BY <2>4, <2>5, <2>6, <2>7 DEF ElogIInv
<1>2. CASE Elog!DestroyPut
  <2> DEFINE m == Elog!Cmd("destroy")
  <2>1. /\ deinit.at = "put" /\ deinit.msg = m /\ m \in Messages /\ m.id = 0
    BY <1>2, <1>t DEF Elog!DestroyPut, ElogTypeOK, Elog!At, Elog!Cmd, Elog!Msg, Messages, Commands
  <2>2. /\ UNCHANGED <<sender, thread, saved, accepted, delivered, elogs>>
        /\ \/ equeue' = Append(equeue, m) /\ deinit' = Elog!At("join") /\ ecount' = ecount
           \/ equeue' = equeue /\ deinit' = Elog!At("failed") /\ ecount' = ecount - 1
    BY <1>2, <2>1 DEF Elog!DestroyPut
  <2> HIDE DEF m
  <2>f. CASE equeue' = equeue /\ deinit' = Elog!At("failed") /\ ecount' = ecount - 1
    <3>1. /\ deinit'.at = "failed" /\ deinit' # Elog!At("no") /\ deinit' # Elog!At("closed")
          /\ deinit # Elog!At("closed")
      BY <2>1, <2>f DEF Elog!At
    <3>2. ElogTypeOK'
      BY <1>t, <2>2, <2>f DEF ElogTypeOK
    <3>3. CountIsExact'
      BY <1>t, <2>1, <2>2, <2>f, <3>1, ElogSame DEF CountIsExact, Elog!Holds
    <3>4. SlotIsFree' /\ ClosedIsEmpty'
      BY <3>1 DEF SlotIsFree, ClosedIsEmpty
    <3>5. \A id \in Nat \ {0} : InOnePlace(id)'
      BY <2>2, <2>f, ElogSame DEF ElogIInv, InOnePlace
    <3> QED BY <3>2, <3>3, <3>4, <3>5 DEF ElogIInv
  <2>s. CASE equeue' = Append(equeue, m) /\ deinit' = Elog!At("join") /\ ecount' = ecount
    <3>3. /\ equeue' \in Seq(Messages) /\ Len(equeue') = Len(equeue) + 1
          /\ \A id : /\ Queued(id) \in Nat /\ Queued(id)' \in Nat
                     /\ Queued(id)' <= Queued(id) + Elog!Holds(m.id = id)
      BY <1>t, <2>1, <2>s, PutIsQueued
    <3>4. /\ deinit'.at = "join" /\ deinit' # Elog!At("no") /\ deinit' # Elog!At("closed")
          /\ deinit # Elog!At("closed")
      BY <2>1, <2>s DEF Elog!At
    <3>5. ElogTypeOK'
      BY <1>t, <2>2, <2>s, <3>3 DEF ElogTypeOK
    <3>6. CountIsExact'
      BY <1>t, <2>1, <2>2, <2>s, <3>3, <3>4, ElogSame DEF CountIsExact, Elog!Holds
    <3>7. SlotIsFree' /\ ClosedIsEmpty'
      BY <3>4 DEF SlotIsFree, ClosedIsEmpty
    <3>8. ASSUME NEW id \in Nat \ {0} PROVE InOnePlace(id)'
      <4>1. Queued(id)' <= Queued(id) /\ Queued(id) \in Nat /\ Queued(id)' \in Nat /\ InOnePlace(id)
        BY <2>1, <3>3 DEF Elog!Holds, ElogIInv
      <4> QED BY <1>t, <2>2, <2>s, <4>1, ElogSame, CountsAreNat DEF InOnePlace
    <3> QED BY <3>5, <3>6, <3>7, <3>8 DEF ElogIInv
  <2> QED BY <2>2, <2>f, <2>s
<1>3. CASE Elog!Close
  <2>1. /\ thread = Elog!At("ended") /\ saved' = <<>> /\ equeue' = <<>> /\ ecount' = 0
        /\ accepted' = {} /\ deinit' = Elog!At("closed")
        /\ UNCHANGED <<sender, thread, delivered, elogs>>
    BY <1>3 DEF Elog!Close
  <2>2. ElogTypeOK'
    BY <1>t, <2>1 DEF ElogTypeOK
  <2>3. CountIsExact' /\ SlotIsFree' /\ ClosedIsEmpty'
    BY <2>1 DEF CountIsExact, SlotIsFree, ClosedIsEmpty, Elog!At
  <2>4. ASSUME NEW id \in Nat \ {0} PROVE InOnePlace(id)'
    <3>1. Queued(id)' = 0 /\ Kept(id)' = 0
      <4>1. {i \in DOMAIN equeue' : equeue'[i].id = id} = {} /\ {i \in DOMAIN saved' : saved'[i] = id} = {}
        BY <2>1
      <4> QED BY <4>1, FS_EmptySet DEF Queued, Kept
    <3>2. AtAgent(id)' <= AtAgent(id)
      BY <2>1 DEF AtAgent, Elog!Holds
    <3>3. InOnePlace(id) /\ elogs \in Nat
      BY <1>t DEF ElogIInv, ElogTypeOK
    <3> QED BY <1>t, <2>1, <3>1, <3>2, <3>3, ElogSame, CountsAreNat DEF InOnePlace
  <2> QED BY <2>2, <2>3, <2>4 DEF ElogIInv
<1>4. CASE Elog!SetupElog
  <2>1. /\ deinit = Elog!At("closed") /\ ecount = 0 /\ \A s \in Senders : sender[s] = Elog!At("idle")
        /\ deinit' = Elog!At("no") /\ thread' = Elog!At("recv")
        /\ UNCHANGED <<equeue, ecount, sender, saved, accepted, delivered, elogs>>
    BY <1>4 DEF Elog!SetupElog
  <2>2. equeue = <<>> /\ thread = Elog!At("ended")
    BY <1>t, <2>1 DEF ClosedIsEmpty
  <2>3. Putting = 0
    <3>1. {s \in Senders : sender[s].at = "put"} = {}
      BY <2>1 DEF Elog!At
    <3> QED BY <3>1, FS_EmptySet DEF Putting
  <2>4. ElogTypeOK'
    BY <1>t, <2>1 DEF ElogTypeOK
  <2>5. CountIsExact' /\ SlotIsFree' /\ ClosedIsEmpty'
    <3>1. Len(equeue') = 0 /\ Putting' = 0 /\ thread'.at = "recv" /\ deinit'.at = "no"
          /\ deinit' # Elog!At("closed")
      BY <2>1, <2>2, <2>3, ElogSame DEF Elog!At
    <3> QED BY <1>t, <2>1, <3>1 DEF CountIsExact, SlotIsFree, ClosedIsEmpty, Elog!Holds
  <2>6. ASSUME NEW id \in Nat \ {0} PROVE InOnePlace(id)'
    <3>1. InThread(id)' = InThread(id)
      BY <2>1, <2>2 DEF InThread, Elog!At
    <3> QED BY <2>1, <3>1, ElogSame DEF ElogIInv, InOnePlace
  <2> QED BY <2>4, <2>5, <2>6 DEF ElogIInv
<1>5. CASE Elog!Reconnect
  <2>1. UNCHANGED <<equeue, ecount, sender, thread, saved, accepted, delivered, deinit, elogs>>
    BY <1>5 DEF Elog!Reconnect
  <2> QED BY <2>1, ElogSame
      DEF ElogIInv, ElogTypeOK, CountIsExact, SlotIsFree, ClosedIsEmpty, InOnePlace
<1> QED BY <1>1, <1>2, <1>3, <1>4, <1>5

\* While the thread handles a message the queue and its count stand still.
LEMMA HandlingKeeps ==
  ASSUME ElogIInv, UNCHANGED <<equeue, ecount, sender, deinit, elogs>>,
         thread.at \notin {"recv", "count", "put", "ended"},
         thread'.at \notin {"count", "put"},
         thread' \in {Elog!At("recv"), Elog!At("event"), Elog!At("ended")}
                     \cup [at : ThreadPlaces, msg : Messages],
         saved' \in Seq(Nat), accepted' \in SUBSET Nat,
         \A id \in Nat \ {0} : /\ Kept(id)' \in Nat
                     /\ InThread(id)' + Kept(id)' + AtAgent(id)' <= InThread(id) + Kept(id) + AtAgent(id)
  PROVE  ElogIInv'
<1>t. /\ ElogTypeOK /\ CountIsExact /\ SlotIsFree /\ ClosedIsEmpty
      /\ \A id \in Nat \ {0} : InOnePlace(id)
  BY DEF ElogIInv
<1>1. ElogTypeOK'
  BY <1>t DEF ElogTypeOK
<1>2. CountIsExact'
  <2>1. Putting' = Putting /\ Len(equeue') = Len(equeue)
    BY ElogSame
  <2> QED BY <1>t, <2>1 DEF CountIsExact
<1>3. SlotIsFree'
  <2>1. ecount \in Int /\ ElogQueue \in Nat
    BY <1>t, ElogAssumption DEF ElogTypeOK
  <2> QED BY <1>t, <2>1 DEF SlotIsFree
<1>4. ClosedIsEmpty'
  BY <1>t DEF ClosedIsEmpty, Elog!At
<1>5. ASSUME NEW id \in Nat \ {0} PROVE InOnePlace(id)'
  <2>1. /\ Waiting(id)' = Waiting(id) /\ Queued(id)' = Queued(id)
        /\ Waiting(id) \in Nat /\ Queued(id) \in Nat /\ Kept(id) \in Nat
        /\ InThread(id) \in Nat /\ AtAgent(id) \in Nat /\ InThread(id)' \in Nat /\ AtAgent(id)' \in Nat
        /\ Kept(id)' \in Nat
    BY <1>t, ElogSame, CountsAreNat
  <2>2. Waiting(id)' + Queued(id)' + InThread(id)' + Kept(id)' + AtAgent(id)'
          <= Waiting(id) + Queued(id) + InThread(id) + Kept(id) + AtAgent(id)
    <3>1. InThread(id)' + Kept(id)' + AtAgent(id)' <= InThread(id) + Kept(id) + AtAgent(id)
      OBVIOUS
    <3> QED BY <2>1, <3>1, SMTT(30)
  <2> QED BY <1>t, <2>1, <2>2, StillInOnePlace
<1> QED BY <1>1, <1>2, <1>3, <1>4, <1>5 DEF ElogIInv

\* A message that is received moves from the queue to the thread.
LEMMA ReceiveStep == ASSUME ElogIInv, Elog!Receive PROVE ElogIInv'
<1>t. /\ ElogTypeOK /\ CountIsExact /\ SlotIsFree /\ ClosedIsEmpty /\ ecount \in Int
  BY DEF ElogIInv, ElogTypeOK
<1>1. /\ thread.at = "recv" /\ deinit # Elog!At("closed")
      /\ UNCHANGED <<ecount, sender, saved, accepted, delivered, deinit, elogs>>
  BY <1>t DEF Elog!Receive, ClosedIsEmpty, Elog!At
<1>2. /\ equeue' \in Seq(Messages) /\ Len(equeue') = Len(equeue) - 1
      /\ thread'.at = "count" /\ thread' \in [at : {"count"}, msg : Messages]
      /\ \A id : /\ Queued(id) \in Nat /\ Queued(id)' \in Nat
                 /\ Queued(id)' + Elog!Holds(thread'.msg.id = id) <= Queued(id)
  BY <1>t, ReceivedIsNotQueued
<1>3. ElogTypeOK'
  BY <1>t, <1>1, <1>2 DEF ElogTypeOK, ThreadPlaces
<1>4. CountIsExact'
  <2>1. Putting' = Putting /\ Putting \in Nat /\ Len(equeue) \in Nat
    BY <1>t, <1>1, ElogSame, CountsAreNat
  <2> QED BY <1>t, <1>1, <1>2, <2>1 DEF CountIsExact, Elog!Holds
<1>5. SlotIsFree' /\ ClosedIsEmpty'
  BY <1>t, <1>1, <1>2 DEF SlotIsFree, ClosedIsEmpty
<1>6. ASSUME NEW id \in Nat \ {0} PROVE InOnePlace(id)'
  <2>1. /\ Waiting(id)' = Waiting(id) /\ Kept(id)' = Kept(id) /\ AtAgent(id)' = AtAgent(id)
        /\ Waiting(id) \in Nat /\ Queued(id) \in Nat /\ Kept(id) \in Nat /\ AtAgent(id) \in Nat
        /\ Queued(id)' \in Nat /\ Queued(id)' + Elog!Holds(thread'.msg.id = id) <= Queued(id)
    BY <1>t, <1>1, <1>2, ElogSame, CountsAreNat
  <2>2. InThread(id) = 0 /\ InThread(id)' = Elog!Holds(thread'.msg.id = id) /\ InThread(id)' \in Nat
    BY <1>1, <1>2 DEF InThread, Elog!Holds
  <2>3. Waiting(id)' + Queued(id)' + InThread(id)' + Kept(id)' + AtAgent(id)'
          <= Waiting(id) + Queued(id) + InThread(id) + Kept(id) + AtAgent(id)
    BY <2>1, <2>2
  <2>4. InOnePlace(id)
    BY DEF ElogIInv
  <2> QED BY <1>t, <1>1, <2>1, <2>3, <2>4, StillInOnePlace
<1> QED BY <1>3, <1>4, <1>5, <1>6 DEF ElogIInv

\* The thread counts down what it took, and up what it is about to put.
LEMMA CountStep == ASSUME ElogIInv, Elog!CountDown \/ Elog!CountUp PROVE ElogIInv'
<1>t. /\ ElogTypeOK /\ CountIsExact /\ SlotIsFree /\ ClosedIsEmpty /\ ecount \in Int
      /\ ElogQueue \in Nat
  BY ElogAssumption DEF ElogIInv, ElogTypeOK
<1>u. UNCHANGED <<equeue, sender, saved, accepted, delivered, deinit, elogs>>
  BY DEF Elog!CountDown, Elog!CountUp
<1>p. Putting' = Putting /\ Len(equeue') = Len(equeue) /\ Putting \in Nat /\ Len(equeue) \in Nat
  BY <1>t, <1>u, ElogSame, CountsAreNat
<1>q. ASSUME NEW id \in Nat \ {0}, InThread(id)' <= InThread(id) PROVE InOnePlace(id)'
  <2>1. /\ Waiting(id)' = Waiting(id) /\ Queued(id)' = Queued(id) /\ Kept(id)' = Kept(id)
        /\ AtAgent(id)' = AtAgent(id)
        /\ Waiting(id) \in Nat /\ Queued(id) \in Nat /\ Kept(id) \in Nat /\ AtAgent(id) \in Nat
        /\ InThread(id) \in Nat /\ InThread(id)' \in Nat
    BY <1>t, <1>u, ElogSame, CountsAreNat
  <2>2. Waiting(id)' + Queued(id)' + InThread(id)' + Kept(id)' + AtAgent(id)'
          <= Waiting(id) + Queued(id) + InThread(id) + Kept(id) + AtAgent(id)
    BY <1>q, <2>1
  <2>3. InOnePlace(id)
    BY DEF ElogIInv
  <2> QED BY <1>t, <1>u, <2>1, <2>2, <2>3, StillInOnePlace
<1>1. CASE Elog!CountDown
  <2>1. thread.at = "count" /\ ecount' = ecount - 1 /\ thread' = [thread EXCEPT !.at = thread.msg.cmd]
    BY <1>1 DEF Elog!CountDown
  <2>2. thread \in [at : ThreadPlaces, msg : Messages] /\ thread.msg.cmd \in Commands
    BY <1>t, <2>1 DEF ElogTypeOK, Elog!At, Messages
  <2>3. /\ thread'.at = thread.msg.cmd /\ thread'.msg = thread.msg
        /\ thread' \in [at : ThreadPlaces, msg : Messages]
        /\ thread'.at \notin {"recv", "count", "put"} /\ thread'.at # "ended"
    BY <2>1, <2>2 DEF ThreadPlaces, Commands
  <2>4. ElogTypeOK'
    BY <1>t, <1>u, <2>1, <2>3 DEF ElogTypeOK
  <2>5. CountIsExact'
    BY <1>t, <1>u, <1>p, <2>1, <2>3 DEF CountIsExact, Elog!Holds
  <2>6. SlotIsFree' /\ ClosedIsEmpty'
    BY <1>t, <1>u, <2>1, <2>3 DEF SlotIsFree, ClosedIsEmpty, Elog!At
  <2>7. \A id \in Nat \ {0} : InThread(id)' <= InThread(id)
    BY <2>1, <2>3 DEF InThread, Elog!Holds
  <2> QED BY <1>q, <2>4, <2>5, <2>6, <2>7 DEF ElogIInv
<1>2. CASE Elog!CountUp /\ ecount' = ecount + 1
  <2>1. /\ thread.at \in {"force", "try"} /\ thread' = [thread EXCEPT !.at = "put"]
        /\ ecount < ElogQueue + 2
    BY <1>2, <1>t DEF Elog!CountUp, Elog!QueueSize
  <2>2. thread \in [at : ThreadPlaces, msg : Messages]
    BY <1>t, <2>1 DEF ElogTypeOK, Elog!At
  <2>3. /\ thread'.at = "put" /\ thread'.msg = thread.msg
        /\ thread' \in [at : ThreadPlaces, msg : Messages]
    BY <2>1, <2>2 DEF ThreadPlaces
  <2>4. ElogTypeOK'
    BY <1>t, <1>u, <1>2, <2>3 DEF ElogTypeOK
  <2>5. CountIsExact'
    BY <1>t, <1>u, <1>p, <1>2, <2>1, <2>3 DEF CountIsExact, Elog!Holds
  <2>6. SlotIsFree' /\ ClosedIsEmpty'
    BY <1>t, <1>u, <1>2, <2>1, <2>3 DEF SlotIsFree, ClosedIsEmpty, Elog!At
  <2>7. \A id \in Nat \ {0} : InThread(id)' <= InThread(id)
    BY <2>1, <2>3 DEF InThread, Elog!Holds
  <2> QED BY <1>q, <2>4, <2>5, <2>6, <2>7 DEF ElogIInv
<1>3. CASE Elog!CountUp /\ ecount' = ecount /\ thread' = Elog!At("recv")
  <2>1. thread.at \in {"force", "try"} /\ thread'.at = "recv"
    BY <1>3 DEF Elog!CountUp, Elog!At
  <2>4. ElogTypeOK'
    BY <1>t, <1>u, <1>3 DEF ElogTypeOK
  <2>5. CountIsExact'
    BY <1>t, <1>u, <1>p, <1>3, <2>1 DEF CountIsExact, Elog!Holds
  <2>6. SlotIsFree' /\ ClosedIsEmpty'
    BY <1>t, <1>u, <1>3, <2>1 DEF SlotIsFree, ClosedIsEmpty, Elog!At
  <2>7. \A id \in Nat \ {0} : InThread(id)' <= InThread(id)
    BY <2>1 DEF InThread, Elog!Holds
  <2> QED BY <1>q, <2>4, <2>5, <2>6, <2>7 DEF ElogIInv
<1> QED BY <1>1, <1>2, <1>3 DEF Elog!CountUp

\* A command the thread puts moves from the thread to the queue.
LEMMA ThreadPutStep == ASSUME ElogIInv, Elog!ThreadPut PROVE ElogIInv'
<1>t. /\ ElogTypeOK /\ CountIsExact /\ SlotIsFree /\ ClosedIsEmpty /\ ecount \in Int
      /\ ElogQueue \in Nat /\ Putting \in Nat /\ Len(equeue) \in Nat
  BY ElogAssumption, CountsAreNat DEF ElogIInv, ElogTypeOK
<1>1. /\ thread.at = "put" /\ thread' = Elog!At("recv")
      /\ \/ equeue' = Append(equeue, thread.msg) /\ ecount' = ecount
         \/ equeue' = equeue /\ ecount' = ecount - 1
      /\ UNCHANGED <<sender, saved, accepted, delivered, deinit, elogs>>
  BY DEF Elog!ThreadPut
<1>m. thread.msg \in Messages /\ thread'.at = "recv" /\ thread # Elog!At("ended")
  BY <1>t, <1>1, ThreadShape DEF Elog!At, ThreadPlaces
<1> DEFINE m == thread.msg
<1>2. /\ equeue' \in Seq(Messages)
      /\ \/ Len(equeue') = Len(equeue) + 1 /\ ecount' = ecount
         \/ Len(equeue') = Len(equeue) /\ ecount' = ecount - 1
      /\ \A id : /\ Queued(id) \in Nat /\ Queued(id)' \in Nat
                 /\ Queued(id)' <= Queued(id) + Elog!Holds(m.id = id)
  <2>1. CASE equeue' = Append(equeue, thread.msg) /\ ecount' = ecount
    BY <1>t, <1>m, <2>1, PutIsQueued
  <2>2. CASE equeue' = equeue /\ ecount' = ecount - 1
    BY <1>t, <2>2, ElogSame, CountsAreNat DEF ElogTypeOK, Elog!Holds
  <2> QED BY <1>1, <2>1, <2>2
<1>3. ElogTypeOK'
  BY <1>t, <1>1, <1>2 DEF ElogTypeOK
<1>4. CountIsExact'
  <2>1. Putting' = Putting
    BY <1>1, ElogSame
  <2> QED BY <1>t, <1>1, <1>m, <1>2, <2>1 DEF CountIsExact, Elog!Holds
<1>5. SlotIsFree' /\ ClosedIsEmpty'
  BY <1>t, <1>1, <1>m DEF SlotIsFree, ClosedIsEmpty
<1>6. ASSUME NEW id \in Nat \ {0} PROVE InOnePlace(id)'
  <2>1. /\ Waiting(id)' = Waiting(id) /\ Kept(id)' = Kept(id) /\ AtAgent(id)' = AtAgent(id)
        /\ Waiting(id) \in Nat /\ Queued(id) \in Nat /\ Kept(id) \in Nat /\ AtAgent(id) \in Nat
        /\ Queued(id)' \in Nat /\ Queued(id)' <= Queued(id) + Elog!Holds(m.id = id)
    BY <1>t, <1>1, <1>2, ElogSame, CountsAreNat
  <2>2. InThread(id)' = 0 /\ InThread(id) = Elog!Holds(m.id = id) /\ InThread(id) \in Nat
    BY <1>1, <1>m DEF InThread, Elog!Holds
  <2>3. Waiting(id)' + Queued(id)' + InThread(id)' + Kept(id)' + AtAgent(id)'
          <= Waiting(id) + Queued(id) + InThread(id) + Kept(id) + AtAgent(id)
    BY <2>1, <2>2
  <2>4. InOnePlace(id)
    BY DEF ElogIInv
  <2> QED BY <1>t, <1>1, <2>1, <2>3, <2>4, StillInOnePlace
<1> QED BY <1>3, <1>4, <1>5, <1>6 DEF ElogIInv

(* Every other step of the thread moves a log from one place to another, or
   drops it. *)
LEMMA HandleStep ==
  ASSUME ElogIInv,
         \/ Elog!HandleRegister \/ Elog!HandleWait \/ Elog!SendTelemetry \/ Elog!SaveForLater
         \/ Elog!EventOther \/ Elog!HandleDestroy
         \/ \E id \in accepted : Elog!EventFinished(id) \/ Elog!EventError(id)
  PROVE  ElogIInv'
<1>t. /\ ElogTypeOK /\ saved \in Seq(Nat) /\ accepted \in SUBSET Nat
      /\ UNCHANGED <<equeue, ecount, sender, deinit, elogs>>
  BY DEF ElogIInv, ElogTypeOK, Elog!HandleRegister, Elog!HandleWait, Elog!SendTelemetry,
     Elog!SaveForLater, Elog!EventOther, Elog!HandleDestroy, Elog!EventFinished, Elog!EventError,
     Elog!Handling
<1>n. \A id : /\ Kept(id) \in Nat /\ InThread(id) \in Nat /\ AtAgent(id) \in Nat
              /\ InThread(id)' \in Nat /\ AtAgent(id)' \in Nat
  BY <1>t, CountsAreNat
<1> DEFINE ThreadTo ==
       {Elog!At("recv"), Elog!At("event"), Elog!At("ended")} \cup [at : ThreadPlaces, msg : Messages]
<1>a. /\ Elog!At("recv") \in ThreadTo /\ Elog!At("event") \in ThreadTo /\ Elog!At("ended") \in ThreadTo
      /\ \A c \in {"wait", "register"} : /\ [at |-> "force", msg |-> Elog!Cmd(c)] \in ThreadTo
                                         /\ Elog!Cmd(c).id = 0
      /\ [at : {"force"}, msg : Messages] \subseteq ThreadTo
      /\ [at : {"try"}, msg : Messages] \subseteq ThreadTo
      /\ \A p : Elog!At(p).at = p
  BY DEF Elog!Cmd, Elog!Msg, Messages, Commands, ThreadPlaces, Elog!At
<1>1. CASE Elog!HandleRegister \/ (Elog!HandleWait /\ saved' = saved /\ Elog!ForceSend(Elog!Cmd("wait")))
           \/ Elog!HandleDestroy \/ Elog!EventOther
  <2>1. /\ thread.at \in {"register", "wait", "destroy", "event"}
        /\ UNCHANGED <<saved, accepted, delivered>>
    BY <1>1 DEF Elog!HandleRegister, Elog!HandleWait, Elog!HandleDestroy, Elog!EventOther
  <2>2. \/ thread' \in {Elog!At("recv"), Elog!At("ended")}
        \/ \E c \in {"wait", "register"} : thread' = [at |-> "force", msg |-> Elog!Cmd(c)]
    BY <1>1 DEF Elog!HandleRegister, Elog!ForceSend, Elog!HandleDestroy, Elog!EventOther
  <2>3. /\ thread' \in ThreadTo /\ thread'.at \in {"recv", "ended", "force"}
        /\ thread'.at = "force" => thread'.msg.id = 0
    BY <2>2, <1>a
  <2>4. ASSUME NEW id \in Nat \ {0}
        PROVE  /\ Kept(id)' \in Nat
               /\ InThread(id)' + Kept(id)' + AtAgent(id)' <= InThread(id) + Kept(id) + AtAgent(id)
    <3>1. InThread(id)' = 0
      BY <2>3 DEF InThread, Elog!Holds
    <3>2. Kept(id)' = Kept(id) /\ AtAgent(id)' = AtAgent(id)
      BY <2>1, ElogSame
    <3> QED BY <1>n, <3>1, <3>2
  <2> QED BY <1>t, <2>1, <2>3, <2>4, HandlingKeeps
<1>2. CASE Elog!HandleWait /\ Elog!LoadElog("force")
  <2>1. thread.at = "wait" /\ UNCHANGED <<accepted, delivered>>
    BY <1>2 DEF Elog!HandleWait
  <2>2. /\ saved' \in Seq(Nat) /\ thread' \in {Elog!At("recv")} \cup [at : {"force"}, msg : Messages]
        /\ \A id : Kept(id) \in Nat /\ Kept(id)' \in Nat /\ Kept(id)' + InThread(id)' <= Kept(id)
    BY <1>2, <1>t, LoadedIsNotKept
  <2>3. thread' \in ThreadTo /\ thread'.at \in {"recv", "force"}
    BY <2>2, <1>a
  <2>4. ASSUME NEW id \in Nat \ {0}
        PROVE  /\ Kept(id)' \in Nat
               /\ InThread(id)' + Kept(id)' + AtAgent(id)' <= InThread(id) + Kept(id) + AtAgent(id)
    <3>1. AtAgent(id)' = AtAgent(id)
      BY <2>1, ElogSame
    <3> QED BY <1>n, <2>2, <3>1
  <2> QED BY <1>t, <2>1, <2>2, <2>3, <2>4, HandlingKeeps
<1>3. CASE Elog!SendTelemetry
  <2>1. /\ thread.at \in {"send", "resend"} /\ thread' = Elog!At("event")
        /\ accepted' \in {accepted, accepted \cup {thread.msg.id}}
        /\ UNCHANGED <<saved, delivered>>
    BY <1>3 DEF Elog!SendTelemetry
  <2>2. thread.msg.id \in Nat
    BY <1>t, <2>1, ThreadShape DEF ThreadPlaces, Commands
  <2>3. thread' \in ThreadTo /\ thread'.at = "event" /\ accepted' \in SUBSET Nat
    BY <1>t, <2>1, <2>2, <1>a
  <2>4. ASSUME NEW id \in Nat \ {0}
        PROVE  /\ Kept(id)' \in Nat
               /\ InThread(id)' + Kept(id)' + AtAgent(id)' <= InThread(id) + Kept(id) + AtAgent(id)
    <3>1. InThread(id)' = 0 /\ InThread(id) = Elog!Holds(thread.msg.id = id)
      BY <2>1, <2>3 DEF InThread, Elog!Holds
    <3>2. Kept(id)' = Kept(id)
      BY <2>1, ElogSame
    <3>3. AtAgent(id)' <= AtAgent(id) + InThread(id)
      BY <2>1, <3>1 DEF AtAgent, Elog!Holds
    <3> QED BY <1>n, <3>1, <3>2, <3>3
  <2> QED BY <1>t, <2>1, <2>3, <2>4, HandlingKeeps
<1>4. CASE Elog!SaveForLater
  <2>1. /\ thread.at \in {"send", "resend"} /\ Elog!SaveElog(thread.msg.id)
        /\ thread' \in {Elog!At("recv"), [at |-> "force", msg |-> Elog!Cmd("register")]}
        /\ UNCHANGED <<accepted, delivered>>
    BY <1>4 DEF Elog!SaveForLater, Elog!ForceSend
  <2>2. thread.msg.id \in Nat
    BY <1>t, <2>1, ThreadShape DEF ThreadPlaces, Commands
  <2>3. /\ thread' \in ThreadTo /\ thread'.at \in {"recv", "force"}
        /\ thread'.at = "force" => thread'.msg.id = 0
    BY <2>1, <1>a
  <2>4. /\ saved' \in Seq(Nat)
        /\ \A id : /\ Kept(id) \in Nat /\ Kept(id)' \in Nat
                   /\ Kept(id)' <= Kept(id) + Elog!Holds(thread.msg.id = id)
    BY <1>t, <2>1, <2>2, SavedIsKept
  <2>5. ASSUME NEW id \in Nat \ {0}
        PROVE  /\ Kept(id)' \in Nat
               /\ InThread(id)' + Kept(id)' + AtAgent(id)' <= InThread(id) + Kept(id) + AtAgent(id)
    <3>1. InThread(id)' = 0 /\ InThread(id) = Elog!Holds(thread.msg.id = id)
      BY <2>1, <2>3 DEF InThread, Elog!Holds
    <3>2. AtAgent(id)' = AtAgent(id)
      BY <2>1, ElogSame
    <3>3. Kept(id)' \in Nat /\ Kept(id)' <= Kept(id) + InThread(id)
      BY <2>4, <3>1
    <3> QED BY <1>n, <3>1, <3>2, <3>3
  <2> QED BY <1>t, <2>1, <2>3, <2>4, <2>5, HandlingKeeps
<1>5. ASSUME NEW x \in accepted, Elog!EventFinished(x) PROVE ElogIInv'
  <2>1. /\ thread.at = "event" /\ accepted' = accepted \ {x} /\ delivered' = delivered \cup {x}
        /\ Elog!LoadElog("try")
    BY <1>5 DEF Elog!EventFinished
  <2>2. /\ saved' \in Seq(Nat) /\ thread' \in {Elog!At("recv")} \cup [at : {"try"}, msg : Messages]
        /\ \A id : Kept(id) \in Nat /\ Kept(id)' \in Nat /\ Kept(id)' + InThread(id)' <= Kept(id)
    BY <2>1, <1>t, LoadedIsNotKept
  <2>3. thread' \in ThreadTo /\ thread'.at \in {"recv", "try"} /\ accepted' \in SUBSET Nat
    BY <1>t, <2>1, <2>2, <1>a
  <2>4. ASSUME NEW id \in Nat \ {0}
        PROVE  /\ Kept(id)' \in Nat
               /\ InThread(id)' + Kept(id)' + AtAgent(id)' <= InThread(id) + Kept(id) + AtAgent(id)
    <3>1. AtAgent(id)' <= AtAgent(id)
      BY <2>1 DEF AtAgent, Elog!Holds
    <3> QED BY <1>n, <2>2, <3>1
  <2> QED BY <1>t, <2>1, <2>2, <2>3, <2>4, HandlingKeeps
<1>6. ASSUME NEW x \in accepted, Elog!EventError(x) PROVE ElogIInv'
  <2>1. /\ thread.at = "event" /\ accepted' = accepted \ {x} /\ delivered' = delivered
        /\ Elog!SaveElog(x) /\ thread' = Elog!At("recv")
    BY <1>6 DEF Elog!EventError
  <2>2. /\ saved' \in Seq(Nat)
        /\ \A id : /\ Kept(id) \in Nat /\ Kept(id)' \in Nat
                   /\ Kept(id)' <= Kept(id) + Elog!Holds(x = id)
    BY <1>t, <2>1, SavedIsKept
  <2>3. thread' \in ThreadTo /\ thread'.at = "recv" /\ accepted' \in SUBSET Nat
    BY <1>t, <2>1, <1>a
  <2>4. ASSUME NEW id \in Nat \ {0}
        PROVE  /\ Kept(id)' \in Nat
               /\ InThread(id)' + Kept(id)' + AtAgent(id)' <= InThread(id) + Kept(id) + AtAgent(id)
    <3>1. AtAgent(id)' + Elog!Holds(x = id) <= AtAgent(id) /\ Elog!Holds(x = id) \in Nat
      BY <2>1, <1>6 DEF AtAgent, Elog!Holds
    <3>2. InThread(id)' = 0
      BY <2>3 DEF InThread, Elog!Holds
    <3>3. Kept(id)' \in Nat /\ Kept(id)' <= Kept(id) + Elog!Holds(x = id)
      BY <2>2
    <3> QED BY <1>n, <3>1, <3>2, <3>3
  <2> QED BY <1>t, <2>1, <2>2, <2>3, <2>4, HandlingKeeps
<1> QED
  BY <1>1, <1>2, <1>3, <1>4, <1>5, <1>6 DEF Elog!HandleWait, Elog!LoadElog

\* Nobody has sent, saved or delivered anything at the start.
LEMMA ElogInitOK == Elog!Init => ElogIInv
<1> SUFFICES ASSUME Elog!Init PROVE ElogIInv
  OBVIOUS
<1>1. /\ equeue = <<>> /\ ecount = 0 /\ sender = [s \in Senders |-> Elog!At("idle")]
      /\ thread = Elog!At("recv") /\ saved = <<>> /\ accepted = {} /\ delivered = {}
      /\ deinit = Elog!At("no") /\ elogs = 0
  BY DEF Elog!Init
<1>2. ElogTypeOK
  BY <1>1 DEF ElogTypeOK
<1>3. ASSUME NEW id
      PROVE  Waiting(id) = 0 /\ Queued(id) = 0 /\ Kept(id) = 0 /\ InThread(id) = 0 /\ AtAgent(id) = 0
  <2>1. /\ {s \in Senders : sender[s].at = "put" /\ sender[s].msg.id = id} = {}
        /\ {i \in DOMAIN equeue : equeue[i].id = id} = {}
        /\ {i \in DOMAIN saved : saved[i] = id} = {}
    BY <1>1 DEF Elog!At
  <2>2. InThread(id) = 0 /\ AtAgent(id) = 0
    BY <1>1 DEF InThread, AtAgent, Elog!Holds, Elog!At
  <2> QED BY <2>1, <2>2, FS_EmptySet DEF Waiting, Queued, Kept
<1>4. Putting = 0
  <2>1. {s \in Senders : sender[s].at = "put"} = {}
    BY <1>1 DEF Elog!At
  <2> QED BY <2>1, FS_EmptySet DEF Putting
<1>5. CountIsExact /\ SlotIsFree /\ ClosedIsEmpty
  <2>1. thread.at = "recv" /\ deinit.at = "no" /\ deinit # Elog!At("closed") /\ Len(equeue) = 0
    BY <1>1 DEF Elog!At
  <2> QED BY <1>1, <1>4, <2>1, ElogAssumption
          DEF CountIsExact, SlotIsFree, ClosedIsEmpty, Elog!Holds
<1>6. \A id \in Nat \ {0} : InOnePlace(id)
  BY <1>1, <1>3 DEF InOnePlace
<1> QED BY <1>2, <1>5, <1>6 DEF ElogIInv

\* A destroy command is the next to be received: no other has its priority.
LEMMA DestroyGoesFirst ==
  ASSUME ElogTypeOK, DestroyQueued
  PROVE  equeue # <<>> /\ equeue[Elog!First].cmd = "destroy"
<1>1. PICK i \in DOMAIN equeue : equeue[i].cmd = "destroy"
  BY DEF DestroyQueued
<1>2. /\ equeue \in Seq(Messages) /\ equeue # <<>>
      /\ \A j \in DOMAIN equeue : equeue[j] \in Messages
  BY <1>1 DEF ElogTypeOK
<1>3. /\ Elog!First \in DOMAIN equeue
      /\ \/ Elog!Priority[equeue[i].cmd] < Elog!Priority[equeue[Elog!First].cmd]
         \/ equeue[i].cmd = equeue[Elog!First].cmd
  BY <1>1, <1>2, FirstIsIn
<1>4. equeue[Elog!First].cmd \in Commands
  BY <1>2, <1>3 DEF Messages
<1>5. \A c \in Commands : ~(Elog!Priority["destroy"] < Elog!Priority[c])
  BY DEF Elog!Priority, Commands
<1> QED BY <1>1, <1>2, <1>3, <1>4, <1>5

\* A message that is put is in the queue, and the others stay.
LEMMA PutKeepsQueued ==
  ASSUME ElogTypeOK, NEW m \in Messages, equeue' = Append(equeue, m)
  PROVE  DestroyQueued' <=> DestroyQueued \/ m.cmd = "destroy"
<1>1. /\ DOMAIN equeue = 1..Len(equeue) /\ Len(equeue) \in Nat
      /\ DOMAIN equeue' = 1..(Len(equeue) + 1)
      /\ \A i \in 1..Len(equeue) : equeue'[i] = equeue[i]
      /\ equeue'[Len(equeue) + 1] = m
  BY AppendProperties DEF ElogTypeOK
<1> QED BY <1>1 DEF DestroyQueued

\* What the thread received is what has left the queue.
LEMMA ReceivedIsTaken ==
  ASSUME ElogTypeOK, Elog!Receive
  PROVE  /\ thread'.at = "count"
         /\ DestroyQueued' => DestroyQueued
         /\ thread'.msg.cmd = "destroy" => DestroyQueued
         /\ DestroyQueued => DestroyQueued' \/ thread'.msg.cmd = "destroy"
<1> DEFINE q == equeue
           f == Elog!First
           r == equeue'
<1>1. /\ q \in Seq(Messages) /\ DOMAIN q = 1..Len(q) /\ Len(q) \in Nat /\ f \in 1..Len(q)
  BY FirstIsIn DEF Elog!Receive, ElogTypeOK
<1>2. thread'.at = "count" /\ thread'.msg = q[f]
  BY DEF Elog!Receive
<1>3. r = Removed(q, f)
  BY DEF Elog!Receive, Elog!RemoveAt, Removed
<1>4. DestroyQueued <=> \E i \in DOMAIN q : q[i].cmd = "destroy"
  BY DEF DestroyQueued
<1>5. DestroyQueued' <=> \E i \in DOMAIN r : r[i].cmd = "destroy"
  BY DEF DestroyQueued
<1>6. DestroyQueued => q[f].cmd = "destroy"
  BY DestroyGoesFirst
<1> HIDE DEF f, q, r
<1>7. /\ DOMAIN r = 1..Len(q) - 1
      /\ \A i \in 1..Len(q) - 1 : r[i] = q[IF i < f THEN i ELSE i + 1]
  BY <1>1, <1>3, RemovedIs
<1>8. \A i \in DOMAIN r : \E j \in DOMAIN q : r[i] = q[j]
  BY <1>1, <1>7
<1> QED BY <1>1, <1>2, <1>4, <1>5, <1>6, <1>8

\* Nobody but Deinit sends the command, and the thread ends for it only.
LEMMA DestroyStep == ASSUME ElogIInv, DestroyInv, Elog!Next PROVE DestroyInv'
<1>t. /\ ElogTypeOK /\ ClosedIsEmpty
      /\ sender \in [Senders -> {Elog!At("idle")} \cup [at : {"put"}, msg : Messages]]
  BY DEF ElogIInv, ElogTypeOK
<1>d. /\ \A s \in Senders : sender[s].at = "put" => sender[s].msg.cmd # "destroy"
      /\ thread.at \in {"put", "force", "try"} => thread.msg.cmd # "destroy"
      /\ deinit.at \in {"no", "put", "failed"} => ~DestroyQueued /\ ~DestroyTaken /\ thread.at # "ended"
      /\ deinit.at = "join" => DestroyQueued \/ DestroyTaken \/ thread.at = "ended"
  BY DEF DestroyInv
<1>k. ASSUME UNCHANGED <<equeue, deinit, sender>>, DestroyTaken' <=> DestroyTaken,
             thread'.at = "ended" <=> thread.at = "ended",
             thread'.at \in {"put", "force", "try"} => thread'.msg.cmd # "destroy"
      PROVE  DestroyInv'
  BY <1>d, <1>k DEF DestroyInv, DestroyQueued
<1>1. ASSUME NEW s \in Senders, Elog!SendElog(s) PROVE DestroyInv'
  <2>1. UNCHANGED <<equeue, deinit, thread>>
    BY <1>1 DEF Elog!SendElog
  <2>2. \A r \in Senders : sender'[r] = sender[r] \/ sender'[r].msg.cmd = "send"
    BY <1>t, <1>1 DEF Elog!SendElog, Elog!Msg
  <2> QED BY <1>d, <2>1, <2>2 DEF DestroyInv, DestroyQueued, DestroyTaken
<1>2. ASSUME NEW s \in Senders, Elog!SenderPut(s) PROVE DestroyInv'
  <2>1. /\ UNCHANGED <<deinit, thread>> /\ sender[s].at = "put"
        /\ sender' = [sender EXCEPT ![s] = Elog!At("idle")]
        /\ equeue' = equeue \/ equeue' = Append(equeue, sender[s].msg)
    BY <1>2 DEF Elog!SenderPut
  <2>2. sender[s].msg \in Messages /\ sender[s].msg.cmd # "destroy"
    BY <1>t, <1>d, <2>1 DEF Elog!At
  <2>3. DestroyQueued' <=> DestroyQueued
    <3>1. equeue' = equeue => (DestroyQueued' <=> DestroyQueued)
      BY DEF DestroyQueued
    <3>2. equeue' = Append(equeue, sender[s].msg) => (DestroyQueued' <=> DestroyQueued)
      BY <1>t, <2>2, PutKeepsQueued
    <3> QED BY <2>1, <3>1, <3>2
  <2>4. \A r \in Senders : sender'[r] = sender[r] \/ sender'[r].at = "idle"
    BY <1>t, <2>1 DEF Elog!At
  <2>5. DestroyTaken' <=> DestroyTaken
    BY <2>1 DEF DestroyTaken
  <2> QED BY <1>d, <2>1, <2>3, <2>4, <2>5 DEF DestroyInv
<1>3. CASE Elog!Receive
  <2>1. /\ UNCHANGED <<deinit, sender>> /\ thread = Elog!At("recv") /\ thread.at = "recv"
    BY <1>3 DEF Elog!Receive, Elog!At
  <2>2. /\ thread'.at = "count"
        /\ DestroyQueued' => DestroyQueued
        /\ thread'.msg.cmd = "destroy" => DestroyQueued
        /\ DestroyQueued => DestroyQueued' \/ thread'.msg.cmd = "destroy"
    BY <1>t, <1>3, ReceivedIsTaken
  <2>3. DestroyTaken' <=> thread'.msg.cmd = "destroy"
    BY <2>2 DEF DestroyTaken
  <2>4. ~DestroyTaken
    BY <2>1 DEF DestroyTaken
  <2> QED BY <1>d, <2>1, <2>2, <2>3, <2>4 DEF DestroyInv
<1>4. CASE Elog!CountDown
  <2>1. /\ UNCHANGED <<equeue, deinit, sender>> /\ thread.at = "count"
        /\ thread' = [thread EXCEPT !.at = thread.msg.cmd]
    BY <1>4 DEF Elog!CountDown
  <2>2. thread \in [at : ThreadPlaces, msg : Messages] /\ thread.msg.cmd \in Commands
    BY <1>t, <2>1 DEF ElogTypeOK, Elog!At, Messages
  <2>3. thread'.at = thread.msg.cmd
    BY <2>1, <2>2
  <2>4. thread'.at \notin {"count", "put", "force", "try", "ended"}
    BY <2>2, <2>3 DEF Commands
  <2>5. DestroyTaken' <=> DestroyTaken
    BY <2>1, <2>3, <2>4 DEF DestroyTaken
  <2> QED BY <1>k, <2>1, <2>4, <2>5
<1>5. CASE Elog!CountUp
  <2>1. /\ UNCHANGED <<equeue, deinit, sender>> /\ thread.at \in {"force", "try"}
        /\ thread' = [thread EXCEPT !.at = "put"] \/ thread' = Elog!At("recv")
    BY <1>5 DEF Elog!CountUp
  <2>2. thread \in [at : ThreadPlaces, msg : Messages]
    BY <1>t, <2>1 DEF ElogTypeOK, Elog!At
  <2>3. (thread'.at = "put" /\ thread'.msg = thread.msg) \/ thread'.at = "recv"
    BY <2>1, <2>2 DEF Elog!At
  <2>4. DestroyTaken' <=> DestroyTaken
    BY <2>1, <2>3 DEF DestroyTaken
  <2> QED BY <1>k, <1>d, <2>1, <2>3, <2>4
<1>6. CASE Elog!ThreadPut
  <2>1. /\ UNCHANGED <<deinit, sender>> /\ thread.at = "put"
        /\ equeue' = Append(equeue, thread.msg) \/ equeue' = equeue
        /\ thread'.at = "recv"
    BY <1>6 DEF Elog!ThreadPut, Elog!At
  <2>2. thread.msg \in Messages /\ thread.msg.cmd # "destroy"
    BY <1>t, <1>d, <2>1, ThreadShape DEF ThreadPlaces
  <2>3. DestroyQueued' <=> DestroyQueued
    <3>1. equeue' = equeue => (DestroyQueued' <=> DestroyQueued)
      BY DEF DestroyQueued
    <3> QED BY <1>t, <2>1, <2>2, <3>1, PutKeepsQueued
  <2>4. DestroyTaken' <=> DestroyTaken
    BY <2>1 DEF DestroyTaken
  <2> QED BY <1>d, <2>1, <2>3, <2>4 DEF DestroyInv
<1>7. CASE Elog!HandleDestroy
  <2>1. /\ UNCHANGED <<equeue, deinit, sender>> /\ thread.at = "destroy" /\ thread'.at = "ended"
    BY <1>7 DEF Elog!HandleDestroy, Elog!Handling, Elog!At
  <2>2. DestroyTaken /\ ~DestroyTaken'
    BY <2>1 DEF DestroyTaken
  <2>3. DestroyQueued' <=> DestroyQueued
    BY <2>1 DEF DestroyQueued
  <2> QED BY <1>d, <2>1, <2>2, <2>3 DEF DestroyInv
<1>h. ASSUME UNCHANGED <<equeue, deinit, sender>>,
             thread.at \notin {"count", "destroy", "ended"},
             \/ thread'.at \in {"recv", "event"}
             \/ thread'.at \in {"force", "try"} /\ thread'.msg.cmd \in {"wait", "register", "resend"}
      PROVE  DestroyInv'
  <2>1. ~DestroyTaken /\ ~DestroyTaken'
    BY <1>h DEF DestroyTaken
  <2>2. thread'.at # "ended" /\ (thread'.at \in {"put", "force", "try"} => thread'.msg.cmd # "destroy")
    BY <1>h
  <2> QED BY <1>h, <1>k, <2>1, <2>2
<1>8. CASE Elog!HandleRegister
  BY <1>8, <1>h DEF Elog!HandleRegister, Elog!Handling, Elog!ForceSend, Elog!At, Elog!Cmd, Elog!Msg
<1>9. CASE Elog!HandleWait
  BY <1>9, <1>h DEF Elog!HandleWait, Elog!Handling, Elog!ForceSend, Elog!LoadElog, Elog!At,
     Elog!Cmd, Elog!Msg
<1>10. CASE Elog!SendTelemetry
  BY <1>10, <1>h DEF Elog!SendTelemetry, Elog!Handling, Elog!At
<1>11. CASE Elog!SaveForLater
  BY <1>11, <1>h DEF Elog!SaveForLater, Elog!Handling, Elog!ForceSend, Elog!At, Elog!Cmd, Elog!Msg
<1>12. CASE Elog!EventOther
  BY <1>12, <1>h DEF Elog!EventOther, Elog!Handling, Elog!At
<1>13. ASSUME NEW id \in accepted, Elog!EventFinished(id) \/ Elog!EventError(id) PROVE DestroyInv'
  BY <1>13, <1>h DEF Elog!EventFinished, Elog!EventError, Elog!Handling, Elog!LoadElog, Elog!At,
     Elog!Msg
<1>14. CASE Elog!Reconnect
  <2>1. UNCHANGED <<equeue, deinit, sender, thread>>
    BY <1>14 DEF Elog!Reconnect
  <2> QED BY <1>d, <2>1 DEF DestroyInv, DestroyQueued, DestroyTaken
<1>15. CASE Elog!DestroyElogThread
  <2>1. /\ UNCHANGED <<equeue, sender, thread>> /\ deinit.at = "no" /\ deinit'.at \in {"put", "unsent"}
    BY <1>15 DEF Elog!DestroyElogThread, Elog!At
  <2> QED BY <1>d, <2>1 DEF DestroyInv, DestroyQueued, DestroyTaken
<1>16. CASE Elog!DestroyPut
  <2>1. /\ UNCHANGED <<sender, thread>> /\ deinit.at = "put" /\ deinit.msg = Elog!Cmd("destroy")
        /\ \/ deinit'.at = "join" /\ equeue' = Append(equeue, deinit.msg)
           \/ deinit'.at = "failed" /\ equeue' = equeue
    BY <1>t, <1>16 DEF Elog!DestroyPut, ElogTypeOK, Elog!At
  <2>2. deinit.msg \in Messages /\ deinit.msg.cmd = "destroy"
    BY <2>1 DEF Elog!Cmd, Elog!Msg, Messages, Commands
  <2>3. CASE deinit'.at = "join" /\ equeue' = Append(equeue, deinit.msg)
    <3>1. DestroyQueued'
      BY <1>t, <2>2, <2>3, PutKeepsQueued
    <3> QED BY <1>d, <2>1, <2>3, <3>1 DEF DestroyInv
  <2>4. CASE deinit'.at = "failed" /\ equeue' = equeue
    BY <1>d, <2>1, <2>4 DEF DestroyInv, DestroyQueued, DestroyTaken
  <2> QED BY <2>1, <2>3, <2>4
<1>17. CASE Elog!Close
  <2>1. /\ UNCHANGED <<sender, thread>> /\ thread.at = "ended" /\ deinit'.at = "closed"
    BY <1>17 DEF Elog!Close, Elog!At
  <2> QED BY <1>d, <2>1 DEF DestroyInv
<1>18. CASE Elog!SetupElog
  <2>1. /\ UNCHANGED <<equeue, sender>> /\ deinit = Elog!At("closed")
        /\ deinit'.at = "no" /\ thread'.at = "recv"
    BY <1>18 DEF Elog!SetupElog, Elog!At
  <2>2. equeue' = <<>>
    BY <1>t, <2>1 DEF ClosedIsEmpty
  <2>3. ~DestroyQueued' /\ ~DestroyTaken'
    BY <2>1, <2>2 DEF DestroyQueued, DestroyTaken
  <2> QED BY <1>d, <2>1, <2>3 DEF DestroyInv
<1> QED
  BY <1>1, <1>2, <1>3, <1>4, <1>5, <1>6, <1>7, <1>8, <1>9, <1>10, <1>11, <1>12, <1>13, <1>14,
     <1>15, <1>16, <1>17, <1>18
  DEF Elog!Next, Elog!ElogThread, Elog!EventReturns

\* What Deinit waits for is under way.
LEMMA DestroyHeard == ElogIInv /\ DestroyInv => Elog!DestroyIsHeard
<1> SUFFICES ASSUME ElogIInv, DestroyInv PROVE Elog!DestroyIsHeard
  OBVIOUS
<1>t. /\ ElogTypeOK /\ CountIsExact /\ ClosedIsEmpty /\ ecount \in Int /\ ElogQueue \in Nat
      /\ Putting \in Nat /\ Len(equeue) \in Nat
  BY ElogAssumption, CountsAreNat DEF ElogIInv, ElogTypeOK
<1>1. deinit.at = "put" \/ thread.at = "put" => Len(equeue) < Elog!QueueSize
  <2> SUFFICES ASSUME deinit.at = "put" \/ thread.at = "put" PROVE Len(equeue) < ElogQueue + 2
    BY DEF Elog!QueueSize
  <2>1. deinit # Elog!At("closed")
    BY <1>t DEF ClosedIsEmpty, Elog!At
  <2> QED BY <1>t, <2>1 DEF CountIsExact, Elog!Holds
<1>2. deinit.at = "join" /\ thread = Elog!At("recv") =>
        equeue # <<>> /\ equeue[Elog!First].cmd = "destroy"
  <2> SUFFICES ASSUME deinit.at = "join", thread = Elog!At("recv")
               PROVE  equeue # <<>> /\ equeue[Elog!First].cmd = "destroy"
    OBVIOUS
  <2>1. thread.at = "recv" /\ DestroyQueued
    BY DEF DestroyInv, DestroyTaken, Elog!At
  <2> QED BY <1>t, <2>1, DestroyGoesFirst
<1>3. thread = Elog!At("ended") => deinit.at \in {"join", "closed"}
  BY <1>t, ThreadShape DEF DestroyInv
<1> QED BY <1>1, <1>2, <1>3 DEF Elog!DestroyIsHeard

\* The invariants say what the run checks.
LEMMA ElogIsSound == ElogIInv /\ DestroyInv => ElogQueueIsSound
<1> SUFFICES ASSUME ElogIInv, DestroyInv PROVE ElogQueueIsSound
  OBVIOUS
<1>t. ElogTypeOK /\ CountIsExact /\ elogs \in Nat
  BY DEF ElogIInv, ElogTypeOK
<1>1. Elog!QueueCountIsExact
  BY <1>t, ElogCardinality DEF Elog!QueueCountIsExact, CountIsExact, Putting, Elog!QueueSize
<1>2. Elog!ElogInOnePlace
  <2> SUFFICES ASSUME NEW id \in 1..elogs PROVE Elog!ElogPlaces(id) <= 1
    BY DEF Elog!ElogInOnePlace
  <2>1. InOnePlace(id) /\ id \in Nat /\ id <= elogs
    BY <1>t DEF ElogIInv
  <2>2. /\ Waiting(id) \in Nat /\ Queued(id) \in Nat /\ Kept(id) \in Nat
        /\ InThread(id) \in Nat /\ AtAgent(id) \in Nat
        /\ Elog!Holds(id \in accepted) \in Nat /\ Elog!Holds(id \in delivered) \in Nat
    BY <1>t, CountsAreNat DEF Elog!Holds
  <2>3. Elog!ElogPlaces(id) = Waiting(id) + Queued(id) + InThread(id) + Kept(id)
                              + Elog!Holds(id \in accepted) + Elog!Holds(id \in delivered)
    BY ElogCardinality DEF Elog!ElogPlaces, Waiting, Queued, InThread, Kept
  <2> QED BY <2>1, <2>2, <2>3 DEF InOnePlace, AtAgent
<1>3. Elog!DestroyIsSent
  BY <1>t, ThreadShape DEF Elog!DestroyIsSent, Elog!At
<1>4. Elog!DestroyIsHeard
  BY DestroyHeard
<1> QED BY <1>1, <1>2, <1>3, <1>4 DEF ElogQueueIsSound, Elog!ElogQueueIsSound

(* The count of the elog queue is exact, no event log is in two places,    *)
(* Deinit always finds room for its command, and the thread it joins takes *)
(* that command next and ends for nothing else, whatever sends fail        *)
(* (log_manager_internal.c).                                               *)
THEOREM SpecElogQueueIsSound == Spec => []ElogQueueIsSound
<1>1. Init => ElogIInv /\ DestroyInv
  <2> SUFFICES ASSUME Elog!Init PROVE ElogIInv /\ DestroyInv
    BY DEF Init
  <2>1. /\ equeue = <<>> /\ sender = [s \in Senders |-> Elog!At("idle")]
        /\ thread.at = "recv" /\ deinit.at = "no"
    BY DEF Elog!Init, Elog!At
  <2>2. DestroyInv
    BY <2>1 DEF DestroyInv, DestroyQueued, DestroyTaken, Elog!At
  <2> QED BY <2>2, ElogInitOK
<1>2. ElogIInv /\ [Next]_vars => ElogIInv'
  <2> SUFFICES ASSUME ElogIInv, [Next]_vars PROVE ElogIInv'
    OBVIOUS
  <2>1. CASE Elog!Next
    BY <2>1, SenderStep, DeinitStep, ReceiveStep, CountStep, ThreadPutStep, HandleStep
    DEF Elog!Next, Elog!ElogThread, Elog!EventReturns
  <2>2. CASE UNCHANGED elogVars
    <3>1. UNCHANGED <<equeue, ecount, sender, thread, saved, accepted, delivered, deinit, elogs>>
      BY <2>2 DEF elogVars
    <3> QED BY <3>1, ElogSame
        DEF ElogIInv, ElogTypeOK, CountIsExact, SlotIsFree, ClosedIsEmpty, InOnePlace
  <2> QED BY <2>1, <2>2 DEF Next, vars
<1>3. ElogIInv /\ DestroyInv /\ [Next]_vars => DestroyInv'
  <2>1. CASE UNCHANGED elogVars
    BY <2>1 DEF elogVars, DestroyInv, DestroyQueued, DestroyTaken
  <2> QED BY <2>1, DestroyStep DEF Next, vars
<1> QED BY <1>1, <1>2, <1>3, ElogIsSound, PTL DEF Spec

-----------------------------------------------------------------------------
(* The settings. *)

(* What is kept and what is in memory has passed the checks, which leave   *)
(* no name for a local upload.                                             *)
Stored == [level : {"info", "debug"}, name : {"", "bucket"}]
Given == [level : {"info", "debug", "bad"}, name : {"", "bucket", "http"}]
SetCalls ==
  [at : {"names", "save"}, block : {"SysApp", "Sensor", "All"}, value : Given,
   mask : SUBSET {"level", "name"}, upload : {"cloud"}]

(* What a caller is doing.                                                 *)
CallShape(r) ==
  \/ r = Settings!Quiet
  \/ r.at \in {"read", "call"}
  \/ r.at = "search" /\ r = [at |-> "search", blocks |-> r.blocks]
  \/ r \in SetCalls /\ Settings!CheckParameters(r.value, r.mask)

SettingsTypeOK ==
  /\ params \in [{"SysApp", "Sensor"} -> Stored] /\ kept \in Stored
  /\ names \in [{"local", "cloud"} -> [{"SysApp", "Sensor"} -> {"", "bucket"}]]
  /\ \A b \in {"SysApp", "Sensor"} : names["local"][b] = ""
  /\ caller = [c \in Callers |-> caller[c]] /\ \A c \in Callers : CallShape(caller[c])
  /\ calm \in BOOLEAN

(* What the storage will hold when the call in progress has saved.         *)
Promised(k, r) ==
  IF "SysApp" \in Settings!Affected(r.block)
    THEN Settings!Masked(k, r.value, r.mask) ELSE k
Setting(c) == caller[c].at \in {"names", "save"}

(* In a calm time one caller is at work, and it knows what it has done.    *)
Agreement ==
  /\ (\A c \in Callers : ~Setting(c)) =>
       params["SysApp"] = kept /\ names["cloud"]["SysApp"] = kept.name
  /\ \A c \in Callers : Setting(c) =>
       /\ params["SysApp"] = Promised(kept, caller[c])
       /\ names["cloud"]["SysApp"] =
            IF caller[c].at = "names" THEN kept.name ELSE params["SysApp"].name
SettingsIInv ==
  /\ SettingsTypeOK
  /\ lifecycle # "start" => \A c \in Callers : caller[c] = Settings!Quiet
  /\ calm => \A c, d \in Callers :
       caller[c] # Settings!Quiet /\ caller[d] # Settings!Quiet => c = d
  /\ lifecycle = "start" /\ calm => Agreement

\* Settings that passed the check can be stored, whatever part of them.
LEMMA MaskedOK ==
  ASSUME NEW old \in Stored, NEW v \in Given, NEW mask \in SUBSET {"level", "name"},
         NEW part \in SUBSET mask, Settings!CheckParameters(v, mask)
  PROVE  /\ Settings!Masked(old, v, part) \in Stored
         /\ Settings!Masked(old, v, part).name = IF "name" \in part THEN v.name ELSE old.name
<1>1. old = [level |-> old.level, name |-> old.name] /\ DOMAIN old = {"level", "name"}
      /\ old.level \in {"info", "debug"} /\ old.name \in {"", "bucket"}
      /\ old["level"] = old.level /\ old["name"] = old.name
  BY DEF Stored
<1>2. /\ v["level"] = v.level /\ v["name"] = v.name
      /\ "level" \in part => v.level \in {"info", "debug"}
      /\ "name" \in part => v.name \in {"", "bucket"}
  BY DEF Given, Settings!CheckParameters, Settings!Levels, Settings!LocalUploadAvailable
<1> DEFINE x == IF "level" \in part THEN v.level ELSE old.level
           y == IF "name" \in part THEN v.name ELSE old.name
<1>3. Settings!Masked(old, v, part) = [f \in {"level", "name"} |-> IF f = "level" THEN x ELSE y]
  BY <1>1, <1>2 DEF Settings!Masked
<1>4. x \in {"info", "debug"} /\ y \in {"", "bucket"}
  BY <1>1, <1>2
<1> HIDE DEF x, y
<1>5. Settings!Masked(old, v, part) = [level |-> x, name |-> y]
  BY <1>3
<1>6. Settings!Masked(old, v, part) \in Stored /\ Settings!Masked(old, v, part).name = y
  <2>1. [level |-> x, name |-> y] \in Stored /\ [level |-> x, name |-> y].name = y
    BY <1>4 DEF Stored
  <2> QED BY <1>5, <2>1, Zenon
<1> QED BY <1>6 DEF y

\* A step of one caller that changes nothing but where it is.
LEMMA CallerOnly ==
  ASSUME SettingsIInv, NEW c \in Callers, caller[c] # Settings!Quiet, ~Setting(c), NEW r,
         caller' = [caller EXCEPT ![c] = r], CallShape(r), r.at \notin {"names", "save"},
         UNCHANGED <<lifecycle, params, names, kept, calm>>
  PROVE  SettingsIInv'
<1>1. /\ caller'[c] = r /\ \A d \in Callers \ {c} : caller'[d] = caller[d]
      /\ caller' = [d \in Callers |-> caller'[d]]
  BY DEF SettingsIInv, SettingsTypeOK
<1>2. SettingsTypeOK'
  BY <1>1 DEF SettingsIInv, SettingsTypeOK, CallShape
<1>3. (lifecycle = "start" /\ calm => Agreement)'
  BY <1>1 DEF SettingsIInv, Agreement, Setting, Promised
<1> QED BY <1>1, <1>2, <1>3 DEF SettingsIInv

\* Every step of the settings keeps their invariant.
LEMMA SettingsStep == SettingsIInv /\ Settings!Next => SettingsIInv'
<1> SUFFICES ASSUME SettingsIInv, Settings!Next PROVE SettingsIInv'
  OBVIOUS
<1>t. SettingsTypeOK
  BY DEF SettingsIInv
<1>q. Settings!Quiet.at = "idle"
  BY DEF Settings!Quiet
<1>b. Settings!Blocks = {"SysApp", "Sensor"} /\ Settings!Default \in Stored
  BY DEF Settings!Blocks, Settings!Default, Stored
<1>n. /\ Settings!NoNames \in [{"local", "cloud"} -> [{"SysApp", "Sensor"} -> {"", "bucket"}]]
      /\ \A b \in {"SysApp", "Sensor"} : Settings!NoNames["local"][b] = ""
      /\ Settings!NoNames["cloud"]["SysApp"] = ""
  BY DEF Settings!NoNames, Settings!Blocks
<1>f. ASSUME NEW v \in Stored
      PROVE  /\ Settings!LoadedFrom(v) \in [{"SysApp", "Sensor"} -> Stored]
             /\ Settings!LoadedFrom(v)["SysApp"] = v
             /\ Settings!NamesFrom(v) \in [{"local", "cloud"} -> [{"SysApp", "Sensor"} -> {"", "bucket"}]]
             /\ \A b \in {"SysApp", "Sensor"} : Settings!NamesFrom(v)["local"][b] = ""
             /\ Settings!NamesFrom(v)["cloud"]["SysApp"] = v.name
  <2>1. v.name \in {"", "bucket"}
    BY DEF Stored
  <2>2. Settings!NamesFrom(v) =
          IF v.name = "" THEN Settings!NoNames
          ELSE [Settings!NoNames EXCEPT !["cloud"]["SysApp"] = v.name]
    BY <2>1 DEF Settings!NamesFrom, Settings!UploadType, Settings!LoadableBlock
  <2>3. /\ Settings!LoadedFrom(v) \in [{"SysApp", "Sensor"} -> Stored]
        /\ Settings!LoadedFrom(v)["SysApp"] = v
    BY <1>t DEF Settings!LoadedFrom, Settings!LoadableBlock, SettingsTypeOK
  <2>4. CASE v.name = ""
    BY <2>2, <2>3, <2>4, <1>n
  <2>5. CASE v.name = "bucket"
    BY <2>2, <2>3, <2>5, <1>n
  <2> QED BY <2>1, <2>4, <2>5
<1>1. CASE Settings!EsfLogManagerInit \/ Settings!Deinit \/ Settings!Restart
  <2>1. /\ \A c \in Callers : caller'[c] = Settings!Quiet
        /\ lifecycle' # "start" /\ kept' = kept
        /\ caller' = [c \in Callers |-> caller'[c]]
    BY <1>1, <1>t DEF SettingsIInv, SettingsTypeOK, Settings!EsfLogManagerInit, Settings!Deinit,
       Settings!Restart
  <2>2. /\ params' \in [{"SysApp", "Sensor"} -> Stored] /\ calm' \in BOOLEAN
        /\ names' = names \/ names' = Settings!NoNames
    BY <1>1, <1>t, <1>b DEF SettingsTypeOK, Settings!EsfLogManagerInit, Settings!Deinit,
       Settings!Restart
  <2>3. SettingsTypeOK'
    BY <1>t, <1>n, <2>1, <2>2 DEF SettingsTypeOK, CallShape
  <2> QED BY <2>1, <2>3 DEF SettingsIInv
<1>2. CASE Settings!StartFails
  <2>1. /\ lifecycle = "init" /\ lifecycle' = "init" /\ params' = Settings!LoadedFrom(kept)
        /\ names' = Settings!NamesFrom(kept) /\ UNCHANGED <<kept, caller, calm>>
    BY <1>2 DEF Settings!StartFails
  <2>2. SettingsTypeOK'
    BY <1>t, <1>f, <2>1 DEF SettingsTypeOK, CallShape
  <2> QED BY <2>1, <2>2 DEF SettingsIInv
<1>3. ASSUME NEW c \in Callers, Settings!Start(c) PROVE SettingsIInv'
  <2>1. PICK v \in {kept, Settings!Default} :
          /\ params' = Settings!LoadedFrom(v) /\ names' = Settings!NamesFrom(v)
          /\ calm' = (calm /\ v = kept)
    BY <1>3 DEF Settings!Start
  <2>2. v \in Stored
    BY <1>t, <1>b DEF SettingsTypeOK
  <2>3. PICK r : /\ caller' = [caller EXCEPT ![c] = r] /\ CallShape(r)
                 /\ r.at \notin {"names", "save"}
    <3> DEFINE s == [at |-> "search", blocks |-> <<"SysApp", "Sensor">>]
               z == IF afterFlag THEN s ELSE Settings!Quiet
    <3>1. caller' = [caller EXCEPT ![c] = z]
      BY <1>3 DEF Settings!Start
    <3>2. CallShape(s) /\ s.at = "search" /\ CallShape(Settings!Quiet)
      BY DEF CallShape
    <3> HIDE DEF s
    <3>3. CallShape(z) /\ z.at \notin {"names", "save"}
      BY <1>q, <3>2
    <3> QED BY <3>1, <3>3
  <2>4. /\ lifecycle = "init" /\ kept' = kept
        /\ \A d \in Callers : caller[d] = Settings!Quiet
    BY <1>3 DEF Settings!Start, SettingsIInv
  <2>5. /\ caller'[c] = r /\ \A d \in Callers \ {c} : caller'[d] = Settings!Quiet
        /\ caller' = [d \in Callers |-> caller'[d]]
    BY <1>t, <2>3, <2>4 DEF SettingsTypeOK
  <2>6. SettingsTypeOK'
    BY <1>t, <1>f, <2>1, <2>2, <2>3, <2>4, <2>5 DEF SettingsTypeOK, CallShape
  <2>7. Agreement' \/ ~calm'
    <3>1. \A d \in Callers : ~Setting(d)'
      BY <1>q, <2>3, <2>5 DEF Setting
    <3>2. calm' => params'["SysApp"] = kept' /\ names'["cloud"]["SysApp"] = kept'.name
      BY <1>f, <2>1, <2>2, <2>4
    <3> QED BY <3>1, <3>2 DEF Agreement
  <2>8. lifecycle' = "start"
    BY <1>3 DEF Settings!Start
  <2> QED BY <2>5, <2>6, <2>7, <2>8 DEF SettingsIInv
<1>4. ASSUME NEW c \in Callers, NEW b \in Settings!Blocks \cup {"All"}, NEW v \in Settings!Values,
             NEW mask \in SUBSET {"level", "name"}, Settings!SetParameter(c, b, v, mask)
      PROVE  SettingsIInv'
  <2>1. v \in Given /\ b \in {"SysApp", "Sensor", "All"}
    BY <1>b DEF Given, Settings!Values, Settings!Levels
  <2>2. /\ Settings!CheckParameters(v, mask) /\ caller[c] = Settings!Quiet
        /\ lifecycle = "start" /\ lifecycle' = "start" /\ names' = names /\ kept' = kept
        /\ params' = [x \in Settings!Blocks |->
             IF x \in Settings!Affected(b) THEN Settings!Masked(params[x], v, mask) ELSE params[x]]
        /\ calm' = (calm /\ \A o \in Callers : caller[o] = Settings!Quiet)
    BY <1>4 DEF Settings!SetParameter
  <2> DEFINE u == IF b = "All" THEN "cloud" ELSE Settings!UploadType(params'[b].name)
             r == [at |-> "names", block |-> b, value |-> v, mask |-> mask, upload |-> u]
  <2>3. caller' = [caller EXCEPT ![c] = r]
    BY <1>4 DEF Settings!SetParameter
  <2>4. ASSUME NEW x \in {"SysApp", "Sensor"} PROVE params'[x] \in Stored
    <3>1. params[x] \in Stored
      BY <1>t DEF SettingsTypeOK
    <3>2. Settings!Masked(params[x], v, mask) \in Stored
      BY <2>1, <2>2, <3>1, MaskedOK
    <3> QED BY <1>b, <2>2, <3>1, <3>2
  <2>5. params' \in [{"SysApp", "Sensor"} -> Stored]
    BY <1>b, <2>2, <2>4
  <2>6. u = "cloud"
    <3>1. CASE b # "All"
      <4>1. params'[b].name # "http"
        BY <2>1, <2>4, <3>1 DEF Stored
      <4> QED BY <3>1, <4>1 DEF Settings!UploadType
    <3> QED BY <3>1
  <2> HIDE DEF u
  <2>7. r \in SetCalls /\ r.value = v /\ r.mask = mask /\ r.block = b /\ r.at = "names"
    BY <2>1, <2>6 DEF SetCalls
  <2> HIDE DEF r
  <2>8. CallShape(r)
    BY <2>2, <2>7 DEF CallShape
  <2>9. /\ caller'[c] = r /\ \A d \in Callers \ {c} : caller'[d] = caller[d]
        /\ caller' = [d \in Callers |-> caller'[d]]
    BY <1>t, <2>3 DEF SettingsTypeOK
  <2>10. SettingsTypeOK'
    BY <1>t, <2>2, <2>5, <2>8, <2>9 DEF SettingsTypeOK, CallShape
  <2>11. ASSUME calm' PROVE Agreement'
    <3>1. calm /\ \A o \in Callers : caller[o] = Settings!Quiet
      BY <2>2, <2>11
    <3>2. params["SysApp"] = kept /\ names["cloud"]["SysApp"] = kept.name
      BY <1>q, <2>2, <3>1 DEF SettingsIInv, Agreement, Setting
    <3>3. params'["SysApp"] = Promised(kept', r)
      BY <1>b, <2>2, <2>7, <3>2 DEF Promised
    <3>5. \A d \in Callers : Setting(d)' <=> d = c
      BY <1>q, <2>7, <2>9, <3>1 DEF Setting
    <3>6. Setting(c)' /\ names'["cloud"]["SysApp"] = kept'.name
      BY <2>2, <3>2, <3>5
    <3> QED BY <2>7, <2>9, <3>3, <3>5, <3>6 DEF Agreement
  <2>12. (calm => \A d, e \in Callers :
            caller[d] # Settings!Quiet /\ caller[e] # Settings!Quiet => d = e)'
    BY <2>2, <2>9
  <2> QED BY <2>2, <2>10, <2>11, <2>12 DEF SettingsIInv
<1>5. ASSUME NEW c \in Callers, Settings!SetUploadData(c) PROVE SettingsIInv'
  <2> DEFINE f == caller[c]
  <2>1. /\ f.at = "names" /\ caller' = [caller EXCEPT ![c].at = "save"]
        /\ UNCHANGED <<lifecycle, params, kept, calm>>
        /\ names' = IF "name" \notin f.mask THEN names
                    ELSE [names EXCEPT ![f.upload] =
                            [x \in Settings!Blocks |-> IF x \in Settings!Affected(f.block)
                                                       THEN f.value.name ELSE @[x]]]
    BY <1>5 DEF Settings!SetUploadData
  <2>2. f \in SetCalls /\ Settings!CheckParameters(f.value, f.mask) /\ f # Settings!Quiet
    BY <1>q, <1>t, <2>1 DEF SettingsTypeOK, CallShape
  <2>3. /\ f.upload = "cloud" /\ f.value \in Given /\ f.mask \in SUBSET {"level", "name"}
        /\ f.block \in {"SysApp", "Sensor", "All"}
    BY <2>2 DEF SetCalls
  <2>4. "name" \in f.mask => f.value.name \in {"", "bucket"}
    BY <2>2, <2>3 DEF Given, Settings!CheckParameters, Settings!LocalUploadAvailable
  <2>5. PICK r : /\ caller' = [caller EXCEPT ![c] = r] /\ r \in SetCalls /\ r.at = "save"
                 /\ r.block = f.block /\ r.value = f.value /\ r.mask = f.mask
    <3>1. caller' = [caller EXCEPT ![c] = [f EXCEPT !.at = "save"]]
      BY <2>1
    <3>2. ASSUME NEW g \in SetCalls
          PROVE  LET h == [g EXCEPT !.at = "save"]
                 IN h \in SetCalls /\ h.at = "save" /\ h.block = g.block /\ h.value = g.value
                    /\ h.mask = g.mask
      BY DEF SetCalls
    <3> HIDE DEF f
    <3> QED BY <2>2, <3>1, <3>2
  <2> HIDE DEF f
  <2>6. CallShape(r)
    BY <2>2, <2>5 DEF CallShape
  <2>7. /\ caller'[c] = r /\ \A d \in Callers \ {c} : caller'[d] = caller[d]
        /\ caller' = [d \in Callers |-> caller'[d]]
    BY <1>t, <2>5 DEF SettingsTypeOK
  <2>8. /\ names' \in [{"local", "cloud"} -> [{"SysApp", "Sensor"} -> {"", "bucket"}]]
        /\ names'["local"] = names["local"]
        /\ names'["cloud"]["SysApp"] =
             IF "name" \in f.mask /\ "SysApp" \in Settings!Affected(f.block)
             THEN f.value.name ELSE names["cloud"]["SysApp"]
    <3>1. CASE "name" \notin f.mask
      BY <3>1, <1>t, <2>1 DEF SettingsTypeOK
    <3>2. CASE "name" \in f.mask
      <4> DEFINE w == [x \in {"SysApp", "Sensor"} |-> IF x \in Settings!Affected(f.block)
                         THEN f.value.name ELSE names["cloud"][x]]
      <4>1. names' = [names EXCEPT !["cloud"] = w]
        BY <1>b, <1>t, <2>1, <2>3, <3>2 DEF SettingsTypeOK
      <4>2. w \in [{"SysApp", "Sensor"} -> {"", "bucket"}]
        BY <1>t, <2>4, <3>2 DEF SettingsTypeOK
      <4>3. w["SysApp"] = IF "SysApp" \in Settings!Affected(f.block)
                          THEN f.value.name ELSE names["cloud"]["SysApp"]
        OBVIOUS
      <4> HIDE DEF w
      <4> QED BY <1>t, <3>2, <4>1, <4>2, <4>3 DEF SettingsTypeOK
    <3> QED BY <3>1, <3>2
  <2>9. SettingsTypeOK'
    BY <1>t, <2>1, <2>6, <2>7, <2>8 DEF SettingsTypeOK, CallShape
  <2>10. ASSUME calm, lifecycle = "start" PROVE Agreement'
    <3>1. /\ Setting(c) /\ params["SysApp"] = Promised(kept, caller[c])
          /\ names["cloud"]["SysApp"] = kept.name
      BY <2>1, <2>10 DEF SettingsIInv, Agreement, Setting, f
    <3>2. \A d \in Callers \ {c} : caller[d] = Settings!Quiet
      BY <2>2, <2>10 DEF SettingsIInv, f
    <3>3. Promised(kept', r) = Promised(kept, caller[c])
      BY <2>1, <2>5 DEF Promised, f
    <3>4. names'["cloud"]["SysApp"] = params["SysApp"].name
      <4>1. Settings!Masked(kept, f.value, f.mask).name =
              IF "name" \in f.mask THEN f.value.name ELSE kept.name
        <5>1. kept \in Stored /\ f.mask \in SUBSET f.mask
          BY <1>t DEF SettingsTypeOK
        <5> QED BY <2>2, <2>3, <5>1, MaskedOK
      <4>2. CASE "SysApp" \in Settings!Affected(f.block)
        <5>1. params["SysApp"].name = IF "name" \in f.mask THEN f.value.name ELSE kept.name
          BY <3>1, <4>1, <4>2 DEF Promised, f
        <5>2. CASE "name" \in f.mask
          BY <2>8, <4>2, <5>1, <5>2
        <5>3. CASE "name" \notin f.mask
          BY <2>8, <3>1, <5>1, <5>3
        <5> QED BY <5>2, <5>3
      <4>3. CASE "SysApp" \notin Settings!Affected(f.block)
        <5>1. params["SysApp"] = kept
          BY <3>1, <4>3 DEF Promised, f
        <5> QED BY <2>8, <3>1, <4>3, <5>1
      <4> QED BY <4>2, <4>3
    <3>5. \A d \in Callers : Setting(d)' <=> d = c
      BY <1>q, <2>5, <2>7, <3>2 DEF Setting
    <3>6. params'["SysApp"] = Promised(kept', r) /\ names'["cloud"]["SysApp"] = params'["SysApp"].name
      BY <2>1, <3>1, <3>3, <3>4
    <3>7. Setting(c)'
      BY <3>5
    <3> QED BY <2>5, <2>7, <3>5, <3>6, <3>7 DEF Agreement
  <2>11. /\ (lifecycle # "start" => \A d \in Callers : caller[d] = Settings!Quiet)'
         /\ (calm => \A d, e \in Callers :
               caller[d] # Settings!Quiet /\ caller[e] # Settings!Quiet => d = e)'
    BY <2>1, <2>2, <2>7 DEF SettingsIInv, f
  <2> QED BY <2>1, <2>9, <2>10, <2>11 DEF SettingsIInv
<1>6. ASSUME NEW c \in Callers, Settings!SaveParams(c) PROVE SettingsIInv'
  <2> DEFINE f == caller[c]
             notify == [at |-> "search", blocks |-> <<f.block>>]
  <2>1. /\ f.at = "save" /\ UNCHANGED <<lifecycle, params, names>>
    BY <1>6 DEF Settings!SaveParams
  <2>2. f \in SetCalls /\ Settings!CheckParameters(f.value, f.mask) /\ f # Settings!Quiet
    BY <1>q, <1>t, <2>1 DEF SettingsTypeOK, CallShape
  <2>3. /\ f.value \in Given /\ f.mask \in SUBSET {"level", "name"}
        /\ f.block \in {"SysApp", "Sensor", "All"}
    BY <2>2 DEF SetCalls
  <2>4. Settings!SaveableBlocks(f.block) = {} <=> "SysApp" \notin Settings!Affected(f.block)
    BY <2>3 DEF Settings!SaveableBlocks, Settings!Affected, Settings!Blocks
  <2>5. CallShape(notify) /\ notify.at = "search" /\ CallShape(Settings!Quiet)
    BY DEF CallShape
  <2>6. PICK r \in {notify, Settings!Quiet} :
          /\ caller' = [caller EXCEPT ![c] = r]
          /\ \/ "SysApp" \notin Settings!Affected(f.block) /\ kept' = kept /\ calm' = calm
             \/ "SysApp" \in Settings!Affected(f.block) /\ calm' = calm
                /\ kept' = Settings!Masked(kept, f.value, f.mask)
             \/ /\ calm' = FALSE
                /\ \E part \in SUBSET f.mask : kept' = Settings!Masked(kept, f.value, part)
    BY <1>6, <2>4 DEF Settings!SaveParams
  <2> HIDE DEF f, notify
  <2>7. CallShape(r) /\ r.at \notin {"names", "save"}
    BY <1>q, <2>5, <2>6
  <2>8. /\ caller'[c] = r /\ \A d \in Callers \ {c} : caller'[d] = caller[d]
        /\ caller' = [d \in Callers |-> caller'[d]]
    BY <1>t, <2>6 DEF SettingsTypeOK
  <2>9. kept' \in Stored /\ calm' \in BOOLEAN /\ (calm' => calm)
    <3>1. kept \in Stored /\ calm \in BOOLEAN
      BY <1>t DEF SettingsTypeOK
    <3>2. \A part \in SUBSET f.mask : Settings!Masked(kept, f.value, part) \in Stored
      BY <2>2, <2>3, <3>1, MaskedOK
    <3>3. Settings!Masked(kept, f.value, f.mask) \in Stored
      BY <3>2
    <3>4. kept' \in Stored
      BY <2>6, <3>1, <3>2, <3>3
    <3>5. calm' \in BOOLEAN /\ (calm' => calm)
      <4>1. calm' = calm \/ calm' = FALSE
        BY <2>6
      <4>2. CASE calm' = calm
        BY <3>1, <4>2
      <4>3. CASE calm' = FALSE
        BY <4>3
      <4> QED BY <4>1, <4>2, <4>3
    <3> QED BY <3>4, <3>5
  <2>10. SettingsTypeOK'
    BY <1>t, <2>1, <2>7, <2>8, <2>9 DEF SettingsTypeOK, CallShape
  <2>11. ASSUME calm', lifecycle = "start" PROVE Agreement'
    <3>1. /\ params["SysApp"] = Promised(kept, caller[c])
          /\ names["cloud"]["SysApp"] = params["SysApp"].name
      BY <2>1, <2>9, <2>11 DEF SettingsIInv, Agreement, Setting, f
    <3>2. \A d \in Callers \ {c} : caller[d] = Settings!Quiet
      BY <2>2, <2>9, <2>11 DEF SettingsIInv, f
    <3>3. kept' = Promised(kept, caller[c])
      BY <2>6, <2>11 DEF Promised, f
    <3>4. \A d \in Callers : ~Setting(d)'
      BY <1>q, <2>7, <2>8, <3>2 DEF Setting
    <3> QED BY <2>1, <3>1, <3>3, <3>4 DEF Agreement
  <2>12. /\ (lifecycle # "start" => \A d \in Callers : caller[d] = Settings!Quiet)'
         /\ (calm => \A d, e \in Callers :
               caller[d] # Settings!Quiet /\ caller[e] # Settings!Quiet => d = e)'
    BY <2>1, <2>2, <2>8, <2>9 DEF SettingsIInv, f
  <2> QED BY <2>1, <2>10, <2>11, <2>12 DEF SettingsIInv
<1>7. ASSUME NEW c \in Callers,
             Settings!SearchCallbackList(c) \/ Settings!CopySettings(c) \/ Settings!CallBack(c)
      PROVE  SettingsIInv'
  <2>1. /\ caller[c].at \in {"search", "read", "call"}
        /\ UNCHANGED <<lifecycle, params, names, kept, calm>>
    BY <1>7 DEF Settings!SearchCallbackList, Settings!CopySettings, Settings!CallBack
  <2>2. caller[c] # Settings!Quiet /\ ~Setting(c)
    BY <1>q, <2>1 DEF Setting
  <2>3. caller = [d \in Callers |-> caller[d]] /\ CallShape(caller[c])
    BY <1>t DEF SettingsTypeOK
  <2>4. \E r : /\ caller' = [caller EXCEPT ![c] = r] /\ CallShape(r)
               /\ r.at \notin {"names", "save"}
    <3>1. CASE Settings!SearchCallbackList(c)
      <4>1. PICK r : /\ caller' = [caller EXCEPT ![c] = r]
                     /\ \/ r = Settings!Quiet
                        \/ r = [at |-> "search", blocks |-> Tail(caller[c].blocks)]
                        \/ r.at = "read"
        <5>1. /\ \A m : [at |-> "read", blocks |-> caller[c].blocks, module |-> m].at = "read"
              /\ \/ caller' = [caller EXCEPT ![c] = Settings!Quiet]
                 \/ caller' = [caller EXCEPT ![c] = [at |-> "search", blocks |-> Tail(caller[c].blocks)]]
                 \/ \E m : caller' = [caller EXCEPT ![c] =
                                      [at |-> "read", blocks |-> caller[c].blocks, module |-> m]]
          BY <3>1 DEF Settings!SearchCallbackList
        <5> QED BY <5>1
      <4>2. r.at \in {"idle", "search", "read"}
        BY <1>q, <4>1
      <4> QED BY <4>1, <4>2 DEF CallShape
    <3>2. CASE Settings!CopySettings(c)
      <4> DEFINE r == [at |-> "call", blocks |-> caller[c].blocks, module |-> caller[c].module,
                       value |-> params[Head(caller[c].blocks)]]
      <4>1. caller' = [caller EXCEPT ![c] = r] /\ r.at = "call"
        BY <3>2 DEF Settings!CopySettings
      <4> HIDE DEF r
      <4> QED BY <4>1 DEF CallShape
    <3>3. CASE Settings!CallBack(c)
      <4> DEFINE r == [at |-> "search", blocks |-> Tail(caller[c].blocks)]
      <4>1. /\ caller' = [caller EXCEPT ![c] = r] /\ r.at = "search"
            /\ r = [at |-> "search", blocks |-> r.blocks]
        BY <3>3 DEF Settings!CallBack
      <4> HIDE DEF r
      <4> QED BY <4>1 DEF CallShape
    <3> QED BY <1>7, <3>1, <3>2, <3>3
  <2> QED BY <2>1, <2>2, <2>4, CallerOnly
<1>8. ASSUME NEW m \in Settings!Modules,
             Settings!RegisterChangeDlogCallback(m) \/ Settings!UnregisterChangeDlogCallback(m)
      PROVE  SettingsIInv'
  <2>1. UNCHANGED <<lifecycle, params, names, kept, caller, calm>>
    BY <1>8 DEF Settings!RegisterChangeDlogCallback, Settings!UnregisterChangeDlogCallback
  <2> QED BY <2>1 DEF SettingsIInv, SettingsTypeOK, CallShape, Agreement, Setting, Promised
<1> QED BY <1>1, <1>2, <1>3, <1>4, <1>5, <1>6, <1>7, <1>8 DEF Settings!Next

(* In a calm time memory, upload names and storage agree between calls     *)
(* (SetParameter).                                                         *)
THEOREM SpecSettingsAgree == Spec => []SettingsAgree
<1>1. Init => SettingsIInv
  <2> SUFFICES ASSUME Settings!Init PROVE SettingsIInv
    BY DEF Init
  <2>1. /\ lifecycle = "invalid" /\ caller = [c \in Callers |-> Settings!Quiet] /\ calm = TRUE
        /\ params = [b \in {"SysApp", "Sensor"} |-> [level |-> "info", name |-> ""]]
        /\ kept = [level |-> "info", name |-> ""]
        /\ names = [upload \in {"local", "cloud"} |-> [b \in {"SysApp", "Sensor"} |-> ""]]
    BY DEF Settings!Init, Settings!Blocks, Settings!Default, Settings!NoNames
  <2>2. SettingsTypeOK
    BY <2>1 DEF SettingsTypeOK, CallShape, Stored
  <2> QED BY <2>1, <2>2 DEF SettingsIInv
<1>2. SettingsIInv /\ [Next]_vars => SettingsIInv'
  <2> SUFFICES ASSUME SettingsIInv, [Next]_vars PROVE SettingsIInv'
    OBVIOUS
  <2>1. CASE Settings!Next
    BY <2>1, SettingsStep
  <2>2. CASE UNCHANGED settingsVars
    BY <2>2 DEF settingsVars, SettingsIInv, SettingsTypeOK, CallShape, Agreement, Setting,
       Promised
  <2> QED BY <2>1, <2>2 DEF Next, vars
<1>3. SettingsIInv => SettingsAgree
  <2> SUFFICES ASSUME SettingsIInv, lifecycle = "start", calm,
                      \A c \in Callers : caller[c] = Settings!Quiet
               PROVE  /\ kept = params["SysApp"] /\ names["cloud"]["SysApp"] = kept.name
                      /\ \A b \in {"SysApp", "Sensor"} : names["local"][b] = ""
    BY DEF SettingsAgree, Settings!SettingsAgree, Settings!Resting, Settings!LoadableBlock,
       Settings!Blocks
  <2>1. \A c \in Callers : ~Setting(c)
    BY DEF Setting, Settings!Quiet
  <2> QED BY <2>1 DEF SettingsIInv, SettingsTypeOK, Agreement
<1> QED BY <1>1, <1>2, <1>3, PTL DEF Spec

-----------------------------------------------------------------------------
(* The debug log. *)

(* Who has a full plane to tell of, or tells of it, or collects it.        *)
WriterTells(w) ==
  writer[w].at = "collect" \/ (writer[w].at = "send" /\ writer[w].msg.cmd = "plane")
PlaneQueued(i) == dqueue[i].cmd = "plane"
CollectorHas == collector.at \in {"backup", "clear", "timing", "send"}

NobodyTells ==
  /\ \A w \in Writers : ~WriterTells(w)
  /\ \A i \in DOMAIN dqueue : ~PlaneQueued(i)
  /\ ~CollectorHas

OneTells ==
  /\ \A v, w \in Writers : WriterTells(v) /\ WriterTells(w) => v = w
  /\ \A i, j \in DOMAIN dqueue : PlaneQueued(i) /\ PlaneQueued(j) => i = j
  /\ \A w \in Writers : WriterTells(w) => ~CollectorHas
  /\ \A i \in DOMAIN dqueue : PlaneQueued(i) => ~CollectorHas
  /\ \A w \in Writers, i \in DOMAIN dqueue : ~(WriterTells(w) /\ PlaneQueued(i))

PlaneRecs == [mem : Seq(Nat), used : 0..PlaneSize, critical : BOOLEAN]
Msgs ==
  [cmd : {"bulk"}]
    \cup [cmd : {"plane"}, of : {0, 1}, size : 0..PlaneSize, critical : BOOLEAN]

DlogTyped ==
  /\ plane \in [{0, 1} -> PlaneRecs]
  /\ \A p \in {0, 1} : plane[p].used <= Len(plane[p].mem)
  /\ current \in {0, 1} /\ oldest \in {0, 1} /\ stored \in 0..PlaneSize
  /\ halfUse \in BOOLEAN /\ critical \in BOOLEAN /\ overrun \in BOOLEAN
  /\ logs \in Seq(BOOLEAN)
  /\ dqueue \in Seq(Msgs)
  /\ writer = [w \in Writers |-> writer[w]]
  /\ \A w \in Writers : writer[w].at = "send" => writer[w].msg \in Msgs
  /\ collector.at = "send" => collector.msg \in Msgs

(* The flag of a plane says whether one of its logs is critical.           *)
PlaneMarked(pl, ls) ==
  /\ \A k \in 1..pl.used : pl.mem[k] \in 1..Len(ls)
  /\ pl.critical <=> \E k \in 1..pl.used : ls[pl.mem[k]]
MarksFit == \A p \in {0, 1} : PlaneMarked(plane[p], logs)

(* A full plane is told of once, unless planes were overrun.               *)
ToldOnce ==
  /\ oldest = current => NobodyTells
  /\ ~overrun /\ ~halfUse => NobodyTells
  /\ ~overrun => OneTells

(* What is told of is the plane to collect, and it stands still meanwhile. *)
ToldRight ==
  ~overrun =>
    /\ \A w \in Writers : writer[w].at = "send" /\ writer[w].msg.cmd = "plane"
                            => writer[w].msg = Dlog!PlaneMsg
    /\ \A i \in DOMAIN dqueue : PlaneQueued(i) => dqueue[i] = Dlog!PlaneMsg
    /\ collector.at \in {"backup", "send"} => collector.msg = Dlog!PlaneMsg
    /\ collector.at = "clear" =>
         collector.chunk = [data |-> SubSeq(plane[oldest].mem, 1, stored),
                            critical |-> plane[oldest].critical]
    /\ halfUse => oldest # current /\ stored = plane[oldest].used /\ stored > 0

(* The last log of the first i chunks.                                     *)
LastIn(us, i) == IF i = 0 THEN 0 ELSE Dlog!Last(us[i].data)

(* The last log that is registered, in the hand of the collector, and in   *)
(* the plane to collect.                                                   *)
Registered == LastIn(uploads, Len(uploads))
HasChunk == collector.at = "register" /\ collector.chunk # Dlog!Bulk
InChunk == IF HasChunk THEN Dlog!Last(collector.chunk.data) ELSE Registered
InOldest == IF halfUse THEN InChunk + stored ELSE InChunk

(* A chunk holds the logs after those of the chunk before it.              *)
Chunks == [data : Seq(Nat), critical : BOOLEAN]
ChunkFits(c, n, ls) ==
  /\ c \in Chunks
  /\ c.data # <<>>
  /\ c.data = Dlog!Run(n, Dlog!Last(c.data))
  /\ Dlog!Last(c.data) <= Len(ls)
  /\ c.critical <=> \E l \in Dlog!ToSet(c.data) : ls[l]

ChunksFit(us, ls) ==
  /\ us \in Seq(Chunks)
  /\ \A i \in DOMAIN us : ChunkFits(us[i], LastIn(us, i - 1), ls)

LogsInOrder ==
  ~overrun =>
    /\ ChunksFit(uploads, logs)
    /\ HasChunk => ChunkFits(collector.chunk, Registered, logs)
    /\ halfUse => \A k \in 1..stored : plane[oldest].mem[k] = InChunk + k
    /\ \A k \in 1..plane[current].used : plane[current].mem[k] = InOldest + k
    /\ Len(logs) = InOldest + plane[current].used

DlogIInv ==
  /\ DlogTyped /\ MarksFit /\ Dlog!PlanesAgree
  /\ ToldOnce /\ ToldRight /\ LogsInOrder

-----------------------------------------------------------------------------
\* What a push does to a plane that has room.
LEMMA PushedIs ==
  ASSUME NEW pl \in PlaneRecs, pl.used <= Len(pl.mem), pl.used < PlaneSize, NEW l \in Nat
  PROVE  LET q == Dlog!Pushed(pl, l) IN
           /\ q \in PlaneRecs
           /\ q.used = pl.used + 1 /\ q.used <= Len(q.mem)
           /\ q.critical = pl.critical
           /\ \A k \in 1..pl.used : q.mem[k] = pl.mem[k]
           /\ q.mem[pl.used + 1] = l
<1>. DEFINE a == SubSeq(pl.mem, 1, pl.used)
            b == SubSeq(pl.mem, pl.used + 2, Len(pl.mem))
            m == a \o <<l>> \o b
<1>. USE DlogAssumption
<1>1. pl.mem \in Seq(Nat) /\ pl.used \in 0..PlaneSize /\ Len(pl.mem) \in Nat
  BY DEF PlaneRecs
<1>2. /\ a \in Seq(Nat) /\ Len(a) = pl.used
      /\ \A k \in 1..pl.used : a[k] = pl.mem[k]
  BY <1>1
<1>3. b \in Seq(Nat)
  BY <1>1
<1>4. /\ a \o <<l>> \in Seq(Nat) /\ Len(a \o <<l>>) = pl.used + 1
      /\ \A k \in 1..pl.used : (a \o <<l>>)[k] = a[k]
      /\ (a \o <<l>>)[pl.used + 1] = l
  BY <1>1, <1>2
<1>5. /\ m \in Seq(Nat) /\ Len(m) >= pl.used + 1
      /\ \A k \in 1..(pl.used + 1) : m[k] = (a \o <<l>>)[k]
  <2>. HIDE DEF a, b
  <2> QED BY <1>1, <1>3, <1>4
<1>. HIDE DEF a, b, m
<1>6. Dlog!Pushed(pl, l) = [pl EXCEPT !.mem = m, !.used = pl.used + 1]
  BY DEF Dlog!Pushed, m, a, b, PlaneRecs
<1>7. pl = [mem |-> pl.mem, used |-> pl.used, critical |-> pl.critical] /\ pl.critical \in BOOLEAN
  BY DEF PlaneRecs
<1>8. Dlog!Pushed(pl, l) = [mem |-> m, used |-> pl.used + 1, critical |-> pl.critical]
  BY <1>6, <1>7
<1>9. pl.used + 1 \in 0..PlaneSize
  BY <1>1
<1>10. Dlog!Pushed(pl, l) \in PlaneRecs
  BY <1>5, <1>7, <1>8, <1>9 DEF PlaneRecs
<1>11. ASSUME NEW k \in 1..pl.used PROVE m[k] = pl.mem[k]
  <2>1. k \in 1..(pl.used + 1)
    BY <1>1
  <2>2. m[k] = (a \o <<l>>)[k]
    BY <1>5, <2>1
  <2>3. (a \o <<l>>)[k] = a[k] /\ a[k] = pl.mem[k]
    BY <1>2, <1>4
  <2> QED BY <2>2, <2>3
<1>12. m[pl.used + 1] = l /\ pl.used + 1 <= Len(m)
  BY <1>1, <1>4, <1>5
<1> QED BY <1>8, <1>10, <1>11, <1>12

\* The last log of a chunk that fits is one of its logs, as every other is.
LEMMA ChunkLast ==
  ASSUME NEW c, NEW n \in Nat, NEW ls \in Seq(BOOLEAN), ChunkFits(c, n, ls)
  PROVE  /\ Dlog!Last(c.data) \in Nat /\ Dlog!Last(c.data) > n
         /\ Len(c.data) = Dlog!Last(c.data) - n
         /\ \A k \in 1..Len(c.data) : c.data[k] = n + k
         /\ Dlog!ToSet(c.data) \subseteq 1..Len(ls)
<1>1. c.data \in Seq(Nat) /\ c.data # <<>> /\ Len(c.data) \in Nat \ {0}
  BY DEF ChunkFits, Chunks
<1>2. Dlog!Last(c.data) = c.data[Len(c.data)] /\ Dlog!Last(c.data) \in Nat
  BY <1>1 DEF Dlog!Last
<1>3. c.data = [k \in 1..(Dlog!Last(c.data) - n) |-> n + k]
  BY DEF ChunkFits, Dlog!Run
<1>. DEFINE m == Dlog!Last(c.data)
<1>. HIDE DEF m
<1>4. DOMAIN c.data = 1..(m - n) /\ DOMAIN c.data = 1..Len(c.data)
  BY <1>1, <1>3 DEF m
<1>5. Len(c.data) = m - n
  BY <1>1, <1>2, <1>4 DEF m
<1>6. \A k \in 1..Len(c.data) : c.data[k] = n + k
  BY <1>3, <1>5 DEF m
<1>7. m <= Len(ls) /\ Len(ls) \in Nat
  BY DEF m, ChunkFits
<1>8. \A l \in Dlog!ToSet(c.data) : \E k \in 1..Len(c.data) : l = n + k
  BY <1>4, <1>6 DEF Dlog!ToSet
<1> QED BY <1>1, <1>2, <1>5, <1>6, <1>7, <1>8, SMTT(30) DEF m

\* A chunk still fits when another log is written.
LEMMA ChunkStillFits ==
  ASSUME NEW c, NEW n \in Nat, NEW ls \in Seq(BOOLEAN), NEW b \in BOOLEAN, ChunkFits(c, n, ls)
  PROVE  ChunkFits(c, n, Append(ls, b))
<1>1. \A l \in Dlog!ToSet(c.data) : l \in 1..Len(ls) /\ Append(ls, b)[l] = ls[l]
  BY ChunkLast
<1>2. Len(Append(ls, b)) = Len(ls) + 1 /\ Len(ls) \in Nat /\ Dlog!Last(c.data) \in Nat
  BY ChunkLast
<1> QED BY <1>1, <1>2 DEF ChunkFits

\* The chunks that are registered end with logs that were written.
LEMMA LastInNat ==
  ASSUME NEW us, NEW ls \in Seq(BOOLEAN), ChunksFit(us, ls), NEW i \in 0..Len(us)
  PROVE  LastIn(us, i) \in Nat
<1>1. CASE i = 0
  BY <1>1 DEF LastIn
<1>2. CASE i # 0
  <2>1. us \in Seq(Chunks) /\ Len(us) \in Nat /\ i \in DOMAIN us
    BY <1>2 DEF ChunksFit
  <2>2. us[i].data \in Seq(Nat) /\ us[i].data # <<>>
    BY <2>1 DEF ChunksFit, ChunkFits, Chunks
  <2> QED BY <1>2, <2>2 DEF LastIn, Dlog!Last
<1> QED BY <1>1, <1>2

\* All chunks still fit when another log is written, or when a chunk that fits
\* is registered.
LEMMA ChunksStillFit ==
  ASSUME NEW us, NEW ls \in Seq(BOOLEAN), ChunksFit(us, ls)
  PROVE  /\ \A b \in BOOLEAN : ChunksFit(us, Append(ls, b))
         /\ \A c : ChunkFits(c, LastIn(us, Len(us)), ls) => ChunksFit(Append(us, c), ls)
<1>1. us \in Seq(Chunks) /\ Len(us) \in Nat /\ DOMAIN us = 1..Len(us)
  BY DEF ChunksFit
<1>2. ASSUME NEW b \in BOOLEAN PROVE ChunksFit(us, Append(ls, b))
  <2>1. ASSUME NEW i \in DOMAIN us PROVE ChunkFits(us[i], LastIn(us, i - 1), Append(ls, b))
    <3>1. i - 1 \in 0..Len(us) /\ ChunkFits(us[i], LastIn(us, i - 1), ls)
      BY <1>1 DEF ChunksFit
    <3>2. LastIn(us, i - 1) \in Nat
      BY <3>1, LastInNat
    <3> QED BY <3>1, <3>2, ChunkStillFits
  <2> QED BY <1>1, <2>1 DEF ChunksFit
<1>3. ASSUME NEW c, ChunkFits(c, LastIn(us, Len(us)), ls) PROVE ChunksFit(Append(us, c), ls)
  <2>. DEFINE u == Append(us, c)
  <2>1. /\ c \in Chunks /\ u \in Seq(Chunks) /\ DOMAIN u = 1..(Len(us) + 1)
        /\ \A i \in 1..Len(us) : u[i] = us[i]
        /\ u[Len(us) + 1] = c
    BY <1>1, <1>3 DEF ChunkFits
  <2>. HIDE DEF u
  <2>2. \A i \in 0..Len(us) : LastIn(u, i) = LastIn(us, i)
    BY <1>1, <2>1 DEF LastIn
  <2>3. ASSUME NEW i \in DOMAIN u PROVE ChunkFits(u[i], LastIn(u, i - 1), ls)
    <3>1. CASE i \in 1..Len(us)
      <4>1. u[i] = us[i] /\ LastIn(u, i - 1) = LastIn(us, i - 1)
        BY <1>1, <2>1, <2>2, <3>1
      <4> QED BY <1>1, <3>1, <4>1 DEF ChunksFit
    <3>2. CASE i = Len(us) + 1
      <4>1. u[i] = c /\ LastIn(u, i - 1) = LastIn(us, Len(us))
        BY <1>1, <2>1, <2>2, <3>2
      <4> QED BY <1>3, <4>1
    <3> QED BY <1>1, <2>1, <3>1, <3>2
  <2> QED BY <2>1, <2>3 DEF ChunksFit, u
<1> QED BY <1>2, <1>3

-----------------------------------------------------------------------------
(* The steps. *)

\* What the steps rely on.
LEMMA DlogFacts ==
  ASSUME DlogIInv
  PROVE  /\ \A p \in {0, 1} : /\ plane[p] \in PlaneRecs
                              /\ plane[p].used \in 0..PlaneSize
                              /\ plane[p].used <= Len(plane[p].mem)
                              /\ plane[p].mem \in Seq(Nat)
                              /\ plane[p].critical \in BOOLEAN
         /\ Len(logs) \in Nat /\ logs \in Seq(BOOLEAN)
         /\ PlaneSize \in Nat \ {0}
         /\ Dlog!Other(current) \in {0, 1} /\ Dlog!Other(current) # current
         /\ Dlog!Other(Dlog!Other(current)) = current
         /\ oldest # current => oldest = Dlog!Other(current)
         /\ dqueue \in Seq(Msgs) /\ Len(dqueue) \in Nat /\ DOMAIN dqueue = 1..Len(dqueue)
<1>. USE DEF DlogIInv, DlogTyped
<1>1. \A p \in {0, 1} : plane[p] \in PlaneRecs
  OBVIOUS
<1>2. \A p \in {0, 1} : /\ plane[p].used \in 0..PlaneSize /\ plane[p].mem \in Seq(Nat)
                        /\ plane[p].critical \in BOOLEAN
  BY <1>1 DEF PlaneRecs
<1>3. PlaneSize \in Nat \ {0}
  BY DlogAssumption
<1>4. /\ Dlog!Other(current) \in {0, 1} /\ Dlog!Other(current) # current
      /\ Dlog!Other(Dlog!Other(current)) = current
      /\ oldest # current => oldest = Dlog!Other(current)
  BY DEF Dlog!Other
<1> QED BY <1>1, <1>2, <1>3, <1>4

\* The ends of what is registered and of what is in hand are numbers of logs.
LEMMA EndsAreNat ==
  ASSUME DlogIInv, ~overrun
  PROVE  /\ Registered \in Nat /\ InChunk \in Nat /\ InOldest \in Nat
         /\ HasChunk => InChunk > Registered
<1>1. ChunksFit(uploads, logs) /\ logs \in Seq(BOOLEAN)
  BY DlogFacts DEF DlogIInv, LogsInOrder
<1>2. Len(uploads) \in Nat
  BY <1>1 DEF ChunksFit
<1>3. Registered \in Nat
  BY <1>1, <1>2, LastInNat DEF Registered
<1>4. HasChunk => /\ Dlog!Last(collector.chunk.data) \in Nat
                  /\ Dlog!Last(collector.chunk.data) > Registered
  <2>1. HasChunk => ChunkFits(collector.chunk, Registered, logs)
    BY DEF DlogIInv, LogsInOrder
  <2> QED BY <1>1, <1>3, <2>1, ChunkLast
<1>5. stored \in Nat
  BY DlogFacts DEF DlogIInv, DlogTyped
<1> QED BY <1>3, <1>4, <1>5 DEF InChunk, InOldest

\* What is told of a full plane is a message.
LEMMA PlaneMsgIs ==
  ASSUME DlogIInv
  PROVE  Dlog!PlaneMsg \in Msgs /\ Dlog!PlaneMsg.cmd = "plane"
<1>1. oldest \in {0, 1} /\ stored \in 0..PlaneSize /\ plane[oldest].critical \in BOOLEAN
  BY DlogFacts DEF DlogIInv, DlogTyped
<1> QED BY <1>1 DEF Dlog!PlaneMsg, Msgs

\* Steps that leave the planes, the chunks and the logs alone.
LEMMA SamePlanes ==
  ASSUME DlogIInv,
         UNCHANGED <<plane, current, oldest, stored, halfUse, critical, uploads, logs, overrun>>,
         collector' = collector \/ (~HasChunk /\ ~HasChunk')
  PROVE  MarksFit' /\ Dlog!PlanesAgree' /\ LogsInOrder'
<1>. USE DEF DlogIInv
<1>1. MarksFit'
  BY DEF MarksFit
<1>2. Dlog!PlanesAgree'
  BY DEF Dlog!PlanesAgree
<1>3. Registered' = Registered
  BY DEF Registered
<1>4. /\ HasChunk' <=> HasChunk
      /\ HasChunk => collector'.chunk = collector.chunk
      /\ InChunk' = InChunk
  BY <1>3 DEF HasChunk, InChunk
<1>5. InOldest' = InOldest
  BY <1>4 DEF InOldest
<1>6. LogsInOrder'
  BY <1>3, <1>4, <1>5 DEF LogsInOrder
<1> QED BY <1>1, <1>2, <1>6

\* A writer announces the full plane.
LEMMA FullCollectorStep ==
  ASSUME DlogIInv, NEW w \in Writers, Dlog!FullCollector(w)
  PROVE  DlogIInv'
<1>. USE DEF DlogIInv
<1>1. /\ writer[w].at = "collect"
      /\ writer' = [writer EXCEPT ![w] = [at |-> "send", msg |-> Dlog!PlaneMsg]]
      /\ UNCHANGED <<plane, current, oldest, stored, halfUse, critical, dqueue,
                     collector, uploads, logs, overrun>>
  BY DEF Dlog!FullCollector
<1>2. MarksFit' /\ Dlog!PlanesAgree' /\ LogsInOrder'
  BY <1>1, SamePlanes
<1>3. /\ writer' = [v \in Writers |-> writer'[v]]
      /\ \A v \in Writers \ {w} : writer'[v] = writer[v]
      /\ writer'[w].at = "send" /\ writer'[w].msg = Dlog!PlaneMsg
  BY <1>1 DEF DlogTyped
<1>4. DlogTyped'
  BY <1>1, <1>3, PlaneMsgIs DEF DlogTyped
<1>5. /\ \A v \in Writers : WriterTells(v)' => WriterTells(v)
      /\ WriterTells(w)
      /\ \A i \in DOMAIN dqueue : PlaneQueued(i)' <=> PlaneQueued(i)
      /\ CollectorHas' <=> CollectorHas
  BY <1>1, <1>3 DEF WriterTells, PlaneQueued, CollectorHas
<1>6. ToldOnce'
  BY <1>1, <1>5 DEF ToldOnce, NobodyTells, OneTells
<1>7. ToldRight'
  BY <1>1, <1>3 DEF ToldRight, PlaneQueued, Dlog!PlaneMsg
<1> QED BY <1>2, <1>4, <1>6, <1>7

\* A writer has a bulk log to send.
LEMMA SendBulkStep ==
  ASSUME DlogIInv, NEW w \in Writers, Dlog!SendBulkDlog(w)
  PROVE  DlogIInv'
<1>. USE DEF DlogIInv
<1>1. /\ writer' = [writer EXCEPT ![w] = [at |-> "send", msg |-> [cmd |-> "bulk"]]]
      /\ UNCHANGED <<plane, current, oldest, stored, halfUse, critical, dqueue,
                     collector, uploads, logs, overrun>>
  BY DEF Dlog!SendBulkDlog
<1>2. MarksFit' /\ Dlog!PlanesAgree' /\ LogsInOrder'
  BY <1>1, SamePlanes
<1>3. /\ writer' = [v \in Writers |-> writer'[v]]
      /\ \A v \in Writers \ {w} : writer'[v] = writer[v]
      /\ writer'[w].at = "send" /\ writer'[w].msg.cmd = "bulk" /\ writer'[w].msg \in Msgs
  BY <1>1 DEF DlogTyped, Msgs
<1>4. DlogTyped'
  BY <1>1, <1>3 DEF DlogTyped
<1>5. /\ \A v \in Writers : WriterTells(v)' => WriterTells(v)
      /\ \A i \in DOMAIN dqueue : PlaneQueued(i)' <=> PlaneQueued(i)
      /\ CollectorHas' <=> CollectorHas
  BY <1>1, <1>3 DEF WriterTells, PlaneQueued, CollectorHas
<1>6. ToldOnce'
  BY <1>1, <1>5 DEF ToldOnce, NobodyTells, OneTells
<1>7. ToldRight'
  BY <1>1, <1>3 DEF ToldRight, PlaneQueued, Dlog!PlaneMsg
<1> QED BY <1>2, <1>4, <1>6, <1>7

\* The message is put in the queue.
LEMMA SendCmdStep ==
  ASSUME DlogIInv, NEW w \in Writers, Dlog!SendCmd(w)
  PROVE  DlogIInv'
<1>. USE DEF DlogIInv
<1>1. /\ writer[w].at = "send"
      /\ dqueue' = Append(dqueue, writer[w].msg)
      /\ writer' = [writer EXCEPT ![w] = Dlog!Idle]
      /\ UNCHANGED <<plane, current, oldest, stored, halfUse, critical,
                     collector, uploads, logs, overrun>>
  BY DEF Dlog!SendCmd
<1>2. MarksFit' /\ Dlog!PlanesAgree' /\ LogsInOrder'
  BY <1>1, SamePlanes
<1>3. /\ writer' = [v \in Writers |-> writer'[v]]
      /\ \A v \in Writers \ {w} : writer'[v] = writer[v]
      /\ writer'[w].at = "idle"
  BY <1>1 DEF DlogTyped, Dlog!Idle
<1>a. PICK n : n = Len(dqueue) + 1
  OBVIOUS
<1>4. writer[w].msg \in Msgs
  BY <1>1 DEF DlogTyped
<1>5. /\ dqueue' \in Seq(Msgs) /\ DOMAIN dqueue' = 1..n
      /\ \A i \in DOMAIN dqueue : dqueue'[i] = dqueue[i]
      /\ dqueue'[n] = writer[w].msg
      /\ DOMAIN dqueue = 1..Len(dqueue) /\ Len(dqueue) \in Nat
  BY <1>1, <1>4, <1>a, DlogFacts
<1>6. DlogTyped'
  BY <1>1, <1>3, <1>5 DEF DlogTyped
<1>7. /\ \A v \in Writers : WriterTells(v)' => WriterTells(v) /\ v # w
  BY <1>3 DEF WriterTells
<1>8. /\ \A i \in DOMAIN dqueue : PlaneQueued(i)' <=> PlaneQueued(i)
      /\ PlaneQueued(n)' => WriterTells(w)
      /\ CollectorHas' <=> CollectorHas
  BY <1>1, <1>5 DEF WriterTells, PlaneQueued, CollectorHas
<1>9. \A i \in DOMAIN dqueue' : i \in DOMAIN dqueue \/ i = n
  BY <1>5, <1>a
<1>10. ToldOnce'
  <2>1. NobodyTells => NobodyTells'
    BY <1>7, <1>8, <1>9 DEF NobodyTells
  <2>2. ASSUME OneTells PROVE OneTells'
    <3>1. \A i, j \in DOMAIN dqueue' : PlaneQueued(i)' /\ PlaneQueued(j)' => i = j
      BY <1>8, <1>9, <2>2 DEF OneTells
    <3>2. \A i \in DOMAIN dqueue' : PlaneQueued(i)' => ~CollectorHas'
      BY <1>8, <1>9, <2>2 DEF OneTells
    <3>3. \A v \in Writers, i \in DOMAIN dqueue' : ~(WriterTells(v)' /\ PlaneQueued(i)')
      BY <1>7, <1>8, <1>9, <2>2 DEF OneTells
    <3>4. \A v, u \in Writers : WriterTells(v)' /\ WriterTells(u)' => v = u
      BY <1>7, <2>2 DEF OneTells
    <3>5. \A v \in Writers : WriterTells(v)' => ~CollectorHas'
      BY <1>7, <1>8, <2>2 DEF OneTells
    <3> QED BY <3>1, <3>2, <3>3, <3>4, <3>5 DEF OneTells
  <2> QED BY <1>1, <2>1, <2>2 DEF ToldOnce
<1>11. ToldRight'
  BY <1>1, <1>3, <1>5, <1>9 DEF ToldRight, PlaneQueued, Dlog!PlaneMsg
<1> QED BY <1>2, <1>6, <1>10, <1>11

\* The message cannot be sent: a plane that was told of is given up.
LEMMA SendCmdFailsStep ==
  ASSUME DlogIInv, NEW w \in Writers, Dlog!SendCmdFails(w)
  PROVE  DlogIInv'
<1>. USE DEF DlogIInv
<1>1. /\ writer[w].at = "send"
      /\ writer' = [writer EXCEPT ![w] = Dlog!Idle]
      /\ overrun' = (overrun \/ writer[w].msg.cmd = "plane")
      /\ UNCHANGED <<plane, current, oldest, stored, halfUse, critical, dqueue,
                     collector, uploads, logs>>
  BY DEF Dlog!SendCmdFails
<1>2. MarksFit' /\ Dlog!PlanesAgree'
  BY <1>1 DEF MarksFit, PlaneMarked, Dlog!PlanesAgree, Dlog!Other
<1>a. overrun' = TRUE \/ overrun' = overrun
  BY <1>1 DEF DlogTyped
<1>b. LogsInOrder'
  <2>1. CASE overrun' = overrun
    BY <1>1, <2>1, SamePlanes
  <2>2. CASE overrun' = TRUE
    BY <2>2 DEF LogsInOrder
  <2> QED BY <1>a, <2>1, <2>2
<1>3. /\ writer' = [v \in Writers |-> writer'[v]]
      /\ \A v \in Writers \ {w} : writer'[v] = writer[v]
      /\ writer'[w].at = "idle"
  BY <1>1 DEF DlogTyped, Dlog!Idle
<1>4. DlogTyped'
  BY <1>1, <1>3, <1>a DEF DlogTyped
<1>5. /\ \A v \in Writers : WriterTells(v)' => WriterTells(v)
      /\ \A i \in DOMAIN dqueue : PlaneQueued(i)' <=> PlaneQueued(i)
      /\ CollectorHas' <=> CollectorHas
  BY <1>1, <1>3 DEF WriterTells, PlaneQueued, CollectorHas
<1>6. /\ NobodyTells => NobodyTells'
      /\ OneTells => OneTells'
  BY <1>1, <1>5 DEF NobodyTells, OneTells
<1>7. ToldOnce'
  BY <1>1, <1>6, <1>a DEF ToldOnce
<1>8. ToldRight'
  BY <1>1, <1>3, <1>5, <1>a DEF ToldRight, Dlog!PlaneMsg
<1> QED BY <1>2, <1>b, <1>4, <1>7, <1>8

\* The collector takes a message.
LEMMA ReceiveDlogStep ==
  ASSUME DlogIInv, Dlog!Receive
  PROVE  DlogIInv'
<1>. USE DEF DlogIInv
<1>1. /\ collector = Dlog!Idle /\ dqueue # <<>> /\ dqueue' = Tail(dqueue)
      /\ UNCHANGED <<plane, current, oldest, stored, halfUse, critical, uploads, logs, overrun,
                     writer>>
  BY DEF Dlog!Receive, Dlog!Collecting
<1>2. /\ dqueue' \in Seq(Msgs) /\ Len(dqueue) \in Nat \ {0}
      /\ DOMAIN dqueue' = 1..(Len(dqueue) - 1) /\ DOMAIN dqueue = 1..Len(dqueue)
      /\ \A i \in DOMAIN dqueue' : i + 1 \in DOMAIN dqueue /\ dqueue'[i] = dqueue[i + 1]
      /\ 1 \in DOMAIN dqueue /\ Head(dqueue) = dqueue[1]
  BY <1>1, DlogFacts
<1>3. \/ /\ dqueue[1].cmd = "bulk"
         /\ collector' = [at |-> "register", chunk |-> Dlog!Bulk]
      \/ /\ dqueue[1].cmd # "bulk"
         /\ collector' = [at |-> "backup", msg |-> dqueue[1]]
  BY <1>2 DEF Dlog!Receive, Dlog!Collecting
<1>4. dqueue[1].cmd # "bulk" => PlaneQueued(1)
  BY <1>2, DlogFacts DEF Msgs, PlaneQueued
<1>5. ~HasChunk /\ ~HasChunk' /\ ~CollectorHas
  BY <1>1, <1>3 DEF HasChunk, CollectorHas, Dlog!Idle
<1>6. MarksFit' /\ Dlog!PlanesAgree' /\ LogsInOrder'
  BY <1>1, <1>5, SamePlanes
<1>7. DlogTyped'
  BY <1>1, <1>2, <1>3 DEF DlogTyped
<1>8. /\ \A v \in Writers : WriterTells(v)' <=> WriterTells(v)
      /\ \A i \in DOMAIN dqueue' : PlaneQueued(i)' <=> PlaneQueued(i + 1)
      /\ CollectorHas' => PlaneQueued(1)
  BY <1>1, <1>2, <1>3, <1>4 DEF WriterTells, PlaneQueued, CollectorHas
<1>9. ToldOnce'
  <2>1. NobodyTells => NobodyTells'
    BY <1>2, <1>8 DEF NobodyTells
  <2>2. ASSUME OneTells PROVE OneTells'
    <3>1. ASSUME NEW i \in DOMAIN dqueue', NEW j \in DOMAIN dqueue', PlaneQueued(i)', PlaneQueued(j)'
          PROVE  i = j
      <4>1. i + 1 \in DOMAIN dqueue /\ j + 1 \in DOMAIN dqueue /\ PlaneQueued(i + 1) /\ PlaneQueued(j + 1)
        BY <1>2, <1>8, <3>1
      <4>2. i + 1 = j + 1
        BY <2>2, <4>1 DEF OneTells
      <4> QED BY <1>2, <4>2
    <3>2. ASSUME NEW i \in DOMAIN dqueue', PlaneQueued(i)', CollectorHas' PROVE FALSE
      <4>1. i + 1 \in DOMAIN dqueue /\ PlaneQueued(i + 1) /\ PlaneQueued(1) /\ 1 \in DOMAIN dqueue
        BY <1>2, <1>8, <3>2
      <4>2. i + 1 = 1
        BY <2>2, <4>1 DEF OneTells
      <4> QED BY <1>2, <4>2
    <3>3. ASSUME NEW v \in Writers, NEW i \in DOMAIN dqueue', WriterTells(v)', PlaneQueued(i)'
          PROVE  FALSE
      BY <1>2, <1>8, <2>2, <3>3 DEF OneTells
    <3>4. \A v, u \in Writers : WriterTells(v)' /\ WriterTells(u)' => v = u
      BY <1>8, <2>2 DEF OneTells
    <3>5. \A v \in Writers : WriterTells(v)' => ~CollectorHas'
      BY <1>2, <1>8, <2>2 DEF OneTells
    <3> QED BY <3>1, <3>2, <3>3, <3>4, <3>5 DEF OneTells
  <2> QED BY <1>1, <2>1, <2>2 DEF ToldOnce
<1>10. ToldRight'
  <2>1. dqueue[1].cmd # "bulk" /\ ~overrun => dqueue[1] = Dlog!PlaneMsg
    BY <1>2, <1>4 DEF ToldRight
  <2>2. ~overrun => \A i \in DOMAIN dqueue' : PlaneQueued(i)' => dqueue'[i] = Dlog!PlaneMsg
    BY <1>2, <1>8 DEF ToldRight
  <2>3. Dlog!PlaneMsg' = Dlog!PlaneMsg
    BY <1>1 DEF Dlog!PlaneMsg
  <2> QED BY <1>1, <1>3, <2>1, <2>2, <2>3 DEF ToldRight
<1> QED BY <1>6, <1>7, <1>9, <1>10

\* The collector tells of the plane of a critical log.
LEMMA TimingStep ==
  ASSUME DlogIInv, Dlog!TimingCollector \/ Dlog!TimingSend
  PROVE  DlogIInv'
<1>. USE DEF DlogIInv
<1>1. UNCHANGED <<plane, current, oldest, stored, halfUse, critical, uploads, logs, overrun,
                  writer>>
  BY DEF Dlog!TimingCollector, Dlog!TimingSend, Dlog!Collecting
<1>2. Dlog!PlaneMsg' = Dlog!PlaneMsg
  BY <1>1 DEF Dlog!PlaneMsg
<1>3. CASE Dlog!TimingCollector
  <2>1. /\ collector.at = "timing" /\ dqueue' = dqueue
        /\ collector' = [at |-> "send", msg |-> Dlog!PlaneMsg]
    BY <1>3 DEF Dlog!TimingCollector, Dlog!Collecting
  <2>2. collector'.at = "send" /\ collector'.msg = Dlog!PlaneMsg
    BY <2>1
  <2>3. MarksFit' /\ Dlog!PlanesAgree' /\ LogsInOrder'
    BY <1>1, <2>1, <2>2, SamePlanes DEF HasChunk
  <2>4. DlogTyped'
    BY <1>1, <2>1, <2>2, PlaneMsgIs DEF DlogTyped
  <2>5. /\ \A v \in Writers : WriterTells(v)' <=> WriterTells(v)
        /\ \A i \in DOMAIN dqueue : PlaneQueued(i)' <=> PlaneQueued(i)
        /\ CollectorHas
    BY <1>1, <2>1 DEF WriterTells, PlaneQueued, CollectorHas
  <2>6. ToldOnce'
    BY <1>1, <2>1, <2>5 DEF ToldOnce, NobodyTells, OneTells
  <2>7. ToldRight'
    BY <1>1, <1>2, <2>1, <2>2, <2>5 DEF ToldRight
  <2> QED BY <2>3, <2>4, <2>6, <2>7
<1>4. CASE Dlog!TimingSend
  <2>1. /\ collector.at = "send" /\ dqueue' = Append(dqueue, collector.msg)
        /\ collector' = Dlog!Idle /\ collector'.at = "idle"
    BY <1>4 DEF Dlog!TimingSend, Dlog!Collecting, Dlog!Idle
  <2>2. MarksFit' /\ Dlog!PlanesAgree' /\ LogsInOrder'
    BY <1>1, <2>1, SamePlanes DEF HasChunk
  <2>3. PICK n : n = Len(dqueue) + 1
    OBVIOUS
  <2>4. collector.msg \in Msgs
    BY <2>1 DEF DlogTyped
  <2>5. /\ dqueue' \in Seq(Msgs) /\ DOMAIN dqueue' = 1..n
        /\ \A i \in DOMAIN dqueue : dqueue'[i] = dqueue[i]
        /\ dqueue'[n] = collector.msg
        /\ DOMAIN dqueue = 1..Len(dqueue) /\ Len(dqueue) \in Nat
    BY <2>1, <2>3, <2>4, DlogFacts
  <2>6. DlogTyped'
    BY <1>1, <2>1, <2>5 DEF DlogTyped
  <2>7. /\ \A v \in Writers : WriterTells(v)' <=> WriterTells(v)
        /\ \A i \in DOMAIN dqueue : PlaneQueued(i)' <=> PlaneQueued(i)
        /\ CollectorHas /\ ~CollectorHas'
    BY <1>1, <2>1, <2>5 DEF WriterTells, PlaneQueued, CollectorHas
  <2>8. \A i \in DOMAIN dqueue' : i \in DOMAIN dqueue \/ i = n
    BY <2>3, <2>5
  <2>9. ToldOnce'
    <3>1. OneTells => OneTells'
      BY <2>7, <2>8 DEF OneTells
    <3> QED BY <1>1, <2>7, <3>1 DEF ToldOnce, NobodyTells
  <2>10. ToldRight'
    <3>1. ~overrun => collector.msg = Dlog!PlaneMsg
      BY <2>1 DEF ToldRight
    <3>2. ~overrun => \A i \in DOMAIN dqueue' : PlaneQueued(i)' => dqueue'[i] = Dlog!PlaneMsg
      BY <2>5, <2>7, <2>8, <3>1 DEF ToldRight
    <3> QED BY <1>1, <1>2, <2>1, <3>2 DEF ToldRight
  <2> QED BY <2>2, <2>6, <2>9, <2>10
<1> QED BY <1>3, <1>4

\* The collector cannot tell itself of the plane.
LEMMA TimingSendFailsStep ==
  ASSUME DlogIInv, Dlog!TimingSendFails
  PROVE  DlogIInv'
<1>. USE DEF DlogIInv
<1>1. /\ collector.at = "send" /\ collector' = Dlog!Idle /\ overrun' = TRUE
      /\ UNCHANGED <<plane, current, oldest, stored, halfUse, critical, dqueue,
                     uploads, logs, writer>>
  BY DEF Dlog!TimingSendFails, Dlog!Collecting
<1>2. MarksFit' /\ Dlog!PlanesAgree'
  BY <1>1 DEF MarksFit, PlaneMarked, Dlog!PlanesAgree, Dlog!Other
<1>3. DlogTyped'
  BY <1>1 DEF DlogTyped, Dlog!Idle
<1>4. NobodyTells => NobodyTells'
  BY <1>1 DEF NobodyTells, WriterTells, PlaneQueued, CollectorHas, Dlog!Idle
<1> QED BY <1>1, <1>2, <1>3, <1>4 DEF ToldOnce, ToldRight, LogsInOrder

\* The collector copies the plane, or cannot.
LEMMA BackupStep ==
  ASSUME DlogIInv, Dlog!BackupFails \/ Dlog!BackupCopy
  PROVE  DlogIInv'
<1>. USE DEF DlogIInv
<1>1. /\ collector.at = "backup"
      /\ UNCHANGED <<plane, current, oldest, stored, halfUse, critical, uploads, logs, dqueue,
                     writer>>
  BY DEF Dlog!BackupFails, Dlog!BackupCopy, Dlog!Collecting
<1>2. /\ \A v \in Writers : WriterTells(v)' <=> WriterTells(v)
      /\ \A i \in DOMAIN dqueue : PlaneQueued(i)' <=> PlaneQueued(i)
      /\ CollectorHas
  BY <1>1 DEF WriterTells, PlaneQueued, CollectorHas
<1>3. oldest # current
  BY <1>2 DEF ToldOnce, NobodyTells
<1>4. CASE Dlog!BackupFails
  <2>1. overrun' = TRUE /\ collector' = Dlog!Idle /\ collector'.at = "idle"
    BY <1>4 DEF Dlog!BackupFails, Dlog!Collecting, Dlog!Idle
  <2>2. MarksFit' /\ Dlog!PlanesAgree'
    BY <1>1 DEF MarksFit, Dlog!PlanesAgree
  <2>3. LogsInOrder' /\ ToldRight' /\ ToldOnce'
    BY <1>1, <1>3, <2>1 DEF LogsInOrder, ToldRight, ToldOnce
  <2>4. DlogTyped'
    BY <1>1, <2>1 DEF DlogTyped
  <2> QED BY <2>2, <2>3, <2>4
<1>5. CASE Dlog!BackupCopy
  <2>1. /\ overrun' = overrun
        /\ collector' = [at |-> "clear",
                         chunk |-> [data |-> SubSeq(plane[collector.msg.of].mem, 1,
                                                    collector.msg.size),
                                    critical |-> collector.msg.critical]]
    BY <1>5 DEF Dlog!BackupCopy, Dlog!Collecting
  <2>2. MarksFit' /\ Dlog!PlanesAgree' /\ LogsInOrder'
    BY <1>1, <2>1, SamePlanes DEF HasChunk
  <2>3. DlogTyped'
    BY <1>1, <2>1 DEF DlogTyped
  <2>4. ToldOnce'
    BY <1>1, <1>2, <2>1 DEF ToldOnce, NobodyTells, OneTells
  <2>5. ToldRight'
    <3>1. ~overrun => collector.msg = Dlog!PlaneMsg
      BY <1>1 DEF ToldRight
    <3>2. ~overrun => collector'.chunk = [data |-> SubSeq(plane[oldest].mem, 1, stored),
                                          critical |-> plane[oldest].critical]
      <4>1. /\ Dlog!PlaneMsg.of = oldest /\ Dlog!PlaneMsg.size = stored
            /\ Dlog!PlaneMsg.critical = plane[oldest].critical
        BY DEF Dlog!PlaneMsg
      <4> QED BY <2>1, <3>1, <4>1
    <3>3. Dlog!PlaneMsg' = Dlog!PlaneMsg
      BY <1>1 DEF Dlog!PlaneMsg
    <3>4. collector'.at = "clear"
      BY <2>1
    <3> QED BY <1>1, <1>2, <2>1, <3>2, <3>3, <3>4 DEF ToldRight
  <2> QED BY <2>2, <2>3, <2>4, <2>5
<1> QED BY <1>4, <1>5

\* A chunk is registered, or dropped.
LEMMA RegisterStep ==
  ASSUME DlogIInv, Dlog!Register
  PROVE  DlogIInv'
<1>. USE DEF DlogIInv
<1>1. /\ collector.at = "register" /\ collector' = Dlog!Idle /\ collector'.at = "idle"
      /\ UNCHANGED <<plane, current, oldest, stored, halfUse, critical, logs, dqueue, writer>>
  BY DEF Dlog!Register, Dlog!Collecting, Dlog!Idle
<1>2. /\ \A v \in Writers : WriterTells(v)' <=> WriterTells(v)
      /\ \A i \in DOMAIN dqueue : PlaneQueued(i)' <=> PlaneQueued(i)
      /\ ~CollectorHas /\ ~CollectorHas' /\ ~HasChunk'
  BY <1>1 DEF WriterTells, PlaneQueued, CollectorHas, HasChunk
<1>3. MarksFit' /\ Dlog!PlanesAgree'
  BY <1>1 DEF MarksFit, Dlog!PlanesAgree
<1>4. overrun' \in {overrun, TRUE}
  BY DEF Dlog!Register
<1>5. DlogTyped'
  BY <1>1, <1>4 DEF DlogTyped
<1>6. ToldOnce'
  BY <1>1, <1>2, <1>4 DEF ToldOnce, NobodyTells, OneTells, DlogTyped
<1>7. ToldRight'
  <2>1. Dlog!PlaneMsg' = Dlog!PlaneMsg
    BY <1>1 DEF Dlog!PlaneMsg
  <2> QED BY <1>1, <1>2, <1>4, <2>1 DEF ToldRight, DlogTyped
<1>8. CASE overrun' = TRUE
  BY <1>3, <1>5, <1>6, <1>7, <1>8 DEF LogsInOrder
<1>9. CASE ~HasChunk /\ UNCHANGED <<uploads, overrun>>
  BY <1>1, <1>2, <1>5, <1>6, <1>7, <1>9, SamePlanes
<1>10. CASE HasChunk /\ ~overrun /\ ~overrun' /\ uploads' = Append(uploads, collector.chunk)
  <2>1. PICK c : c = collector.chunk
    OBVIOUS
  <2>2. /\ ChunksFit(uploads, logs) /\ ChunkFits(c, Registered, logs)
        /\ logs \in Seq(BOOLEAN)
    BY <1>10, <2>1, DlogFacts DEF LogsInOrder
  <2>3. ChunksFit(uploads', logs')
    BY <1>1, <1>10, <2>1, <2>2, ChunksStillFit DEF Registered
  <2>4. /\ Len(uploads') = Len(uploads) + 1 /\ uploads'[Len(uploads) + 1] = c
        /\ Len(uploads) \in Nat
    BY <1>10, <2>1, <2>2 DEF ChunksFit, ChunkFits
  <2>5. Registered' = Dlog!Last(c.data) /\ InChunk = Dlog!Last(c.data)
    BY <1>10, <2>1, <2>4 DEF Registered, LastIn, InChunk
  <2>6. InChunk' = InChunk
    BY <1>2, <2>5 DEF InChunk
  <2>7. InOldest' = InOldest
    BY <1>1, <2>6 DEF InOldest
  <2>8. LogsInOrder'
    BY <1>1, <1>2, <1>10, <2>3, <2>6, <2>7 DEF LogsInOrder
  <2> QED BY <1>3, <1>5, <1>6, <1>7, <2>8
<1>11. overrun \in BOOLEAN
  BY DEF DlogTyped
<1> QED BY <1>1, <1>8, <1>9, <1>10, <1>11 DEF Dlog!Register, HasChunk

\* A plane that is cleared keeps its memory.
LEMMA ClearedIs ==
  ASSUME NEW pl \in PlaneRecs
  PROVE  /\ Dlog!Cleared(pl) \in PlaneRecs
         /\ Dlog!Cleared(pl).used = 0 /\ ~Dlog!Cleared(pl).critical
         /\ Dlog!Cleared(pl).mem = pl.mem
<1>1. 0 \in 0..PlaneSize
  BY DlogAssumption
<1>2. /\ Dlog!Cleared(pl).used = 0 /\ ~Dlog!Cleared(pl).critical
      /\ Dlog!Cleared(pl).mem = pl.mem
  BY DEF Dlog!Cleared, PlaneRecs
<1>3. Dlog!Cleared(pl) = [[pl EXCEPT !.used = 0] EXCEPT !.critical = FALSE]
  BY DEF Dlog!Cleared, PlaneRecs
<1>4. [pl EXCEPT !.used = 0] \in PlaneRecs
  BY <1>1 DEF PlaneRecs
<1>5. [[pl EXCEPT !.used = 0] EXCEPT !.critical = FALSE] \in PlaneRecs
  BY <1>4 DEF PlaneRecs
<1> QED BY <1>2, <1>3, <1>5

\* The plane is cleared, and its copy is a chunk that fits.
LEMMA BackupClearStep ==
  ASSUME DlogIInv, Dlog!BackupClear
  PROVE  DlogIInv'
<1>. USE DEF DlogIInv
<1>1. /\ collector.at = "clear"
      /\ plane' = [plane EXCEPT ![oldest] = Dlog!Cleared(plane[oldest])]
      /\ halfUse' = FALSE
      /\ collector' = [at |-> "register", chunk |-> collector.chunk]
      /\ UNCHANGED <<writer, logs, current, oldest, stored, critical, dqueue, uploads, overrun>>
  BY DEF Dlog!BackupClear, Dlog!Collecting
<1>2. CollectorHas /\ ~CollectorHas' /\ ~HasChunk
  BY <1>1 DEF CollectorHas, HasChunk
<1>3. oldest # current /\ oldest \in {0, 1} /\ current \in {0, 1}
  BY <1>2 DEF ToldOnce, NobodyTells, DlogTyped
<1>4. /\ plane[oldest] \in PlaneRecs
      /\ plane'[oldest] = Dlog!Cleared(plane[oldest])
      /\ \A p \in {0, 1} : p # oldest => plane'[p] = plane[p]
      /\ plane' = [p \in {0, 1} |-> plane'[p]]
  BY <1>1, <1>3 DEF DlogTyped
<1>5. /\ plane'[oldest] \in PlaneRecs /\ plane'[oldest].used = 0
      /\ ~plane'[oldest].critical /\ plane'[oldest].mem = plane[oldest].mem
  BY <1>4, ClearedIs
<1>6. DlogTyped'
  <2>1. \A p \in {0, 1} : plane'[p] \in PlaneRecs /\ plane'[p].used <= Len(plane'[p].mem)
    BY <1>4, <1>5, DlogFacts
  <2>2. plane' \in [{0, 1} -> PlaneRecs]
    BY <1>4, <2>1
  <2>3. ~(collector'.at = "send")
    BY <1>1
  <2> QED BY <1>1, <2>1, <2>2, <2>3 DEF DlogTyped
<1>7. MarksFit'
  BY <1>1, <1>4, <1>5 DEF MarksFit, PlaneMarked
<1>8. Dlog!PlanesAgree'
  BY <1>1, <1>3, <1>4, <1>5, DlogFacts DEF Dlog!PlanesAgree
<1>9. /\ \A v \in Writers : WriterTells(v)' <=> WriterTells(v)
      /\ \A i \in DOMAIN dqueue : PlaneQueued(i)' <=> PlaneQueued(i)
  BY <1>1 DEF WriterTells, PlaneQueued
<1>10. ~overrun => NobodyTells'
  BY <1>1, <1>2, <1>9 DEF ToldOnce, OneTells, NobodyTells
<1>11. ToldOnce'
  BY <1>1, <1>3, <1>10 DEF ToldOnce, OneTells, NobodyTells
<1>12. ToldRight'
  <2>1. ~overrun => /\ \A w \in Writers : ~(writer'[w].at = "send" /\ writer'[w].msg.cmd = "plane")
                    /\ \A i \in DOMAIN dqueue' : ~PlaneQueued(i)'
    BY <1>10 DEF NobodyTells, WriterTells
  <2>2. collector'.at = "register"
    BY <1>1
  <2> QED BY <1>1, <2>1, <2>2 DEF ToldRight
<1>13. CASE overrun
  BY <1>1, <1>6, <1>7, <1>8, <1>11, <1>12, <1>13 DEF LogsInOrder
<1>14. CASE ~overrun
  <2>1. halfUse /\ stored = plane[oldest].used /\ stored > 0 /\ stored \in Nat
    BY <1>2, <1>14 DEF ToldOnce, NobodyTells, ToldRight, DlogTyped
  <2>2. PICK c : c = collector.chunk
    OBVIOUS
  <2>3. PICK r : r = Registered
    OBVIOUS
  <2>4. InChunk = r /\ InOldest = r + stored /\ r \in Nat
    BY <1>2, <1>14, <2>1, <2>3, EndsAreNat DEF InChunk, InOldest
  <2>5. /\ c.data = SubSeq(plane[oldest].mem, 1, stored)
        /\ c.critical = plane[oldest].critical
        /\ c = [data |-> SubSeq(plane[oldest].mem, 1, stored), critical |-> plane[oldest].critical]
    BY <1>1, <1>14, <2>2 DEF ToldRight
  <2>6. /\ c.data \in Seq(Nat) /\ Len(c.data) = stored /\ DOMAIN c.data = 1..stored
        /\ \A k \in 1..stored : c.data[k] = plane[oldest].mem[k]
    <3>1. plane[oldest].mem \in Seq(Nat) /\ stored <= Len(plane[oldest].mem)
      BY <1>3, <2>1, DlogFacts
    <3> QED BY <2>1, <2>5, <3>1
  <2>7. \A k \in 1..stored : c.data[k] = r + k
    BY <1>14, <2>1, <2>4, <2>6 DEF LogsInOrder
  <2>8. Dlog!Last(c.data) = r + stored
    BY <2>1, <2>6, <2>7 DEF Dlog!Last
  <2>9. ChunkFits(c, r, logs)
    <3>1. c.data = Dlog!Run(r, Dlog!Last(c.data))
      <4>1. (r + stored) - r = stored
        BY <2>1, <2>4
      <4>2. c.data = [k \in 1..stored |-> c.data[k]]
        BY <2>6
      <4>3. c.data = [k \in 1..stored |-> r + k]
        BY <2>7, <4>2
      <4> QED BY <2>8, <4>1, <4>3 DEF Dlog!Run
    <3>2. r + stored <= Len(logs)
      BY <1>14, <2>4, DlogFacts DEF LogsInOrder, DlogTyped
    <3>3. c \in Chunks /\ c.data # <<>>
      <4>1. plane[oldest].critical \in BOOLEAN
        BY <1>3, DlogFacts
      <4>2. c = [data |-> c.data, critical |-> plane[oldest].critical]
        BY <2>5
      <4>3. c \in Chunks
        BY <2>6, <4>1, <4>2 DEF Chunks
      <4>4. c.data # <<>>
        BY <2>1, <2>6
      <4> QED BY <4>3, <4>4
    <3>4. c.critical <=> \E k \in 1..stored : logs[plane[oldest].mem[k]]
      BY <1>3, <2>1, <2>5 DEF MarksFit, PlaneMarked
    <3>5. c.critical <=> \E l \in Dlog!ToSet(c.data) : logs[l]
      BY <2>6, <3>4 DEF Dlog!ToSet
    <3> QED BY <2>8, <3>1, <3>2, <3>3, <3>5 DEF ChunkFits
  <2>10. collector'.at = "register" /\ collector'.chunk = c /\ c # Dlog!Bulk
    <3>1. c.data # Dlog!Bulk.data
      BY <2>9 DEF ChunkFits, Dlog!Bulk
    <3> QED BY <1>1, <2>2, <3>1
  <2>11. HasChunk' /\ Registered' = r
    BY <1>1, <2>3, <2>10 DEF HasChunk, Registered
  <2>12. InChunk' = r + stored
    BY <2>8, <2>10, <2>11 DEF InChunk
  <2>13. InOldest' = InOldest
    BY <1>1, <2>4, <2>12 DEF InOldest
  <2>14. LogsInOrder'
    <3>1. plane'[current] = plane[current]
      BY <1>3, <1>4
    <3>2. Len(logs) = InOldest + plane[current].used /\ ChunksFit(uploads, logs)
          /\ \A k \in 1..plane[current].used : plane[current].mem[k] = InOldest + k
      BY <1>14 DEF LogsInOrder
    <3>3. ChunkFits(collector'.chunk, Registered', logs')
      BY <1>1, <2>9, <2>10, <2>11
    <3> QED BY <1>1, <2>13, <3>1, <3>2, <3>3 DEF LogsInOrder
  <2> QED BY <1>6, <1>7, <1>8, <1>11, <1>12, <2>14
<1> QED BY <1>13, <1>14

\* The planes change places: the other one is empty afterwards.
LEMMA SwappedIs ==
  ASSUME DlogIInv
  PROVE  LET o == Dlog!Other(current)
             sp == Dlog!SwappedPlanes
         IN  /\ sp \in [{0, 1} -> PlaneRecs]
             /\ sp[current] = plane[current]
             /\ sp[o].used = 0 /\ ~sp[o].critical
             /\ sp[o].mem = plane[o].mem
<1>. USE DEF DlogIInv
<1>. DEFINE o == Dlog!Other(current)
            sp == Dlog!SwappedPlanes
<1>1. o \in {0, 1} /\ o # current /\ current \in {0, 1} /\ plane[o] \in PlaneRecs
      /\ plane \in [{0, 1} -> PlaneRecs]
  BY DlogFacts DEF DlogTyped
<1>2. CASE halfUse
  <2>1. sp = [plane EXCEPT ![o] = Dlog!Cleared(plane[o])]
    BY <1>2 DEF Dlog!SwappedPlanes
  <2>2. /\ Dlog!Cleared(plane[o]) \in PlaneRecs /\ Dlog!Cleared(plane[o]).used = 0
        /\ ~Dlog!Cleared(plane[o]).critical /\ Dlog!Cleared(plane[o]).mem = plane[o].mem
    BY <1>1, ClearedIs
  <2>. HIDE DEF o, sp
  <2>3. sp \in [{0, 1} -> PlaneRecs] /\ sp[current] = plane[current]
        /\ sp[o] = Dlog!Cleared(plane[o])
    BY <1>1, <2>1, <2>2
  <2> QED BY <2>2, <2>3 DEF o, sp
<1>3. CASE ~halfUse
  <2>1. sp = plane
    BY <1>3 DEF Dlog!SwappedPlanes
  <2>2. plane[o].used = 0 /\ ~plane[o].critical
    BY <1>3 DEF Dlog!PlanesAgree
  <2> QED BY <1>1, <2>1, <2>2
<1> QED BY <1>2, <1>3

\* Either planes were overrun or nothing was on its way before.
LEMMA SwapIs ==
  ASSUME DlogIInv, Dlog!Swap
  PROVE  /\ oldest' = current /\ current' = Dlog!Other(current) /\ current' # oldest'
         /\ current' \in {0, 1} /\ oldest' \in {0, 1}
         /\ stored' = plane[current].used /\ stored' \in 0..PlaneSize
         /\ halfUse' = TRUE /\ overrun' \in BOOLEAN
         /\ ~overrun' => ~overrun /\ ~halfUse /\ NobodyTells
<1>1. /\ oldest' = current /\ current' = Dlog!Other(current)
      /\ stored' = plane[current].used /\ halfUse' = TRUE
      /\ overrun' = (overrun \/ halfUse)
  BY DEF Dlog!Swap
<1>2. current' # oldest' /\ current' \in {0, 1} /\ oldest' \in {0, 1} /\ stored' \in 0..PlaneSize
  BY <1>1, DlogFacts DEF DlogIInv, DlogTyped
<1>3. ~overrun' => ~overrun /\ ~halfUse /\ NobodyTells
  BY <1>1 DEF DlogIInv, ToldOnce
<1>4. overrun' \in BOOLEAN
  BY <1>1 DEF DlogIInv, DlogTyped
<1> QED BY <1>1, <1>2, <1>3, <1>4

\* What a swap leaves in order.  Nothing is registered or taken meanwhile.
LEMMA SwapKeepsOrder ==
  ASSUME DlogIInv, Dlog!Swap, ~overrun', uploads' = uploads,
         collector' = collector \/ (~HasChunk /\ ~HasChunk')
  PROVE  /\ Registered' = Registered /\ InChunk' = InChunk
         /\ HasChunk' => HasChunk /\ collector'.chunk = collector.chunk
         /\ InOldest' = InOldest + plane[current].used
         /\ InOldest' = Len(logs)
         /\ \A k \in 1..stored' : plane[current].mem[k] = InChunk + k
<1>1. ~overrun /\ ~halfUse /\ stored' = plane[current].used /\ halfUse' = TRUE
  BY SwapIs
<1>2. Registered' = Registered
  BY DEF Registered
<1>3. InChunk' = InChunk /\ (HasChunk' => HasChunk /\ collector'.chunk = collector.chunk)
  BY <1>2 DEF InChunk, HasChunk
<1>4. InOldest = InChunk /\ InOldest' = InChunk' + stored'
  BY <1>1 DEF InOldest
<1>5. /\ Len(logs) = InOldest + plane[current].used
      /\ \A k \in 1..plane[current].used : plane[current].mem[k] = InOldest + k
  BY <1>1 DEF DlogIInv, LogsInOrder
<1> QED BY <1>1, <1>2, <1>3, <1>4, <1>5

\* A critical log that has waited is collected before the plane is full.
LEMMA CriticalTimingStep ==
  ASSUME DlogIInv, Dlog!CriticalTiming
  PROVE  DlogIInv'
<1>. USE DEF DlogIInv
<1>1. /\ collector.at = "idle" /\ critical /\ Dlog!Swap
      /\ plane' = Dlog!SwappedPlanes /\ critical' = FALSE
      /\ collector' = [at |-> "timing"] /\ collector'.at = "timing"
      /\ UNCHANGED <<writer, logs, dqueue, uploads>>
  BY DEF Dlog!CriticalTiming, Dlog!Collecting, Dlog!Idle
<1>2. /\ oldest' = current /\ current' = Dlog!Other(current) /\ current' # oldest'
      /\ current' \in {0, 1} /\ oldest' \in {0, 1}
      /\ stored' = plane[current].used /\ stored' \in 0..PlaneSize
      /\ halfUse' = TRUE /\ overrun' \in BOOLEAN
      /\ ~overrun' => ~overrun /\ ~halfUse /\ NobodyTells
  BY <1>1, SwapIs
<1>3. /\ plane' \in [{0, 1} -> PlaneRecs]
      /\ plane'[oldest'] = plane[oldest']
      /\ plane'[current'].used = 0 /\ ~plane'[current'].critical
      /\ plane'[current'].mem = plane[current'].mem
  BY <1>1, <1>2, SwappedIs
<1>4. \A p \in {0, 1} : p = oldest' \/ p = current'
  BY <1>2
<1>5. ~HasChunk /\ ~HasChunk' /\ ~CollectorHas
  BY <1>1 DEF HasChunk, CollectorHas
<1>6. DlogTyped'
  <2>1. \A p \in {0, 1} : plane'[p].used <= Len(plane'[p].mem)
    BY <1>2, <1>3, <1>4, DlogFacts
  <2>2. critical' \in BOOLEAN /\ ~(collector'.at = "send")
    BY <1>1
  <2> QED BY <1>1, <1>2, <1>3, <2>1, <2>2 DEF DlogTyped
<1>7. MarksFit'
  BY <1>1, <1>2, <1>3, <1>4 DEF MarksFit, PlaneMarked
<1>8. Dlog!PlanesAgree'
  BY <1>1, <1>2 DEF Dlog!PlanesAgree
<1>9. /\ \A v \in Writers : WriterTells(v)' <=> WriterTells(v)
      /\ \A i \in DOMAIN dqueue : PlaneQueued(i)' <=> PlaneQueued(i)
  BY <1>1 DEF WriterTells, PlaneQueued
<1>10. ToldOnce'
  <2>1. NobodyTells => OneTells'
    BY <1>1, <1>9 DEF NobodyTells, OneTells
  <2> QED BY <1>2, <2>1 DEF ToldOnce
<1>11. plane[current].used > 0
  BY <1>1 DEF Dlog!PlanesAgree
<1>12. ToldRight'
  <2>1. ~overrun' => /\ \A w \in Writers : ~(writer'[w].at = "send" /\ writer'[w].msg.cmd = "plane")
                     /\ \A i \in DOMAIN dqueue' : ~PlaneQueued(i)'
    BY <1>1, <1>2, <1>9 DEF NobodyTells, WriterTells
  <2>2. stored' > 0 /\ stored' = plane'[oldest'].used
    BY <1>2, <1>3, <1>11
  <2> QED BY <1>1, <1>2, <2>1, <2>2 DEF ToldRight
<1>13. LogsInOrder'
  <2>1. CASE overrun'
    BY <2>1 DEF LogsInOrder
  <2>2. CASE ~overrun'
    <3>1. /\ InChunk' = InChunk /\ InOldest' = Len(logs)
          /\ \A k \in 1..stored' : plane[current].mem[k] = InChunk + k
      BY <1>1, <1>5, <2>2, SwapKeepsOrder
    <3>2. ChunksFit(uploads, logs)
      BY <1>2, <2>2 DEF LogsInOrder
    <3>3. plane'[oldest'].mem = plane[current].mem
      BY <1>2, <1>3
    <3>4. Len(logs') = InOldest' + plane'[current'].used
      BY <1>1, <1>3, <3>1, DlogFacts
    <3>5. \A k \in 1..plane'[current'].used : plane'[current'].mem[k] = InOldest' + k
      BY <1>3
    <3> QED BY <1>1, <1>5, <3>1, <3>2, <3>3, <3>4, <3>5 DEF LogsInOrder
  <2> QED BY <2>1, <2>2
<1> QED BY <1>6, <1>7, <1>8, <1>10, <1>12, <1>13

\* What the write of log l to plane p makes of the planes.
MarkedAs(m, pls, p, l, crit) ==
  /\ m \in [{0, 1} -> PlaneRecs]
  /\ \A q \in {0, 1} : q # p => m[q] = pls[q]
  /\ m[p].used = pls[p].used + 1 /\ m[p].used <= Len(m[p].mem)
  /\ m[p].critical <=> (pls[p].critical \/ crit)
  /\ \A k \in 1..pls[p].used : m[p].mem[k] = pls[p].mem[k]
  /\ m[p].mem[pls[p].used + 1] = l

LEMMA MarkIs ==
  ASSUME NEW pls \in [{0, 1} -> PlaneRecs], NEW p \in {0, 1}, NEW l \in Nat, NEW crit \in BOOLEAN,
         pls[p].used <= Len(pls[p].mem), pls[p].used < PlaneSize
  PROVE  MarkedAs(Dlog!Mark(pls, p, l, crit), pls, p, l, crit)
<1>1. PICK b : b = (pls[p].critical \/ crit) /\ b \in BOOLEAN
  OBVIOUS
<1>2. PICK q : q = Dlog!Pushed(pls[p], l)
  OBVIOUS
<1>3. /\ q \in PlaneRecs
      /\ q.used = pls[p].used + 1 /\ q.used <= Len(q.mem)
      /\ \A k \in 1..pls[p].used : q.mem[k] = pls[p].mem[k]
      /\ q.mem[pls[p].used + 1] = l
  BY <1>2, PushedIs
<1>4. PICK r : r = [q EXCEPT !.critical = b]
  OBVIOUS
<1>5. r \in PlaneRecs /\ r.used = q.used /\ r.mem = q.mem /\ (r.critical <=> b)
  BY <1>1, <1>3, <1>4 DEF PlaneRecs
<1>6. Dlog!Mark(pls, p, l, crit) = [pls EXCEPT ![p] = r]
  BY <1>1, <1>2, <1>4 DEF Dlog!Mark
<1>7. PICK m : m = Dlog!Mark(pls, p, l, crit)
  OBVIOUS
<1>8. m \in [{0, 1} -> PlaneRecs] /\ m[p] = r /\ \A x \in {0, 1} : x # p => m[x] = pls[x]
  BY <1>5, <1>6, <1>7
<1>9. MarkedAs(m, pls, p, l, crit)
  BY <1>1, <1>3, <1>5, <1>8 DEF MarkedAs
<1> QED BY <1>7, <1>9

\* The flag of a plane stays right when another log is written, to another
\* plane or to this one.
LEMMA StillMarked ==
  ASSUME NEW pl, NEW ls \in Seq(BOOLEAN), NEW crit \in BOOLEAN, PlaneMarked(pl, ls)
  PROVE  PlaneMarked(pl, Append(ls, crit))
<1>1. Len(Append(ls, crit)) = Len(ls) + 1 /\ Len(ls) \in Nat
  OBVIOUS
<1>2. \A k \in 1..pl.used : /\ pl.mem[k] \in 1..Len(ls)
                            /\ pl.mem[k] \in 1..(Len(ls) + 1)
                            /\ Append(ls, crit)[pl.mem[k]] = ls[pl.mem[k]]
  BY <1>1 DEF PlaneMarked
<1> QED BY <1>1, <1>2 DEF PlaneMarked

LEMMA PushedMarked ==
  ASSUME NEW pl \in PlaneRecs, NEW q \in PlaneRecs, NEW ls \in Seq(BOOLEAN), NEW crit \in BOOLEAN,
         PlaneMarked(pl, ls),
         q.used = pl.used + 1, q.critical <=> (pl.critical \/ crit),
         \A k \in 1..pl.used : q.mem[k] = pl.mem[k],
         q.mem[pl.used + 1] = Len(ls) + 1
  PROVE  PlaneMarked(q, Append(ls, crit))
<1>1. /\ Len(Append(ls, crit)) = Len(ls) + 1 /\ Len(ls) \in Nat
      /\ Append(ls, crit)[Len(ls) + 1] = crit
  OBVIOUS
<1>2. pl.used \in Nat
  BY DlogAssumption DEF PlaneRecs
<1>3. \A k \in 1..pl.used : /\ q.mem[k] \in 1..Len(ls) /\ q.mem[k] = pl.mem[k]
                            /\ q.mem[k] \in 1..(Len(ls) + 1)
                            /\ Append(ls, crit)[q.mem[k]] = ls[pl.mem[k]]
  BY <1>1 DEF PlaneMarked
<1>4. \A k \in 1..q.used : k \in 1..pl.used \/ k = pl.used + 1
  BY <1>2
<1>5. \A k \in 1..q.used : q.mem[k] \in 1..Len(Append(ls, crit))
  BY <1>1, <1>3, <1>4
<1>6. /\ 1..pl.used \subseteq 1..q.used /\ pl.used + 1 \in 1..q.used
      /\ Append(ls, crit)[q.mem[pl.used + 1]] = crit
  BY <1>1, <1>2
<1>7. ASSUME q.critical PROVE \E k \in 1..q.used : Append(ls, crit)[q.mem[k]]
  <2>1. CASE crit
    BY <1>6, <2>1
  <2>2. CASE ~crit
    <3>1. PICK k \in 1..pl.used : ls[pl.mem[k]]
      BY <1>7, <2>2 DEF PlaneMarked
    <3> QED BY <1>3, <1>6, <3>1
  <2> QED BY <2>1, <2>2
<1>8. ASSUME NEW k \in 1..q.used, Append(ls, crit)[q.mem[k]] PROVE q.critical
  <2>1. CASE k = pl.used + 1
    BY <1>6, <1>8, <2>1
  <2>2. CASE k \in 1..pl.used
    BY <1>3, <1>8, <2>2 DEF PlaneMarked
  <2> QED BY <1>4, <2>1, <2>2
<1> QED BY <1>5, <1>7, <1>8 DEF PlaneMarked

\* A log is written to a plane that has room.
LEMMA WriteFitsStep ==
  ASSUME DlogIInv, NEW w \in Writers, NEW crit \in BOOLEAN, Dlog!WriteFits(w, crit),
         logs' = Append(logs, crit), UNCHANGED <<dqueue, collector, uploads>>
  PROVE  DlogIInv'
<1>. USE DEF DlogIInv
<1>1. /\ plane[current].used < PlaneSize
      /\ plane' = Dlog!Mark(plane, current, Len(logs) + 1, crit)
      /\ critical' = (critical \/ crit)
      /\ UNCHANGED <<current, oldest, stored, halfUse, writer, overrun>>
  BY DEF Dlog!WriteFits
<1>2. /\ current \in {0, 1} /\ plane \in [{0, 1} -> PlaneRecs] /\ Len(logs) + 1 \in Nat
      /\ plane[current] \in PlaneRecs
      /\ plane[current].used <= Len(plane[current].mem) /\ plane[current].used \in 0..PlaneSize
      /\ Len(logs) \in Nat /\ logs \in Seq(BOOLEAN) /\ PlaneSize \in Nat \ {0}
  BY DlogFacts DEF DlogTyped
<1>3. /\ plane' \in [{0, 1} -> PlaneRecs]
      /\ \A q \in {0, 1} : q # current => plane'[q] = plane[q]
      /\ plane'[current].used = plane[current].used + 1
      /\ plane'[current].used <= Len(plane'[current].mem)
      /\ plane'[current].critical <=> (plane[current].critical \/ crit)
      /\ \A k \in 1..plane[current].used : plane'[current].mem[k] = plane[current].mem[k]
      /\ plane'[current].mem[plane[current].used + 1] = Len(logs) + 1
  <2>1. PICK pls, p, l : pls = plane /\ p = current /\ l = Len(logs) + 1
    OBVIOUS
  <2>2. /\ pls \in [{0, 1} -> PlaneRecs] /\ p \in {0, 1} /\ l \in Nat
        /\ pls[p].used <= Len(pls[p].mem) /\ pls[p].used < PlaneSize
    BY <1>1, <1>2, <2>1
  <2>3. PICK m : m = Dlog!Mark(pls, p, l, crit)
    OBVIOUS
  <2>m. MarkedAs(m, pls, p, l, crit)
    BY <2>2, <2>3, MarkIs
  <2>4. /\ m \in [{0, 1} -> PlaneRecs]
        /\ \A q \in {0, 1} : q # p => m[q] = pls[q]
        /\ m[p].used = pls[p].used + 1 /\ m[p].used <= Len(m[p].mem)
        /\ m[p].critical <=> (pls[p].critical \/ crit)
        /\ \A k \in 1..pls[p].used : m[p].mem[k] = pls[p].mem[k]
        /\ m[p].mem[pls[p].used + 1] = l
    BY <2>m DEF MarkedAs
  <2>5. plane' = m
    BY <1>1, <2>1, <2>3
  <2> QED BY <2>1, <2>4, <2>5
<1>4. logs' \in Seq(BOOLEAN) /\ Len(logs') = Len(logs) + 1
  BY <1>2
<1>5. DlogTyped'
  <2>1. \A p \in {0, 1} : plane'[p].used <= Len(plane'[p].mem)
    BY <1>3, DlogFacts
  <2>2. critical' \in BOOLEAN
    BY <1>1
  <2> QED BY <1>1, <1>3, <1>4, <2>1, <2>2 DEF DlogTyped
<1>6. MarksFit'
  <2>1. ASSUME NEW p \in {0, 1}, p # current PROVE PlaneMarked(plane'[p], logs')
    BY <1>2, <1>3, <2>1, StillMarked DEF MarksFit
  <2>2. PlaneMarked(plane'[current], logs')
    <3>1. PlaneMarked(plane[current], logs) /\ plane'[current] \in PlaneRecs
      BY <1>2, <1>3 DEF MarksFit
    <3> QED BY <1>2, <1>3, <3>1, PushedMarked
  <2> QED BY <2>1, <2>2 DEF MarksFit
<1>7. Dlog!PlanesAgree'
  <2>1. Dlog!Other(current) \in {0, 1} /\ Dlog!Other(current) # current
    BY DlogFacts
  <2>2. plane'[Dlog!Other(current)] = plane[Dlog!Other(current)]
    BY <1>3, <2>1
  <2>3. Dlog!Other(current') = Dlog!Other(current)
    BY <1>1
  <2>4. critical' => plane'[current].critical /\ plane'[current].used > 0
    BY <1>1, <1>2, <1>3 DEF Dlog!PlanesAgree
  <2> QED BY <1>1, <2>2, <2>3, <2>4 DEF Dlog!PlanesAgree
<1>8. /\ \A v \in Writers : WriterTells(v)' <=> WriterTells(v)
      /\ \A i \in DOMAIN dqueue : PlaneQueued(i)' <=> PlaneQueued(i)
      /\ CollectorHas' <=> CollectorHas
  BY <1>1 DEF WriterTells, PlaneQueued, CollectorHas
<1>9. ToldOnce'
  BY <1>1, <1>8 DEF ToldOnce, NobodyTells, OneTells
<1>10. ToldRight'
  <2>1. CASE oldest # current
    <3>1. plane'[oldest] = plane[oldest]
      BY <1>3, <2>1 DEF DlogTyped
    <3>2. Dlog!PlaneMsg' = Dlog!PlaneMsg
      BY <1>1, <3>1 DEF Dlog!PlaneMsg
    <3> QED BY <1>1, <1>8, <3>1, <3>2 DEF ToldRight
  <2>2. CASE oldest = current
    <3>1. NobodyTells' /\ (~overrun => ~halfUse)
      BY <1>1, <1>8, <2>2 DEF ToldOnce, NobodyTells, ToldRight
    <3>2. /\ \A v \in Writers : ~(writer'[v].at = "send" /\ writer'[v].msg.cmd = "plane")
          /\ \A i \in DOMAIN dqueue' : ~PlaneQueued(i)'
          /\ collector'.at \notin {"backup", "clear", "timing", "send"}
      BY <3>1 DEF NobodyTells, WriterTells, CollectorHas
    <3> QED BY <1>1, <3>1, <3>2 DEF ToldRight
  <2> QED BY <2>1, <2>2
<1>11. LogsInOrder'
  <2>1. CASE overrun
    BY <1>1, <2>1 DEF LogsInOrder
  <2>2. CASE ~overrun
    <3>1. /\ Registered \in Nat /\ InChunk \in Nat /\ InOldest \in Nat
      BY <2>2, EndsAreNat
    <3>2. /\ ChunksFit(uploads, logs)
          /\ HasChunk => ChunkFits(collector.chunk, Registered, logs)
          /\ halfUse => \A k \in 1..stored : plane[oldest].mem[k] = InChunk + k
          /\ \A k \in 1..plane[current].used : plane[current].mem[k] = InOldest + k
          /\ Len(logs) = InOldest + plane[current].used
      BY <2>2 DEF LogsInOrder
    <3>3. Registered' = Registered /\ (HasChunk' <=> HasChunk)
      BY DEF Registered, HasChunk
    <3>4. InChunk' = InChunk
      BY <3>3 DEF InChunk
    <3>5. InOldest' = InOldest
      BY <1>1, <3>4 DEF InOldest
    <3>6. ChunksFit(uploads', logs')
      BY <1>2, <3>2, ChunksStillFit
    <3>7. HasChunk => ChunkFits(collector.chunk, Registered, logs')
      BY <1>2, <3>1, <3>2, ChunkStillFits
    <3>8. halfUse => \A k \in 1..stored : plane'[oldest].mem[k] = InChunk + k
      <4>1. halfUse => oldest # current /\ oldest \in {0, 1}
        BY <2>2 DEF ToldRight, DlogTyped
      <4> QED BY <1>3, <3>2, <4>1
    <3>9. ASSUME NEW k \in 1..plane'[current].used PROVE plane'[current].mem[k] = InOldest + k
      <4>1. k \in 1..plane[current].used \/ k = plane[current].used + 1
        BY <1>2, <1>3
      <4>2. CASE k \in 1..plane[current].used
        BY <1>3, <3>2, <4>2
      <4>3. CASE k = plane[current].used + 1
        BY <1>2, <1>3, <3>1, <3>2, <4>3
      <4> QED BY <4>1, <4>2, <4>3
    <3>10. Len(logs') = InOldest + plane'[current].used
      BY <1>2, <1>3, <1>4, <3>1, <3>2
    <3> QED
      BY <1>1, <3>3, <3>4, <3>5, <3>6, <3>7, <3>8, <3>9, <3>10 DEF LogsInOrder
  <2> QED BY <2>1, <2>2
<1> QED BY <1>5, <1>6, <1>7, <1>9, <1>10, <1>11

\* A log finds the plane full: the planes are swapped, and it is the first of
\* the other one.
LEMMA WriteFullStep ==
  ASSUME DlogIInv, NEW w \in Writers, NEW crit \in BOOLEAN, Dlog!WriteFull(w, crit),
         writer[w] = Dlog!Idle,
         logs' = Append(logs, crit), UNCHANGED <<dqueue, collector, uploads>>
  PROVE  DlogIInv'
<1>. USE DEF DlogIInv
<1>. DEFINE sp == Dlog!SwappedPlanes
<1>1. plane[current].used >= PlaneSize /\ Dlog!Swap
  BY DEF Dlog!WriteFull
<1>2. /\ oldest' = current /\ current' = Dlog!Other(current) /\ current' # oldest'
      /\ current' \in {0, 1} /\ oldest' \in {0, 1}
      /\ stored' = plane[current].used /\ stored' \in 0..PlaneSize
      /\ halfUse' = TRUE /\ overrun' \in BOOLEAN
      /\ ~overrun' => ~overrun /\ ~halfUse /\ NobodyTells
  BY <1>1, SwapIs
<1>3. /\ sp \in [{0, 1} -> PlaneRecs] /\ sp[oldest'] = plane[oldest']
      /\ sp[current'].used = 0 /\ ~sp[current'].critical
      /\ sp[current'].mem = plane[current'].mem
  BY <1>2, SwappedIs
<1>4. PlaneSize \in Nat \ {0} /\ Len(logs) \in Nat /\ logs \in Seq(BOOLEAN)
  BY DlogFacts
<1>5. /\ plane' = Dlog!Mark(sp, current', Len(logs) + 1, crit)
      /\ critical' = crit
      /\ writer' = [writer EXCEPT ![w] = [at |-> "collect"]]
  <2>1. sp[Dlog!Other(current)].used < PlaneSize
    BY <1>2, <1>3, <1>4
  <2> QED BY <1>2, <2>1 DEF Dlog!WriteFull
<1>. HIDE DEF sp
<1>6. PICK m : m = plane'
  OBVIOUS
<1>7. PICK c \in {0, 1} : c = current'
  BY <1>2
<1>8. Len(sp[c].mem) \in Nat /\ sp[c] \in PlaneRecs
  BY <1>3, <1>7 DEF PlaneRecs
<1>9. /\ m \in [{0, 1} -> PlaneRecs]
      /\ \A q \in {0, 1} : q # c => m[q] = sp[q]
      /\ m[c].used = 1 /\ m[c].used <= Len(m[c].mem)
      /\ m[c].critical <=> crit
      /\ m[c].mem[1] = Len(logs) + 1
  <2>1. PICK s : s = sp
    OBVIOUS
  <2>2. s \in [{0, 1} -> PlaneRecs] /\ s[c].used = 0 /\ ~s[c].critical
    BY <1>3, <1>7, <2>1
  <2>3. s[c].used <= Len(s[c].mem) /\ s[c].used < PlaneSize /\ Len(logs) + 1 \in Nat
    BY <1>4, <1>8, <2>1, <2>2
  <2>4. m = Dlog!Mark(s, c, Len(logs) + 1, crit)
    BY <1>5, <1>6, <1>7, <2>1
  <2>m. MarkedAs(m, s, c, Len(logs) + 1, crit)
    BY <2>2, <2>3, <2>4, MarkIs
  <2>5. /\ m \in [{0, 1} -> PlaneRecs]
        /\ \A q \in {0, 1} : q # c => m[q] = s[q]
        /\ m[c].used = s[c].used + 1 /\ m[c].used <= Len(m[c].mem)
        /\ m[c].critical <=> (s[c].critical \/ crit)
        /\ m[c].mem[s[c].used + 1] = Len(logs) + 1
    BY <2>m DEF MarkedAs
  <2> QED BY <2>1, <2>2, <2>5
<1>10. PICK o \in {0, 1} : o = oldest' /\ o = current /\ o # c
  BY <1>2, <1>7
<1>11. m[o] = plane[o] /\ \A p \in {0, 1} : p = o \/ p = c
  BY <1>3, <1>7, <1>9, <1>10
<1>12. logs' \in Seq(BOOLEAN) /\ Len(logs') = Len(logs) + 1 /\ logs'[Len(logs) + 1] = crit
  BY <1>4
<1>13. /\ writer' = [v \in Writers |-> writer'[v]]
       /\ \A v \in Writers \ {w} : writer'[v] = writer[v]
       /\ writer'[w].at = "collect"
  BY <1>5 DEF DlogTyped
<1>14. DlogTyped'
  <2>1. \A p \in {0, 1} : m[p].used <= Len(m[p].mem)
    BY <1>9, <1>11, DlogFacts
  <2>2. \A v \in Writers : writer'[v].at = "send" => writer'[v].msg \in Msgs
    BY <1>13 DEF DlogTyped
  <2> QED BY <1>2, <1>5, <1>6, <1>9, <1>12, <1>13, <2>1, <2>2 DEF DlogTyped
<1>15. MarksFit'
  <2>1. PlaneMarked(m[o], logs')
    BY <1>4, <1>11, StillMarked DEF MarksFit
  <2>2. PlaneMarked(m[c], logs')
    BY <1>4, <1>9, <1>12 DEF PlaneMarked
  <2> QED BY <1>6, <1>11, <2>1, <2>2 DEF MarksFit
<1>16. Dlog!PlanesAgree'
  <2>1. m[c].used > 0
    BY <1>9
  <2> QED BY <1>2, <1>5, <1>6, <1>7, <1>9, <2>1 DEF Dlog!PlanesAgree
<1>17. /\ \A v \in Writers : WriterTells(v)' => WriterTells(v) \/ v = w
       /\ \A i \in DOMAIN dqueue : PlaneQueued(i)' <=> PlaneQueued(i)
       /\ CollectorHas' <=> CollectorHas
  BY <1>13 DEF WriterTells, PlaneQueued, CollectorHas
<1>18. ToldOnce'
  <2>1. NobodyTells => OneTells'
    BY <1>17 DEF NobodyTells, OneTells
  <2> QED BY <1>2, <2>1 DEF ToldOnce
<1>19. ToldRight'
  <2>1. ~overrun' =>
          /\ \A v \in Writers : ~(writer'[v].at = "send" /\ writer'[v].msg.cmd = "plane")
          /\ \A i \in DOMAIN dqueue' : ~PlaneQueued(i)'
          /\ collector'.at \notin {"backup", "clear", "timing", "send"}
    <3>1. ~overrun' => NobodyTells
      BY <1>2
    <3> QED BY <1>13, <1>17, <3>1 DEF NobodyTells, WriterTells, CollectorHas
  <2>2. plane'[oldest'].used = plane[current].used
    BY <1>6, <1>10, <1>11
  <2>3. stored' > 0 /\ stored' = plane'[oldest'].used
    BY <1>1, <1>2, <1>4, <2>2
  <2> QED BY <1>2, <2>1, <2>3 DEF ToldRight
<1>20. LogsInOrder'
  <2>1. CASE overrun'
    BY <2>1 DEF LogsInOrder
  <2>2. CASE ~overrun'
    <3>1. /\ Registered' = Registered /\ InChunk' = InChunk
          /\ HasChunk' => HasChunk /\ collector'.chunk = collector.chunk
          /\ InOldest' = Len(logs)
          /\ \A k \in 1..stored' : plane[current].mem[k] = InChunk + k
      BY <1>1, <2>2, SwapKeepsOrder
    <3>2. /\ ChunksFit(uploads, logs) /\ Registered \in Nat
          /\ HasChunk => ChunkFits(collector.chunk, Registered, logs)
      BY <1>2, <2>2, EndsAreNat DEF LogsInOrder
    <3>3. ChunksFit(uploads', logs')
      BY <1>4, <3>2, ChunksStillFit
    <3>4. HasChunk' => ChunkFits(collector'.chunk, Registered', logs')
      <4>1. HasChunk => ChunkFits(collector.chunk, Registered, Append(logs, crit))
        BY <1>4, <3>2, ChunkStillFits
      <4> QED BY <3>1, <4>1
    <3>5. plane'[oldest'].mem = plane[current].mem
      BY <1>6, <1>10, <1>11
    <3>6. Len(logs') = InOldest' + plane'[current'].used
      BY <1>4, <1>6, <1>7, <1>9, <1>12, <3>1
    <3>7. \A k \in 1..plane'[current'].used : plane'[current'].mem[k] = InOldest' + k
      <4>1. \A k \in 1..m[c].used : k = 1
        BY <1>9
      <4>2. \A k \in 1..m[c].used : m[c].mem[k] = Len(logs) + k
        BY <1>9, <4>1
      <4> QED BY <1>6, <1>7, <3>1, <4>2
    <3> QED BY <3>1, <3>3, <3>4, <3>5, <3>6, <3>7 DEF LogsInOrder
  <2> QED BY <2>1, <2>2
<1> QED BY <1>14, <1>15, <1>16, <1>18, <1>19, <1>20

\* Every step of the debug log keeps its invariant.
LEMMA DlogStep == DlogIInv /\ Dlog!Next => DlogIInv'
<1>. SUFFICES ASSUME DlogIInv, Dlog!Next PROVE DlogIInv'
  OBVIOUS
<1>1. ASSUME NEW w \in Writers, Dlog!WriteDlog(w) PROVE DlogIInv'
  <2>1. PICK crit \in BOOLEAN : /\ Dlog!WriteFits(w, crit) \/ Dlog!WriteFull(w, crit)
                                /\ logs' = Append(logs, crit)
    BY <1>1 DEF Dlog!WriteDlog
  <2>2. writer[w] = Dlog!Idle /\ UNCHANGED <<dqueue, collector, uploads>>
    BY <1>1 DEF Dlog!WriteDlog
  <2>3. CASE Dlog!WriteFits(w, crit)
    BY <2>1, <2>2, <2>3, WriteFitsStep
  <2>4. CASE Dlog!WriteFull(w, crit)
    BY <2>1, <2>2, <2>4, WriteFullStep
  <2> QED BY <2>1, <2>3, <2>4
<1>2. ASSUME NEW w \in Writers,
             \/ Dlog!FullCollector(w) \/ Dlog!SendBulkDlog(w)
             \/ Dlog!SendCmd(w) \/ Dlog!SendCmdFails(w)
      PROVE  DlogIInv'
  BY <1>2, FullCollectorStep, SendBulkStep, SendCmdStep, SendCmdFailsStep
<1>3. CASE Dlog!Collect
  BY <1>3, ReceiveDlogStep, BackupStep, BackupClearStep, RegisterStep, CriticalTimingStep,
     TimingStep, TimingSendFailsStep DEF Dlog!Collect
<1> QED BY <1>1, <1>2, <1>3 DEF Dlog!Next, Dlog!Write

LEMMA DlogInitOK == Dlog!Init => DlogIInv
<1>. SUFFICES ASSUME Dlog!Init PROVE DlogIInv
  OBVIOUS
<1>. USE DEF Dlog!Init
<1>1. PlaneSize \in Nat \ {0}
  BY DlogAssumption
<1>2. /\ plane \in [{0, 1} -> PlaneRecs]
      /\ \A p \in {0, 1} : plane[p].used = 0 /\ ~plane[p].critical /\ plane[p].mem = <<>>
  BY <1>1 DEF PlaneRecs, Dlog!Planes
<1>3. DlogTyped
  <2>1. \A p \in {0, 1} : plane[p].used <= Len(plane[p].mem)
    BY <1>2
  <2>2. dqueue \in Seq(Msgs) /\ logs \in Seq(BOOLEAN) /\ collector.at = "idle"
        /\ \A w \in Writers : writer[w].at = "idle"
    BY DEF Dlog!Idle
  <2>3. current \in {0, 1} /\ oldest \in {0, 1} /\ stored \in 0..PlaneSize
    BY <1>1
  <2>5. halfUse \in BOOLEAN
    OBVIOUS
  <2>6. critical \in BOOLEAN
    OBVIOUS
  <2>7. overrun \in BOOLEAN
    OBVIOUS
  <2>4. writer = [w \in Writers |-> writer[w]]
    OBVIOUS
  <2> QED BY <1>2, <2>1, <2>2, <2>3, <2>4, <2>5, <2>6, <2>7 DEF DlogTyped
<1>4. MarksFit
  BY <1>2 DEF MarksFit, PlaneMarked
<1>5. Dlog!PlanesAgree
  BY <1>1, <1>2 DEF Dlog!PlanesAgree, Dlog!Other
<1>6. NobodyTells
  BY DEF NobodyTells, WriterTells, PlaneQueued, CollectorHas, Dlog!Idle
<1>7. ToldOnce /\ ToldRight
  <2>1. OneTells
    BY <1>6 DEF NobodyTells, OneTells
  <2> QED BY <1>6, <2>1 DEF ToldOnce, ToldRight, NobodyTells, WriterTells, CollectorHas
<1>8. LogsInOrder
  <2>1. Registered = 0 /\ ~HasChunk /\ InChunk = 0 /\ InOldest = 0
    BY DEF Registered, HasChunk, InChunk, InOldest, LastIn, Dlog!Idle
  <2>2. ChunksFit(uploads, logs)
    BY DEF ChunksFit
  <2> QED BY <1>2, <2>1, <2>2 DEF LogsInOrder
<1> QED BY <1>3, <1>4, <1>5, <1>7, <1>8 DEF DlogIInv

\* What is in hand and in the current plane is all that was not registered.
LEMMA DlogInvSound == DlogIInv => DlogIsSound
<1>. SUFFICES ASSUME DlogIInv PROVE DlogIsSound
  OBVIOUS
<1>1. Dlog!PlanesAgree
  BY DEF DlogIInv
<1>2. ASSUME ~overrun, NEW i \in DOMAIN uploads
      PROVE  /\ uploads[i].data # <<>>
             /\ uploads[i].data = Dlog!Run(Dlog!LastLog(i - 1), Dlog!LastLog(i))
             /\ uploads[i].critical <=> \E l \in Dlog!ToSet(uploads[i].data) : logs[l]
  <2>1. ChunkFits(uploads[i], LastIn(uploads, i - 1), logs) /\ i \in Nat \ {0}
    BY <1>2 DEF DlogIInv, LogsInOrder, ChunksFit
  <2>2. Dlog!LastLog(i - 1) = LastIn(uploads, i - 1) /\ Dlog!LastLog(i) = Dlog!Last(uploads[i].data)
    BY <2>1 DEF Dlog!LastLog, LastIn
  <2> QED BY <2>1, <2>2 DEF ChunkFits
<1>3. ASSUME ~overrun
      PROVE  Dlog!InHand \o SubSeq(plane[current].mem, 1, plane[current].used)
               = Dlog!Run(Dlog!LastLog(Len(uploads)), Len(logs))
  <2>1. /\ Registered \in Nat /\ InChunk \in Nat /\ InOldest \in Nat
        /\ HasChunk => InChunk > Registered
    BY <1>3, EndsAreNat
  <2>2. /\ HasChunk => ChunkFits(collector.chunk, Registered, logs)
        /\ halfUse => \A k \in 1..stored : plane[oldest].mem[k] = InChunk + k
        /\ \A k \in 1..plane[current].used : plane[current].mem[k] = InOldest + k
        /\ Len(logs) = InOldest + plane[current].used
    BY <1>3 DEF DlogIInv, LogsInOrder
  <2>3. PICK r \in Nat, c \in Nat, o \in Nat : r = Registered /\ c = InChunk /\ o = InOldest
    BY <2>1
  <2>4. PICK x : x = IF collector.at = "register" THEN collector.chunk.data ELSE <<>>
    OBVIOUS
  <2>5. x \in Seq(Nat) /\ Len(x) = c - r /\ \A k \in 1..Len(x) : x[k] = r + k
    <3>1. CASE HasChunk
      <4>1. x = collector.chunk.data /\ c = Dlog!Last(collector.chunk.data)
        BY <2>3, <2>4, <3>1 DEF HasChunk, InChunk
      <4>2. ChunkFits(collector.chunk, r, logs) /\ logs \in Seq(BOOLEAN)
        BY <2>2, <2>3, <3>1, DlogFacts
      <4> QED BY <4>1, <4>2, ChunkLast DEF ChunkFits, Chunks
    <3>2. CASE ~HasChunk
      <4>1. x = <<>> /\ c = r
        BY <2>3, <2>4, <3>2 DEF HasChunk, InChunk, Dlog!Bulk
      <4> QED BY <4>1
    <3> QED BY <3>1, <3>2
  <2>6. PICK y : y = IF halfUse THEN SubSeq(plane[oldest].mem, 1, stored) ELSE <<>>
    OBVIOUS
  <2>7. y \in Seq(Nat) /\ Len(y) = o - c /\ \A k \in 1..Len(y) : y[k] = c + k
    <3>1. CASE halfUse
      <4>1. /\ plane[oldest].mem \in Seq(Nat) /\ stored \in Nat /\ stored <= Len(plane[oldest].mem)
        BY <1>3, <3>1, DlogFacts DEF DlogIInv, DlogTyped, ToldRight
      <4>2. y = SubSeq(plane[oldest].mem, 1, stored) /\ o = c + stored
        BY <2>3, <2>6, <3>1 DEF InOldest
      <4>3. y \in Seq(Nat) /\ Len(y) = stored /\ \A k \in 1..stored : y[k] = plane[oldest].mem[k]
        BY <4>1, <4>2
      <4>4. \A k \in 1..stored : plane[oldest].mem[k] = c + k
        BY <2>2, <2>3, <3>1
      <4> QED BY <4>1, <4>2, <4>3, <4>4
    <3>2. CASE ~halfUse
      <4>1. y = <<>> /\ o = c
        BY <2>3, <2>6, <3>2 DEF InOldest
      <4> QED BY <4>1
    <3> QED BY <3>1, <3>2
  <2>8. PICK z : z = SubSeq(plane[current].mem, 1, plane[current].used)
    OBVIOUS
  <2>9. PICK n \in Nat : n = Len(logs)
    BY DlogFacts
  <2>10. z \in Seq(Nat) /\ Len(z) = n - o /\ \A k \in 1..Len(z) : z[k] = o + k
    <3>1. /\ plane[current].mem \in Seq(Nat) /\ plane[current].used \in Nat
          /\ plane[current].used <= Len(plane[current].mem)
      BY DlogFacts DEF DlogIInv, DlogTyped
    <3>2. /\ z \in Seq(Nat) /\ Len(z) = plane[current].used
          /\ \A k \in 1..plane[current].used : z[k] = plane[current].mem[k]
      <4>1. PICK mem \in Seq(Nat), e \in Nat : mem = plane[current].mem /\ e = plane[current].used
        BY <3>1
      <4>2. e <= Len(mem) /\ z = SubSeq(mem, 1, e)
        BY <2>8, <3>1, <4>1
      <4>3. z \in Seq(Nat) /\ Len(z) = e /\ \A k \in 1..e : z[k] = mem[k]
        BY <4>2
      <4> QED BY <4>1, <4>3
    <3> QED BY <2>2, <2>3, <2>9, <3>1, <3>2
  <2>11. x \o y \in Seq(Nat) /\ Len(x \o y) = o - r /\ \A k \in 1..Len(x \o y) : (x \o y)[k] = r + k
    <3>1. x \o y \in Seq(Nat) /\ Len(x \o y) = Len(x) + Len(y)
      BY <2>5, <2>7
    <3>2. ASSUME NEW k \in 1..Len(x \o y) PROVE (x \o y)[k] = r + k
      <4>1. CASE k <= Len(x)
        BY <2>5, <2>7, <3>1, <4>1
      <4>2. CASE k > Len(x)
        <5>1. (x \o y)[k] = y[k - Len(x)] /\ k - Len(x) \in 1..Len(y)
          BY <2>5, <2>7, <3>1, <4>2, SMTT(30)
        <5> QED BY <2>5, <2>7, <5>1
      <4> QED BY <2>5, <3>1, <4>1, <4>2
    <3>3. Len(x) + Len(y) = o - r
      BY <2>5, <2>7
    <3> QED BY <3>1, <3>2, <3>3
  <2>12. PICK u \in Seq(Nat) : u = x \o y
    BY <2>11
  <2>13. /\ u \o z \in Seq(Nat) /\ Len(u \o z) = n - r
         /\ \A k \in 1..Len(u \o z) : (u \o z)[k] = r + k
    <3>1. u \o z \in Seq(Nat) /\ Len(u \o z) = Len(u) + Len(z) /\ Len(u) = o - r
          /\ \A k \in 1..Len(u) : u[k] = r + k
      <4>1. z \in Seq(Nat) /\ u \in Seq(Nat)
        BY <2>10
      <4>2. u \o z \in Seq(Nat) /\ Len(u \o z) = Len(u) + Len(z)
        BY <4>1
      <4>3. Len(u) = o - r /\ \A k \in 1..Len(u) : u[k] = r + k
        BY <2>11, <2>12
      <4> QED BY <4>2, <4>3
    <3>2. ASSUME NEW k \in 1..Len(u \o z) PROVE (u \o z)[k] = r + k
      <4>1. CASE k <= Len(u)
        BY <2>10, <3>1, <4>1
      <4>2. CASE k > Len(u)
        <5>1. (u \o z)[k] = z[k - Len(u)] /\ k - Len(u) \in 1..Len(z)
          BY <2>10, <3>1, <4>2, SMTT(30)
        <5> QED BY <2>10, <3>1, <5>1
      <4> QED BY <3>1, <4>1, <4>2
    <3> QED BY <2>10, <3>1, <3>2
  <2>14. u \o z = [k \in 1..(n - r) |-> r + k]
    <3>1. PICK t \in Seq(Nat) : t = u \o z
      BY <2>13
    <3>2. t = [k \in 1..Len(t) |-> t[k]]
      OBVIOUS
    <3> QED BY <2>13, <3>1, <3>2
  <2>15. Dlog!LastLog(Len(uploads)) = r
    BY <2>3 DEF Dlog!LastLog, Registered, LastIn
  <2> QED BY <2>4, <2>6, <2>8, <2>9, <2>12, <2>14, <2>15 DEF Dlog!InHand, Dlog!Run
<1> QED BY <1>1, <1>2, <1>3 DEF DlogIsSound, Dlog!DlogIsSound, Dlog!EveryLogOnce

\* Until a plane is taken back or a copy is dropped, every debug log is, once
\* and in order, in a chunk that is registered, in the hand of the collector, or
\* in the current plane, and the flags of the planes agree
\* (log_manager_internal.c, bytebuffer.c), for any writers, planes and logs.
THEOREM SpecDlogIsSound == Spec => []DlogIsSound
<1>1. Init => DlogIInv
  BY DlogInitOK DEF Init
<1>2. DlogIInv /\ [Next]_vars => DlogIInv'
  <2>1. ASSUME DlogIInv, UNCHANGED dlogVars PROVE DlogIInv'
    <3>1. UNCHANGED <<plane, current, oldest, stored, halfUse, critical, dqueue, writer,
                      collector, uploads, logs, overrun>>
      BY <2>1 DEF dlogVars
    <3>2. MarksFit' /\ Dlog!PlanesAgree' /\ LogsInOrder'
      BY <2>1, <3>1, SamePlanes
    <3>3. Dlog!PlaneMsg' = Dlog!PlaneMsg
      BY <3>1 DEF Dlog!PlaneMsg
    <3>4. DlogTyped' /\ ToldOnce' /\ ToldRight'
      BY <2>1, <3>1, <3>3 DEF DlogIInv, DlogTyped, ToldOnce, ToldRight, NobodyTells, OneTells,
         WriterTells, PlaneQueued, CollectorHas
    <3> QED BY <3>2, <3>4 DEF DlogIInv
  <2> QED BY <2>1, DlogStep DEF Next, vars
<1>3. DlogIInv => DlogIsSound
  BY DlogInvSound
<1> QED BY <1>1, <1>2, <1>3, PTL DEF Spec

-----------------------------------------------------------------------------
(* The timers: what a ring holds is announced by a unit of the semaphore,  *)
(* because a thread takes all there is for the one unit it takes.  Only a  *)
(* kill event could leave others behind; it is the last one.               *)
UserEvents == {"create", "kill"}
TimerTyped ==
  /\ signals \in Nat /\ sem \in Nat /\ users \in Seq(UserEvents)
  /\ pc = [n \in Timer!ThreadIds |-> pc[n]]
PlaceHasThread ==
  /\ api # "none" => using
  /\ using /\ api # "create" => current_thread \in Timer!ThreadIds
NoKill == \A i \in DOMAIN users : users[i] # "kill"
KillIsLast == \A i \in DOMAIN users : users[i] = "kill" => i = Len(users) /\ api = "join"
EndedWasKilled ==
  \A n \in Timer!ThreadIds :
     pc[n] = "ended" /\ n = current_thread /\ using /\ api # "create" => api = "join" /\ NoKill
TimerIInv ==
  /\ TimerTyped /\ PlaceHasThread /\ KillIsLast /\ EndedWasKilled
  /\ Timer!EventsAreAnnounced

LEMMA TimerInitOK == Timer!Init => TimerIInv
<1>1. SUFFICES ASSUME Timer!Init PROVE TimerIInv
  OBVIOUS
<1>2. /\ signals = 0 /\ sem = 0 /\ users = <<>> /\ api = "none" /\ using = FALSE
      /\ pc = [n \in Timer!ThreadIds |-> "unborn"]
  BY <1>1 DEF Timer!Init
<1>3. TimerTyped
  <2>1. <<>> \in Seq(UserEvents)
    OBVIOUS
  <2>2. pc = [n \in Timer!ThreadIds |-> pc[n]]
    BY <1>2
  <2>3. QED
    BY <1>2, <2>1, <2>2 DEF TimerTyped
<1>4. QED
  BY <1>2, <1>3 DEF TimerIInv, PlaceHasThread, KillIsLast, EndedWasKilled, Timer!EventsAreAnnounced

\* The rings, the semaphore and the threads are left alone.
LEMMA TimerCallKeeps ==
  ASSUME TimerIInv, UNCHANGED <<signals, users, sem, current_thread, pc>>,
         api # "join" \/ api' = api,
         PlaceHasThread', using' /\ api' # "create" => using /\ api # "create"
  PROVE  TimerIInv'
<1>1. /\ signals' = signals /\ users' = users /\ sem' = sem
      /\ current_thread' = current_thread /\ pc' = pc
  OBVIOUS
<1>2. TimerTyped'
  BY <1>1 DEF TimerIInv, TimerTyped, Timer!ThreadIds
<1>3. NoKill' = NoKill
  BY <1>1 DEF NoKill
<1>4. KillIsLast'
  BY <1>1 DEF TimerIInv, KillIsLast
<1>5. EndedWasKilled'
  BY <1>1, <1>3 DEF TimerIInv, EndedWasKilled, Timer!ThreadIds
<1>6. Timer!EventsAreAnnounced'
  BY <1>1 DEF TimerIInv, Timer!EventsAreAnnounced, Timer!Crashed, Timer!LooksAtSignals,
     Timer!LooksAtUsers, Timer!ThreadIds
<1>7. QED
  BY <1>2, <1>4, <1>5, <1>6 DEF TimerIInv

\* A thread moves from one place of its pass to another.
LEMMA TimerThreadKeeps ==
  ASSUME TimerIInv, UNCHANGED <<users, using, current_thread, api>>,
         NEW n \in Timer!ThreadIds, NEW there, pc' = [pc EXCEPT ![n] = there],
         there # "ended", signals' \in Nat, sem' \in Nat,
         Timer!EventsAreAnnounced'
  PROVE  TimerIInv'
<1>1. /\ users' = users /\ using' = using /\ current_thread' = current_thread /\ api' = api
  OBVIOUS
<1>2. \A m \in Timer!ThreadIds : pc'[m] = IF m = n THEN there ELSE pc[m]
  BY DEF TimerIInv, TimerTyped
<1>3. TimerTyped'
  <2>1. pc' = [m \in Timer!ThreadIds |-> pc'[m]]
    BY DEF TimerIInv, TimerTyped
  <2>2. QED
    BY <1>1, <2>1 DEF TimerIInv, TimerTyped, Timer!ThreadIds
<1>4. PlaceHasThread' /\ KillIsLast' /\ NoKill' = NoKill
  BY <1>1 DEF TimerIInv, PlaceHasThread, KillIsLast, NoKill, Timer!ThreadIds
<1>5. EndedWasKilled'
  BY <1>1, <1>2, <1>4 DEF TimerIInv, EndedWasKilled, Timer!ThreadIds
<1>6. QED
  BY <1>3, <1>4, <1>5 DEF TimerIInv

\* What a pass still looks at.
TakesSignals == {"signals", "exec", "untaken", "calling"}
TakesUsers == TakesSignals \cup {"users", "create"}

LEMMA AnnouncedIs ==
  Timer!EventsAreAnnounced <=>
    /\ signals > 0 => \/ sem > 0 \/ \E n \in Timer!ThreadIds : pc[n] = "crashed"
                      \/ \E n \in Timer!ThreadIds : pc[n] \in TakesSignals
    /\ users # <<>> => \/ sem > 0 \/ \E n \in Timer!ThreadIds : pc[n] = "crashed"
                       \/ \E n \in Timer!ThreadIds : pc[n] \in TakesUsers
  BY DEF Timer!EventsAreAnnounced, Timer!Crashed, Timer!LooksAtSignals, Timer!LooksAtUsers,
     TakesSignals, TakesUsers

LEMMA TimerThreadStepKeeps ==
  ASSUME TimerIInv, NEW n \in Timer!ThreadIds, Timer!ThreadStep(n)
  PROVE  TimerIInv'
<1>. DEFINE Moves(here, there) == pc[n] = here /\ pc' = [pc EXCEPT ![n] = there]
            Rest == UNCHANGED <<users, using, current_thread, api>>
            Goes(there) == \A m \in Timer!ThreadIds : pc'[m] = IF m = n THEN there ELSE pc[m]
<1>1. ASSUME NEW here, NEW there, Moves(here, there) PROVE Goes(there)
  BY <1>1 DEF TimerIInv, TimerTyped
<1>2. signals \in Nat /\ sem \in Nat /\ users \in Seq(UserEvents)
  BY DEF TimerIInv, TimerTyped
<1>3. CASE Timer!Wake(n)
  <2>1. /\ Moves("wait", "signals") /\ Rest /\ signals' = signals
        /\ sem > 0 /\ sem' = sem - 1
    BY <1>3 DEF Timer!Wake, Timer!At, Timer!Only, Timer!objVars
  <2>2. pc'[n] = "signals"
    BY <1>1, <2>1
  <2>3. Timer!EventsAreAnnounced'
    BY <2>2, AnnouncedIs DEF Timer!EventsAreAnnounced, Timer!LooksAtSignals, Timer!LooksAtUsers, Timer!ThreadIds
  <2>4. sem' \in Nat
    BY <1>2, <2>1
  <2>5. QED
    BY <1>2, <2>1, <2>3, <2>4, TimerThreadKeeps
<1>4. ASSUME NEW here \in TakesSignals, NEW there \in TakesSignals \cup {"crashed"},
             Moves(here, there), Rest, sem' = sem, signals' \in Nat
      PROVE  TimerIInv'
  <2>1. pc'[n] \in TakesSignals \cup {"crashed"}
    BY <1>1, <1>4
  <2>2. Timer!EventsAreAnnounced'
    BY <2>1 DEF TakesSignals, Timer!EventsAreAnnounced, Timer!Crashed, Timer!LooksAtSignals,
       Timer!LooksAtUsers, Timer!ThreadIds
  <2>3. there # "ended"
    BY DEF TakesSignals
  <2>4. QED
    BY <1>2, <1>4, <2>2, <2>3, TimerThreadKeeps
<1>5. /\ "signals" \in TakesSignals /\ "exec" \in TakesSignals
      /\ "untaken" \in TakesSignals /\ "calling" \in TakesSignals
  BY DEF TakesSignals
<1>6. CASE Timer!TakeSignal(n)
  <2>1. /\ \E there \in {"exec", "signals"} : Moves("signals", there)
        /\ Rest /\ sem' = sem /\ signals > 0 /\ signals' = signals - 1
    BY <1>6 DEF Timer!TakeSignal, Timer!At, Timer!Only, Timer!objVars
  <2>2. signals' \in Nat
    BY <1>2, <2>1
  <2>3. QED
    BY <1>4, <1>5, <2>1, <2>2
<1>7. CASE Timer!NoSignal(n)
  <2>1. Moves("signals", "users") /\ Rest /\ sem' = sem /\ signals = 0 /\ signals' = signals
    BY <1>7 DEF Timer!NoSignal, Timer!At, Timer!Only, Timer!objVars, Timer!eventVars
  <2>2. pc'[n] = "users"
    BY <1>1, <2>1
  <2>3. Timer!EventsAreAnnounced'
    BY <2>1, <2>2 DEF Timer!EventsAreAnnounced, Timer!LooksAtUsers, Timer!ThreadIds
  <2>4. QED
    BY <1>2, <2>1, <2>3, TimerThreadKeeps
<1>8. CASE \/ Timer!ExecStopped(n) \/ Timer!Exec(n) \/ Timer!ExecBusy(n) \/ Timer!ExecUntaken(n)
           \/ Timer!CallbackReturns(n)
  <2>1. Rest /\ sem' = sem /\ signals' = signals
    BY <1>8 DEF Timer!ExecStopped, Timer!Exec, Timer!ExecBusy, Timer!ExecUntaken, Timer!Call,
       Timer!CallbackReturns, Timer!Only, Timer!objVars, Timer!eventVars
  <2>2. \E here \in TakesSignals : \E there \in TakesSignals \cup {"crashed"} : Moves(here, there)
    BY <1>5, <1>8 DEF Timer!ExecStopped, Timer!Exec, Timer!ExecBusy, Timer!ExecUntaken, Timer!Call,
       Timer!CallbackReturns, Timer!At
  <2>3. QED
    BY <1>2, <1>4, <2>1, <2>2
<1>9. CASE Timer!NoUser(n)
  <2>1. /\ Moves("users", "wait") /\ Rest /\ sem' = sem /\ signals' = signals
        /\ users = <<>> /\ users' = users
    BY <1>9 DEF Timer!NoUser, Timer!At, Timer!Only, Timer!objVars, Timer!eventVars
  <2>2. Goes("wait")
    BY <1>1, <2>1
  <2>3. \A m \in Timer!ThreadIds : pc[m] \in TakesSignals \cup {"crashed"} => pc'[m] = pc[m]
    BY <2>1, <2>2 DEF TakesSignals
  <2>4. Timer!EventsAreAnnounced'
    BY <2>1, <2>3 DEF TimerIInv, TakesSignals, Timer!EventsAreAnnounced, Timer!Crashed,
       Timer!LooksAtSignals, Timer!LooksAtUsers, Timer!ThreadIds
  <2>5. QED
    BY <1>2, <2>1, <2>4, TimerThreadKeeps
<1>10. CASE Timer!CreateTimer(n)
  <2>1. /\ Moves("create", "users") /\ Rest /\ sem' = sem /\ signals' = signals /\ users' = users
    BY <1>10 DEF Timer!CreateTimer, Timer!At, Timer!eventVars
  <2>2. Goes("users")
    BY <1>1, <2>1
  <2>3. \A m \in Timer!ThreadIds : pc[m] \in TakesSignals \cup {"crashed"} => pc'[m] = pc[m]
    BY <2>1, <2>2 DEF TakesSignals
  <2>4. Timer!EventsAreAnnounced'
    BY <2>1, <2>2, <2>3 DEF TimerIInv, TakesSignals, Timer!EventsAreAnnounced, Timer!Crashed,
       Timer!LooksAtSignals, Timer!LooksAtUsers, Timer!ThreadIds
  <2>5. QED
    BY <1>2, <2>1, <2>4, TimerThreadKeeps
<1>11. CASE Timer!TakeUser(n)
  <2>1. /\ users # <<>> /\ users' = Tail(users) /\ sem' = sem /\ signals' = signals
        /\ using' = using /\ current_thread' = current_thread /\ api' = api
        /\ Moves("users", IF Head(users) = "create" THEN "create" ELSE "ended")
    BY <1>11 DEF Timer!TakeUser, Timer!At, Timer!Only, Timer!objVars
  <2>2. /\ users' \in Seq(UserEvents) /\ Len(users) \in Nat \ {0} /\ Len(users') = Len(users) - 1
        /\ Head(users) = users[1] /\ Head(users) \in UserEvents
        /\ \A i \in DOMAIN users' : i + 1 \in DOMAIN users /\ users'[i] = users[i + 1]
    BY <1>2, <2>1
  <2>3. pc' = [m \in Timer!ThreadIds |-> pc'[m]]
    BY <2>1 DEF TimerIInv, TimerTyped
  <2>4. TimerTyped'
    BY <1>2, <2>1, <2>2, <2>3 DEF TimerTyped, Timer!ThreadIds
  <2>5. PlaceHasThread'
    BY <2>1 DEF TimerIInv, PlaceHasThread, Timer!ThreadIds
  <2>6. KillIsLast'
    <3>1. SUFFICES ASSUME NEW i \in DOMAIN users', users'[i] = "kill"
                   PROVE  i = Len(users') /\ api' = "join"
      BY DEF KillIsLast
    <3>2. i + 1 = Len(users) /\ api = "join"
      BY <2>2, <3>1 DEF TimerIInv, KillIsLast
    <3>3. i \in Nat
      BY <2>2, <3>1
    <3>4. QED
      BY <2>1, <2>2, <3>2, <3>3
  <2>7. \A m \in Timer!ThreadIds : pc[m] \in TakesSignals \cup {"crashed"} => pc'[m] = pc[m]
    BY <2>1 DEF TimerIInv, TimerTyped, TakesSignals
  <2>8. CASE Head(users) = "create"
    <3>1. Goes("create")
      BY <1>1, <2>1, <2>8
    <3>2. NoKill => NoKill'
      BY <2>2 DEF NoKill
    <3>3. EndedWasKilled'
      BY <2>1, <3>1, <3>2 DEF TimerIInv, EndedWasKilled, Timer!ThreadIds
    <3>4. Timer!EventsAreAnnounced'
      BY <2>1, <2>7, <3>1 DEF TimerIInv, TakesSignals, Timer!EventsAreAnnounced, Timer!Crashed,
         Timer!LooksAtSignals, Timer!LooksAtUsers, Timer!ThreadIds
    <3>5. QED
      BY <2>4, <2>5, <2>6, <3>3, <3>4 DEF TimerIInv
  <2>9. CASE Head(users) # "create"
    <3>1. users[1] = "kill" /\ 1 \in DOMAIN users
      BY <1>2, <2>2, <2>9 DEF UserEvents
    <3>2. Len(users) = 1 /\ api = "join"
      BY <3>1 DEF TimerIInv, KillIsLast
    <3>3. users' = <<>>
      BY <2>2, <3>2
    <3>4. NoKill'
      BY <3>3 DEF NoKill
    <3>5. EndedWasKilled'
      BY <2>1, <3>2, <3>4 DEF EndedWasKilled
    <3>6. Timer!EventsAreAnnounced'
      BY <2>1, <2>7, <3>3 DEF TimerIInv, TakesSignals, Timer!EventsAreAnnounced, Timer!Crashed,
         Timer!LooksAtSignals, Timer!LooksAtUsers, Timer!ThreadIds
    <3>7. QED
      BY <2>4, <2>5, <2>6, <3>5, <3>6 DEF TimerIInv
  <2>10. QED
    BY <2>8, <2>9
<1>12. QED
  BY <1>3, <1>6, <1>7, <1>8, <1>9, <1>10, <1>11 DEF Timer!ThreadStep

LEMMA TimerNextKeeps ==
  ASSUME TimerIInv, Timer!Next
  PROVE  TimerIInv'
<1>. DEFINE Same == UNCHANGED <<signals, users, sem, current_thread, pc>>
<1>1. /\ signals \in Nat /\ sem \in Nat /\ users \in Seq(UserEvents)
      /\ pc = [n \in Timer!ThreadIds |-> pc[n]]
      /\ (api # "none" => using)
      /\ (using /\ api # "create" => current_thread \in Timer!ThreadIds)
  BY DEF TimerIInv, TimerTyped, PlaceHasThread
<1>2. CASE Timer!Create
  <2>1. Same /\ api = "none" /\ using' = TRUE /\ api' = "create"
    BY <1>2 DEF Timer!Create, Timer!eventVars
  <2>2. PlaceHasThread'
    BY <2>1 DEF PlaceHasThread
  <2>3. QED
    BY <2>1, <2>2, TimerCallKeeps
<1>3. CASE Timer!CreateFails \/ Timer!CreatedNothing
  <2>1. Same /\ api # "join" /\ using' = FALSE /\ api' = "none"
    BY <1>3 DEF Timer!CreateFails, Timer!CreatedNothing, Timer!Free, Timer!eventVars
  <2>2. PlaceHasThread'
    BY <2>1 DEF PlaceHasThread
  <2>3. QED
    BY <2>1, <2>2, TimerCallKeeps
<1>4. CASE Timer!Created
  <2>1. Same /\ api = "waiting" /\ api' = "none" /\ using' = using
    BY <1>4 DEF Timer!Created, Timer!eventVars
  <2>2. PlaceHasThread'
    BY <1>1, <2>1 DEF PlaceHasThread, Timer!ThreadIds
  <2>3. QED
    BY <2>1, <2>2, TimerCallKeeps
<1>5. ASSUME NEW stage \in {"start oneshot", "start repeat", "stop", "delete"}, Timer!Lock(stage)
      PROVE  TimerIInv'
  <2>1. Same /\ api = "none" /\ using /\ using' = using /\ api' = stage
    BY <1>5 DEF Timer!Lock, Timer!objVars, Timer!eventVars
  <2>2. PlaceHasThread'
    BY <1>1, <2>1 DEF PlaceHasThread, Timer!ThreadIds
  <2>3. QED
    BY <1>5, <2>1, <2>2, TimerCallKeeps
<1>6. ASSUME NEW stage \in {"start oneshot", "start repeat", "stop", "delete"}, NEW next \in {"none", "kill"},
             Timer!Unlock(stage, next)
      PROVE  TimerIInv'
  <2>1. Same /\ api = stage /\ using' = using /\ api' = next
    BY <1>6 DEF Timer!Unlock, Timer!eventVars
  <2>2. api # "none" /\ api # "create" /\ api # "join" /\ api' # "create"
    BY <1>6, <2>1
  <2>3. PlaceHasThread'
    BY <1>1, <2>1, <2>2 DEF PlaceHasThread, Timer!ThreadIds
  <2>4. QED
    BY <2>1, <2>2, <2>3, TimerCallKeeps
<1>7. CASE Timer!StartOrStopFails \/ (\E k \in Timer!Kinds : Timer!Start(k)) \/ Timer!Stop
  <2>1. \E stage \in {"start oneshot", "start repeat", "stop", "delete"} : Timer!Unlock(stage, "none")
    <3>1. \A k \in Timer!Kinds : Timer!StartOf[k] \in {"start oneshot", "start repeat"}
      BY DEF Timer!Kinds, Timer!StartOf
    <3>2. QED
      BY <1>7, <3>1 DEF Timer!StartOrStopFails, Timer!Start, Timer!Stop
  <2>2. QED
    BY <1>6, <2>1
<1>8. CASE Timer!DeleteFails \/ Timer!DeleteTimer
  <2>1. Timer!Unlock("delete", "none") \/ Timer!Unlock("delete", "kill")
    BY <1>8 DEF Timer!DeleteFails, Timer!DeleteTimer
  <2>2. QED
    BY <1>6, <2>1
<1>9. CASE Timer!Expire
  <2>1. Same /\ api' = api /\ using' = using
    BY <1>9 DEF Timer!Expire, Timer!eventVars
  <2>2. PlaceHasThread'
    BY <1>1, <2>1 DEF PlaceHasThread, Timer!ThreadIds
  <2>3. QED
    BY <2>1, <2>2, TimerCallKeeps
<1>10. ASSUME NEW n \in Timer!ThreadIds, Timer!CreateThread(n) PROVE TimerIInv'
  <2>1. /\ signals' = signals /\ users' = users /\ sem' = sem /\ using' = using
        /\ pc[n] = "unborn" /\ pc' = [pc EXCEPT ![n] = "wait"] /\ current_thread' = n
        /\ api = "create" /\ api' = "post"
    BY <1>10 DEF Timer!CreateThread, Timer!eventVars
  <2>2. \A m \in Timer!ThreadIds : pc'[m] = IF m = n THEN "wait" ELSE pc[m]
    BY <1>1, <2>1
  <2>3. TimerTyped'
    <3>1. pc' = [m \in Timer!ThreadIds |-> pc'[m]]
      BY <1>1, <2>1
    <3>2. QED
      BY <1>1, <2>1, <3>1 DEF TimerTyped, Timer!ThreadIds
  <2>4. using
    BY <1>1, <2>1
  <2>5. PlaceHasThread' /\ KillIsLast' /\ EndedWasKilled'
    BY <2>1, <2>2, <2>4 DEF TimerIInv, PlaceHasThread, KillIsLast, EndedWasKilled, Timer!ThreadIds
  <2>6. Timer!EventsAreAnnounced'
    BY <2>1, <2>2 DEF TimerIInv, Timer!EventsAreAnnounced, Timer!Crashed, Timer!LooksAtSignals,
       Timer!LooksAtUsers, Timer!ThreadIds
  <2>7. QED
    BY <2>3, <2>5, <2>6 DEF TimerIInv
<1>11. ASSUME NEW e \in UserEvents, users' = Append(users, e), sem' = sem + 1,
              UNCHANGED <<signals, current_thread, pc, using>>,
              api \notin {"none", "create", "join"}, api' \notin {"none", "create"},
              e = "kill" => api' = "join"
       PROVE  TimerIInv'
  <2>1. /\ signals' = signals /\ current_thread' = current_thread /\ pc' = pc /\ using' = using
    BY <1>11
  <2>2. /\ users' \in Seq(UserEvents) /\ Len(users) \in Nat /\ Len(users') = Len(users) + 1
        /\ DOMAIN users' = DOMAIN users \cup {Len(users')} /\ users'[Len(users')] = e
        /\ \A i \in DOMAIN users : users'[i] = users[i]
    <3>. HIDE DEF UserEvents
    <3>1. QED
      BY <1>1, <1>11
  <2>3. TimerTyped'
    BY <1>1, <1>11, <2>1, <2>2 DEF TimerTyped, Timer!ThreadIds
  <2>4. PlaceHasThread'
    BY <1>1, <1>11, <2>1 DEF PlaceHasThread, Timer!ThreadIds
  <2>5. NoKill
    BY <1>11 DEF TimerIInv, KillIsLast, NoKill
  <2>6. KillIsLast'
    BY <1>11, <2>2, <2>5 DEF KillIsLast, NoKill
  <2>7. \A n \in Timer!ThreadIds : ~(pc[n] = "ended" /\ n = current_thread)
    BY <1>1, <1>11 DEF TimerIInv, EndedWasKilled
  <2>8. EndedWasKilled'
    BY <2>1, <2>7 DEF EndedWasKilled, Timer!ThreadIds
  <2>9. Timer!EventsAreAnnounced'
    <3>1. sem' > 0
      BY <1>1, <1>11
    <3>2. QED
      BY <3>1 DEF Timer!EventsAreAnnounced
  <2>10. QED
    BY <2>3, <2>4, <2>6, <2>8, <2>9 DEF TimerIInv
<1>12. CASE Timer!PostCreate
  <2>1. /\ UNCHANGED <<signals, current_thread, pc, using>> /\ api = "post" /\ api' = "waiting"
        /\ \/ UNCHANGED <<users, sem>>
           \/ users' = Append(users, "create") /\ sem' = sem + 1
    BY <1>12 DEF Timer!PostCreate, Timer!objVars, Timer!eventVars
  <2>2. CASE UNCHANGED <<users, sem>>
    <3>1. PlaceHasThread'
      BY <1>1, <2>1 DEF PlaceHasThread, Timer!ThreadIds
    <3>2. QED
      BY <2>1, <2>2, <3>1, TimerCallKeeps
  <2>3. CASE users' = Append(users, "create") /\ sem' = sem + 1
    <3>1. "create" \in UserEvents
      BY DEF UserEvents
    <3>2. QED
      BY <1>11, <2>1, <2>3, <3>1
  <2>4. QED
    BY <2>1, <2>2, <2>3
<1>13. CASE Timer!Kill
  <2>1. /\ UNCHANGED <<signals, current_thread, pc, using>> /\ api = "kill" /\ api' = "join"
        /\ users' = Append(users, "kill") /\ sem' = sem + 1
    BY <1>13 DEF Timer!Kill, Timer!objVars
  <2>2. "kill" \in UserEvents
    BY DEF UserEvents
  <2>3. QED
    BY <1>11, <2>1, <2>2
<1>14. CASE Timer!Join
  <2>1. /\ signals' = signals /\ users' = users /\ sem' = sem /\ pc' = pc
        /\ api = "join" /\ pc[current_thread] = "ended" /\ using' = FALSE /\ api' = "none"
    BY <1>14 DEF Timer!Join, Timer!Free, Timer!eventVars
  <2>2. NoKill
    BY <1>1, <2>1 DEF TimerIInv, EndedWasKilled
  <2>3. TimerTyped' /\ PlaceHasThread'
    BY <1>1, <2>1 DEF TimerTyped, PlaceHasThread, Timer!ThreadIds
  <2>4. KillIsLast' /\ EndedWasKilled'
    BY <2>1, <2>2 DEF KillIsLast, EndedWasKilled, NoKill
  <2>5. Timer!EventsAreAnnounced'
    BY <2>1 DEF TimerIInv, Timer!EventsAreAnnounced, Timer!Crashed, Timer!LooksAtSignals,
       Timer!LooksAtUsers, Timer!ThreadIds
  <2>6. QED
    BY <2>3, <2>4, <2>5 DEF TimerIInv
<1>15. CASE Timer!Handle
  <2>1. /\ UNCHANGED <<users, current_thread, pc, using, api>>
        /\ \/ UNCHANGED <<signals, sem>>
           \/ signals' = signals + 1 /\ sem' = sem + 1
    BY <1>15 DEF Timer!Handle, Timer!objVars, Timer!eventVars
  <2>2. PlaceHasThread' /\ KillIsLast' /\ NoKill' = NoKill
    BY <2>1 DEF TimerIInv, PlaceHasThread, KillIsLast, NoKill, Timer!ThreadIds
  <2>3. EndedWasKilled'
    BY <2>1, <2>2 DEF TimerIInv, EndedWasKilled, Timer!ThreadIds
  <2>4. TimerTyped'
    BY <1>1, <2>1 DEF TimerTyped, Timer!ThreadIds
  <2>5. Timer!EventsAreAnnounced'
    <3>1. CASE UNCHANGED <<signals, sem>>
      BY <2>1, <3>1 DEF TimerIInv, Timer!EventsAreAnnounced, Timer!Crashed, Timer!LooksAtSignals,
         Timer!LooksAtUsers, Timer!ThreadIds
    <3>2. CASE sem' = sem + 1
      <4>1. sem' > 0
        BY <1>1, <3>2
      <4>2. QED
        BY <4>1 DEF Timer!EventsAreAnnounced
    <3>3. QED
      BY <2>1, <3>1, <3>2
  <2>6. QED
    BY <2>2, <2>3, <2>4, <2>5 DEF TimerIInv
<1>16. QED
  BY <1>2, <1>3, <1>4, <1>5, <1>7, <1>8, <1>9, <1>10, <1>12, <1>13, <1>14, <1>15,
     TimerThreadStepKeeps DEF Timer!Next

\* No event of a timer is left in a ring that nobody looks at: each is announced
\* by a unit of s_event_sem, or a thread is on its way to look, although an event
\* that is found waiting stands for others, a pass takes several for one unit, and
\* a thread that is killed ends in the middle of its pass (utility_timer.c). What
\* EventsAreTaken leaves to fairness is that the thread runs.
THEOREM SpecEventsAreAnnounced == Spec => []Timer!EventsAreAnnounced
<1>1. Init => TimerIInv
  BY TimerInitOK DEF Init
<1>2. TimerIInv /\ [Next]_vars => TimerIInv'
  <2>1. ASSUME TimerIInv, UNCHANGED timerVars PROVE TimerIInv'
    <3>1. /\ UNCHANGED <<signals, users, sem, current_thread, pc>> /\ api' = api /\ using' = using
      BY <2>1 DEF timerVars
    <3>2. PlaceHasThread'
      BY <2>1, <3>1 DEF TimerIInv, PlaceHasThread, Timer!ThreadIds
    <3>3. QED
      BY <2>1, <3>1, <3>2, TimerCallKeeps
  <2>2. QED
    BY <2>1, TimerNextKeeps DEF Next, vars
<1>3. TimerIInv => Timer!EventsAreAnnounced
  BY DEF TimerIInv
<1>4. QED
  BY <1>1, <1>2, <1>3, PTL DEF Spec

=============================================================================
