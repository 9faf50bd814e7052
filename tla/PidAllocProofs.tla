--------------------------- MODULE PidAllocProofs ---------------------------
(***************************************************************************)
(* Proofs about PidAlloc, for every depth of namespaces, every pid_max and *)
(* every number of struct pids, forking tasks and readers.  There is one   *)
(* lemma for each conjunct of Inv (PidAllocInv), with one step for each    *)
(* action that can disturb it.                                             *)
(***************************************************************************)
EXTENDS PidAllocLemmas

-----------------------------------------------------------------------------
(* The locals of alloc_pid(): ThreadInv.                                   *)

(* A call whose struct pid the step leaves alone.                          *)
LEMMA OtherCall ==
  ASSUME Inv, NEW u \in Thread, th'[u] = th[u],
         th[u].pid \in Pid /\ state[th[u].pid] \in {"new", "published"} =>
           /\ state'[th[u].pid] = state[th[u].pid]
           /\ level'[th[u].pid] = level[th[u].pid]
           /\ numbers'[th[u].pid] = numbers[th[u].pid]
  PROVE  CallInv(u)'
<1>1. CallInv(u)
  BY DEF Inv, ThreadInv
<1>2. QED
  BY <1>1 DEF CallInv, Reserving

(* No step of another task, a reader or the RCU callback touches a call of *)
(* alloc_pid().                                                            *)
LEMMA ThreadInvOthers ==
  ASSUME Inv, UNCHANGED th,
         \A p \in Pid : state[p] \in {"new", "published"} =>
           /\ state'[p] = state[p] /\ level'[p] = level[p] /\ numbers'[p] = numbers[p]
  PROVE  ThreadInv'
<1>1. \A u \in Thread : CallInv(u)'
  BY OtherCall
<1>2. QED
  BY <1>1 DEF Inv, ThreadInv

(* A step of alloc_pid() only changes its own struct pid.                  *)
LEMMA ThreadInvOwn ==
  ASSUME Inv, NEW t \in Thread, \A u \in Thread \ {t} : th'[u] = th[u],
         CallInv(t)', th'[t].pid \in {th[t].pid, NULL},
         \A p \in Pid \ {th[t].pid} :
           /\ state'[p] = state[p] /\ level'[p] = level[p] /\ numbers'[p] = numbers[p]
  PROVE  ThreadInv'
<1>1. \A u \in Thread \ {t} : th[u].pid \in Pid => th[u].pid # th[t].pid
  BY PidAssumption DEF Inv, ThreadInv
<1>2. \A u \in Thread \ {t} : CallInv(u)'
  BY <1>1, OtherCall
<1>3. \A u, w \in Thread : u # w /\ th'[u].pid # NULL => th'[w].pid # th'[u].pid
  BY DEF Inv, ThreadInv
<1>4. QED
  BY <1>2, <1>3 DEF ThreadInv

(* Every step keeps the meaning of the locals of alloc_pid().              *)
LEMMA ThreadInvStep ==
  ASSUME Inv, [Next]_vars, TypeOK'
  PROVE  ThreadInv'
<1>0. TypeOK
  BY DEF Inv
<1>1. ASSUME SamePids PROVE ThreadInv'
  BY <1>1, ThreadInvOthers DEF SamePids
<1>2. ASSUME NEW t \in Thread, NEW c \in Pid, NEW l \in Level, alloc_pid(t, c, l)
      PROVE  ThreadInv'
  <2>1. PICK p \in Pid :
           /\ state[p] = "free" /\ state'[p] = "new" /\ level'[p] = l
           /\ \A q \in Pid \ {p} : state'[q] = state[q] /\ level'[q] = level[q]
           /\ th[t].pc = "idle" /\ th'[t].pc = "reserve" /\ th'[t].current = c
           /\ th'[t].ns = l /\ th'[t].i = l /\ th'[t].pid = p
           /\ \A u \in Thread \ {t} : th'[u] = th[u]
    BY <1>2, AllocEffect
  <2>2. UNCHANGED numbers /\ numbers[p] = NoNumbers
    BY <1>2, <2>1 DEF alloc_pid, Inv, PidInv
  <2>3. \A u \in Thread : th[u].pid # p
    <3>1. TAKE u \in Thread
    <3>2. th[u].pc \in {"idle", "reserve", "prepare", "publish", "copy_process", "out_free", "failed"}
      BY <1>0, ThreadFields DEF ThreadType
    <3>3. QED
      BY <2>1, <3>2, PidAssumption DEF Inv, ThreadInv, CallInv, Reserving
  <2>4. CallInv(t)'
    <3>1. \A j \in Level : numbers'[p][j] = 0
      BY <2>2 DEF NoNumbers
    <3>2. \A j \in Level : j \notin l + 1 .. l
      BY Ranges
    <3>3. l >= 0 /\ l <= l
      BY Ranges
    <3>4. QED
      BY <2>1, <3>1, <3>2, <3>3 DEF CallInv, Reserving
  <2>5. \A u \in Thread \ {t} : CallInv(u)'
    BY <2>1, <2>2, <2>3, OtherCall
  <2>6. QED
    BY <2>1, <2>3, <2>4, <2>5 DEF ThreadInv, Inv
<1>3. ASSUME NEW t \in Thread, Reserve(t) PROVE ThreadInv'
  <2>1. PICK p \in Pid, l \in Level, n \in Nr :
           /\ p = th[t].pid /\ l = th[t].i /\ l <= th[t].ns /\ state[p] = "new"
           /\ level[p] = th[t].ns
           /\ numbers'[p][l] = n
           /\ \A j \in Level \ {l} : numbers'[p][j] = numbers[p][j]
           /\ \A q \in Pid \ {p} : numbers'[q] = numbers[q]
    BY <1>3, ReserveEffect
  <2>2. /\ SameCall(t) /\ th[t].pc = "reserve" /\ th'[t].pid = th[t].pid
        /\ th'[t].i = th[t].i - 1 /\ th[t].i >= 0
        /\ th'[t].pc = IF th[t].i > 0 THEN "reserve" ELSE "prepare"
    BY <1>3, ReserveLocals
  <2>3. UNCHANGED <<state, level>>
    BY <1>3 DEF Reserve
  <2>4. PICK k \in Level : k = th[t].ns
    BY <1>0, ThreadFields
  <2>5. \A j \in Level : numbers'[p][j] # 0 <=> j \in l - 1 + 1 .. k
    <3>1. TAKE j \in Level
    <3>2. l \in Nat /\ j \in Nat /\ k \in Nat /\ n # 0 /\ l <= k
      BY <2>1, <2>4, Ranges
    <3>3. numbers[p][j] # 0 <=> j \in l + 1 .. k
      BY <2>1, <2>2, <2>4 DEF Inv, ThreadInv, CallInv, Reserving
    <3>4. QED
      BY <2>1, <3>2, <3>3
  <2>6. CallInv(t)'
    <3>1. th'[t].ns = k /\ th'[t].pid = p /\ th'[t].i = l - 1 /\ l \in Nat /\ k \in Nat
      BY <2>1, <2>2, <2>4, Ranges DEF SameCall
    <3>2. l - 1 <= k /\ (l > 0 => l - 1 >= 0) /\ (~(l > 0) => l - 1 = -1)
      BY <2>1, <2>4, <3>1
    <3>3. QED
      BY <2>1, <2>2, <2>3, <2>4, <2>5, <3>1, <3>2 DEF CallInv, Reserving
  <2>7. QED
    BY <2>1, <2>2, <2>3, <2>6, ThreadInvOwn DEF SameCall
<1>4. ASSUME NEW t \in Thread, UNCHANGED <<state, level, numbers>>, SameCall(t),
             th'[t].pid = th[t].pid, th'[t].i = th[t].i,
             \/ th[t].pc \in Reserving /\ th'[t].pc = "out_free"
             \/ th[t].pc = "prepare" /\ th'[t].pc = "publish"
      PROVE  ThreadInv'
  <2>1. CallInv(t)'
    BY <1>4 DEF Inv, ThreadInv, CallInv, Reserving, SameCall
  <2>2. QED
    BY <1>4, <2>1, ThreadInvOwn DEF SameCall
<1>5. ASSUME NEW t \in Thread, ReserveFails(t) \/ PrepareFails(t) \/ PublishRefused(t)
      PROVE  ThreadInv'
  <2>1. UNCHANGED <<state, level, numbers>> /\ th[t].pc \in Reserving
    BY <1>5 DEF ReserveFails, PrepareFails, PublishRefused, Reserving
  <2>2. /\ SameCall(t) /\ th'[t].pid = th[t].pid /\ th'[t].i = th[t].i
        /\ th'[t].pc = "out_free"
    BY <1>0, <1>5, ReserveFailsLocals, MoveLocals DEF PrepareFails, PublishRefused
  <2>3. QED
    BY <1>4, <2>1, <2>2
<1>6. ASSUME NEW t \in Thread, Prepare(t) PROVE ThreadInv'
  <2>1. UNCHANGED <<state, level, numbers>> /\ th[t].pc = "prepare"
        /\ th' = [th EXCEPT ![t].pc = "publish"]
    BY <1>6 DEF Prepare
  <2>2. QED
    BY <1>0, <1>4, <2>1, MoveLocals
<1>7. ASSUME NEW t \in Thread, Publish(t) PROVE ThreadInv'
  <2>1. PICK p \in Pid : p = th[t].pid
    BY <1>7, PublishEffect
  <2>2. /\ level[p] = th[t].ns /\ SameCall(t) /\ th'[t].pid = p /\ th'[t].pc = "copy_process"
        /\ state' = [state EXCEPT ![p] = "published"]
    BY <1>7, <2>1, PublishEffect
  <2>3. UNCHANGED <<level, numbers>>
    BY <1>7 DEF Publish
  <2>4. state'[p] = "published" /\ \A q \in Pid \ {p} : state'[q] = state[q]
    BY <1>0, <2>2 DEF TypeOK
  <2>5. CallInv(t)'
    BY <2>2, <2>3, <2>4 DEF CallInv, Reserving, SameCall
  <2>6. QED
    BY <2>1, <2>2, <2>3, <2>4, <2>5, ThreadInvOwn DEF SameCall
<1>8. ASSUME NEW t \in Thread, OutFree(t) PROVE ThreadInv'
  <2>1. PICK p \in Pid :
           /\ p = th[t].pid /\ SameCall(t) /\ th'[t].pid = NULL /\ th'[t].pc = "failed"
           /\ \A q \in Pid \ {p} : /\ state'[q] = state[q] /\ level'[q] = level[q]
                                   /\ numbers'[q] = numbers[q]
    BY <1>8, OutFreeEffect
  <2>2. CallInv(t)'
    BY <2>1 DEF CallInv, Reserving
  <2>3. QED
    BY <2>1, <2>2, ThreadInvOwn DEF SameCall
<1>9. ASSUME NEW t \in Thread, ReturnError(t) PROVE ThreadInv'
  <2>1. /\ UNCHANGED <<state, level, numbers>> /\ th'[t].pc = "idle" /\ th'[t].pid = NULL
        /\ \A u \in Thread \ {t} : th'[u] = th[u]
    BY <1>0, <1>9, IdleLocals DEF ReturnError
  <2>2. CallInv(t)'
    BY <2>1 DEF CallInv, Reserving
  <2>3. QED
    BY <2>1, <2>2, ThreadInvOwn
<1>10. ASSUME NEW t \in Thread, AttachTask(t) PROVE ThreadInv'
  <2>1. /\ UNCHANGED <<level, numbers>> /\ th'[t].pc = "idle" /\ th'[t].pid = NULL
        /\ \A u \in Thread \ {t} : th'[u] = th[u]
        /\ state' = [state EXCEPT ![th[t].pid] = "attached"]
    BY <1>0, <1>10, IdleLocals DEF AttachTask
  <2>2. CallInv(t)'
    BY <2>1 DEF CallInv, Reserving
  <2>3. \A q \in Pid \ {th[t].pid} : state'[q] = state[q]
    BY <1>0, <2>1 DEF TypeOK
  <2>4. QED
    BY <2>1, <2>2, <2>3, ThreadInvOwn
<1>11. ASSUME (\E t \in Thread : ForkFails(t)) \/ (\E p \in Pid : Exit(p)) PROVE ThreadInv'
  <2>1. PICK p \in Live :
           /\ p \in Pid /\ \A q \in Pid \ {p} : state'[q] = state[q]
           /\ UNCHANGED <<level, numbers>>
           /\ \/ UNCHANGED th /\ Exit(p)
              \/ \E t \in Thread : /\ p = th[t].pid
                                   /\ th'[t].pc = "idle" /\ th'[t].pid = NULL
                                   /\ \A u \in Thread \ {t} : th'[u] = th[u]
    BY <1>11, FreePidEffect
  <2>2. CASE UNCHANGED th /\ Exit(p)
    <3>1. state[p] = "attached"
      BY <2>2 DEF Exit
    <3>2. QED
      BY <2>1, <2>2, <3>1, ThreadInvOthers
  <2>3. ASSUME NEW t \in Thread, p = th[t].pid, th'[t].pc = "idle", th'[t].pid = NULL,
               \A u \in Thread \ {t} : th'[u] = th[u]
        PROVE  ThreadInv'
    <3>1. CallInv(t)'
      BY <2>3 DEF CallInv, Reserving
    <3>2. QED
      BY <2>1, <2>3, <3>1, ThreadInvOwn
  <2>4. QED
    BY <2>1, <2>2, <2>3
<1>12. ASSUME (\E p \in Pid : delayed_put_pid(p)) \/ (\E t \in Reader : ReaderPut(t))
       PROVE  ThreadInv'
  BY <1>12, PutPidEffect, ThreadInvOthers
<1>13. QED
  BY <1>1, <1>2, <1>3, <1>5, <1>6, <1>7, <1>8, <1>9, <1>10, <1>11, <1>12, SamePidsSteps, Kinds
-----------------------------------------------------------------------------
(* The numbers of struct pids, the forking tasks and the init task.        *)

(* A struct pid has its numbers as long as it is live, and none when it is *)
(* free.                                                                   *)
LEMMA PidInvStep ==
  ASSUME Inv, [Next]_vars, TypeOK'
  PROVE  PidInv'
<1>0. TypeOK /\ PidInv
  BY DEF Inv
<1>1. ASSUME \A p \in Pid :
               \/ /\ state'[p] = state[p] /\ level'[p] = level[p] /\ numbers'[p] = numbers[p]
               \/ state'[p] \in {"new", "dead", "stale"}
               \/ state'[p] = "free" /\ numbers'[p] = NoNumbers
               \/ /\ p \in Live /\ p \in Live' /\ level'[p] = level[p]
                  /\ numbers'[p] = numbers[p]
      PROVE  PidInv'
  BY <1>0, <1>1 DEF PidInv, Live
<1>2. ASSUME SamePids PROVE PidInv'
  BY <1>1, <1>2 DEF SamePids
<1>3. ASSUME NEW t \in Thread, NEW c \in Pid, NEW l \in Level, alloc_pid(t, c, l)
      PROVE  PidInv'
  <2>1. UNCHANGED numbers
    BY <1>3 DEF alloc_pid
  <2>2. QED
    BY <1>1, <1>3, <2>1, AllocEffect
<1>4. ASSUME NEW t \in Thread, Reserve(t) PROVE PidInv'
  <2>1. UNCHANGED <<state, level>>
    BY <1>4 DEF Reserve
  <2>2. PICK p \in Pid : state[p] = "new" /\ \A q \in Pid \ {p} : numbers'[q] = numbers[q]
    BY <1>4, ReserveEffect
  <2>3. QED
    BY <1>1, <2>1, <2>2
<1>5. ASSUME NEW t \in Thread, ReserveFails(t) \/ PrepareFails(t) \/ PublishRefused(t)
                               \/ Prepare(t) \/ ReturnError(t)
      PROVE  PidInv'
  <2>1. UNCHANGED <<state, level, numbers>>
    BY <1>5 DEF ReserveFails, PrepareFails, PublishRefused, Prepare, ReturnError
  <2>2. QED
    BY <1>1, <2>1
<1>6. ASSUME NEW t \in Thread, Publish(t) PROVE PidInv'
  <2>1. PICK p \in Pid : p = th[t].pid
    BY <1>6, PublishEffect
  <2>2. /\ level[p] = th[t].ns /\ th[t].i = -1 /\ th[t].pc = "publish"
        /\ state' = [state EXCEPT ![p] = "published"]
        /\ UNCHANGED <<level, numbers>>
    BY <1>6, <2>1, PublishEffect DEF Publish
  <2>3. state'[p] = "published" /\ \A q \in Pid \ {p} : state'[q] = state[q]
    BY <1>0, <2>2 DEF TypeOK
  <2>4. \A l \in Level : numbers[p][l] # 0 <=> l \in th[t].i + 1 .. th[t].ns
    BY <2>1, <2>2 DEF Inv, ThreadInv, CallInv, Reserving
  <2>5. \A l \in Level : numbers[p][l] # 0 <=> l <= level[p]
    <3>1. level[p] \in Nat /\ \A l \in Level : l \in Nat
      BY <1>0, Ranges DEF TypeOK
    <3>2. QED
      BY <2>2, <2>4, <3>1
  <2>6. QED
    BY <1>0, <2>2, <2>3, <2>5 DEF PidInv, Live
<1>7. ASSUME NEW t \in Thread, OutFree(t) PROVE PidInv'
  BY <1>1, <1>7, OutFreeEffect
<1>8. ASSUME NEW t \in Thread, AttachTask(t) PROVE PidInv'
  <2>1. /\ UNCHANGED <<level, numbers>> /\ th[t].pid \in Pid
        /\ state[th[t].pid] = "published"
        /\ state' = [state EXCEPT ![th[t].pid] = "attached"]
    BY <1>8 DEF AttachTask, Inv, ThreadInv, CallInv
  <2>2. \A q \in Pid : state'[q] = state[q] \/ (q \in Live /\ q \in Live')
    BY <1>0, <2>1 DEF TypeOK, Live
  <2>3. QED
    BY <1>1, <2>1, <2>2
<1>9. ASSUME (\E t \in Thread : ForkFails(t)) \/ (\E p \in Pid : Exit(p)) PROVE PidInv'
  <2>1. PICK p \in Live : /\ \A q \in Pid \ {p} : state'[q] = state[q]
                          /\ state'[p] = "dead" /\ UNCHANGED <<level, numbers>>
    BY <1>9, FreePidEffect
  <2>2. QED
    BY <1>1, <2>1
<1>10. ASSUME (\E p \in Pid : delayed_put_pid(p)) \/ (\E t \in Reader : ReaderPut(t))
       PROVE  PidInv'
  <2>1. /\ \A q \in Pid : state[q] \notin {"dead", "stale"} =>
              state'[q] = state[q] /\ level'[q] = level[q] /\ numbers'[q] = numbers[q]
        /\ \A q \in Pid : state[q] \in {"dead", "stale"} =>
              /\ state'[q] \in {"dead", "stale", "free"}
              /\ state'[q] = "free" => numbers'[q] = NoNumbers
    BY <1>10, PutPidEffect
  <2>2. QED
    BY <1>1, <2>1
<1>11. QED
  BY <1>2, <1>3, <1>4, <1>5, <1>6, <1>7, <1>8, <1>9, <1>10, SamePidsSteps, Kinds

(* The task that forks and the namespace it forks into stay as they are.   *)
ForkAt(t) ==
  th[t].pc # "idle" =>
    /\ th[t].current \in Pid
    /\ state[th[t].current] = "attached"
    /\ th[t].current \notin init_tasks[level[th[t].current]]
    /\ nsproxy[th[t].ns]
    /\ child_reaper[th[t].ns] = NULL => level[th[t].current] = th[t].ns - 1

(* A forking task stays attached, out of any zapping thread group, and its *)
(* nsproxy keeps the namespace.                                            *)
LEMMA ForkInvStep ==
  ASSUME Inv, [Next]_vars, TypeOK'
  PROVE  ForkInv'
<1>0. TypeOK /\ \A u \in Thread : ForkAt(u)
  BY DEF Inv, ForkInv, ForkAt
<1>01. SUFFICES \A u \in Thread : ForkAt(u)'
  BY DEF ForkInv, ForkAt
<1>1. ASSUME NEW u \in Thread,
             /\ th'[u].pc # "idle" => th[u].pc # "idle"
             /\ th'[u].current = th[u].current /\ th'[u].ns = th[u].ns,
             th'[u].pc # "idle" /\ th[u].current \in Pid =>
               /\ state[th[u].current] = "attached" =>
                    /\ state'[th[u].current] = "attached"
                    /\ level'[th[u].current] = level[th[u].current]
               /\ th[u].current \notin init_tasks[level[th[u].current]] =>
                    th[u].current \notin init_tasks'[level[th[u].current]],
             nsproxy[th[u].ns] /\ th'[u].pc # "idle" => nsproxy'[th[u].ns],
             child_reaper'[th[u].ns] = NULL /\ th'[u].pc # "idle" => child_reaper[th[u].ns] = NULL
      PROVE  ForkAt(u)'
  BY <1>0, <1>1 DEF ForkAt
<1>2. ASSUME UNCHANGED <<th, state, level, init_tasks, nsproxy, child_reaper>>
      PROVE  \A u \in Thread : ForkAt(u)'
  BY <1>0, <1>2 DEF ForkAt
<1>3. ASSUME NEW l \in Level, create_pid_namespace(l) PROVE \A u \in Thread : ForkAt(u)'
  <2>1. /\ UNCHANGED <<th, state, level, init_tasks>> /\ ~Exists(l)
        /\ nsproxy' = [nsproxy EXCEPT ![l] = TRUE]
        /\ child_reaper' = [child_reaper EXCEPT ![l] = NULL]
    BY <1>3 DEF create_pid_namespace
  <2>2. ~nsproxy[l]
    <3>1. l \in 0 .. l
      BY Ranges
    <3>2. QED
      BY <2>1, <3>1, HeldExists DEF Inv
  <2>3. TAKE u \in Thread
  <2>4. th[u].pc # "idle" => nsproxy[th[u].ns] /\ th[u].ns # l /\ th[u].ns \in Level
    BY <1>0, <2>2, ThreadFields DEF ForkAt
  <2>5. th[u].pc # "idle" => /\ nsproxy'[th[u].ns] = nsproxy[th[u].ns]
                             /\ child_reaper'[th[u].ns] = child_reaper[th[u].ns]
    BY <1>0, <2>1, <2>4 DEF TypeOK
  <2>6. QED
    BY <1>1, <2>1, <2>5
<1>4. ASSUME NEW l \in Level, PutNsproxy(l) PROVE \A u \in Thread : ForkAt(u)'
  <2>1. /\ UNCHANGED <<th, state, level, init_tasks, child_reaper>> /\ Forking(l) = {}
        /\ nsproxy' = [nsproxy EXCEPT ![l] = FALSE]
    BY <1>4 DEF PutNsproxy, zapVars
  <2>2. TAKE u \in Thread
  <2>3. th[u].pc # "idle" => th[u].ns # l /\ th[u].ns \in Level
    BY <1>0, <2>1, ThreadFields DEF Forking
  <2>4. th[u].pc # "idle" => nsproxy'[th[u].ns] = nsproxy[th[u].ns]
    BY <1>0, <2>1, <2>3 DEF TypeOK
  <2>5. QED
    BY <1>1, <2>1, <2>4
<1>5. ASSUME NEW l \in Level, ZapStart(l) PROVE \A u \in Thread : ForkAt(u)'
  <2>1. /\ UNCHANGED <<th, state, level, nsproxy>> /\ l > 0
        /\ child_reaper[l] \in {p \in Pid : Runnable(p) /\ level[p] = l}
    BY <1>5 DEF ZapStart, nsVars
  <2>2. PICK me \in {p \in Pid : Runnable(p) /\ level[p] = l} :
          /\ init_tasks' = [init_tasks EXCEPT ![l] = {child_reaper[l], me}]
          /\ child_reaper' = [child_reaper EXCEPT ![l] = me]
    BY <1>5 DEF ZapStart
  <2>3. \A p \in Pid : Runnable(p) /\ level[p] = l => \A u \in Thread : th[u].current # p
    BY <2>1, Ranges DEF Runnable, Inv, BootInv
  <2>4. TAKE u \in Thread
  <2>5. th[u].current # child_reaper[l] /\ th[u].current # me /\ th[u].ns \in Level
    BY <1>0, <2>1, <2>2, <2>3, ThreadFields
  <2>6. th[u].current \in Pid => level[th[u].current] \in Level
    BY <1>0 DEF TypeOK
  <2>7. th[u].current \in Pid /\ th[u].current \notin init_tasks[level[th[u].current]] =>
          th[u].current \notin init_tasks'[level[th[u].current]]
    BY <1>0, <2>2, <2>5, <2>6 DEF TypeOK
  <2>8. child_reaper'[th[u].ns] = NULL => child_reaper[th[u].ns] = NULL
    BY <1>0, <2>2, <2>5, PidAssumption DEF TypeOK
  <2>9. QED
    BY <1>1, <2>1, <2>7, <2>8
<1>6. ASSUME NEW t \in Thread, NEW c \in Pid, NEW l \in Level, alloc_pid(t, c, l)
      PROVE  \A u \in Thread : ForkAt(u)'
  <2>1. PICK p \in Pid :
           /\ state[p] = "free"
           /\ \A q \in Pid \ {p} : state'[q] = state[q] /\ level'[q] = level[q]
           /\ th'[t].current = c /\ th'[t].ns = l
           /\ \A u \in Thread \ {t} : th'[u] = th[u]
    BY <1>6, AllocEffect
  <2>2. /\ Runnable(c) /\ nsproxy[l] /\ (child_reaper[l] = NULL => level[c] = l - 1)
        /\ UNCHANGED <<init_tasks, nsproxy, child_reaper>>
    BY <1>6 DEF alloc_pid, nsVars, zapVars
  <2>3. ForkAt(t)'
    <3>1. state'[c] = "attached" /\ level'[c] = level[c] /\ c \notin init_tasks[level[c]]
      BY <2>1, <2>2 DEF Runnable
    <3>2. QED
      BY <2>1, <2>2, <3>1 DEF ForkAt
  <2>4. TAKE u \in Thread
  <2>5. u # t => ForkAt(u)'
    BY <1>0, <2>1, <2>2 DEF ForkAt
  <2>6. QED
    BY <2>3, <2>5
<1>7. ASSUME NEW t \in Thread, SameCall(t), UNCHANGED <<init_tasks, nsproxy, child_reaper>>,
             \A q \in Pid : state[q] = "attached" => state'[q] = "attached" /\ level'[q] = level[q]
      PROVE  \A u \in Thread : ForkAt(u)'
  BY <1>0, <1>7 DEF SameCall, ForkAt
<1>8. ASSUME NEW t \in Thread, \/ Reserve(t) \/ ReserveFails(t) \/ Prepare(t)
                               \/ PrepareFails(t) \/ PublishRefused(t)
      PROVE  \A u \in Thread : ForkAt(u)'
  <2>1. UNCHANGED <<state, level, init_tasks, nsproxy, child_reaper>>
    BY <1>8 DEF Reserve, ReserveFails, Prepare, PrepareFails, PublishRefused, nsVars, zapVars
  <2>2. SameCall(t)
    BY <1>0, <1>8, ReserveLocals, ReserveFailsLocals, MoveLocals
       DEF Prepare, PrepareFails, PublishRefused
  <2>3. QED
    BY <1>7, <2>1, <2>2
<1>9. ASSUME NEW t \in Thread, Publish(t) PROVE \A u \in Thread : ForkAt(u)'
  <2>1. /\ SameCall(t) /\ state' = [state EXCEPT ![th[t].pid] = "published"]
        /\ state[th[t].pid] = "new"
    BY <1>9, PublishEffect
  <2>2. UNCHANGED <<level, init_tasks, nsproxy, child_reaper>>
    BY <1>9 DEF Publish, nsVars, zapVars
  <2>3. \A q \in Pid : state[q] = "attached" => state'[q] = "attached"
    BY <1>0, <2>1 DEF TypeOK
  <2>4. QED
    BY <1>7, <2>1, <2>2, <2>3
<1>10. ASSUME NEW t \in Thread, OutFree(t) PROVE \A u \in Thread : ForkAt(u)'
  <2>1. PICK p \in Pid :
           /\ SameCall(t) /\ state[p] = "new"
           /\ \A q \in Pid \ {p} : state'[q] = state[q] /\ level'[q] = level[q]
    BY <1>10, OutFreeEffect
  <2>2. UNCHANGED <<init_tasks, nsproxy, child_reaper>>
    BY <1>10 DEF OutFree, zapVars
  <2>3. QED
    BY <1>7, <2>1, <2>2
<1>11. ASSUME NEW t \in Thread, ReturnError(t) \/ AttachTask(t) PROVE \A u \in Thread : ForkAt(u)'
  <2>1. th'[t].pc = "idle" /\ \A u \in Thread \ {t} : th'[u] = th[u]
    BY <1>0, <1>11, IdleLocals DEF ReturnError, AttachTask
  <2>2. UNCHANGED <<level, init_tasks, nsproxy>>
    BY <1>11 DEF ReturnError, AttachTask, nsVars, zapVars
  <2>3. \A q \in Pid : state[q] = "attached" => state'[q] = "attached"
    <3>1. CASE ReturnError(t)
      BY <3>1 DEF ReturnError
    <3>2. CASE AttachTask(t)
      BY <1>0, <3>2 DEF AttachTask, TypeOK
    <3>3. QED
      BY <1>11, <3>1, <3>2
  <2>4. \A l \in Level : child_reaper'[l] = NULL => child_reaper[l] = NULL
    <3>1. CASE ReturnError(t)
      BY <3>1 DEF ReturnError
    <3>2. CASE AttachTask(t)
      <4>1. th[t].pid \in Pid
        BY <3>2 DEF AttachTask, Inv, ThreadInv, CallInv
      <4>2. QED
        BY <1>0, <3>2, <4>1, PidAssumption DEF AttachTask, TypeOK
    <3>3. QED
      BY <1>11, <3>1, <3>2
  <2>5. TAKE u \in Thread
  <2>6. CASE u = t
    BY <2>1, <2>6 DEF ForkAt
  <2>7. CASE u # t
    <3>1. th'[u] = th[u] /\ th[u].ns \in Level
      BY <1>0, <2>1, <2>7, ThreadFields
    <3>2. QED
      BY <1>0, <1>1, <2>2, <2>3, <2>4, <3>1
  <2>8. QED
    BY <2>6, <2>7
<1>12. ASSUME (\E t \in Thread : ForkFails(t)) \/ (\E p \in Pid : Exit(p))
       PROVE  \A u \in Thread : ForkAt(u)'
  <2>1. PICK p \in Live :
           /\ p \in Pid /\ p # InitPid /\ \A q \in Pid \ {p} : state'[q] = state[q]
           /\ UNCHANGED <<level, child_reaper, nsproxy>>
           /\ \/ UNCHANGED th /\ Exit(p)
              \/ /\ UNCHANGED init_tasks
                 /\ \E t \in Thread : /\ state[p] = "published"
                                      /\ th'[t].pc = "idle"
                                      /\ \A u \in Thread \ {t} : th'[u] = th[u]
    BY <1>12, FreePidEffect
  <2>2. CASE UNCHANGED th /\ Exit(p)
    <3>1. /\ MayExit(p) /\ init_tasks' = [init_tasks EXCEPT ![level[p]] = init_tasks[level[p]] \ {p}]
      BY <1>0, <2>2 DEF Exit, TypeOK
    <3>2. \A u \in Thread : th[u].pc # "idle" => th[u].current # p
      BY <1>0, <2>1, <3>1 DEF MayExit, Runnable, ForkAt
    <3>3. \A l \in Level : init_tasks'[l] \subseteq init_tasks[l]
      BY <1>0, <3>1 DEF TypeOK
    <3>4. \A q \in Pid : level[q] \in Level
      BY <1>0 DEF TypeOK
    <3>5. QED
      BY <1>1, <2>1, <2>2, <3>2, <3>3, <3>4
  <2>3. ASSUME UNCHANGED init_tasks, NEW t \in Thread, state[p] = "published",
               th'[t].pc = "idle", \A u \in Thread \ {t} : th'[u] = th[u]
        PROVE  \A u \in Thread : ForkAt(u)'
    BY <1>0, <2>1, <2>3 DEF ForkAt
  <2>4. QED
    BY <2>1, <2>2, <2>3
<1>13. ASSUME (\E p \in Pid : delayed_put_pid(p)) \/ (\E t \in Reader : ReaderPut(t))
       PROVE  \A u \in Thread : ForkAt(u)'
  <2>1. UNCHANGED <<init_tasks, nsproxy, child_reaper, th>>
    BY <1>13 DEF delayed_put_pid, ReaderPut, zapVars
  <2>2. \A q \in Pid : state[q] = "attached" => state'[q] = "attached" /\ level'[q] = level[q]
    BY <1>13, PutPidEffect
  <2>3. QED
    BY <1>0, <2>1, <2>2 DEF ForkAt
<1>14. ASSUME \/ \E l \in Level : proc_cleanup_work(l) \/ ZapStep(l)
              \/ \E l \in Level, n \in LastPidWrites : pid_ns_ctl_handler(l, n)
              \/ \E t \in Reader, l \in Level, n \in Nr : find_vpid(t, l, n)
              \/ \E t \in Reader : get_pid(t)
              \/ UNCHANGED vars
       PROVE  UNCHANGED <<th, state, level, init_tasks, nsproxy, child_reaper>>
  BY <1>14 DEF proc_cleanup_work, ZapStep, ZapSignal, ZapPrepareToSleep, ZapDone, ZapSleep,
               ZapWake, ZapMoves, pid_ns_ctl_handler, find_vpid, get_pid, vars, nsVars, zapVars
<1>15. QED
  BY <1>2, <1>3, <1>4, <1>5, <1>6, <1>8, <1>9, <1>10, <1>11, <1>12, <1>13, <1>14, Kinds

(* The parts of BootInv, so that each step shows only those it can touch.  *)
BootTask == state[InitPid] = "attached" /\ level[InitPid] = 0
BootNs == child_reaper[0] = InitPid /\ zap[0] = "none" /\ nsproxy[0]
BootNumber == map[0][1] = InitPid /\ \A q \in Pid \ {InitPid} : numbers[q][0] # 1

(* The init task never exits.                                              *)
LEMMA BootTaskStep ==
  ASSUME Inv, [Next]_vars
  PROVE  BootTask'
<1>0. TypeOK /\ InitPid \in Pid /\ state[InitPid] = "attached" /\ level[InitPid] = 0
  BY PidAssumption DEF Inv, BootInv
<1>1. ASSUME SamePids PROVE BootTask'
  BY <1>0, <1>1 DEF SamePids, BootTask
<1>2. ASSUME NEW t \in Thread, NEW c \in Pid, NEW l \in Level, alloc_pid(t, c, l)
      PROVE  BootTask'
  BY <1>0, <1>2, AllocEffect DEF BootTask
<1>3. ASSUME NEW t \in Thread, ReserveFails(t) \/ PrepareFails(t) \/ PublishRefused(t)
                               \/ Prepare(t) \/ ReturnError(t) \/ Reserve(t)
      PROVE  BootTask'
  BY <1>0, <1>3 DEF ReserveFails, PrepareFails, PublishRefused, Prepare, ReturnError, Reserve,
                    BootTask
<1>4. ASSUME NEW t \in Thread, Publish(t) PROVE BootTask'
  <2>1. state[th[t].pid] = "new" /\ state' = [state EXCEPT ![th[t].pid] = "published"]
        /\ UNCHANGED level
    BY <1>4, PublishEffect DEF Publish
  <2>2. QED
    BY <1>0, <2>1 DEF TypeOK, BootTask
<1>5. ASSUME NEW t \in Thread, OutFree(t) PROVE BootTask'
  BY <1>0, <1>5, OutFreeEffect DEF BootTask
<1>6. ASSUME NEW t \in Thread, AttachTask(t) PROVE BootTask'
  BY <1>0, <1>6 DEF AttachTask, TypeOK, BootTask
<1>7. ASSUME (\E t \in Thread : ForkFails(t)) \/ (\E p \in Pid : Exit(p)) PROVE BootTask'
  <2>1. PICK p \in Live : /\ p # InitPid /\ \A q \in Pid \ {p} : state'[q] = state[q]
                          /\ UNCHANGED level
    BY <1>7, FreePidEffect
  <2>2. QED
    BY <1>0, <2>1 DEF BootTask
<1>8. ASSUME (\E p \in Pid : delayed_put_pid(p)) \/ (\E t \in Reader : ReaderPut(t))
       PROVE  BootTask'
  BY <1>0, <1>8, PutPidEffect DEF BootTask
<1>9. QED
  BY <1>1, <1>2, <1>3, <1>4, <1>5, <1>6, <1>7, <1>8, SamePidsSteps, Kinds

(* init_pid_ns keeps its reaper and is never zapped.                       *)
LEMMA BootNsStep ==
  ASSUME Inv, [Next]_vars
  PROVE  BootNs'
<1>0. TypeOK /\ BootNs /\ 0 \in Level
  BY Ranges DEF Inv, BootInv, BootNs
<1>1. ASSUME UNCHANGED <<child_reaper, zap, nsproxy>> PROVE BootNs'
  BY <1>0, <1>1 DEF BootNs
<1>2. ASSUME NEW l \in Level, create_pid_namespace(l) \/ PutNsproxy(l) \/ ZapStart(l)
      PROVE  BootNs'
  <2>1. l # 0
    BY <1>2 DEF create_pid_namespace, PutNsproxy, ZapStart
  <2>2. CASE create_pid_namespace(l)
    BY <1>0, <2>1, <2>2 DEF create_pid_namespace, TypeOK, BootNs
  <2>3. CASE PutNsproxy(l)
    BY <1>0, <2>1, <2>3 DEF PutNsproxy, TypeOK, BootNs, zapVars
  <2>4. CASE ZapStart(l)
    BY <1>0, <2>1, <2>4 DEF ZapStart, TypeOK, BootNs, nsVars
  <2>5. QED
    BY <1>2, <2>2, <2>3, <2>4
<1>3. ASSUME NEW l \in Level, ZapStep(l) PROVE BootNs'
  <2>1. UNCHANGED <<child_reaper, nsproxy>> /\ zap[l] # "none"
        /\ \E to : zap' = [zap EXCEPT ![l] = to]
    BY <1>3 DEF ZapStep, ZapSignal, ZapPrepareToSleep, ZapDone, ZapSleep, ZapWake, ZapMoves, nsVars
  <2>2. QED
    BY <1>0, <2>1 DEF BootNs, TypeOK
<1>4. ASSUME NEW t \in Thread, AttachTask(t) PROVE BootNs'
  <2>1. PICK p \in Pid : p = th[t].pid
    BY <1>4 DEF AttachTask, Inv, ThreadInv, CallInv
  <2>2. /\ state[p] = "published" /\ level[p] = th[t].ns
        /\ UNCHANGED <<zap, nsproxy>>
        /\ child_reaper' = IF is_child_reaper(p) THEN [child_reaper EXCEPT ![th[t].ns] = p]
                           ELSE child_reaper
    BY <1>4, <2>1 DEF AttachTask, Inv, ThreadInv, CallInv, nsVars, zapVars
  <2>3. p # InitPid /\ numbers[p][0] # 1
    BY <2>2 DEF Inv, BootInv
  <2>4. is_child_reaper(p) => th[t].ns # 0
    BY <2>2, <2>3 DEF is_child_reaper
  <2>5. child_reaper'[0] = child_reaper[0]
    BY <1>0, <2>2, <2>4 DEF TypeOK
  <2>6. QED
    BY <1>0, <2>2, <2>5 DEF BootNs
<1>5. ASSUME \/ \E l \in Level : proc_cleanup_work(l)
             \/ \E l \in Level, n \in LastPidWrites : pid_ns_ctl_handler(l, n)
             \/ \E t \in Reader, l \in Level, n \in Nr : find_vpid(t, l, n)
             \/ \E t \in Reader : get_pid(t)
             \/ UNCHANGED vars
             \/ \E t \in Thread, c \in Pid, l \in Level : alloc_pid(t, c, l)
             \/ \E t \in Thread : \/ Reserve(t) \/ ReserveFails(t) \/ Prepare(t)
                                  \/ PrepareFails(t) \/ Publish(t) \/ PublishRefused(t)
                                  \/ OutFree(t) \/ ReturnError(t)
             \/ (\E t \in Thread : ForkFails(t)) \/ (\E p \in Pid : Exit(p))
             \/ (\E p \in Pid : delayed_put_pid(p)) \/ (\E t \in Reader : ReaderPut(t))
      PROVE  UNCHANGED <<child_reaper, zap, nsproxy>>
  BY <1>5 DEF proc_cleanup_work, pid_ns_ctl_handler, find_vpid, get_pid, vars, alloc_pid,
              Reserve, ReserveFails, Prepare, PrepareFails, Publish, PublishRefused, OutFree,
              ReturnError, ForkFails, Exit, delayed_put_pid, ReaderPut, nsVars, zapVars
<1>6. QED
  BY <1>1, <1>2, <1>3, <1>4, <1>5, Kinds

(* The init task keeps number 1 of init_pid_ns to itself.                  *)
LEMMA BootNumberStep ==
  ASSUME Inv, [Next]_vars
  PROVE  BootNumber'
<1>0. /\ TypeOK /\ InitPid \in Pid /\ map[0][1] = InitPid
      /\ \A q \in Pid \ {InitPid} : numbers[q][0] # 1
      /\ 0 \in Level /\ 1 \in Nr /\ InitPid \notin {ABSENT, NULL}
      /\ state[InitPid] = "attached"
  BY PidAssumption, Ranges DEF Inv, BootInv
<1>1. ASSUME map'[0] = map[0], \A q \in Pid : numbers'[q] = numbers[q] \/ numbers'[q] = NoNumbers
      PROVE  BootNumber'
  BY <1>0, <1>1 DEF BootNumber, NoNumbers
<1>2. ASSUME \A j \in Level : Exists(j)' => Exists(j) /\ map'[j] = map[j]
      PROVE  map'[0] = map[0]
  BY <1>0, <1>2 DEF Exists
<1>3. ASSUME NEW l \in Level, create_pid_namespace(l) PROVE BootNumber'
  BY <1>0, <1>1, <1>3 DEF create_pid_namespace, TypeOK
<1>4. ASSUME NEW l \in Level, PutNsproxy(l) \/ proc_cleanup_work(l) PROVE BootNumber'
  <2>1. UNCHANGED numbers
    BY <1>4 DEF PutNsproxy, proc_cleanup_work
  <2>2. QED
    BY <1>1, <1>2, <1>4, <2>1, PutNsBase
<1>5. ASSUME NEW t \in Thread, PublishRefused(t) PROVE BootNumber'
  <2>1. UNCHANGED numbers
    BY <1>5 DEF PublishRefused
  <2>2. QED
    BY <1>1, <1>2, <1>5, <2>1, RefusedBase
<1>6. ASSUME (\E p \in Pid : delayed_put_pid(p)) \/ (\E t \in Reader : ReaderPut(t))
      PROVE  BootNumber'
  <2>1. map'[0] = map[0]
    BY <1>2, <1>6, PutBase
  <2>2. \A q \in Pid : numbers'[q] = numbers[q] \/ numbers'[q] = NoNumbers
    BY <1>6, PutPidEffect
  <2>3. QED
    BY <1>1, <2>1, <2>2
<1>7. ASSUME NEW t \in Thread, Reserve(t) PROVE BootNumber'
  <2>1. PICK p \in Pid, l \in Level, n \in Nr :
           /\ state[p] = "new" /\ map[l][n] \in {ABSENT, NULL}
           /\ \A j \in Level, m \in Nr : j # l \/ m # n => map'[j][m] = map[j][m]
           /\ numbers'[p][l] = n
           /\ \A j \in Level \ {l} : numbers'[p][j] = numbers[p][j]
           /\ \A q \in Pid \ {p} : numbers'[q] = numbers[q]
    BY <1>7, ReserveEffect
  <2>2. l # 0 \/ n # 1
    BY <1>0, <2>1
  <2>3. map'[0][1] = InitPid
    BY <1>0, <2>1, <2>2
  <2>4. \A q \in Pid \ {InitPid} : numbers'[q][0] # 1
    BY <1>0, <2>1, <2>2
  <2>5. QED
    BY <2>3, <2>4 DEF BootNumber
<1>8. ASSUME NEW t \in Thread, Publish(t) PROVE BootNumber'
  <2>1. PICK p \in Pid : p = th[t].pid
    BY <1>8, PublishEffect
  <2>2. UNCHANGED numbers
    BY <1>8 DEF Publish
  <2>3. /\ state[p] = "new"
        /\ \A l \in Level, n \in Nr : l <= level[p] =>
             (n # numbers[p][l] => map'[l][n] = map[l][n])
    BY <1>8, <2>1, PublishEffect
  <2>4. 0 <= level[p] /\ numbers[p][0] # 1
    BY <1>0, <2>3, Ranges DEF TypeOK
  <2>5. QED
    BY <1>0, <2>2, <2>3, <2>4 DEF BootNumber
<1>9. ASSUME NEW t \in Thread, OutFree(t) PROVE BootNumber'
  <2>1. PICK p \in Pid :
          /\ state[p] = "new" /\ numbers'[p] = NoNumbers
          /\ \A q \in Pid \ {p} : numbers'[q] = numbers[q]
          /\ \A l \in Level, n \in Nr :
               map'[l][n] = IF n = numbers[p][l] THEN ABSENT ELSE map[l][n]
    BY <1>9, OutFreeEffect
  <2>2. numbers[p][0] # 1
    BY <1>0, <2>1
  <2>3. map'[0][1] = InitPid
    BY <1>0, <2>1, <2>2
  <2>4. QED
    BY <1>0, <2>1, <2>3 DEF BootNumber, NoNumbers
<1>10. ASSUME (\E t \in Thread : ForkFails(t)) \/ (\E p \in Pid : Exit(p)) PROVE BootNumber'
  <2>1. PICK p \in Live :
          /\ p \in Pid /\ p # InitPid /\ UNCHANGED numbers
          /\ \A l \in Level, n \in Nr :
               map'[l][n] = IF n = numbers[p][l] THEN ABSENT ELSE map[l][n]
    BY <1>10, FreePidEffect
  <2>2. QED
    BY <1>0, <2>1 DEF BootNumber
<1>11. ASSUME \/ \E l \in Level : ZapStart(l) \/ ZapStep(l)
              \/ \E l \in Level, n \in LastPidWrites : pid_ns_ctl_handler(l, n)
              \/ \E t \in Reader, l \in Level, n \in Nr : find_vpid(t, l, n)
              \/ \E t \in Reader : get_pid(t)
              \/ UNCHANGED vars
              \/ \E t \in Thread, c \in Pid, l \in Level : alloc_pid(t, c, l)
              \/ \E t \in Thread : \/ ReserveFails(t) \/ Prepare(t)
                                   \/ PrepareFails(t) \/ ReturnError(t) \/ AttachTask(t)
      PROVE  BootNumber'
  <2>1. UNCHANGED <<map, numbers>>
    BY <1>11 DEF ZapStart, ZapStep, ZapSignal, ZapPrepareToSleep, ZapDone, ZapSleep,
               ZapWake, ZapMoves, pid_ns_ctl_handler, find_vpid, get_pid, vars, alloc_pid,
               ReserveFails, Prepare, PrepareFails, ReturnError, AttachTask
  <2>2. QED
    BY <1>1, <2>1
<1>12. QED
  BY <1>3, <1>4, <1>5, <1>6, <1>7, <1>8, <1>9, <1>10, <1>11, Kinds

(* The init task and init_pid_ns are there for good.                       *)
LEMMA BootInvStep ==
  ASSUME Inv, [Next]_vars
  PROVE  BootInv'
BY BootTaskStep, BootNsStep, BootNumberStep DEF BootTask, BootNs, BootNumber, BootInv
-----------------------------------------------------------------------------
(* The reference counts of struct pids: RefInv.                            *)

(* Most steps touch no count and no reader, and take no struct pid out of  *)
(* the index.                                                              *)
LEMMA RefInvFrame ==
  ASSUME Inv, UNCHANGED refVars,
         \A p \in Pid : \/ state'[p] = state[p]
                        \/ state[p] = "free" /\ state'[p] = "new"
                        \/ p \in Live /\ p \in Live',
         \A t \in Thread : th'[t].pc = "publish" => th[t].pc = "publish" /\ th'[t].pid = th[t].pid
  PROVE  RefInv'
<1>1. UNCHANGED <<count, gp, rd>> /\ RefInv
  BY DEF refVars, Inv
<1>2. \A p : Holding(p)' = Holding(p)
  BY <1>1 DEF Holding
<1>3. QED
  BY <1>1, <1>2 DEF RefInv, Live

(* Every step keeps the reference counts of struct pids exact.             *)
LEMMA RefInvStep ==
  ASSUME Inv, [Next]_vars
  PROVE  RefInv'
<1>0. TypeOK /\ RefInv
  BY DEF Inv
<1>00. /\ \A t \in Thread : th[t].pc = "publish" => count[th[t].pid] = 1
       /\ \A p \in Pid :
            /\ p \in Live \/ state[p] = "dead" => count[p] = Cardinality(Holding(p)) + 1
            /\ state[p] = "stale" => count[p] = Cardinality(Holding(p))
       /\ \A t \in Reader :
            /\ rd[t].pc # "idle" => rd[t].pid \in Pid
            /\ rd[t].pc = "holds" => state[rd[t].pid] \notin {"free", "new"}
            /\ rd[t].pc = "section" =>
                 \/ rd[t].pid \in Live
                 \/ state[rd[t].pid] = "dead" /\ t \in gp[rd[t].pid]
  BY <1>0 DEF RefInv
<1>1. ASSUME \/ \E l \in Level : \/ create_pid_namespace(l) \/ PutNsproxy(l)
                                 \/ proc_cleanup_work(l) \/ ZapStart(l) \/ ZapStep(l)
             \/ \E l \in Level, n \in LastPidWrites : pid_ns_ctl_handler(l, n)
             \/ UNCHANGED vars
      PROVE  RefInv'
  <2>1. UNCHANGED refVars
    BY <1>1 DEF create_pid_namespace, PutNsproxy, proc_cleanup_work, ZapStart, ZapStep, ZapSignal,
                ZapPrepareToSleep, ZapDone, ZapSleep, ZapWake, ZapMoves, pid_ns_ctl_handler,
                vars, refVars
  <2>2. QED
    BY <1>1, <2>1, SamePidsSteps, RefInvFrame DEF SamePids
<1>2. ASSUME NEW t \in Thread, NEW c \in Pid, NEW l \in Level, alloc_pid(t, c, l)
      PROVE  RefInv'
  <2>1. UNCHANGED refVars
    BY <1>2 DEF alloc_pid
  <2>2. PICK p \in Pid :
           /\ state[p] = "free" /\ state'[p] = "new"
           /\ \A q \in Pid \ {p} : state'[q] = state[q]
           /\ th'[t].pc = "reserve"
           /\ \A u \in Thread \ {t} : th'[u] = th[u]
    BY <1>2, AllocEffect
  <2>3. QED
    BY <2>1, <2>2, RefInvFrame
<1>3. ASSUME NEW t \in Thread, \/ Reserve(t) \/ ReserveFails(t)
                               \/ PrepareFails(t) \/ PublishRefused(t)
      PROVE  RefInv'
  <2>1. UNCHANGED <<state, refVars>>
    BY <1>3 DEF Reserve, ReserveFails, PrepareFails, PublishRefused
  <2>2. SameCall(t) /\ th'[t].pc # "publish"
    BY <1>0, <1>3, ReserveLocals, ReserveFailsLocals, MoveLocals
       DEF PrepareFails, PublishRefused
  <2>3. QED
    BY <2>1, <2>2, RefInvFrame DEF SameCall
<1>4. ASSUME NEW t \in Thread, ReturnError(t) \/ AttachTask(t) PROVE RefInv'
  <2>1. th'[t].pc = "idle" /\ \A u \in Thread \ {t} : th'[u] = th[u]
    BY <1>0, <1>4, IdleLocals DEF ReturnError, AttachTask
  <2>2. UNCHANGED refVars
    BY <1>4 DEF ReturnError, AttachTask
  <2>3. \A p \in Pid : state'[p] = state[p] \/ (p \in Live /\ p \in Live')
    <3>1. CASE ReturnError(t)
      BY <3>1 DEF ReturnError
    <3>2. CASE AttachTask(t)
      BY <1>0, <3>2 DEF AttachTask, TypeOK, Live, Inv, ThreadInv, CallInv
    <3>3. QED
      BY <1>4, <3>1, <3>2
  <2>4. QED
    BY <2>1, <2>2, <2>3, RefInvFrame
<1>5. ASSUME NEW t \in Thread, Prepare(t) PROVE RefInv'
  <2>0. th[t].pc = "prepare"
    BY <1>5 DEF Prepare
  <2>1. PICK p \in Pid : p = th[t].pid
    BY <2>0 DEF Inv, ThreadInv, CallInv, Reserving
  <2>2. state[p] = "new" /\ UNCHANGED <<state, gp, rd>>
        /\ count' = [count EXCEPT ![p] = 1] /\ th' = [th EXCEPT ![t].pc = "publish"]
    BY <1>5, <2>0, <2>1 DEF Prepare, Inv, ThreadInv, CallInv, Reserving
  <2>3. SameCall(t) /\ th'[t].pid = p
    BY <1>0, <2>0, <2>1, <2>2, MoveLocals
  <2>4. count'[p] = 1 /\ \A q \in Pid \ {p} : count'[q] = count[q]
    BY <1>0, <2>2 DEF TypeOK
  <2>5. \A q : Holding(q)' = Holding(q)
    BY <2>2 DEF Holding
  <2>6. \A u \in Thread : th'[u].pc = "publish" => count'[th'[u].pid] = 1
    <3>1. TAKE u \in Thread
    <3>2. CASE u = t
      BY <2>3, <2>4, <3>2
    <3>3. CASE u # t /\ th[u].pc = "publish"
      <4>1. th[u].pid \in Pid /\ th[u].pid # p
        BY <2>1, <3>3, PublishingIsNew, OwnPid, PidAssumption
      <4>2. QED
        BY <1>00, <2>3, <2>4, <3>3, <4>1 DEF SameCall
    <3>4. QED
      BY <2>3, <3>2, <3>3 DEF SameCall
  <2>7. p \notin Live /\ state[p] # "dead" /\ state[p] # "stale" /\ Live' = Live
    BY <2>2 DEF Live
  <2>8. QED
    BY <1>00, <2>2, <2>4, <2>5, <2>6, <2>7 DEF RefInv
<1>6. ASSUME NEW t \in Thread, Publish(t) PROVE RefInv'
  <2>1. PICK p \in Pid : p = th[t].pid
    BY <1>6, PublishEffect
  <2>2. /\ state[p] = "new" /\ state' = [state EXCEPT ![p] = "published"]
        /\ SameCall(t) /\ th'[t].pc = "copy_process" /\ th[t].pc = "publish"
    BY <1>6, <2>1, PublishEffect
  <2>3. UNCHANGED <<count, gp, rd>>
    BY <1>6 DEF Publish, refVars
  <2>4. state'[p] = "published" /\ \A q \in Pid \ {p} : state'[q] = state[q]
    BY <1>0, <2>2 DEF TypeOK
  <2>5. \A q : Holding(q)' = Holding(q)
    BY <2>3 DEF Holding
  <2>6. Holding(p) = {}
    BY <1>00, <2>2 DEF Holding
  <2>7. count[p] = Cardinality(Holding(p)) + 1
    BY <1>00, <2>1, <2>2, <2>6, FS_EmptySet
  <2>8. Live' = Live \cup {p}
    BY <2>4 DEF Live
  <2>9. \A u \in Thread : th'[u].pc = "publish" => count'[th'[u].pid] = 1
    BY <1>00, <2>2, <2>3 DEF SameCall
  <2>10. \A q \in Pid :
            /\ q \in Live' \/ state'[q] = "dead" => count'[q] = Cardinality(Holding(q)') + 1
            /\ state'[q] = "stale" => count'[q] = Cardinality(Holding(q)')
    BY <1>00, <2>3, <2>4, <2>5, <2>7, <2>8
  <2>11. \A r \in Reader :
            /\ rd'[r].pc # "idle" => rd'[r].pid \in Pid
            /\ rd'[r].pc = "holds" => state'[rd'[r].pid] \notin {"free", "new"}
            /\ rd'[r].pc = "section" =>
                 \/ rd'[r].pid \in Live'
                 \/ state'[rd'[r].pid] = "dead" /\ r \in gp'[rd'[r].pid]
    BY <1>00, <2>2, <2>3, <2>4, <2>8
  <2>12. QED
    BY <2>9, <2>10, <2>11 DEF RefInv
<1>7. ASSUME NEW t \in Thread, OutFree(t) PROVE RefInv'
  <2>1. PICK p \in Pid :
           /\ p = th[t].pid /\ state[p] = "new" /\ SameCall(t) /\ th'[t].pc = "failed"
           /\ state'[p] = "free"
           /\ \A q \in Pid \ {p} : state'[q] = state[q] /\ count'[q] = count[q]
    BY <1>7, OutFreeEffect
  <2>2. UNCHANGED <<gp, rd>>
    BY <1>7 DEF OutFree
  <2>3. \A q : Holding(q)' = Holding(q)
    BY <2>2 DEF Holding
  <2>4. Live' = Live /\ p \notin Live
    BY <2>1 DEF Live
  <2>5. \A u \in Thread : th'[u].pc = "publish" => count'[th'[u].pid] = 1
    <3>1. TAKE u \in Thread
    <3>2. HAVE th'[u].pc = "publish"
    <3>3. u # t /\ th'[u] = th[u] /\ th[u].pc = "publish"
      BY <2>1, <3>2 DEF SameCall
    <3>4. th[u].pid \in Pid /\ th[u].pid # p
      BY <2>1, <3>3, PublishingIsNew, OwnPid, PidAssumption
    <3>5. QED
      BY <1>00, <2>1, <3>3, <3>4
  <2>6. QED
    BY <1>00, <2>1, <2>2, <2>3, <2>4, <2>5 DEF RefInv
<1>8. ASSUME (\E t \in Thread : ForkFails(t)) \/ (\E p \in Pid : Exit(p)) PROVE RefInv'
  <2>1. PICK p \in Live :
           /\ p \in Pid /\ state'[p] = "dead" /\ gp'[p] = InSection
           /\ \A q \in Pid \ {p} : state'[q] = state[q] /\ gp'[q] = gp[q]
           /\ UNCHANGED <<count, rd>>
           /\ \/ UNCHANGED th
              \/ \E t \in Thread : /\ th'[t].pc = "idle"
                                   /\ \A u \in Thread \ {t} : th'[u] = th[u]
    BY <1>8, FreePidEffect
  <2>2. \A q : Holding(q)' = Holding(q)
    BY <2>1 DEF Holding
  <2>3. Live' = Live \ {p}
    BY <2>1 DEF Live
  <2>4. \A u \in Thread : th'[u].pc = "publish" => th'[u] = th[u]
    BY <2>1
  <2>5. \A u \in Thread : th'[u].pc = "publish" => count'[th'[u].pid] = 1
    BY <1>00, <2>1, <2>4
  <2>6. \A q \in Pid :
            /\ q \in Live' \/ state'[q] = "dead" => count'[q] = Cardinality(Holding(q)') + 1
            /\ state'[q] = "stale" => count'[q] = Cardinality(Holding(q)')
    BY <1>00, <2>1, <2>2, <2>3
  <2>7. \A r \in Reader :
            /\ rd'[r].pc # "idle" => rd'[r].pid \in Pid
            /\ rd'[r].pc = "holds" => state'[rd'[r].pid] \notin {"free", "new"}
            /\ rd'[r].pc = "section" =>
                 \/ rd'[r].pid \in Live'
                 \/ state'[rd'[r].pid] = "dead" /\ r \in gp'[rd'[r].pid]
    BY <1>00, <2>1, <2>3 DEF InSection
  <2>8. QED
    BY <2>5, <2>6, <2>7 DEF RefInv
<1>9. ASSUME NEW t \in Reader, NEW l \in Level, NEW n \in Nr, find_vpid(t, l, n) PROVE RefInv'
  <2>1. PICK p \in Pid : p = map[l][n]
    BY <1>9 DEF find_vpid
  <2>2. /\ rd[t].pc = "idle" /\ rd' = [rd EXCEPT ![t] = [pc |-> "section", pid |-> p]]
        /\ UNCHANGED <<state, th, count, gp>>
    BY <1>9, <2>1 DEF find_vpid
  <2>3. p \in Live
    BY <2>1 DEF Inv, EntriesOwned
  <2>4. /\ rd'[t].pc = "section" /\ rd'[t].pid = p
        /\ \A r \in Reader \ {t} : rd'[r] = rd[r]
    BY <1>0, <2>2 DEF TypeOK
  <2>5. \A q : Holding(q)' = Holding(q)
    BY <2>2, <2>4 DEF Holding
  <2>6. Live' = Live
    BY <2>2 DEF Live
  <2>7. QED
    BY <1>00, <2>2, <2>3, <2>4, <2>5, <2>6 DEF RefInv
<1>10. ASSUME NEW t \in Reader, get_pid(t) PROVE RefInv'
  <2>1. PICK p \in Pid : p = rd[t].pid
    BY <1>00, <1>10 DEF get_pid
  <2>2. /\ rd[t].pc = "section" /\ rd' = [rd EXCEPT ![t].pc = "holds"]
        /\ count' = [count EXCEPT ![p] = count[p] + 1]
        /\ gp' = [q \in Pid |-> gp[q] \ {t}] /\ UNCHANGED <<state, th>>
    BY <1>0, <1>10, <2>1 DEF get_pid, TypeOK
  <2>3. /\ rd'[t].pc = "holds" /\ rd'[t].pid = p
        /\ \A r \in Reader \ {t} : rd'[r] = rd[r]
    BY <1>0, <2>1, <2>2 DEF TypeOK, ReaderType
  <2>4. /\ count'[p] = count[p] + 1 /\ count[p] \in Nat
        /\ \A q \in Pid \ {p} : count'[q] = count[q]
    BY <1>0, <2>2 DEF TypeOK
  <2>5. Holding(p)' = Holding(p) \cup {t} /\ t \notin Holding(p)
        /\ \A q \in Pid \ {p} : Holding(q)' = Holding(q)
    BY <2>1, <2>2, <2>3 DEF Holding
  <2>6. Cardinality(Holding(p)') = Cardinality(Holding(p)) + 1 /\ Cardinality(Holding(p)) \in Nat
    BY <2>5, HoldingCount, FS_AddElement
  <2>7. Live' = Live /\ (p \in Live \/ state[p] = "dead")
    BY <1>00, <2>1, <2>2 DEF Live
  <2>8. \A u \in Thread : th'[u].pc = "publish" => count'[th'[u].pid] = 1
    <3>1. TAKE u \in Thread
    <3>2. HAVE th'[u].pc = "publish"
    <3>3. th'[u] = th[u] /\ th[u].pid \in Pid /\ state[th[u].pid] = "new" /\ th[u].pc = "publish"
      BY <2>2, <3>2, PublishingIsNew
    <3>4. th[u].pid # p
      BY <2>7, <3>3 DEF Live
    <3>5. QED
      BY <1>00, <2>4, <3>3, <3>4
  <2>9. \A q \in Pid :
            /\ q \in Live' \/ state'[q] = "dead" => count'[q] = Cardinality(Holding(q)') + 1
            /\ state'[q] = "stale" => count'[q] = Cardinality(Holding(q)')
    <3>1. TAKE q \in Pid
    <3>2. CASE q = p
      <4>1. count[p] = Cardinality(Holding(p)) + 1 /\ state'[p] # "stale"
        BY <1>00, <2>2, <2>7 DEF Live
      <4>2. QED
        BY <2>4, <2>6, <3>2, <4>1
    <3>3. CASE q # p
      BY <1>00, <2>2, <2>4, <2>5, <2>7, <3>3
    <3>4. QED
      BY <3>2, <3>3
  <2>10. \A r \in Reader :
            /\ rd'[r].pc # "idle" => rd'[r].pid \in Pid
            /\ rd'[r].pc = "holds" => state'[rd'[r].pid] \notin {"free", "new"}
            /\ rd'[r].pc = "section" =>
                 \/ rd'[r].pid \in Live'
                 \/ state'[rd'[r].pid] = "dead" /\ r \in gp'[rd'[r].pid]
    <3>1. TAKE r \in Reader
    <3>2. CASE r = t
      BY <2>2, <2>3, <2>7, <3>2 DEF Live
    <3>3. CASE r # t
      BY <1>00, <2>2, <2>3, <2>7, <3>3
    <3>4. QED
      BY <3>2, <3>3
  <2>11. QED
    BY <2>8, <2>9, <2>10 DEF RefInv
<1>11. ASSUME NEW p \in Pid, delayed_put_pid(p) PROVE RefInv'
  <2>1. /\ state[p] = "dead" /\ gp[p] = {} /\ UNCHANGED <<gp, rd, th>> /\ put_pid(p, "stale")
    BY <1>11 DEF delayed_put_pid
  <2>2. count[p] = Cardinality(Holding(p)) + 1 /\ Cardinality(Holding(p)) \in Nat
    BY <1>00, <2>1, HoldingCount
  <2>3. count'[p] = count[p] - 1 /\ \A q \in Pid \ {p} : count'[q] = count[q]
    BY <1>0, <2>1 DEF put_pid, TypeOK
  <2>4. \A q : Holding(q)' = Holding(q)
    BY <2>1 DEF Holding
  <2>5. \A q \in Pid \ {p} : state'[q] = state[q]
    BY <1>0, <2>1 DEF put_pid, FreeObject, TypeOK
  <2>6. state'[p] = "stale" \/ (state'[p] = "free" /\ Holding(p) = {})
    <3>1. CASE count[p] = 1
      <4>1. Holding(p) = {}
        BY <2>2, <3>1, HoldingCount, FS_EmptySet
      <4>2. QED
        BY <1>0, <2>1, <3>1, <4>1 DEF put_pid, FreeObject, TypeOK
    <3>2. CASE count[p] # 1
      BY <1>0, <2>1, <3>2 DEF put_pid, TypeOK
    <3>3. QED
      BY <3>1, <3>2
  <2>7. p \notin Live /\ Live' = Live
    BY <2>1, <2>5, <2>6 DEF Live
  <2>8. \A u \in Thread : th'[u].pc = "publish" => count'[th'[u].pid] = 1
    <3>1. TAKE u \in Thread
    <3>2. HAVE th'[u].pc = "publish"
    <3>3. th'[u] = th[u] /\ th[u].pid \in Pid /\ state[th[u].pid] = "new" /\ th[u].pc = "publish"
      BY <2>1, <3>2, PublishingIsNew
    <3>4. QED
      BY <1>00, <2>1, <2>3, <3>3
  <2>9. \A q \in Pid :
            /\ q \in Live' \/ state'[q] = "dead" => count'[q] = Cardinality(Holding(q)') + 1
            /\ state'[q] = "stale" => count'[q] = Cardinality(Holding(q)')
    <3>1. TAKE q \in Pid
    <3>2. CASE q = p
      BY <2>2, <2>3, <2>4, <2>6, <2>7, <3>2
    <3>3. CASE q # p
      BY <1>00, <2>3, <2>4, <2>5, <2>7, <3>3
    <3>4. QED
      BY <3>2, <3>3
  <2>10. \A r \in Reader :
            /\ rd'[r].pc # "idle" => rd'[r].pid \in Pid
            /\ rd'[r].pc = "holds" => state'[rd'[r].pid] \notin {"free", "new"}
            /\ rd'[r].pc = "section" =>
                 \/ rd'[r].pid \in Live'
                 \/ state'[rd'[r].pid] = "dead" /\ r \in gp'[rd'[r].pid]
    <3>1. TAKE r \in Reader
    <3>2. rd'[r] = rd[r] /\ gp' = gp
      BY <2>1
    <3>3. CASE rd[r].pid = p
      <4>1. rd[r].pc # "section"
        BY <1>00, <2>1, <2>7, <3>3
      <4>2. rd[r].pc = "holds" => r \in Holding(p)
        BY <3>3 DEF Holding
      <4>3. QED
        BY <1>00, <2>6, <3>2, <3>3, <4>1, <4>2
    <3>4. CASE rd[r].pid # p
      BY <1>00, <2>5, <2>7, <3>2, <3>4
    <3>5. QED
      BY <3>3, <3>4
  <2>11. QED
    BY <2>8, <2>9, <2>10 DEF RefInv
<1>12. ASSUME NEW t \in Reader, ReaderPut(t) PROVE RefInv'
  <2>1. PICK p \in Pid : p = rd[t].pid
    BY <1>00, <1>12 DEF ReaderPut
  <2>2. /\ rd[t].pc = "holds" /\ rd' = [rd EXCEPT ![t] = IdleReader] /\ UNCHANGED <<gp, th>>
        /\ put_pid(p, state[p])
    BY <1>12, <2>1 DEF ReaderPut
  <2>3. /\ rd'[t].pc = "idle" /\ \A r \in Reader \ {t} : rd'[r] = rd[r]
    BY <1>0, <2>2 DEF TypeOK, IdleReader
  <2>4. /\ count'[p] = count[p] - 1 /\ count[p] \in Nat
        /\ \A q \in Pid \ {p} : count'[q] = count[q]
    BY <1>0, <2>2 DEF put_pid, TypeOK
  <2>5. /\ Holding(p)' = Holding(p) \ {t} /\ t \in Holding(p)
        /\ \A q \in Pid \ {p} : Holding(q)' = Holding(q)
    BY <2>1, <2>2, <2>3 DEF Holding
  <2>6. Cardinality(Holding(p)') = Cardinality(Holding(p)) - 1 /\ Cardinality(Holding(p)) \in Nat
        /\ Cardinality(Holding(p)) >= 1
    <3>1. /\ IsFiniteSet(Holding(p)) /\ Cardinality(Holding(p)) \in Nat
          /\ Cardinality(Holding(p)) >= 1
      BY <2>1, <2>2, HoldingCount
    <3>2. Cardinality(Holding(p) \ {t}) = Cardinality(Holding(p)) - 1
      BY <2>5, <3>1, FS_RemoveElement
    <3>3. QED
      BY <2>5, <3>1, <3>2
  <2>7. state[p] \in {"published", "attached", "dead", "stale"}
    BY <1>0, <1>00, <2>1, <2>2 DEF TypeOK
  <2>8. \A q \in Pid \ {p} : state'[q] = state[q]
    BY <1>0, <2>2 DEF put_pid, FreeObject, TypeOK
  <2>9. \/ state'[p] = state[p]
        \/ state'[p] = "free" /\ state[p] = "stale" /\ Holding(p) = {t}
    <3>1. CASE count[p] = 1
      <4>1. state[p] = "stale" /\ Cardinality(Holding(p)) = 1
        BY <1>00, <2>6, <2>7, <3>1 DEF Live
      <4>2. Holding(p) = {t}
        <5>1. IsFiniteSet(Holding(p)')
          BY <2>5, HoldingCount, FS_RemoveElement
        <5>2. Holding(p)' = {}
          BY <2>6, <4>1, <5>1, FS_EmptySet
        <5>3. QED
          BY <2>5, <5>2
      <4>3. state'[p] = "free"
        BY <1>0, <2>2, <3>1 DEF put_pid, FreeObject, TypeOK
      <4>4. QED
        BY <4>1, <4>2, <4>3
    <3>2. CASE count[p] # 1
      BY <1>0, <2>2, <3>2 DEF put_pid, TypeOK
    <3>3. QED
      BY <3>1, <3>2
  <2>10. Live' = Live
    BY <2>8, <2>9 DEF Live
  <2>11. \A u \in Thread : th'[u].pc = "publish" => count'[th'[u].pid] = 1
    <3>1. TAKE u \in Thread
    <3>2. HAVE th'[u].pc = "publish"
    <3>3. th'[u] = th[u] /\ th[u].pid \in Pid /\ state[th[u].pid] = "new" /\ th[u].pc = "publish"
      BY <2>2, <3>2, PublishingIsNew
    <3>4. QED
      BY <1>00, <2>7, <2>4, <3>3
  <2>12. \A q \in Pid :
            /\ q \in Live' \/ state'[q] = "dead" => count'[q] = Cardinality(Holding(q)') + 1
            /\ state'[q] = "stale" => count'[q] = Cardinality(Holding(q)')
    <3>1. TAKE q \in Pid
    <3>2. CASE q = p
      <4>1. state'[p] = "free" => p \notin Live'
        BY DEF Live
      <4>2. /\ p \in Live' \/ state'[p] = "dead" => count[p] = Cardinality(Holding(p)) + 1
            /\ state'[p] = "stale" => count[p] = Cardinality(Holding(p))
        BY <1>00, <2>9, <2>10, <4>1
      <4>3. QED
        BY <2>4, <2>6, <3>2, <4>2
    <3>3. CASE q # p
      BY <1>00, <2>4, <2>5, <2>8, <2>10, <3>3
    <3>4. QED
      BY <3>2, <3>3
  <2>13. \A r \in Reader :
            /\ rd'[r].pc # "idle" => rd'[r].pid \in Pid
            /\ rd'[r].pc = "holds" => state'[rd'[r].pid] \notin {"free", "new"}
            /\ rd'[r].pc = "section" =>
                 \/ rd'[r].pid \in Live'
                 \/ state'[rd'[r].pid] = "dead" /\ r \in gp'[rd'[r].pid]
    <3>1. TAKE r \in Reader
    <3>2. CASE r = t
      BY <2>3, <3>2
    <3>3. CASE r # t
      <4>1. rd'[r] = rd[r]
        BY <2>3, <3>3
      <4>2. rd[r].pc = "holds" /\ rd[r].pid = p => r \in Holding(p)
        BY DEF Holding
      <4>3. rd[r].pc # "idle" => state'[rd[r].pid] = state[rd[r].pid]
        <5>1. CASE rd[r].pid # p
          BY <1>00, <2>8, <5>1
        <5>2. CASE rd[r].pid = p /\ rd[r].pc = "holds"
          BY <2>9, <3>3, <4>2, <5>2
        <5>3. CASE rd[r].pid = p /\ rd[r].pc = "section"
          BY <1>00, <2>9, <5>3 DEF Live
        <5>4. QED
          BY <1>0, <5>1, <5>2, <5>3 DEF TypeOK, ReaderType
      <4>4. QED
        BY <1>00, <2>2, <2>10, <4>1, <4>3
    <3>4. QED
      BY <3>2, <3>3
  <2>14. QED
    BY <2>11, <2>12, <2>13 DEF RefInv
<1>13. QED
  BY <1>1, <1>2, <1>3, <1>4, <1>5, <1>6, <1>7, <1>8, <1>9, <1>10, <1>11, <1>12, Kinds
-----------------------------------------------------------------------------
(* The entries of the index have owners: EntriesOwned.                     *)

(* A step that adds nothing to the index keeps its entries owned, if the   *)
(* owners of what it leaves stay.                                          *)
LEMMA OwnedFrame ==
  ASSUME Inv,
         \A l \in Level, n \in Nr : map'[l][n] = map[l][n] \/ map'[l][n] = ABSENT,
         \A l \in Level, n \in Nr : \A p \in Live : map'[l][n] = p /\ numbers[p][l] = n =>
           p \in Live' /\ level'[p] = level[p] /\ numbers'[p] = numbers[p],
         \A t \in Thread : \A l \in Level, n \in Nr :
           map'[l][n] = NULL /\ Reserves(t, l, n) => Reserves(t, l, n)'
  PROVE  EntriesOwned'
<1>1. SUFFICES ASSUME NEW l \in Level, NEW n \in Nr
               PROVE  /\ map'[l][n] \in Pid =>
                           /\ map'[l][n] \in Live' /\ l <= level'[map'[l][n]]
                           /\ numbers'[map'[l][n]][l] = n
                      /\ map'[l][n] = NULL => \E t \in Thread : Reserves(t, l, n)'
  BY DEF EntriesOwned
<1>2. /\ map[l][n] \in Pid => /\ map[l][n] \in Live /\ l <= level[map[l][n]]
                              /\ numbers[map[l][n]][l] = n
      /\ map[l][n] = NULL => \E t \in Thread : Reserves(t, l, n)
  BY DEF Inv, EntriesOwned
<1>3. map'[l][n] \in Pid \cup {NULL} => map'[l][n] = map[l][n]
  BY PidAssumption
<1>4. QED
  BY <1>2, <1>3

(* Every step keeps the entries of the index owned.                        *)
LEMMA EntriesOwnedStep ==
  ASSUME Inv, [Next]_vars
  PROVE  EntriesOwned'
<1>0. TypeOK
  BY DEF Inv
<1>1. ASSUME \A l \in Level : map'[l] = map[l] \/ map'[l] = NoEntries
      PROVE  \A l \in Level, n \in Nr : map'[l][n] = map[l][n] \/ map'[l][n] = ABSENT
  BY <1>1 DEF NoEntries
<1>2. ASSUME SamePids, \A l \in Level : map'[l] = map[l] \/ map'[l] = NoEntries
      PROVE  EntriesOwned'
  <2>1. UNCHANGED <<state, level, numbers, th>>
    BY <1>2 DEF SamePids
  <2>2. Live' = Live /\ \A t \in Thread : \A l \in Level, n \in Nr : Reserves(t, l, n)' <=> Reserves(t, l, n)
    BY <2>1 DEF Live, Reserves
  <2>3. QED
    BY <1>1, <1>2, <2>1, <2>2, OwnedFrame
<1>3. ASSUME \/ \E l \in Level : \/ create_pid_namespace(l) \/ PutNsproxy(l)
                                 \/ proc_cleanup_work(l) \/ ZapStart(l) \/ ZapStep(l)
             \/ \E l \in Level, n \in LastPidWrites : pid_ns_ctl_handler(l, n)
             \/ \E t \in Reader, l \in Level, n \in Nr : find_vpid(t, l, n)
             \/ \E t \in Reader : get_pid(t)
             \/ UNCHANGED vars
      PROVE  \A l \in Level : map'[l] = map[l] \/ map'[l] = NoEntries
  <2>1. ASSUME NEW l \in Level, create_pid_namespace(l)
        PROVE  \A j \in Level : map'[j] = map[j] \/ map'[j] = NoEntries
    BY <1>0, <2>1 DEF create_pid_namespace, TypeOK
  <2>2. ASSUME NEW l \in Level, PutNsproxy(l) \/ proc_cleanup_work(l)
        PROVE  \A j \in Level : map'[j] = map[j] \/ map'[j] = NoEntries
    BY <2>2, PutNsBase
  <2>3. ASSUME \/ \E l \in Level : ZapStart(l) \/ ZapStep(l)
               \/ \E l \in Level, n \in LastPidWrites : pid_ns_ctl_handler(l, n)
               \/ \E t \in Reader, l \in Level, n \in Nr : find_vpid(t, l, n)
               \/ \E t \in Reader : get_pid(t)
               \/ UNCHANGED vars
        PROVE  UNCHANGED map
    BY <2>3 DEF ZapStart, ZapStep, ZapSignal, ZapPrepareToSleep, ZapDone, ZapSleep,
               ZapWake, ZapMoves, pid_ns_ctl_handler, find_vpid, get_pid, vars
  <2>4. QED
    BY <1>3, <2>1, <2>2, <2>3
<1>4. ASSUME NEW t \in Thread, NEW c \in Pid, NEW l \in Level, alloc_pid(t, c, l)
      PROVE  EntriesOwned'
  <2>1. PICK p \in Pid :
           /\ state[p] = "free"
           /\ \A q \in Pid \ {p} : state'[q] = state[q] /\ level'[q] = level[q]
           /\ th[t].pc = "idle" /\ \A u \in Thread \ {t} : th'[u] = th[u]
    BY <1>4, AllocEffect
  <2>2. UNCHANGED <<map, numbers>>
    BY <1>4 DEF alloc_pid
  <2>3. \A q \in Live : q \in Live' /\ level'[q] = level[q]
    BY <2>1 DEF Live
  <2>4. \A u \in Thread : \A j \in Level, n \in Nr : Reserves(u, j, n) => Reserves(u, j, n)'
    BY <2>1, <2>2 DEF Reserves
  <2>5. QED
    BY <2>2, <2>3, <2>4, OwnedFrame
<1>5. ASSUME NEW t \in Thread, Reserve(t) PROVE EntriesOwned'
  <2>1. PICK p \in Pid, l \in Level, n \in Nr :
           /\ p = th[t].pid /\ l = th[t].i /\ l <= th[t].ns /\ state[p] = "new"
           /\ map'[l][n] = NULL
           /\ \A j \in Level, m \in Nr : j # l \/ m # n => map'[j][m] = map[j][m]
           /\ numbers'[p][l] = n
           /\ \A j \in Level \ {l} : numbers'[p][j] = numbers[p][j]
           /\ \A q \in Pid \ {p} : numbers'[q] = numbers[q]
    BY <1>5, ReserveEffect
  <2>2. /\ SameCall(t) /\ th[t].pc = "reserve" /\ th'[t].pid = th[t].pid
        /\ th'[t].i = th[t].i - 1 /\ th'[t].pc \in {"reserve", "prepare"}
    BY <1>5, ReserveLocals
  <2>3. UNCHANGED <<state, level>>
    BY <1>5 DEF Reserve
  <2>4. PICK k \in Level : k = th[t].ns
    BY <1>0, ThreadFields
  <2>5. Reserves(t, l, n)'
    <3>1. th'[t].pid = p /\ th'[t].i = l - 1 /\ th'[t].ns = k
      BY <2>1, <2>2, <2>4 DEF SameCall
    <3>2. l \in l - 1 + 1 .. k
      BY <2>1, <2>4, Ranges
    <3>3. QED
      BY <2>1, <2>2, <3>1, <3>2 DEF Reserves
  <2>6. ASSUME NEW u \in Thread, NEW j \in Level, NEW m \in Nr, Reserves(u, j, m)
        PROVE  Reserves(u, j, m)'
    <3>1. CASE u = t
      <4>1. j \in l + 1 .. k /\ numbers[p][j] = m
        BY <2>1, <2>4, <2>6, <3>1 DEF Reserves
      <4>2. j \in l - 1 + 1 .. k /\ j # l
        BY <4>1, Ranges
      <4>3. th'[t].pid = p /\ th'[t].i = l - 1 /\ th'[t].ns = k
        BY <2>1, <2>2, <2>4 DEF SameCall
      <4>4. QED
        BY <2>1, <2>2, <3>1, <4>1, <4>2, <4>3 DEF Reserves
    <3>2. CASE u # t
      <4>1. th'[u] = th[u] /\ th[u].pid \in Pid
        BY <2>2, <2>6, <3>2 DEF SameCall, Reserves, Inv, ThreadInv, CallInv, Reserving
      <4>2. th[u].pid # p
        BY <2>1, <3>2, <4>1, OwnPid, PidAssumption
      <4>3. QED
        BY <2>1, <2>6, <4>1, <4>2 DEF Reserves
    <3>3. QED
      BY <3>1, <3>2
  <2>7. SUFFICES ASSUME NEW j \in Level, NEW m \in Nr
                 PROVE  /\ map'[j][m] \in Pid =>
                           /\ map'[j][m] \in Live' /\ j <= level'[map'[j][m]]
                           /\ numbers'[map'[j][m]][j] = m
                        /\ map'[j][m] = NULL => \E u \in Thread : Reserves(u, j, m)'
    BY DEF EntriesOwned
  <2>8. CASE j = l /\ m = n
    BY <2>1, <2>5, <2>8, PidAssumption
  <2>9. CASE j # l \/ m # n
    <3>1. map'[j][m] = map[j][m]
      BY <2>1, <2>9
    <3>2. /\ map[j][m] \in Pid => /\ map[j][m] \in Live /\ j <= level[map[j][m]]
                                  /\ numbers[map[j][m]][j] = m
          /\ map[j][m] = NULL => \E u \in Thread : Reserves(u, j, m)
      BY DEF Inv, EntriesOwned
    <3>3. Live' = Live /\ p \notin Live
      BY <2>1, <2>3 DEF Live
    <3>4. map[j][m] \in Pid => numbers'[map[j][m]] = numbers[map[j][m]]
      BY <2>1, <3>2, <3>3
    <3>5. QED
      BY <2>3, <2>6, <3>1, <3>2, <3>3, <3>4
  <2>10. QED
    BY <2>8, <2>9
<1>6. ASSUME NEW t \in Thread, SameCall(t), UNCHANGED <<state, level, numbers>>,
             th'[t].pid = th[t].pid, th'[t].i = th[t].i,
             th'[t].pc \in {"publish", "out_free"},
             \A l \in Level : map'[l] = map[l] \/ map'[l] = NoEntries
      PROVE  EntriesOwned'
  <2>1. \A u \in Thread : \A l \in Level, n \in Nr : Reserves(u, l, n) => Reserves(u, l, n)'
    BY <1>6 DEF Reserves, SameCall
  <2>2. Live' = Live
    BY <1>6 DEF Live
  <2>3. QED
    BY <1>1, <1>6, <2>1, <2>2, OwnedFrame
<1>7. ASSUME NEW t \in Thread, ReserveFails(t) \/ Prepare(t) \/ PrepareFails(t) \/ PublishRefused(t)
      PROVE  EntriesOwned'
  <2>1. /\ SameCall(t) /\ th'[t].pid = th[t].pid /\ th'[t].i = th[t].i
        /\ th'[t].pc \in {"publish", "out_free"}
    BY <1>0, <1>7, ReserveFailsLocals, MoveLocals DEF Prepare, PrepareFails, PublishRefused
  <2>2. UNCHANGED <<state, level, numbers>>
    BY <1>7 DEF ReserveFails, Prepare, PrepareFails, PublishRefused
  <2>3. \A l \in Level : map'[l] = map[l] \/ map'[l] = NoEntries
    BY <1>7, RefusedBase DEF ReserveFails, Prepare, PrepareFails
  <2>4. QED
    BY <1>6, <2>1, <2>2, <2>3
<1>8. ASSUME NEW t \in Thread, Publish(t) PROVE EntriesOwned'
  <2>1. PICK p \in Pid : p = th[t].pid
    BY <1>8, PublishEffect
  <2>2. /\ state[p] = "new" /\ level[p] = th[t].ns /\ th[t].i = -1
        /\ SameCall(t)
        /\ state' = [state EXCEPT ![p] = "published"]
        /\ \A l \in Level : ~(l <= level[p]) => map'[l] = map[l]
        /\ \A l \in Level, n \in Nr : l <= level[p] =>
              /\ n # numbers[p][l] => map'[l][n] = map[l][n]
              /\ n = numbers[p][l] => map'[l][n] \in {p, ABSENT}
    BY <1>8, <2>1, PublishEffect
  <2>3. UNCHANGED <<level, numbers>>
    BY <1>8 DEF Publish
  <2>4. Live' = Live \cup {p}
    BY <1>0, <2>2 DEF TypeOK, Live
  <2>5. SUFFICES ASSUME NEW j \in Level, NEW m \in Nr
                 PROVE  /\ map'[j][m] \in Pid =>
                           /\ map'[j][m] \in Live' /\ j <= level'[map'[j][m]]
                           /\ numbers'[map'[j][m]][j] = m
                        /\ map'[j][m] = NULL => \E u \in Thread : Reserves(u, j, m)'
    BY DEF EntriesOwned
  <2>6. CASE j <= level[p] /\ m = numbers[p][j]
    <3>1. map'[j][m] = p \/ map'[j][m] = ABSENT
      BY <2>2, <2>6
    <3>2. QED
      BY <2>3, <2>4, <2>6, <3>1, PidAssumption
  <2>7. CASE ~(j <= level[p] /\ m = numbers[p][j])
    <3>1. map'[j][m] = map[j][m]
      BY <2>2, <2>7
    <3>2. /\ map[j][m] \in Pid => /\ map[j][m] \in Live /\ j <= level[map[j][m]]
                                  /\ numbers[map[j][m]][j] = m
          /\ map[j][m] = NULL => \E u \in Thread : Reserves(u, j, m)
      BY DEF Inv, EntriesOwned
    <3>3. ASSUME NEW u \in Thread, Reserves(u, j, m) PROVE Reserves(u, j, m)'
      <4>1. u # t
        <5>1. SUFFICES ASSUME u = t PROVE FALSE
          OBVIOUS
        <5>2. j \in 0 .. level[p] /\ m = numbers[p][j]
          BY <2>1, <2>2, <3>3, <5>1 DEF Reserves
        <5>3. level[p] \in Nat
          BY <1>0, Ranges DEF TypeOK
        <5>4. QED
          BY <2>7, <5>2, <5>3
      <4>2. QED
        BY <2>2, <2>3, <3>3, <4>1 DEF SameCall, Reserves
    <3>4. QED
      BY <2>3, <2>4, <3>1, <3>2, <3>3
  <2>8. QED
    BY <2>6, <2>7
<1>9. ASSUME NEW t \in Thread, OutFree(t) PROVE EntriesOwned'
  <2>1. PICK p \in Pid :
           /\ p = th[t].pid /\ state[p] = "new" /\ SameCall(t) /\ state'[p] = "free"
           /\ \A q \in Pid \ {p} : /\ state'[q] = state[q] /\ level'[q] = level[q]
                                   /\ numbers'[q] = numbers[q]
           /\ \A l \in Level, n \in Nr :
                map'[l][n] = IF n = numbers[p][l] THEN ABSENT ELSE map[l][n]
    BY <1>9, OutFreeEffect
  <2>2. \A q \in Live : q # p /\ q \in Live'
    BY <2>1 DEF Live
  <2>3. ASSUME NEW u \in Thread, NEW j \in Level, NEW m \in Nr, map'[j][m] = NULL,
               Reserves(u, j, m)
        PROVE  Reserves(u, j, m)'
    <3>1. m # numbers[p][j]
      BY <2>1, <2>3, PidAssumption
    <3>2. u # t
      BY <2>1, <2>3, <3>1 DEF Reserves
    <3>3. th'[u] = th[u] /\ th[u].pid \in Pid
      BY <2>1, <2>3, <3>2 DEF SameCall, Reserves, Inv, ThreadInv, CallInv, Reserving
    <3>4. th[u].pid # p
      BY <2>1, <3>2, <3>3, OwnPid, PidAssumption
    <3>5. QED
      BY <2>1, <2>3, <3>3, <3>4 DEF Reserves
  <2>4. QED
    BY <2>1, <2>2, <2>3, OwnedFrame DEF Live
<1>10. ASSUME NEW t \in Thread, ReturnError(t) \/ AttachTask(t) PROVE EntriesOwned'
  <2>1. /\ th'[t].pc = "idle" /\ \A u \in Thread \ {t} : th'[u] = th[u]
        /\ th[t].pc \in {"failed", "copy_process"}
    BY <1>0, <1>10, IdleLocals DEF ReturnError, AttachTask
  <2>2. UNCHANGED <<map, level, numbers>>
    BY <1>10 DEF ReturnError, AttachTask
  <2>3. \A q \in Live : q \in Live'
    BY <1>0, <1>10 DEF ReturnError, AttachTask, TypeOK, Live
  <2>4. \A u \in Thread : \A j \in Level, n \in Nr : Reserves(u, j, n) => Reserves(u, j, n)'
    BY <2>1, <2>2 DEF Reserves
  <2>5. QED
    BY <2>2, <2>3, <2>4, OwnedFrame
<1>11. ASSUME (\E t \in Thread : ForkFails(t)) \/ (\E p \in Pid : Exit(p)) PROVE EntriesOwned'
  <2>1. PICK p \in Live :
           /\ p \in Pid /\ \A q \in Pid \ {p} : state'[q] = state[q]
           /\ UNCHANGED <<level, numbers>>
           /\ \A l \in Level, n \in Nr :
                map'[l][n] = IF n = numbers[p][l] THEN ABSENT ELSE map[l][n]
           /\ \/ UNCHANGED th
              \/ \E t \in Thread : th[t].pc = "copy_process" /\ \A u \in Thread \ {t} : th'[u] = th[u]
    BY <1>11, FreePidEffect
  <2>2. \A q \in Live \ {p} : q \in Live'
    BY <2>1 DEF Live
  <2>3. \A u \in Thread : \A j \in Level, n \in Nr : Reserves(u, j, n) => Reserves(u, j, n)'
    BY <2>1 DEF Reserves
  <2>4. \A l \in Level, n \in Nr : map'[l][n] = map[l][n] \/ map'[l][n] = ABSENT
    BY <2>1
  <2>5. \A l \in Level, n \in Nr : \A q \in Live : map'[l][n] = q /\ numbers[q][l] = n =>
           q \in Live' /\ level'[q] = level[q] /\ numbers'[q] = numbers[q]
    BY <2>1, <2>2, PidAssumption DEF Live
  <2>6. QED
    BY <2>3, <2>4, <2>5, OwnedFrame
<1>12. ASSUME (\E p \in Pid : delayed_put_pid(p)) \/ (\E t \in Reader : ReaderPut(t))
       PROVE  EntriesOwned'
  <2>1. \A l \in Level : map'[l] = map[l] \/ map'[l] = NoEntries
    BY <1>12, PutBase
  <2>2. /\ \A q \in Pid : state[q] \notin {"dead", "stale"} =>
              /\ state'[q] = state[q] /\ level'[q] = level[q] /\ numbers'[q] = numbers[q]
        /\ Live' = Live /\ UNCHANGED th
    BY <1>12, PutPidEffect
  <2>3. \A q \in Live : level'[q] = level[q] /\ numbers'[q] = numbers[q]
    BY <2>2 DEF Live
  <2>4. ASSUME NEW u \in Thread, NEW j \in Level, NEW m \in Nr, Reserves(u, j, m)
        PROVE  Reserves(u, j, m)'
    <3>1. th[u].pid \in Pid /\ state[th[u].pid] = "new"
      BY <2>4 DEF Reserves, Inv, ThreadInv, CallInv, Reserving
    <3>2. QED
      BY <2>2, <2>4, <3>1 DEF Reserves
  <2>5. QED
    BY <1>1, <2>1, <2>2, <2>3, <2>4, OwnedFrame
<1>13. QED
  BY <1>2, <1>3, <1>4, <1>5, <1>7, <1>8, <1>9, <1>10, <1>11, <1>12, SamePidsSteps, Kinds
-----------------------------------------------------------------------------
(* A number that was given out once is in the index: IndexInv and          *)
(* IndexedUnlessShared.                                                    *)

(* A step that gives out no number, and leaves alone the indexes of the    *)
(* namespaces in use.                                                      *)
LEMMA IndexFrame ==
  ASSUME Inv,
         \A p \in Pid : p \in Live' \/ state'[p] = "new" =>
           \/ /\ p \in Live \/ state[p] = "new"
              /\ numbers'[p] = numbers[p] /\ (p \in shared => p \in shared')
           \/ numbers'[p] = NoNumbers /\ p \notin Live',
         \A p \in Live' : p \in Live /\ level'[p] = level[p],
         \A t \in Thread : \A l \in Level :
           th'[t].pc \in Reserving /\ l \in th'[t].i + 1 .. th'[t].ns =>
             /\ th[t].pc \in Reserving /\ th'[t].pid = th[t].pid
             /\ l \in th[t].i + 1 .. th[t].ns
             /\ numbers'[th[t].pid] = numbers[th[t].pid]
             /\ (th[t].pid \in shared => th[t].pid \in shared')
             /\ map'[l] = map[l],
         \A p \in Live' : \A l \in 0 .. level[p] : map'[l] = map[l]
  PROVE  IndexInv' /\ IndexedUnlessShared'
<1>1. ASSUME NEW p \in Pid, NEW q \in Pid, NEW l \in Level,
             p # q, numbers'[p][l] # 0, numbers'[p][l] = numbers'[q][l],
             p \in Live' \/ state'[p] = "new", q \in Live' \/ state'[q] = "new"
      PROVE  p \in shared' /\ q \in shared'
  <2>1. numbers'[p] # NoNumbers /\ numbers'[q] # NoNumbers
    BY <1>1 DEF NoNumbers
  <2>2. /\ p \in Live \/ state[p] = "new"
        /\ numbers'[p] = numbers[p] /\ (p \in shared => p \in shared')
        /\ q \in Live \/ state[q] = "new"
        /\ numbers'[q] = numbers[q] /\ (q \in shared => q \in shared')
    BY <1>1, <2>1
  <2>3. QED
    BY <1>1, <2>2 DEF Inv, IndexInv
<1>2. ASSUME NEW t \in Thread, NEW l \in Level, th'[t].pc \in Reserving, th'[t].pid \notin shared',
             l \in th'[t].i + 1 .. th'[t].ns
      PROVE  map'[l][numbers'[th'[t].pid][l]] = NULL
  BY <1>2 DEF Inv, IndexInv
<1>3. ASSUME NEW p \in Live', p \notin shared', NEW l \in 0 .. level'[p]
      PROVE  map'[l][numbers'[p][l]] = p
  <2>1. p \in Pid /\ p \in Live /\ level'[p] = level[p] /\ numbers'[p] = numbers[p] /\ p \notin shared
    BY <1>3 DEF Live
  <2>2. map'[l] = map[l]
    BY <1>3, <2>1
  <2>3. QED
    BY <1>3, <2>1, <2>2 DEF Inv, IndexedUnlessShared
<1>4. IndexInv'
  BY <1>1, <1>2 DEF IndexInv
<1>5. IndexedUnlessShared'
  BY <1>3 DEF IndexedUnlessShared
<1>6. QED
  BY <1>4, <1>5

(* A step that takes the numbers of p out of the index leaves alone those  *)
(* given out once.                                                         *)
LEMMA IndexTaken ==
  ASSUME Inv, NEW p \in Pid, p \in Live \/ state[p] = "new",
         p \notin Live', state'[p] # "new",
         \A q \in Pid \ {p} : /\ state'[q] = state[q] /\ level'[q] = level[q]
                              /\ numbers'[q] = numbers[q] /\ (q \in shared => q \in shared'),
         \A t \in Thread : th'[t] = th[t] \/ th'[t].pc \notin Reserving,
         \A t \in Thread : th[t].pid = p => th'[t].pc \notin Reserving,
         \A l \in Level, n \in Nr :
           map'[l][n] = IF n = numbers[p][l] THEN ABSENT ELSE map[l][n]
  PROVE  IndexInv' /\ IndexedUnlessShared'
<1>0. TypeOK
  BY DEF Inv
<1>1. \A q \in Pid \ {p} : \A l \in Level :
        (q \in Live \/ state[q] = "new") /\ q \notin shared /\ numbers[q][l] # 0 =>
          numbers[q][l] # numbers[p][l]
  BY DEF Inv, IndexInv
<1>2. \A q \in Pid, l \in Level : numbers[q][l] # 0 => numbers[q][l] \in Nr
  BY <1>0, Ranges DEF TypeOK
<1>3. ASSUME NEW q \in Pid, NEW r \in Pid, NEW l \in Level,
             q # r, numbers'[q][l] # 0, numbers'[q][l] = numbers'[r][l],
             q \in Live' \/ state'[q] = "new", r \in Live' \/ state'[r] = "new"
      PROVE  q \in shared' /\ r \in shared'
  <2>1. q # p /\ r # p /\ (q \in Live \/ state[q] = "new") /\ (r \in Live \/ state[r] = "new")
    BY <1>3 DEF Live
  <2>2. QED
    BY <1>3, <2>1 DEF Inv, IndexInv
<1>4. ASSUME NEW t \in Thread, NEW l \in Level, th'[t].pc \in Reserving, th'[t].pid \notin shared',
             l \in th'[t].i + 1 .. th'[t].ns
      PROVE  map'[l][numbers'[th'[t].pid][l]] = NULL
  <2>1. th'[t] = th[t] /\ th[t].pid # p /\ th[t].pid \in Pid /\ state[th[t].pid] = "new"
        /\ numbers[th[t].pid][l] # 0
    BY <1>4 DEF Inv, ThreadInv, CallInv
  <2>2. numbers'[th[t].pid] = numbers[th[t].pid] /\ th[t].pid \notin shared
    BY <1>4, <2>1
  <2>3. map[l][numbers[th[t].pid][l]] = NULL
    BY <1>4, <2>1, <2>2 DEF Inv, IndexInv
  <2>4. numbers[th[t].pid][l] # numbers[p][l] /\ numbers[th[t].pid][l] \in Nr
    BY <1>1, <1>2, <2>1, <2>2
  <2>5. QED
    BY <2>1, <2>2, <2>3, <2>4
<1>5. ASSUME NEW q \in Live', q \notin shared', NEW l \in 0 .. level'[q]
      PROVE  map'[l][numbers'[q][l]] = q
  <2>1. q \in Pid /\ q # p
    BY <1>5 DEF Live
  <2>2. q \in Live /\ level'[q] = level[q] /\ numbers'[q] = numbers[q] /\ q \notin shared
    BY <1>5, <2>1 DEF Live
  <2>3. l \in Level /\ l <= level[q]
    <3>1. level[q] \in Level /\ level[q] \in Nat /\ l \in 0 .. level[q]
      BY <1>0, <1>5, <2>1, <2>2, Ranges DEF TypeOK
    <3>2. QED
      BY <3>1, Ranges
  <2>4. map[l][numbers[q][l]] = q
    BY <1>5, <2>2 DEF Inv, IndexedUnlessShared
  <2>5. numbers[q][l] # 0
    BY <2>1, <2>2, <2>3 DEF Inv, PidInv
  <2>6. numbers[q][l] # numbers[p][l] /\ numbers[q][l] \in Nr
    BY <1>1, <1>2, <2>1, <2>2, <2>3, <2>5
  <2>7. QED
    BY <2>2, <2>3, <2>4, <2>6
<1>6. IndexInv'
  BY <1>3, <1>4 DEF IndexInv
<1>7. IndexedUnlessShared'
  BY <1>5 DEF IndexedUnlessShared
<1>8. QED
  BY <1>6, <1>7

(* Every step keeps the index of the numbers given out once.               *)
LEMMA IndexStep ==
  ASSUME Inv, [Next]_vars, TypeOK', KrefExact', ChainInv', ForkInv', ThreadInv'
  PROVE  IndexInv' /\ IndexedUnlessShared'
<1>0. TypeOK /\ KrefExact /\ ChainInv
  BY DEF Inv
<1>1. ASSUME SamePids,
             \A l \in Level : (Exists(l) => map'[l] = map[l]) \/ (Exists(l)' => map'[l] = map[l])
      PROVE  IndexInv' /\ IndexedUnlessShared'
  <2>1. UNCHANGED <<state, level, numbers, shared, th>> /\ Live' = Live
    BY <1>1 DEF SamePids, Live
  <2>2. ASSUME NEW t \in Thread, NEW l \in Level, th'[t].pc \in Reserving,
               l \in th'[t].i + 1 .. th'[t].ns
        PROVE  map'[l] = map[l]
    <3>1. th[t].pc # "idle" /\ th'[t].pc # "idle" /\ th[t].ns \in Level
      BY <1>0, <2>1, <2>2, ThreadFields DEF Reserving
    <3>2. nsproxy[th[t].ns] /\ nsproxy'[th[t].ns]
      BY <2>1, <3>1 DEF Inv, ForkInv
    <3>3. l \in 0 .. th[t].ns
      BY <1>0, <2>1, <2>2, <3>1, Ranges, ThreadFields
    <3>4. Exists(l) /\ Exists(l)'
      BY <1>0, <3>1, <3>2, <3>3, HeldExists, HeldExistsNext
    <3>5. QED
      BY <1>1, <3>4
  <2>3. ASSUME NEW p \in Live', NEW l \in 0 .. level[p] PROVE map'[l] = map[l]
    <3>1. p \in Live /\ p \in Pid /\ level'[p] = level[p] /\ l \in Level
      BY <1>0, <2>1, Ranges DEF Live, TypeOK
    <3>2. Exists(l) /\ Exists(l)'
      BY <1>0, <3>1, LiveExists, LiveExistsNext
    <3>3. QED
      BY <1>1, <3>1, <3>2
  <2>4. QED
    BY <2>1, <2>2, <2>3, IndexFrame
<1>2. ASSUME \/ \E l \in Level : \/ create_pid_namespace(l) \/ PutNsproxy(l)
                                 \/ proc_cleanup_work(l) \/ ZapStart(l) \/ ZapStep(l)
             \/ \E l \in Level, n \in LastPidWrites : pid_ns_ctl_handler(l, n)
             \/ \E t \in Reader, l \in Level, n \in Nr : find_vpid(t, l, n)
             \/ \E t \in Reader : get_pid(t)
             \/ UNCHANGED vars
      PROVE  \A l \in Level : (Exists(l) => map'[l] = map[l]) \/ (Exists(l)' => map'[l] = map[l])
  <2>1. ASSUME NEW l \in Level, create_pid_namespace(l)
        PROVE  \A j \in Level : Exists(j) => map'[j] = map[j]
    BY <1>0, <2>1 DEF create_pid_namespace, TypeOK
  <2>2. ASSUME NEW l \in Level, PutNsproxy(l) \/ proc_cleanup_work(l)
        PROVE  \A j \in Level : Exists(j)' => map'[j] = map[j]
    BY <2>2, PutNsBase
  <2>3. ASSUME \/ \E l \in Level : ZapStart(l) \/ ZapStep(l)
               \/ \E l \in Level, n \in LastPidWrites : pid_ns_ctl_handler(l, n)
               \/ \E t \in Reader, l \in Level, n \in Nr : find_vpid(t, l, n)
               \/ \E t \in Reader : get_pid(t)
               \/ UNCHANGED vars
        PROVE  UNCHANGED map
    BY <2>3 DEF ZapStart, ZapStep, ZapSignal, ZapPrepareToSleep, ZapDone, ZapSleep,
               ZapWake, ZapMoves, pid_ns_ctl_handler, find_vpid, get_pid, vars
  <2>4. QED
    BY <1>2, <2>1, <2>2, <2>3
<1>3. ASSUME NEW t \in Thread, NEW c \in Pid, NEW l \in Level, alloc_pid(t, c, l)
      PROVE  IndexInv' /\ IndexedUnlessShared'
  <2>1. PICK p \in Pid :
           /\ state[p] = "free" /\ state'[p] = "new"
           /\ \A q \in Pid \ {p} : state'[q] = state[q] /\ level'[q] = level[q]
           /\ th'[t].ns = l /\ th'[t].i = l /\ \A u \in Thread \ {t} : th'[u] = th[u]
    BY <1>3, AllocEffect
  <2>2. UNCHANGED <<map, numbers, shared>> /\ numbers[p] = NoNumbers
    BY <1>3, <2>1 DEF alloc_pid, Inv, PidInv
  <2>3. Live' = Live /\ p \notin Live /\ \A q \in Live : level'[q] = level[q]
    BY <2>1 DEF Live
  <2>4. \A j \in Level : j \notin l + 1 .. l
    BY Ranges
  <2>5. \A u \in Thread : \A j \in Level :
           th'[u].pc \in Reserving /\ j \in th'[u].i + 1 .. th'[u].ns => u # t
    BY <2>1, <2>4
  <2>6. \A q \in Pid : q \in Live' \/ state'[q] = "new" =>
           \/ q \in Live \/ state[q] = "new"
           \/ numbers'[q] = NoNumbers /\ q \notin Live'
    BY <2>1, <2>2, <2>3
  <2>7. QED
    BY <2>1, <2>2, <2>3, <2>5, <2>6, IndexFrame
<1>4. ASSUME NEW t \in Thread, Reserve(t) PROVE IndexInv' /\ IndexedUnlessShared'
  <2>1. PICK p \in Pid, l \in Level, n \in Nr :
           /\ p = th[t].pid /\ l = th[t].i /\ l <= th[t].ns /\ state[p] = "new"
           /\ numbers[p][l] = 0
           /\ map[l][n] \in {ABSENT, NULL} /\ map'[l][n] = NULL
           /\ \A j \in Level, m \in Nr : j # l \/ m # n => map'[j][m] = map[j][m]
           /\ numbers'[p][l] = n
           /\ \A j \in Level \ {l} : numbers'[p][j] = numbers[p][j]
           /\ \A q \in Pid \ {p} : numbers'[q] = numbers[q]
           /\ shared' = IF Holders(l, n) = {} THEN shared
                        ELSE shared \cup Holders(l, n) \cup {p}
    BY <1>4, ReserveEffect
  <2>2. /\ SameCall(t) /\ th[t].pc = "reserve" /\ th'[t].pid = th[t].pid
        /\ th'[t].i = th[t].i - 1
    BY <1>4, ReserveLocals
  <2>3. UNCHANGED <<state, level>> /\ Live' = Live
    BY <1>4 DEF Reserve, Live
  <2>4. shared \subseteq shared'
    BY <2>1
  <2>5. ASSUME NEW q \in Pid, q # p, numbers[q][l] = n, q \in Live \/ state[q] = "new"
        PROVE  q \in shared' /\ p \in shared'
    <3>1. q \in Holders(l, n)
      BY <2>5 DEF Holders, Live
    <3>2. QED
      BY <2>1, <3>1
  <2>6. ASSUME NEW q \in Pid, NEW r \in Pid, NEW j \in Level,
               q # r, numbers'[q][j] # 0, numbers'[q][j] = numbers'[r][j],
               q \in Live' \/ state'[q] = "new", r \in Live' \/ state'[r] = "new"
        PROVE  q \in shared' /\ r \in shared'
    <3>0. /\ q \in Live \/ state[q] = "new"
          /\ r \in Live \/ state[r] = "new"
      BY <2>3, <2>6
    <3>1. CASE j = l /\ q = p
      <4>1. numbers[r][l] = n
        BY <2>1, <2>6, <3>1
      <4>2. QED
        BY <2>5, <2>6, <3>0, <3>1, <4>1
    <3>2. CASE j = l /\ r = p
      <4>1. numbers[q][l] = n
        BY <2>1, <2>6, <3>2
      <4>2. QED
        BY <2>5, <2>6, <3>0, <3>2, <4>1
    <3>3. CASE j # l \/ (q # p /\ r # p)
      <4>1. numbers'[q][j] = numbers[q][j] /\ numbers'[r][j] = numbers[r][j]
        BY <2>1, <3>3
      <4>2. q \in shared /\ r \in shared
        BY <2>6, <3>0, <4>1 DEF Inv, IndexInv
      <4>3. QED
        BY <2>4, <4>2
    <3>4. QED
      BY <3>1, <3>2, <3>3
  <2>7. \A j \in Level, m \in Nr : map[j][m] = NULL => map'[j][m] = NULL
    BY <2>1
  <2>8. ASSUME NEW u \in Thread, NEW j \in Level, th'[u].pc \in Reserving,
               th'[u].pid \notin shared', j \in th'[u].i + 1 .. th'[u].ns
        PROVE  map'[j][numbers'[th'[u].pid][j]] = NULL
    <3>1. CASE u = t /\ j = l
      BY <2>1, <2>2, <3>1
    <3>2. CASE u # t \/ j # l
      <4>1. /\ th[u].pc \in Reserving /\ th'[u].pid = th[u].pid
            /\ j \in th[u].i + 1 .. th[u].ns
        <5>1. CASE u # t
          BY <2>2, <2>8, <5>1 DEF SameCall
        <5>2. CASE u = t
          <6>1. th'[t].ns = th[t].ns /\ th'[t].i = l - 1 /\ j \in l - 1 + 1 .. th[t].ns /\ j # l
            BY <2>1, <2>2, <2>8, <3>2, <5>2 DEF SameCall
          <6>2. th[t].ns \in Nat /\ l \in Nat /\ j \in Nat
            BY <1>0, ThreadFields, Ranges
          <6>3. j \in l + 1 .. th[t].ns
            BY <6>1, <6>2
          <6>4. QED
            BY <2>1, <2>2, <5>2, <6>3 DEF Reserving
        <5>3. QED
          BY <5>1, <5>2
      <4>2. th[u].pid \in Pid /\ th[u].pid \notin shared /\ numbers[th[u].pid][j] # 0
        BY <2>4, <2>8, <4>1 DEF Inv, ThreadInv, CallInv
      <4>3. numbers'[th[u].pid][j] = numbers[th[u].pid][j]
        <5>1. CASE u = t
          BY <2>1, <3>2, <5>1
        <5>2. CASE u # t
          <6>1. th[u].pid # p
            BY <2>1, <4>2, <5>2, OwnPid, PidAssumption
          <6>2. QED
            BY <2>1, <4>2, <6>1
        <5>3. QED
          BY <5>1, <5>2
      <4>4. map[j][numbers[th[u].pid][j]] = NULL
        BY <4>1, <4>2 DEF Inv, IndexInv
      <4>5. numbers[th[u].pid][j] \in Nr
        BY <1>0, <4>2, Ranges DEF TypeOK
      <4>6. QED
        BY <2>7, <4>1, <4>3, <4>4, <4>5
    <3>3. QED
      BY <3>1, <3>2
  <2>9. ASSUME NEW q \in Live', q \notin shared', NEW j \in 0 .. level'[q]
        PROVE  map'[j][numbers'[q][j]] = q
    <3>1. q \in Live /\ q \in Pid /\ q # p /\ q \notin shared /\ level'[q] = level[q] /\ j \in Level
      BY <1>0, <2>1, <2>3, <2>4, <2>9, Ranges DEF Live, TypeOK
    <3>2. map[j][numbers[q][j]] = q /\ numbers'[q] = numbers[q]
      BY <2>1, <2>9, <3>1 DEF Inv, IndexedUnlessShared
    <3>3. numbers[q][j] \in Nr
      <4>1. j <= level[q]
        BY <1>0, <2>9, <3>1, Ranges DEF TypeOK
      <4>2. numbers[q][j] # 0
        BY <3>1, <4>1 DEF Inv, PidInv
      <4>3. QED
        BY <1>0, <3>1, <4>2, Ranges DEF TypeOK
    <3>4. ~(j = l /\ numbers[q][j] = n)
      BY <2>1, <3>1, <3>2, PidAssumption
    <3>5. QED
      BY <2>1, <3>1, <3>2, <3>3, <3>4
  <2>10. IndexInv'
    BY <2>6, <2>8 DEF IndexInv
  <2>11. IndexedUnlessShared'
    BY <2>9 DEF IndexedUnlessShared
  <2>12. QED
    BY <2>10, <2>11
<1>5. ASSUME NEW t \in Thread, SameCall(t), UNCHANGED <<state, level, numbers, shared>>,
             th'[t].pid = th[t].pid, th'[t].i = th[t].i, th[t].pc \in Reserving,
             \A l \in Level : Exists(l)' => map'[l] = map[l]
      PROVE  IndexInv' /\ IndexedUnlessShared'
  <2>1. Live' = Live
    BY <1>5 DEF Live
  <2>2. ASSUME NEW u \in Thread, NEW l \in Level, th'[u].pc \in Reserving,
               l \in th'[u].i + 1 .. th'[u].ns
        PROVE  /\ th[u].pc \in Reserving /\ th'[u].pid = th[u].pid
               /\ l \in th[u].i + 1 .. th[u].ns
               /\ map'[l] = map[l]
    <3>1. /\ th[u].pc \in Reserving /\ th'[u].pid = th[u].pid
          /\ l \in th[u].i + 1 .. th[u].ns /\ th'[u].pc # "idle" /\ th'[u].ns = th[u].ns
      BY <1>5, <2>2 DEF SameCall, Reserving
    <3>2. nsproxy'[th[u].ns] /\ th[u].ns \in Level
      BY <1>0, <3>1, ThreadFields DEF ForkInv
    <3>3. l \in 0 .. th[u].ns
      BY <1>0, <3>1, Ranges, ThreadFields
    <3>4. Exists(l)'
      BY <3>2, <3>3, HeldExistsNext
    <3>5. QED
      BY <1>5, <3>1, <3>4
  <2>3. ASSUME NEW p \in Live', NEW l \in 0 .. level[p] PROVE map'[l] = map[l]
    <3>1. p \in Live /\ p \in Pid /\ level'[p] = level[p] /\ l \in Level
      BY <1>0, <1>5, <2>1, Ranges DEF Live, TypeOK
    <3>2. Exists(l)'
      BY <3>1, LiveExistsNext
    <3>3. QED
      BY <1>5, <3>1, <3>2
  <2>4. QED
    BY <1>5, <2>1, <2>2, <2>3, IndexFrame
<1>6. ASSUME NEW t \in Thread, ReserveFails(t) \/ Prepare(t) \/ PrepareFails(t) \/ PublishRefused(t)
      PROVE  IndexInv' /\ IndexedUnlessShared'
  <2>1. /\ SameCall(t) /\ th'[t].pid = th[t].pid /\ th'[t].i = th[t].i
    BY <1>0, <1>6, ReserveFailsLocals, MoveLocals DEF Prepare, PrepareFails, PublishRefused
  <2>2. UNCHANGED <<state, level, numbers, shared>> /\ th[t].pc \in Reserving
    BY <1>6 DEF ReserveFails, Prepare, PrepareFails, PublishRefused, Reserving
  <2>3. \A l \in Level : Exists(l)' => map'[l] = map[l]
    BY <1>6, RefusedBase DEF ReserveFails, Prepare, PrepareFails
  <2>4. QED
    BY <1>5, <2>1, <2>2, <2>3
<1>7. ASSUME NEW t \in Thread, Publish(t) PROVE IndexInv' /\ IndexedUnlessShared'
  <2>1. PICK p \in Pid : p = th[t].pid
    BY <1>7, PublishEffect
  <2>2. /\ state[p] = "new" /\ level[p] = th[t].ns /\ th[t].i = -1 /\ th[t].pc = "publish"
        /\ SameCall(t) /\ th'[t].pc = "copy_process"
        /\ state' = [state EXCEPT ![p] = "published"]
        /\ \A l \in Level : ~(l <= level[p]) => map'[l] = map[l]
        /\ \A l \in Level, n \in Nr : l <= level[p] =>
              /\ n # numbers[p][l] => map'[l][n] = map[l][n]
              /\ n = numbers[p][l] =>
                   map'[l][n] = p \/ (map'[l][n] = ABSENT /\ map[l][n] = ABSENT)
    BY <1>7, <2>1, PublishEffect
  <2>3. UNCHANGED <<level, numbers, shared>>
    BY <1>7 DEF Publish
  <2>4. Live' = Live \cup {p} /\ state'[p] = "published" /\ \A q \in Pid \ {p} : state'[q] = state[q]
    BY <1>0, <2>2 DEF TypeOK, Live
  <2>5. \A q \in Pid \ {p} : \A l \in Level :
          (q \in Live \/ state[q] = "new") /\ q \notin shared /\ numbers[q][l] # 0 =>
            /\ numbers[q][l] \in Nr
            /\ map'[l][numbers[q][l]] = map[l][numbers[q][l]]
    <3>1. \A q \in Pid \ {p} : \A l \in Level :
            (q \in Live \/ state[q] = "new") /\ q \notin shared /\ numbers[q][l] # 0 =>
               numbers[q][l] # numbers[p][l]
      BY <2>2 DEF Inv, IndexInv
    <3>2. \A q \in Pid, l \in Level : numbers[q][l] # 0 => numbers[q][l] \in Nr
      BY <1>0, Ranges DEF TypeOK
    <3>3. QED
      BY <2>2, <3>1, <3>2
  <2>6. ASSUME NEW q \in Pid, NEW r \in Pid, NEW j \in Level,
               q # r, numbers'[q][j] # 0, numbers'[q][j] = numbers'[r][j],
               q \in Live' \/ state'[q] = "new", r \in Live' \/ state'[r] = "new"
        PROVE  q \in shared' /\ r \in shared'
    <3>1. (q \in Live \/ state[q] = "new") /\ (r \in Live \/ state[r] = "new")
      BY <2>2, <2>4, <2>6
    <3>2. QED
      BY <2>3, <2>6, <3>1 DEF Inv, IndexInv
  <2>7. ASSUME NEW u \in Thread, NEW j \in Level, th'[u].pc \in Reserving,
               th'[u].pid \notin shared', j \in th'[u].i + 1 .. th'[u].ns
        PROVE  map'[j][numbers'[th'[u].pid][j]] = NULL
    <3>1. u # t /\ th'[u] = th[u]
      BY <2>2, <2>7 DEF SameCall, Reserving
    <3>2. th[u].pid \in Pid /\ state[th[u].pid] = "new" /\ numbers[th[u].pid][j] # 0
      BY <2>7, <3>1 DEF Inv, ThreadInv, CallInv
    <3>3. th[u].pid # p
      BY <2>1, <3>1, <3>2, OwnPid, PidAssumption
    <3>4. map[j][numbers[th[u].pid][j]] = NULL /\ th[u].pid \notin shared
      BY <2>3, <2>7, <3>1 DEF Inv, IndexInv
    <3>5. QED
      BY <2>3, <2>5, <3>1, <3>2, <3>3, <3>4
  <2>8. ASSUME NEW q \in Live', q \notin shared', NEW j \in 0 .. level'[q]
        PROVE  map'[j][numbers'[q][j]] = q
    <3>0. q \in Pid /\ level[q] \in Level /\ level[q] \in Nat /\ j \in 0 .. level[q]
      BY <1>0, <2>3, <2>8, Ranges DEF Live, TypeOK
    <3>1. j \in Level /\ j <= level[q] /\ j \in Nat
      BY <3>0, Ranges
    <3>2. CASE q = p
      <4>1. j \in th[t].i + 1 .. th[t].ns
        BY <2>2, <3>0, <3>2
      <4>2. map[j][numbers[p][j]] = NULL /\ numbers[p][j] # 0
        BY <2>1, <2>2, <2>3, <2>8, <3>1, <3>2, <4>1
           DEF Inv, IndexInv, Reserving, ThreadInv, CallInv
      <4>3. numbers[p][j] \in Nr
        BY <1>0, <3>1, <4>2, Ranges DEF TypeOK
      <4>4. QED
        BY <2>2, <2>3, <3>1, <3>2, <4>2, <4>3, PidAssumption
    <3>3. CASE q # p
      <4>1. q \in Live /\ q \notin shared
        BY <2>3, <2>4, <2>8, <3>3
      <4>2. map[j][numbers[q][j]] = q
        BY <3>0, <4>1 DEF Inv, IndexedUnlessShared
      <4>3. numbers[q][j] # 0
        BY <3>0, <3>1, <4>1 DEF Inv, PidInv
      <4>4. QED
        BY <2>3, <2>5, <3>0, <3>1, <3>3, <4>1, <4>2, <4>3
    <3>4. QED
      BY <3>2, <3>3
  <2>9. IndexInv'
    BY <2>6, <2>7 DEF IndexInv
  <2>10. IndexedUnlessShared'
    BY <2>8 DEF IndexedUnlessShared
  <2>11. QED
    BY <2>9, <2>10
<1>8. ASSUME NEW t \in Thread, OutFree(t) PROVE IndexInv' /\ IndexedUnlessShared'
  <2>1. PICK p \in Pid :
           /\ p = th[t].pid /\ state[p] = "new" /\ SameCall(t) /\ th'[t].pc = "failed"
           /\ state'[p] = "free" /\ shared' = shared \ {p}
           /\ \A q \in Pid \ {p} : /\ state'[q] = state[q] /\ level'[q] = level[q]
                                   /\ numbers'[q] = numbers[q]
           /\ \A l \in Level, n \in Nr :
                map'[l][n] = IF n = numbers[p][l] THEN ABSENT ELSE map[l][n]
    BY <1>8, OutFreeEffect
  <2>2. p \notin Live'
    BY <2>1 DEF Live
  <2>3. \A u \in Thread : th'[u] = th[u] \/ th'[u].pc \notin Reserving
    BY <2>1 DEF SameCall, Reserving
  <2>4. \A u \in Thread : th[u].pid = p => th'[u].pc \notin Reserving
    <3>1. \A u \in Thread : th[u].pid = p => u = t
      BY <2>1, OwnPid, PidAssumption
    <3>2. QED
      BY <2>1, <3>1 DEF Reserving
  <2>5. QED
    BY <2>1, <2>2, <2>3, <2>4, IndexTaken
<1>9. ASSUME NEW t \in Thread, ReturnError(t) \/ AttachTask(t)
      PROVE  IndexInv' /\ IndexedUnlessShared'
  <2>1. /\ th'[t].pc = "idle" /\ \A u \in Thread \ {t} : th'[u] = th[u]
    BY <1>0, <1>9, IdleLocals DEF ReturnError, AttachTask
  <2>2. UNCHANGED <<map, level, numbers, shared>>
    BY <1>9 DEF ReturnError, AttachTask
  <2>3. Live' = Live /\ \A q \in Pid : state'[q] = "new" => state[q] = "new"
    <3>1. CASE ReturnError(t)
      BY <3>1 DEF ReturnError, Live
    <3>2. CASE AttachTask(t)
      <4>1. th[t].pid \in Pid /\ state[th[t].pid] = "published"
            /\ state' = [state EXCEPT ![th[t].pid] = "attached"]
        BY <3>2 DEF AttachTask, Inv, ThreadInv, CallInv
      <4>2. QED
        BY <1>0, <4>1 DEF TypeOK, Live
    <3>3. QED
      BY <1>9, <3>1, <3>2
  <2>4. \A u \in Thread : th'[u].pc \in Reserving => th'[u] = th[u]
    BY <2>1 DEF Reserving
  <2>5. QED
    BY <2>2, <2>3, <2>4, IndexFrame
<1>10. ASSUME (\E t \in Thread : ForkFails(t)) \/ (\E p \in Pid : Exit(p))
       PROVE  IndexInv' /\ IndexedUnlessShared'
  <2>1. PICK p \in Live :
           /\ p \in Pid /\ state'[p] = "dead" /\ \A q \in Pid \ {p} : state'[q] = state[q]
           /\ UNCHANGED <<level, numbers, shared>>
           /\ \A l \in Level, n \in Nr :
                map'[l][n] = IF n = numbers[p][l] THEN ABSENT ELSE map[l][n]
           /\ \/ UNCHANGED th
              \/ \E t \in Thread : th'[t].pc = "idle" /\ \A u \in Thread \ {t} : th'[u] = th[u]
    BY <1>10, FreePidEffect
  <2>2. p \notin Live'
    BY <2>1 DEF Live
  <2>3. \A u \in Thread : th'[u] = th[u] \/ th'[u].pc \notin Reserving
    BY <2>1 DEF Reserving
  <2>4. \A u \in Thread : th[u].pid = p => th'[u].pc \notin Reserving
    <3>1. \A u \in Thread : th[u].pc \in Reserving => th[u].pid \notin Live
      BY DEF Inv, ThreadInv, CallInv, Live
    <3>2. QED
      BY <2>1, <2>3, <3>1
  <2>5. QED
    BY <2>1, <2>2, <2>3, <2>4, IndexTaken
<1>11. ASSUME (\E p \in Pid : delayed_put_pid(p)) \/ (\E t \in Reader : ReaderPut(t))
       PROVE  IndexInv' /\ IndexedUnlessShared'
  <2>1. \A l \in Level : Exists(l)' => map'[l] = map[l]
    BY <1>11, PutBase
  <2>2. /\ \A q \in Pid : state[q] \notin {"dead", "stale"} =>
              /\ state'[q] = state[q] /\ level'[q] = level[q] /\ numbers'[q] = numbers[q]
              /\ q \in shared => q \in shared'
        /\ \A q \in Pid : state[q] \in {"dead", "stale"} => state'[q] \in {"dead", "stale", "free"}
        /\ Live' = Live /\ UNCHANGED th
    BY <1>11, PutPidEffect
  <2>3. \A q \in Pid : q \in Live' \/ state'[q] = "new" =>
           /\ q \in Live \/ state[q] = "new"
           /\ numbers'[q] = numbers[q] /\ level'[q] = level[q] /\ (q \in shared => q \in shared')
    BY <2>2 DEF Live
  <2>4. ASSUME NEW u \in Thread, NEW l \in Level, th'[u].pc \in Reserving,
               l \in th'[u].i + 1 .. th'[u].ns
        PROVE  /\ numbers'[th[u].pid] = numbers[th[u].pid]
               /\ (th[u].pid \in shared => th[u].pid \in shared')
               /\ map'[l] = map[l]
    <3>1. th'[u] = th[u] /\ th'[u].pc # "idle" /\ th[u].pid \in Pid /\ state[th[u].pid] = "new"
      BY <2>2, <2>4 DEF Inv, ThreadInv, CallInv, Reserving
    <3>2. nsproxy'[th[u].ns] /\ th[u].ns \in Level
      BY <1>0, <3>1, ThreadFields DEF ForkInv
    <3>3. l \in 0 .. th[u].ns
      BY <1>0, <2>4, <3>1, Ranges, ThreadFields
    <3>4. Exists(l)'
      BY <3>2, <3>3, HeldExistsNext
    <3>5. QED
      BY <2>1, <2>2, <3>1, <3>4
  <2>5. ASSUME NEW p \in Live', NEW l \in 0 .. level[p] PROVE map'[l] = map[l]
    <3>1. p \in Pid /\ level'[p] = level[p] /\ l \in Level
      BY <1>0, <2>3, Ranges DEF Live, TypeOK
    <3>2. Exists(l)'
      BY <3>1, LiveExistsNext
    <3>3. QED
      BY <2>1, <3>1, <3>2
  <2>6. \A p \in Live' : p \in Live /\ level'[p] = level[p]
    BY <2>2, <2>3 DEF Live
  <2>7. QED
    BY <2>2, <2>3, <2>4, <2>5, <2>6, IndexFrame
<1>12. QED
  BY <1>1, <1>2, <1>3, <1>4, <1>6, <1>7, <1>8, <1>9, <1>10, <1>11, SamePidsSteps, Kinds
-----------------------------------------------------------------------------
(* The counts of struct pids: CountInv.                                    *)

(* The steps that publish no struct pid and free none.                     *)
SameLive ==
  /\ Live' = Live
  /\ \A p \in Live : /\ level'[p] = level[p] /\ numbers'[p] = numbers[p]
                     /\ state[p] = "attached" => state'[p] = "attached"

(* Only alloc_pid() and free_pid() change which struct pids are counted.   *)
LEMMA SameLiveSteps ==
  ASSUME Inv,
         \/ \E l \in Level : \/ create_pid_namespace(l) \/ PutNsproxy(l)
                             \/ proc_cleanup_work(l) \/ ZapStart(l) \/ ZapStep(l)
         \/ \E l \in Level, n \in LastPidWrites : pid_ns_ctl_handler(l, n)
         \/ \E t \in Reader, l \in Level, n \in Nr : find_vpid(t, l, n)
         \/ \E t \in Reader : get_pid(t)
         \/ UNCHANGED vars
         \/ \E t \in Thread, c \in Pid, l \in Level : alloc_pid(t, c, l)
         \/ \E t \in Thread : \/ Reserve(t) \/ ReserveFails(t) \/ Prepare(t)
                              \/ PrepareFails(t) \/ PublishRefused(t)
                              \/ OutFree(t) \/ ReturnError(t) \/ AttachTask(t)
         \/ (\E p \in Pid : delayed_put_pid(p)) \/ (\E t \in Reader : ReaderPut(t))
  PROVE  SameLive
<1>0. TypeOK
  BY DEF Inv
<1>1. ASSUME SamePids PROVE SameLive
  BY <1>1 DEF SamePids, SameLive, Live
<1>2. ASSUME NEW t \in Thread, NEW c \in Pid, NEW l \in Level, alloc_pid(t, c, l)
      PROVE  SameLive
  <2>1. UNCHANGED numbers
    BY <1>2 DEF alloc_pid
  <2>2. QED
    BY <1>2, <2>1, AllocEffect DEF SameLive, Live
<1>3. ASSUME NEW t \in Thread, Reserve(t) PROVE SameLive
  <2>1. UNCHANGED <<state, level>>
    BY <1>3 DEF Reserve
  <2>2. PICK p \in Pid : state[p] = "new" /\ \A q \in Pid \ {p} : numbers'[q] = numbers[q]
    BY <1>3, ReserveEffect
  <2>3. QED
    BY <2>1, <2>2 DEF SameLive, Live
<1>4. ASSUME NEW t \in Thread, ReserveFails(t) \/ PrepareFails(t) \/ PublishRefused(t)
                               \/ Prepare(t) \/ ReturnError(t)
      PROVE  SameLive
  <2>1. UNCHANGED <<state, level, numbers>>
    BY <1>4 DEF ReserveFails, PrepareFails, PublishRefused, Prepare, ReturnError
  <2>2. QED
    BY <2>1 DEF SameLive, Live
<1>5. ASSUME NEW t \in Thread, OutFree(t) PROVE SameLive
  BY <1>5, OutFreeEffect DEF SameLive, Live
<1>6. ASSUME NEW t \in Thread, AttachTask(t) PROVE SameLive
  <2>1. /\ UNCHANGED <<level, numbers>> /\ th[t].pid \in Pid
        /\ state[th[t].pid] = "published"
        /\ state' = [state EXCEPT ![th[t].pid] = "attached"]
    BY <1>6 DEF AttachTask, Inv, ThreadInv, CallInv
  <2>2. QED
    BY <1>0, <2>1 DEF TypeOK, SameLive, Live
<1>7. ASSUME (\E p \in Pid : delayed_put_pid(p)) \/ (\E t \in Reader : ReaderPut(t))
      PROVE  SameLive
  <2>1. /\ \A q \in Pid : state[q] \notin {"dead", "stale"} =>
              state'[q] = state[q] /\ level'[q] = level[q] /\ numbers'[q] = numbers[q]
        /\ Live' = Live
    BY <1>7, PutPidEffect
  <2>2. QED
    BY <2>1 DEF SameLive, Live
<1>8. QED
  BY <1>1, <1>2, <1>3, <1>4, <1>5, <1>6, <1>7, SamePidsSteps

(* The counted struct pids are the same after such a step.                 *)
LEMMA SameLiveAt ==
  ASSUME SameLive
  PROVE  \A l \in Level : LiveAt(l)' = LiveAt(l)
BY DEF SameLive, LiveAt

(* A namespace comes into being only when it is created.                   *)
LEMMA ExistsStep ==
  ASSUME Inv, [Next]_vars, NEW l \in Level, Exists(l)'
  PROVE  Exists(l) \/ create_pid_namespace(l)
<1>0. TypeOK
  BY DEF Inv
<1>1. ASSUME UNCHANGED kref PROVE Exists(l)
  BY <1>1 DEF Exists
<1>2. ASSUME NEW j \in Level, create_pid_namespace(j), j # l PROVE Exists(l)
  <2>1. j - 1 \in Level /\ nsproxy[j - 1] /\ kref' = get_pid_ns([kref EXCEPT ![j] = 1], j - 1)
        /\ j \in Nat
    BY <1>2, Ranges DEF create_pid_namespace
  <2>2. Exists(j - 1)
    <3>1. j - 1 \in 0 .. j - 1
      BY <2>1, Ranges
    <3>2. QED
      BY <2>1, <3>1, HeldExists DEF Inv
  <2>3. l # j - 1 => kref'[l] = kref[l]
    BY <1>0, <1>2, <2>1 DEF TypeOK, get_pid_ns
  <2>4. QED
    BY <2>2, <2>3 DEF Exists
<1>3. ASSUME NEW t \in Thread, Prepare(t) PROVE Exists(l)
  <2>1. PICK k \in Level : k = th[t].ns
    BY <1>0, ThreadFields
  <2>2. th[t].pc = "prepare" /\ (l # k => kref'[l] = kref[l])
    BY <1>0, <1>3, <2>1 DEF Prepare, get_pid_ns, TypeOK
  <2>3. nsproxy[k] /\ k \in 0 .. k
    BY <2>1, <2>2, Ranges DEF Inv, ForkInv
  <2>4. Exists(k)
    BY <2>3, HeldExists DEF Inv
  <2>5. QED
    BY <2>2, <2>4 DEF Exists
<1>4. ASSUME \/ \E j \in Level : ZapStart(j) \/ ZapStep(j)
             \/ \E j \in Level, n \in LastPidWrites : pid_ns_ctl_handler(j, n)
             \/ \E t \in Reader, j \in Level, n \in Nr : find_vpid(t, j, n)
             \/ \E t \in Reader : get_pid(t)
             \/ UNCHANGED vars
             \/ \E t \in Thread, c \in Pid, j \in Level : alloc_pid(t, c, j)
             \/ \E t \in Thread : \/ Reserve(t) \/ ReserveFails(t)
                                  \/ PrepareFails(t) \/ Publish(t)
                                  \/ OutFree(t) \/ ReturnError(t) \/ AttachTask(t)
             \/ (\E t \in Thread : ForkFails(t)) \/ (\E p \in Pid : Exit(p))
      PROVE  UNCHANGED kref
  BY <1>4 DEF ZapStart, ZapStep, ZapSignal, ZapPrepareToSleep, ZapDone, ZapSleep,
              ZapWake, ZapMoves, pid_ns_ctl_handler, find_vpid, get_pid, vars, alloc_pid,
              Reserve, ReserveFails, PrepareFails, Publish, OutFree, ReturnError, AttachTask,
              ForkFails, Exit, nsVars
<1>5. QED
  BY <1>1, <1>2, <1>3, <1>4, PutNsBase, RefusedBase, PutBase, Kinds

(* A namespace that does not exist has no struct pid.                      *)
LEMMA NoneLive ==
  ASSUME Inv, NEW l \in Level, ~Exists(l)
  PROVE  LiveAt(l) = {}
<1>1. SUFFICES ASSUME NEW p \in LiveAt(l) PROVE FALSE
  OBVIOUS
<1>2. p \in Live /\ l \in 0 .. level[p]
  BY Ranges DEF LiveAt, Live, Inv, TypeOK
<1>3. QED
  BY <1>2, Counted

(* Making one namespace brings no other into being.                        *)
LEMMA CreateOther ==
  ASSUME Inv, [Next]_vars, NEW j \in Level, create_pid_namespace(j),
         NEW l \in Level, l # j, Exists(l)'
  PROVE  Exists(l)
<1>1. SUFFICES ASSUME create_pid_namespace(l), ~Exists(l) PROVE FALSE
  BY ExistsStep
<1>2. nsproxy' = [nsproxy EXCEPT ![j] = TRUE] /\ nsproxy' = [nsproxy EXCEPT ![l] = TRUE]
  BY <1>1 DEF create_pid_namespace
<1>3. nsproxy[l] /\ l \in 0 .. l
  BY <1>2, Ranges DEF Inv, TypeOK
<1>4. QED
  BY <1>1, <1>3, HeldExists DEF Inv

(* The steps that leave the counts alone.                                  *)
LEMMA SameCountSteps ==
  ASSUME \/ \E l \in Level : \/ PutNsproxy(l) \/ proc_cleanup_work(l) \/ ZapStep(l)
         \/ \E l \in Level, n \in LastPidWrites : pid_ns_ctl_handler(l, n)
         \/ \E t \in Reader, l \in Level, n \in Nr : find_vpid(t, l, n)
         \/ \E t \in Reader : get_pid(t)
         \/ UNCHANGED vars
         \/ \E t \in Thread, c \in Pid, l \in Level : alloc_pid(t, c, l)
         \/ \E t \in Thread : \/ Reserve(t) \/ ReserveFails(t) \/ Prepare(t)
                              \/ PrepareFails(t) \/ PublishRefused(t)
                              \/ OutFree(t) \/ ReturnError(t) \/ AttachTask(t)
         \/ (\E p \in Pid : delayed_put_pid(p)) \/ (\E t \in Reader : ReaderPut(t))
  PROVE  UNCHANGED pid_allocated
BY DEF PutNsproxy, proc_cleanup_work, ZapStep, ZapSignal, ZapPrepareToSleep, ZapDone, ZapSleep,
       ZapWake, ZapMoves, pid_ns_ctl_handler, find_vpid, get_pid, vars, alloc_pid,
       Reserve, ReserveFails, Prepare, PrepareFails, PublishRefused, OutFree, ReturnError,
       AttachTask, delayed_put_pid, ReaderPut

(* The flag is set exactly when it is in the count.                        *)
LEMMA AddingCount ==
  ASSUME Inv, NEW l \in Level, Exists(l)
  PROVE  /\ Adding(l) <=> pid_allocated[l] = Cardinality(LiveAt(l)) + PIDNS_ADDING
         /\ ~Adding(l) <=> pid_allocated[l] = Cardinality(LiveAt(l))
         /\ pid_allocated[l] \in Nat
<1>1. /\ Cardinality(LiveAt(l)) \in Nat /\ Cardinality(LiveAt(l)) + 2 < PIDNS_ADDING
      /\ PIDNS_ADDING \in Nat
  BY LiveAtCount, AddingAssumption
<1>2. \/ pid_allocated[l] = Cardinality(LiveAt(l))
      \/ pid_allocated[l] = Cardinality(LiveAt(l)) + PIDNS_ADDING
  BY DEF Inv, CountInv
<1>3. QED
  BY <1>1, <1>2 DEF Adding

(* What publishing does to the counted struct pids.                        *)
LEMMA PublishLiveAt ==
  ASSUME Inv, NEW t \in Thread, Publish(t)
  PROVE  /\ \A l \in Level : l <= level[th[t].pid] =>
              /\ LiveAt(l)' = LiveAt(l) \cup {th[t].pid} /\ th[t].pid \notin LiveAt(l)
              /\ Cardinality(LiveAt(l)') = Cardinality(LiveAt(l)) + 1
         /\ \A l \in Level : ~(l <= level[th[t].pid]) => LiveAt(l)' = LiveAt(l)
<1>0. TypeOK
  BY DEF Inv
<1>1. PICK p \in Pid : p = th[t].pid
  BY PublishEffect
<1>2. state[p] = "new" /\ state' = [state EXCEPT ![p] = "published"] /\ UNCHANGED level
  BY <1>1, PublishEffect DEF Publish
<1>3. Live' = Live \cup {p} /\ p \notin Live
  BY <1>0, <1>2 DEF TypeOK, Live
<1>4. \A l \in Level : l <= level[p] => LiveAt(l)' = LiveAt(l) \cup {p} /\ p \notin LiveAt(l)
  BY <1>2, <1>3 DEF LiveAt
<1>5. \A l \in Level : ~(l <= level[p]) => LiveAt(l)' = LiveAt(l)
  BY <1>2, <1>3 DEF LiveAt
<1>6. \A l \in Level : l <= level[p] => Cardinality(LiveAt(l)') = Cardinality(LiveAt(l)) + 1
  BY <1>4, LiveAtCount, FS_AddElement
<1>7. QED
  BY <1>1, <1>4, <1>5, <1>6

(* What free_pid() does to the counted struct pids.                        *)
LEMMA FreeLiveAt ==
  ASSUME Inv, NEW p \in Live, state'[p] = "dead", UNCHANGED level,
         \A q \in Pid \ {p} : state'[q] = state[q]
  PROVE  /\ Live' = Live \ {p}
         /\ \A l \in Level : l <= level[p] =>
              /\ LiveAt(l)' = LiveAt(l) \ {p} /\ p \in LiveAt(l)
              /\ Cardinality(LiveAt(l)') = Cardinality(LiveAt(l)) - 1
         /\ \A l \in Level : ~(l <= level[p]) => LiveAt(l)' = LiveAt(l)
<1>1. Live' = Live \ {p}
  BY DEF Live
<1>2. \A l \in Level : l <= level[p] => LiveAt(l)' = LiveAt(l) \ {p} /\ p \in LiveAt(l)
  BY <1>1 DEF LiveAt
<1>3. \A l \in Level : ~(l <= level[p]) => LiveAt(l)' = LiveAt(l)
  BY <1>1 DEF LiveAt
<1>4. \A l \in Level : l <= level[p] => Cardinality(LiveAt(l)') = Cardinality(LiveAt(l)) - 1
  BY <1>2, LiveAtCount, FS_RemoveElement
<1>5. QED
  BY <1>1, <1>2, <1>3, <1>4

(* Every step keeps pid_allocated the number of live struct pids.          *)
LEMMA CountInvStep ==
  ASSUME Inv, [Next]_vars
  PROVE  CountInv'
<1>0. TypeOK
  BY DEF Inv
<1>1. SUFFICES ASSUME NEW l \in Level, Exists(l)'
               PROVE  \/ pid_allocated'[l] = Cardinality(LiveAt(l)')
                      \/ pid_allocated'[l] = Cardinality(LiveAt(l)') + PIDNS_ADDING
  BY DEF CountInv
<1> DEFINE Goal == \/ pid_allocated'[l] = Cardinality(LiveAt(l)')
                   \/ pid_allocated'[l] = Cardinality(LiveAt(l)') + PIDNS_ADDING
<1>2. ASSUME Exists(l), pid_allocated'[l] = pid_allocated[l], LiveAt(l)' = LiveAt(l) PROVE Goal
  BY <1>2 DEF Inv, CountInv
<1>3. ASSUME NEW j \in Level, create_pid_namespace(j) PROVE Goal
  <2>1. pid_allocated' = [pid_allocated EXCEPT ![j] = PIDNS_ADDING] /\ ~Exists(j)
    BY <1>3 DEF create_pid_namespace
  <2>2. LiveAt(l)' = LiveAt(l)
    BY <1>3, SameLiveSteps, SameLiveAt
  <2>3. CASE j = l
    <3>1. LiveAt(l) = {}
      BY <2>1, <2>3, NoneLive
    <3>2. Cardinality(LiveAt(l)') = 0
      BY <2>2, <3>1, FS_EmptySet
    <3>3. pid_allocated'[l] = PIDNS_ADDING
      BY <1>0, <2>1, <2>3 DEF TypeOK
    <3>4. QED
      BY <3>2, <3>3, AddingAssumption
  <2>4. CASE j # l
    <3>1. Exists(l)
      BY <1>1, <1>3, <2>4, CreateOther
    <3>2. pid_allocated'[l] = pid_allocated[l]
      BY <1>0, <2>1, <2>4 DEF TypeOK
    <3>3. QED
      BY <1>2, <2>2, <3>1, <3>2
  <2>5. QED
    BY <2>3, <2>4
<1>4. ASSUME NEW j \in Level, ZapStart(j) PROVE Goal
  <2>1. pid_allocated' = [pid_allocated EXCEPT ![j] = pid_allocated[j] % PIDNS_ADDING]
        /\ UNCHANGED kref
    BY <1>0, <1>4 DEF ZapStart, disable_pid_allocation, nsVars, TypeOK
  <2>2. LiveAt(l)' = LiveAt(l) /\ Exists(l)
    BY <1>1, <1>4, <2>1, SameLiveSteps, SameLiveAt DEF Exists
  <2>3. CASE j = l
    <3>1. Cardinality(LiveAt(l)) \in Nat /\ Cardinality(LiveAt(l)) < PIDNS_ADDING
      BY LiveAtCount, AddingAssumption
    <3>2. \/ pid_allocated[l] = Cardinality(LiveAt(l))
          \/ pid_allocated[l] = Cardinality(LiveAt(l)) + PIDNS_ADDING
      BY <2>2 DEF Inv, CountInv
    <3>3. pid_allocated[l] % PIDNS_ADDING = Cardinality(LiveAt(l))
      BY <3>1, <3>2, FlagBit
    <3>4. pid_allocated'[l] = pid_allocated[l] % PIDNS_ADDING
      BY <1>0, <2>1, <2>3 DEF TypeOK
    <3>5. QED
      BY <2>2, <3>3, <3>4
  <2>4. CASE j # l
    BY <1>0, <1>2, <2>1, <2>2, <2>4 DEF TypeOK
  <2>5. QED
    BY <2>3, <2>4
<1>5. ASSUME NEW t \in Thread, Publish(t) PROVE Goal
  <2>1. UNCHANGED kref /\ Exists(l)
    BY <1>1, <1>5 DEF Publish, nsVars, Exists
  <2>2. CASE l <= level[th[t].pid]
    <3>1. pid_allocated'[l] = pid_allocated[l] + 1 /\ pid_allocated[l] \in Nat
      BY <1>0, <1>5, <2>2, PublishEffect DEF TypeOK
    <3>2. Cardinality(LiveAt(l)') = Cardinality(LiveAt(l)) + 1 /\ Cardinality(LiveAt(l)) \in Nat
      BY <1>5, <2>2, PublishLiveAt, LiveAtCount
    <3>3. QED
      BY <2>1, <3>1, <3>2, AddingAssumption DEF Inv, CountInv
  <2>3. CASE ~(l <= level[th[t].pid])
    BY <1>2, <1>5, <2>1, <2>3, PublishEffect, PublishLiveAt
  <2>4. QED
    BY <2>2, <2>3
<1>6. ASSUME (\E t \in Thread : ForkFails(t)) \/ (\E p \in Pid : Exit(p)) PROVE Goal
  <2>1. PICK p \in Live :
          /\ free_pid(p) /\ state'[p] = "dead"
          /\ \A q \in Pid \ {p} : state'[q] = state[q]
          /\ UNCHANGED <<level, kref>>
    BY <1>6, FreePidEffect
  <2>2. Exists(l)
    BY <1>1, <2>1 DEF Exists
  <2>3. CASE l <= level[p]
    <3>1. /\ pid_allocated[l] >= 1
          /\ pid_allocated'[l] = IF pid_allocated[l] = PIDNS_ADDING + 1 THEN 0
                                 ELSE pid_allocated[l] - 1
      BY <2>1, <2>3, FreeEffect
    <3>2. Cardinality(LiveAt(l)') = Cardinality(LiveAt(l)) - 1
      BY <2>1, <2>3, FreeLiveAt
    <3>3. /\ Cardinality(LiveAt(l)) \in Nat /\ Cardinality(LiveAt(l)) + 2 < PIDNS_ADDING
          /\ PIDNS_ADDING \in Nat
      BY LiveAtCount, AddingAssumption
    <3>4. \/ pid_allocated[l] = Cardinality(LiveAt(l))
          \/ pid_allocated[l] = Cardinality(LiveAt(l)) + PIDNS_ADDING
      BY <2>2 DEF Inv, CountInv
    <3>5. QED
      BY <3>1, <3>2, <3>3, <3>4
  <2>4. CASE ~(l <= level[p])
    BY <1>2, <2>1, <2>2, <2>4, FreeEffect, FreeLiveAt
  <2>5. QED
    BY <2>3, <2>4
<1>7. ASSUME UNCHANGED pid_allocated, SameLive, ~\E j \in Level : create_pid_namespace(j) PROVE Goal
  BY <1>1, <1>2, <1>7, ExistsStep, SameLiveAt
<1>8. QED
  BY <1>3, <1>4, <1>5, <1>6, <1>7, SameCountSteps, SameLiveSteps, Kinds
-----------------------------------------------------------------------------
(* The child_reaper and the thread group that zaps: ReaperInv.             *)

(* The steps that neither zap, nor attach a task, nor let one exit.        *)
LEMMA SameReaperSteps ==
  ASSUME \/ \E l \in Level : PutNsproxy(l) \/ proc_cleanup_work(l)
         \/ \E l \in Level, n \in LastPidWrites : pid_ns_ctl_handler(l, n)
         \/ \E t \in Reader, l \in Level, n \in Nr : find_vpid(t, l, n)
         \/ \E t \in Reader : get_pid(t)
         \/ UNCHANGED vars
         \/ \E t \in Thread, c \in Pid, l \in Level : alloc_pid(t, c, l)
         \/ \E t \in Thread : \/ Reserve(t) \/ ReserveFails(t) \/ Prepare(t)
                              \/ PrepareFails(t) \/ Publish(t) \/ PublishRefused(t)
                              \/ OutFree(t) \/ ReturnError(t)
         \/ (\E p \in Pid : delayed_put_pid(p)) \/ (\E t \in Reader : ReaderPut(t))
  PROVE  UNCHANGED <<child_reaper, zap, init_tasks, awake>>
BY DEF PutNsproxy, proc_cleanup_work, pid_ns_ctl_handler, find_vpid, get_pid, vars, alloc_pid,
       Reserve, ReserveFails, Prepare, PrepareFails, Publish, PublishRefused, OutFree,
       ReturnError, delayed_put_pid, ReaderPut, zapVars

(* A namespace that none of these touches stays as it is, also while its   *)
(* init moves on in zap_pid_ns_processes().                                *)
LEMMA SameReaper ==
  ASSUME Inv, NEW l \in Level, SameLive, Exists(l)' => Exists(l),
         pid_allocated'[l] = pid_allocated[l], child_reaper'[l] = child_reaper[l],
         init_tasks'[l] = init_tasks[l],
         \/ zap'[l] = zap[l]
         \/ zap[l] \notin {"none", "done"} /\ zap'[l] \notin {"none", "done"}
  PROVE  ZapGroup(l)' /\ (Exists(l)' => ReaperLife(l)')
<1>1. ZapGroup(l) /\ (Exists(l) => ReaperLife(l))
  BY DEF Inv, ReaperInv
<1>2. \A p \in Pid : state[p] = "attached" =>
        state'[p] = "attached" /\ level'[p] = level[p] /\ numbers'[p] = numbers[p]
  BY DEF SameLive, Live
<1>3. init_tasks[l] \subseteq Pid /\ child_reaper[l] \in Pid \cup {NULL}
  BY DEF Inv, TypeOK
<1>4. ZapGroup(l)'
  <2>1. \A x \in init_tasks[l] : /\ x \in Pid /\ state[x] = "attached" /\ level[x] = l
                                 /\ state'[x] = "attached" /\ level'[x] = l
                                 /\ numbers'[x] = numbers[x]
    BY <1>1, <1>2, <1>3 DEF ZapGroup
  <2>2. QED
    BY <1>1, <2>1 DEF ZapGroup
<1>5. ASSUME Exists(l)' PROVE ReaperLife(l)'
  <2>1. LiveAt(l)' = LiveAt(l) /\ (Adding(l)' <=> Adding(l))
    BY SameLiveAt DEF Adding
  <2>2. ReaperLife(l)
    BY <1>1, <1>5
  <2>3. QED
    BY <1>2, <1>3, <2>1, <2>2 DEF ReaperLife
<1>6. QED
  BY <1>4, <1>5

(* A new namespace takes processes and has no child_reaper.                *)
LEMMA CreateReaper ==
  ASSUME Inv, [Next]_vars, NEW j \in Level, create_pid_namespace(j), NEW l \in Level
  PROVE  ZapGroup(l)' /\ (Exists(l)' => ReaperLife(l)')
<1>0. TypeOK
  BY DEF Inv
<1>1. /\ ~Exists(j) /\ UNCHANGED <<init_tasks, state, level, numbers>>
      /\ pid_allocated' = [pid_allocated EXCEPT ![j] = PIDNS_ADDING]
      /\ child_reaper' = [child_reaper EXCEPT ![j] = NULL]
      /\ zap' = [zap EXCEPT ![j] = "none"]
  BY DEF create_pid_namespace
<1>2. SameLive
  BY SameLiveSteps
<1>3. CASE l = j
  <2>1. pid_allocated'[l] = PIDNS_ADDING /\ child_reaper'[l] = NULL /\ zap'[l] = "none"
    BY <1>0, <1>1, <1>3 DEF TypeOK
  <2>2. LiveAt(l) = {}
    BY <1>1, <1>3, NoneLive
  <2>3. init_tasks[l] = {}
    <3>1. \A p \in init_tasks[l] : p \in Pid /\ state[p] = "attached" /\ level[p] = l
      BY DEF Inv, ReaperInv, ZapGroup
    <3>2. \A p \in init_tasks[l] : p \in LiveAt(l)
      BY <3>1, Ranges DEF LiveAt, Live
    <3>3. QED
      BY <2>2, <3>2
  <2>4. ZapGroup(l)'
    BY <1>1, <2>1, <2>3 DEF ZapGroup
  <2>5. Adding(l)'
    BY <2>1, AddingAssumption DEF Adding
  <2>6. QED
    BY <2>1, <2>4, <2>5 DEF ReaperLife
<1>4. CASE l # j
  <2>1. /\ pid_allocated'[l] = pid_allocated[l] /\ child_reaper'[l] = child_reaper[l]
        /\ zap'[l] = zap[l] /\ init_tasks'[l] = init_tasks[l]
    BY <1>0, <1>1, <1>4 DEF TypeOK
  <2>2. Exists(l)' => Exists(l)
    BY <1>4, CreateOther
  <2>3. QED
    BY <1>2, <2>1, <2>2, SameReaper
<1>5. QED
  BY <1>3, <1>4

(* zap_pid_ns_processes() begins in the thread group of the child_reaper.  *)
LEMMA ZapStartReaper ==
  ASSUME Inv, NEW j \in Level, ZapStart(j), NEW l \in Level
  PROVE  ZapGroup(l)' /\ (Exists(l)' => ReaperLife(l)')
<1>0. TypeOK
  BY DEF Inv
<1>1. PICK me \in Pid :
        /\ Runnable(me) /\ level[me] = j
        /\ init_tasks' = [init_tasks EXCEPT ![j] = {child_reaper[j], me}]
        /\ child_reaper' = [child_reaper EXCEPT ![j] = me]
  BY DEF ZapStart
<1>2. /\ Exists(j) /\ zap[j] = "none" /\ child_reaper[j] \in Pid /\ Runnable(child_reaper[j])
      /\ level[child_reaper[j]] = j
      /\ zap' = [zap EXCEPT ![j] = "signal"]
      /\ pid_allocated' = [pid_allocated EXCEPT ![j] = pid_allocated[j] % PIDNS_ADDING]
      /\ UNCHANGED <<kref, state, level, numbers>>
  BY <1>0 DEF ZapStart, disable_pid_allocation, nsVars, TypeOK
<1>3. SameLive /\ (Exists(l)' => Exists(l))
  BY <1>2, SameLiveSteps DEF Exists
<1>4. CASE l = j
  <2>1. /\ pid_allocated'[l] = pid_allocated[l] % PIDNS_ADDING /\ child_reaper'[l] = me
        /\ zap'[l] = "signal" /\ init_tasks'[l] = {child_reaper[l], me}
        /\ pid_allocated[l] \in Nat
    BY <1>0, <1>1, <1>2, <1>4 DEF TypeOK
  <2>2. numbers[child_reaper[l]][l] = 1
    BY <1>2, <1>4, PidAssumption DEF Inv, ReaperInv, ReaperLife
  <2>3. ZapGroup(l)'
    <3>1. \A x \in {child_reaper[l], me} : x \in Pid /\ state'[x] = "attached" /\ level'[x] = l
      BY <1>1, <1>2, <1>4 DEF Runnable
    <3>2. numbers'[child_reaper[l]][l] = 1
      BY <1>2, <2>2
    <3>3. QED
      BY <2>1, <3>1, <3>2 DEF ZapGroup
  <2>4. ~Adding(l)'
    <3>0. PIDNS_ADDING \in Nat /\ PIDNS_ADDING > 0
      BY LiveAtCount, AddingAssumption
    <3>1. \A a \in Nat : a % PIDNS_ADDING < PIDNS_ADDING /\ a % PIDNS_ADDING \in Nat
      BY <3>0
    <3>2. pid_allocated'[l] < PIDNS_ADDING /\ pid_allocated'[l] \in Nat
      BY <2>1, <3>1
    <3>3. QED
      BY <3>2, AddingAssumption DEF Adding
  <2>5. me # NULL
    BY PidAssumption
  <2>6. QED
    BY <2>1, <2>3, <2>4, <2>5 DEF ReaperLife
<1>5. CASE l # j
  <2>1. /\ pid_allocated'[l] = pid_allocated[l] /\ child_reaper'[l] = child_reaper[l]
        /\ zap'[l] = zap[l] /\ init_tasks'[l] = init_tasks[l]
    BY <1>0, <1>1, <1>2, <1>5 DEF TypeOK
  <2>2. QED
    BY <1>3, <2>1, SameReaper
<1>6. QED
  BY <1>4, <1>5

(* zap_pid_ns_processes() returns when only its own thread group is left.  *)
LEMMA ZapStepReaper ==
  ASSUME Inv, NEW j \in Level, ZapStep(j), NEW l \in Level
  PROVE  ZapGroup(l)' /\ (Exists(l)' => ReaperLife(l)')
<1>0. TypeOK
  BY DEF Inv
<1>1. /\ UNCHANGED <<pid_allocated, child_reaper, init_tasks, kref, state, level, numbers>>
      /\ \E to \in {"wait", "check", "sleep", "done"} : zap' = [zap EXCEPT ![j] = to]
      /\ zap[j] \notin {"none", "done"}
      /\ zap'[j] = "done" => OnlyInitLeft(j)
  <2>1. ASSUME ZapSignal(j)
        PROVE  /\ UNCHANGED <<pid_allocated, child_reaper, init_tasks, kref, state, level, numbers>>
               /\ zap' = [zap EXCEPT ![j] = "wait"] /\ zap[j] = "signal"
    BY <2>1 DEF ZapSignal, nsVars
  <2>2. ASSUME NEW from \in {"wait", "check", "sleep"}, NEW to \in {"wait", "check", "sleep", "done"},
               ZapMoves(j, from, to)
        PROVE  /\ UNCHANGED <<pid_allocated, child_reaper, init_tasks, kref, state, level, numbers>>
               /\ zap' = [zap EXCEPT ![j] = to] /\ zap[j] = from /\ zap'[j] = to
    BY <1>0, <2>2 DEF ZapMoves, nsVars, TypeOK
  <2>3. CASE ZapSignal(j)
    BY <1>0, <2>1, <2>3 DEF TypeOK
  <2>4. CASE ZapDone(j)
    BY <2>2, <2>4 DEF ZapDone
  <2>5. CASE ZapPrepareToSleep(j)
    BY <2>2, <2>5 DEF ZapPrepareToSleep
  <2>6. CASE ZapSleep(j)
    BY <2>2, <2>6 DEF ZapSleep
  <2>7. CASE ZapWake(j)
    BY <2>2, <2>7 DEF ZapWake
  <2>8. QED
    BY <2>3, <2>4, <2>5, <2>6, <2>7 DEF ZapStep
<1>2. SameLive /\ (Exists(l)' => Exists(l))
  BY <1>1, SameLiveSteps DEF Exists
<1>3. CASE zap'[l] # "done" \/ l # j
  <2>1. \/ zap'[l] = zap[l]
        \/ zap[l] \notin {"none", "done"} /\ zap'[l] \notin {"none", "done"}
    BY <1>0, <1>1, <1>3 DEF TypeOK
  <2>2. QED
    BY <1>1, <1>2, <2>1, SameReaper
<1>4. CASE l = j /\ zap'[l] = "done"
  <2>1. ZapGroup(l) /\ (Exists(l) => ReaperLife(l)) /\ init_tasks[l] \subseteq Pid
    BY <1>0 DEF Inv, ReaperInv, TypeOK
  <2>2. ZapGroup(l)'
    BY <1>1, <1>4, <2>1 DEF ZapGroup
  <2>3. ASSUME Exists(l)' PROVE ReaperLife(l)'
    <3>1. ReaperLife(l) /\ ~Adding(l) /\ child_reaper[l] # NULL /\ zap[l] # "none"
      BY <1>1, <1>2, <1>4, <2>1, <2>3 DEF ReaperLife
    <3>2. pid_allocated[l] = Cardinality(LiveAt(l))
      BY <1>2, <2>3, <3>1, AddingCount
    <3>3. Cardinality(init_tasks[l]) = Cardinality(LiveAt(l))
      BY <1>1, <1>4, <3>2 DEF OnlyInitLeft
    <3>4. init_tasks[l] \subseteq LiveAt(l)
      <4>1. \A x \in init_tasks[l] : x \in Pid /\ state[x] = "attached" /\ level[x] = l
        BY <2>1 DEF ZapGroup
      <4>2. l <= l
        BY Ranges
      <4>3. QED
        BY <4>1, <4>2 DEF LiveAt, Live
    <3>5. LiveAt(l) = init_tasks[l]
      BY <3>3, <3>4, LiveAtCount, FS_Subset
    <3>6. LiveAt(l)' = init_tasks'[l] /\ ~Adding(l)' /\ child_reaper'[l] # NULL
      BY <1>1, <1>2, <3>1, <3>5, SameLiveAt DEF Adding
    <3>7. QED
      BY <1>4, <3>6 DEF ReaperLife
  <2>4. QED
    BY <2>2, <2>3
<1>5. QED
  BY <1>3, <1>4

(* A call of alloc_pid() for a namespace that takes processes is made by a *)
(* task that no namespace above it counts among its zapping threads.       *)
LEMMA PublisherKeeps ==
  ASSUME Inv, NEW t \in Thread, th[t].pc # "idle", Adding(th[t].ns),
         NEW l \in Level, l < th[t].ns
  PROVE  \E q \in LiveAt(l) : q \notin init_tasks[l]
<1>1. PICK m \in Level : m = th[t].ns
  BY ThreadFields DEF Inv
<1>2. /\ th[t].current \in Pid /\ state[th[t].current] = "attached"
      /\ th[t].current \notin init_tasks[level[th[t].current]] /\ nsproxy[m]
      /\ child_reaper[m] = NULL => level[th[t].current] = m - 1
  BY <1>1 DEF Inv, ForkInv
<1>3. Exists(m)
  <2>1. m \in 0 .. m
    BY Ranges
  <2>2. QED
    BY <1>2, <2>1, HeldExists DEF Inv
<1>4. l \in Nat /\ m \in Nat /\ l < m
  BY <1>1, Ranges
<1>5. \A x \in init_tasks[l] : level[x] = l
  BY DEF Inv, ReaperInv, ZapGroup
<1>6. CASE child_reaper[m] = NULL
  <2>1. PICK q \in Pid : q = th[t].current
    BY <1>2
  <2>2. q \in LiveAt(l)
    BY <1>2, <1>4, <1>6, <2>1 DEF LiveAt, Live
  <2>3. QED
    BY <1>2, <1>5, <2>1, <2>2
<1>7. CASE child_reaper[m] # NULL
  <2>1. PICK q \in Pid : q = child_reaper[m]
    BY <1>7 DEF Inv, TypeOK
  <2>2. Adding(m)
    BY <1>1
  <2>3. state[q] = "attached" /\ level[q] = m
    BY <1>3, <1>7, <2>1, <2>2 DEF Inv, ReaperInv, ReaperLife
  <2>4. q \in LiveAt(l)
    BY <1>4, <2>3 DEF LiveAt, Live
  <2>5. QED
    BY <1>4, <1>5, <2>3, <2>4
<1>8. QED
  BY <1>6, <1>7

(* A process is published only where the child_reaper is not needed yet or *)
(* is alive, on every level.                                               *)
LEMMA PublishReaper ==
  ASSUME Inv, NEW t \in Thread, Publish(t), NEW l \in Level
  PROVE  ZapGroup(l)' /\ (Exists(l)' => ReaperLife(l)')
<1>0. TypeOK
  BY DEF Inv
<1>1. PICK p \in Pid : p = th[t].pid
  BY PublishEffect
<1>2. /\ state[p] = "new" /\ level[p] = th[t].ns /\ Adding(th[t].ns) /\ th[t].pc = "publish"
      /\ state' = [state EXCEPT ![p] = "published"]
      /\ \A k \in Level : k <= level[p] => pid_allocated'[k] = pid_allocated[k] + 1
      /\ \A k \in Level : ~(k <= level[p]) => pid_allocated'[k] = pid_allocated[k]
  BY <1>1, PublishEffect
<1>3. UNCHANGED <<child_reaper, zap, init_tasks, kref, level, numbers>>
  BY SameReaperSteps DEF Publish, nsVars
<1>4. ZapGroup(l) /\ (Exists(l)' => Exists(l) /\ ReaperLife(l))
  BY <1>3 DEF Inv, ReaperInv, Exists
<1>5. \A q \in Pid : state[q] = "attached" => state'[q] = "attached"
  BY <1>0, <1>2 DEF TypeOK
<1>6. ZapGroup(l)'
  BY <1>3, <1>4, <1>5 DEF ZapGroup
<1>7. ASSUME Exists(l)' PROVE ReaperLife(l)'
  <2>1. ReaperLife(l) /\ Exists(l) /\ child_reaper[l] \in Pid \cup {NULL}
    BY <1>0, <1>4, <1>7 DEF TypeOK
  <2>2. CASE l <= level[p]
    <3>1. pid_allocated'[l] = pid_allocated[l] + 1 /\ pid_allocated[l] \in Nat
      BY <1>0, <1>2, <2>2 DEF TypeOK
    <3>2. Cardinality(LiveAt(l)) \in Nat /\ Cardinality(LiveAt(l)) + 2 < PIDNS_ADDING
      BY LiveAtCount
    <3>3. Adding(l)' <=> Adding(l)
      <4>1. Adding(l) => Adding(l)'
        BY <3>1, AddingAssumption DEF Adding
      <4>2. ~Adding(l) => pid_allocated[l] = Cardinality(LiveAt(l))
        BY <2>1, AddingCount
      <4>3. ~Adding(l) => ~Adding(l)'
        BY <3>1, <3>2, <4>2, AddingAssumption DEF Adding
      <4>4. QED
        BY <4>1, <4>3
    <3>4. ~Adding(l) => \E q \in LiveAt(l) : q \notin init_tasks[l]
      <4>1. l # th[t].ns => l < th[t].ns
        BY <1>0, <1>2, <2>2, Ranges, ThreadFields
      <4>2. QED
        BY <1>2, <4>1, PublisherKeeps
    <3>5. /\ child_reaper[l] = NULL => zap[l] = "none" /\ Adding(l)
          /\ zap[l] # "done"
      BY <2>1, <3>4 DEF ReaperLife
    <3>6. QED
      BY <1>3, <1>5, <2>1, <3>3, <3>5 DEF ReaperLife
  <2>3. CASE ~(l <= level[p])
    <3>1. LiveAt(l)' = LiveAt(l) /\ (Adding(l)' <=> Adding(l))
      BY <1>1, <1>2, <2>3, PublishLiveAt DEF Adding
    <3>2. QED
      BY <1>3, <1>5, <2>1, <3>1 DEF ReaperLife
  <2>4. QED
    BY <2>2, <2>3
<1>8. QED
  BY <1>6, <1>7

(* The first process becomes the child_reaper when it is attached.         *)
LEMMA AttachReaper ==
  ASSUME Inv, NEW t \in Thread, AttachTask(t), NEW l \in Level
  PROVE  ZapGroup(l)' /\ (Exists(l)' => ReaperLife(l)')
<1>0. TypeOK
  BY DEF Inv
<1>1. PICK p \in Pid, m \in Level : p = th[t].pid /\ m = th[t].ns
  BY <1>0, ThreadFields DEF AttachTask, Inv, ThreadInv, CallInv
<1>2. /\ state[p] = "published" /\ level[p] = m /\ Adding(m) /\ p \in Live
      /\ state' = [state EXCEPT ![p] = "attached"]
      /\ child_reaper' = IF numbers[p][m] = 1 THEN [child_reaper EXCEPT ![m] = p]
                                              ELSE child_reaper
      /\ UNCHANGED <<pid_allocated, zap, init_tasks, kref, level, numbers>>
  BY <1>1 DEF AttachTask, is_child_reaper, nsVars, zapVars, Inv, ThreadInv, CallInv, Live
<1>3. SameLive /\ (Exists(l)' <=> Exists(l))
  BY <1>2, SameLiveSteps DEF Exists
<1>4. CASE l # m \/ numbers[p][m] # 1
  <2>1. child_reaper'[l] = child_reaper[l]
    BY <1>0, <1>2, <1>4 DEF TypeOK
  <2>2. QED
    BY <1>2, <1>3, <2>1, SameReaper
<1>5. CASE l = m /\ numbers[p][m] = 1
  <2>1. child_reaper'[l] = p /\ p # NULL /\ state'[p] = "attached"
    BY <1>0, <1>2, <1>5, PidAssumption DEF TypeOK
  <2>2. Exists(l)
    <3>1. m \in Nat
      BY Ranges
    <3>2. m \in 0 .. level[p]
      BY <1>2, <3>1
    <3>3. QED
      BY <1>2, <1>5, <3>2, Counted
  <2>3. zap[l] = "none" /\ init_tasks[l] = {} /\ Adding(l)
    BY <1>2, <1>5, <2>2 DEF Inv, ReaperInv, ReaperLife, ZapGroup
  <2>4. ZapGroup(l)'
    BY <1>2, <2>3 DEF ZapGroup
  <2>5. Adding(l)'
    BY <1>2, <2>3 DEF Adding
  <2>6. ReaperLife(l)'
    BY <1>2, <1>5, <2>1, <2>3, <2>5 DEF ReaperLife
  <2>7. QED
    BY <2>4, <2>6
<1>6. QED
  BY <1>4, <1>5

(* The tasks of a namespace exit before its init, and in a thread group    *)
(* that has zapped it the leader with number 1 goes last.                  *)
LEMMA FreeReaper ==
  ASSUME Inv, (\E t \in Thread : ForkFails(t)) \/ (\E p \in Pid : Exit(p)), NEW l \in Level
  PROVE  ZapGroup(l)' /\ (Exists(l)' => ReaperLife(l)')
<1>0. TypeOK
  BY DEF Inv
<1>1. PICK p \in Live :
        /\ p \in Pid /\ free_pid(p) /\ state'[p] = "dead"
        /\ \A q \in Pid \ {p} : state'[q] = state[q]
        /\ UNCHANGED <<level, numbers, child_reaper, zap, kref>>
        /\ Exit(p) \/ (UNCHANGED init_tasks /\ state[p] = "published")
  BY FreePidEffect
<1>2. ZapGroup(l) /\ (Exists(l) => ReaperLife(l)) /\ init_tasks[l] \subseteq Pid
  BY <1>0 DEF Inv, ReaperInv, TypeOK
<1>3. Exists(l)' <=> Exists(l)
  BY <1>1 DEF Exists
<1>4. \A x \in init_tasks[l] : x \in Pid /\ state[x] = "attached" /\ level[x] = l
  BY <1>2 DEF ZapGroup
<1>5. /\ p \in init_tasks[l] => Exit(p) /\ level[p] = l
      /\ Exit(p) => init_tasks' = [init_tasks EXCEPT ![level[p]] = @ \ {p}] /\ MayExit(p)
  BY <1>1, <1>4 DEF Exit
<1>6. init_tasks'[l] = init_tasks[l] \ {p}
  <2>1. CASE UNCHANGED init_tasks /\ state[p] = "published"
    BY <1>4, <2>1
  <2>2. CASE Exit(p) /\ level[p] = l
    BY <1>0, <1>5, <2>2 DEF TypeOK
  <2>3. CASE Exit(p) /\ level[p] # l
    BY <1>0, <1>4, <1>5, <2>3 DEF TypeOK
  <2>4. QED
    BY <1>1, <2>1, <2>2, <2>3
<1>7. p \in init_tasks[l] => /\ zap[l] = "done"
                             /\ numbers[p][l] = 1 => init_tasks[l] = {p}
  BY <1>5 DEF MayExit, is_child_reaper
<1>8. ZapGroup(l)'
  <2>1. init_tasks'[l] \subseteq {x \in Pid : state'[x] = "attached" /\ level'[x] = l}
    BY <1>1, <1>4, <1>6
  <2>2. CASE p \notin init_tasks[l]
    <3>1. init_tasks'[l] = init_tasks[l]
      BY <1>6, <2>2
    <3>2. QED
      BY <1>1, <1>2, <2>1, <3>1 DEF ZapGroup
  <2>3. CASE p \in init_tasks[l]
    <3>1. PICK x \in init_tasks[l] :
            /\ numbers[x][l] = 1
            /\ init_tasks[l] = {x, child_reaper[l]} \/ init_tasks[l] = {x}
      BY <1>2, <1>7, <2>3 DEF ZapGroup
    <3>2. init_tasks'[l] = {} \/ (init_tasks'[l] = {x} /\ x \in init_tasks'[l])
      BY <1>6, <1>7, <2>3, <3>1
    <3>3. QED
      BY <1>1, <1>7, <2>1, <2>3, <3>1, <3>2 DEF ZapGroup
  <2>4. QED
    BY <2>2, <2>3
<1>9. ASSUME Exists(l)' PROVE ReaperLife(l)'
  <2>1. ReaperLife(l) /\ Exists(l) /\ child_reaper[l] \in Pid \cup {NULL}
    BY <1>0, <1>2, <1>3, <1>9 DEF TypeOK
  <2>2. child_reaper[l] # NULL /\ zap[l] = "none" => p # child_reaper[l]
    <3>1. init_tasks[l] = {} \/ zap[l] # "none"
      BY <1>2 DEF ZapGroup
    <3>2. SUFFICES ASSUME child_reaper[l] # NULL, zap[l] = "none", p = child_reaper[l] PROVE FALSE
      OBVIOUS
    <3>3. state[p] = "attached" /\ level[p] = l
      BY <2>1, <3>2 DEF ReaperLife
    <3>4. QED
      BY <1>1, <1>5, <3>1, <3>2, <3>3 DEF MayExit
  <2>3. CASE l <= level[p]
    <3>1. /\ LiveAt(l)' = LiveAt(l) \ {p} /\ p \in LiveAt(l)
          /\ Cardinality(LiveAt(l)') = Cardinality(LiveAt(l)) - 1
          /\ Cardinality(LiveAt(l)) \in Nat /\ Cardinality(LiveAt(l)) + 2 < PIDNS_ADDING
      BY <1>1, <2>3, FreeLiveAt, LiveAtCount
    <3>2. /\ pid_allocated[l] >= 1 /\ pid_allocated[l] \in Nat
          /\ pid_allocated'[l] = IF pid_allocated[l] = PIDNS_ADDING + 1 THEN 0
                                 ELSE pid_allocated[l] - 1
      BY <1>0, <1>1, <2>3, FreeEffect DEF TypeOK
    <3>3. /\ Adding(l) <=> pid_allocated[l] = Cardinality(LiveAt(l)) + PIDNS_ADDING
          /\ ~Adding(l) <=> pid_allocated[l] = Cardinality(LiveAt(l))
      BY <2>1, AddingCount
    <3>4. ~Adding(l) => ~Adding(l)'
      BY <3>1, <3>2, <3>3, AddingAssumption DEF Adding
    <3>5. Adding(l) => Adding(l)' \/ LiveAt(l)' = {}
      <4>1. Cardinality(LiveAt(l)) = 1 => LiveAt(l)' = {}
        <5>1. Cardinality(LiveAt(l)) = 1 => \E x : LiveAt(l) = {x}
          BY LiveAtCount, FS_Singleton
        <5>2. QED
          BY <3>1, <5>1
      <4>0. Cardinality(LiveAt(l)) # 0
        BY <3>1, LiveAtCount, FS_EmptySet
      <4>2. Adding(l) /\ Cardinality(LiveAt(l)) # 1 => Adding(l)'
        BY <3>1, <3>2, <3>3, <4>0, AddingAssumption DEF Adding
      <4>3. QED
        BY <4>1, <4>2
    <3>6. ASSUME child_reaper[l] # NULL, zap[l] = "none"
          PROVE  /\ Adding(l)' /\ state'[child_reaper[l]] = "attached"
                 /\ level[child_reaper[l]] = l /\ numbers[child_reaper[l]][l] = 1
      <4>1. PICK q \in Pid : q = child_reaper[l]
        BY <2>1, <3>6
      <4>2. q # p /\ state[q] = "attached" /\ level[q] = l /\ numbers[q][l] = 1 /\ Adding(l)
        BY <2>1, <2>2, <3>6, <4>1 DEF ReaperLife
      <4>3. q \in LiveAt(l)'
        <5>1. l <= l
          BY Ranges
        <5>2. QED
          BY <3>1, <4>2, <5>1 DEF LiveAt, Live
      <4>4. QED
        BY <1>1, <3>5, <4>1, <4>2, <4>3
    <3>7. child_reaper[l] = NULL => zap[l] = "none" /\ Adding(l)
      BY <2>1, <3>1 DEF ReaperLife
    <3>8. zap[l] = "done" => LiveAt(l)' = init_tasks'[l]
      BY <1>6, <2>1, <3>1 DEF ReaperLife
    <3>9. zap[l] # "none" => ~Adding(l)'
      BY <2>1, <3>4 DEF ReaperLife
    <3>10. QED
      BY <1>1, <3>5, <3>6, <3>7, <3>8, <3>9 DEF ReaperLife
  <2>4. CASE ~(l <= level[p])
    <3>1. LiveAt(l)' = LiveAt(l) /\ pid_allocated'[l] = pid_allocated[l]
      BY <1>1, <2>4, FreeLiveAt, FreeEffect
    <3>2. Adding(l)' <=> Adding(l)
      BY <3>1 DEF Adding
    <3>3. p \notin init_tasks[l]
      BY <1>4, <2>4, Ranges
    <3>4. init_tasks'[l] = init_tasks[l]
      BY <1>6, <3>3
    <3>5. QED
      BY <1>1, <2>1, <2>2, <3>1, <3>2, <3>4 DEF ReaperLife
  <2>5. QED
    BY <2>3, <2>4
<1>10. QED
  BY <1>8, <1>9

(* Every step keeps the life of every namespace in order.                  *)
LEMMA ReaperInvStep ==
  ASSUME Inv, [Next]_vars
  PROVE  ReaperInv'
<1>1. SUFFICES ASSUME NEW l \in Level PROVE ZapGroup(l)' /\ (Exists(l)' => ReaperLife(l)')
  BY DEF ReaperInv
<1> DEFINE Goal == ZapGroup(l)' /\ (Exists(l)' => ReaperLife(l)')
<1>2. ASSUME UNCHANGED <<pid_allocated, child_reaper, zap, init_tasks>>, SameLive,
             ~\E j \in Level : create_pid_namespace(j)
      PROVE  Goal
  <2>1. Exists(l)' => Exists(l)
    BY <1>2, ExistsStep
  <2>2. QED
    BY <1>2, <2>1, SameReaper
<1>3. QED
  BY <1>2, CreateReaper, ZapStartReaper, ZapStepReaper, PublishReaper, AttachReaper, FreeReaper,
     SameReaperSteps, SameCountSteps, SameLiveSteps, Kinds
-----------------------------------------------------------------------------
(* The first process of a namespace: FirstInv.                             *)

(* A namespace whose count is the flag alone has no struct pid.            *)
LEMMA UnusedEmpty ==
  ASSUME Inv, NEW l \in Level, Exists(l), pid_allocated[l] = PIDNS_ADDING
  PROVE  LiveAt(l) = {}
<1>1. /\ Adding(l) <=> pid_allocated[l] = Cardinality(LiveAt(l)) + PIDNS_ADDING
      /\ Cardinality(LiveAt(l)) \in Nat /\ PIDNS_ADDING \in Nat
  BY AddingCount, LiveAtCount, AddingAssumption
<1>2. Adding(l)
  BY <1>1 DEF Adding
<1>3. Cardinality(LiveAt(l)) = 0
  BY <1>1, <1>2
<1>4. QED
  BY <1>3, LiveAtCount, FS_EmptySet

(* Every call of alloc_pid() for the namespace has given its numbers back. *)
AllFailed(l) == \A t \in Thread : th[t].pc # "idle" /\ th[t].ns = l => th[t].pc = "failed"

(* A namespace on which none of these acts stays as it is.                 *)
LEMMA SameFirst ==
  ASSUME Inv, NEW l \in Level, Exists(l), pid_allocated[l] = PIDNS_ADDING,
         AllFailed(l)' => AllFailed(l) /\ last_pid'[l] = last_pid[l],
         \A m \in Level : Exists(m)' => Exists(m)
  PROVE  /\ AllFailed(l)' => last_pid'[l] = 0
         /\ \A m \in Level : m > l => ~Exists(m)'
BY DEF Inv, FirstInv, Forking, AllFailed

(* A step of one call, seen from a namespace it is not for.                *)
LEMMA CallElsewhere ==
  ASSUME NEW t \in Thread, NEW l \in Level,
         \A u \in Thread \ {t} : th'[u] = th[u],
         th[t].pc \in {"idle", "failed"} \/ th[t].ns # l,
         AllFailed(l)'
  PROVE  AllFailed(l)
<1>1. SUFFICES ASSUME NEW v \in Thread, th[v].pc # "idle", th[v].ns = l
               PROVE  th[v].pc = "failed"
  BY DEF AllFailed
<1>2. CASE v = t
  BY <1>1, <1>2
<1>3. CASE v # t
  <2>1. th'[v] = th[v]
    BY <1>3
  <2>2. th'[v].pc # "idle" /\ th'[v].ns = l => th'[v].pc = "failed"
    BY DEF AllFailed
  <2>3. QED
    BY <1>1, <2>1, <2>2
<1>4. QED
  BY <1>2, <1>3

(* The steps that write neither last_pid nor the locals of a call.         *)
LEMMA SameFirstSteps ==
  ASSUME \/ \E l \in Level : PutNsproxy(l) \/ proc_cleanup_work(l) \/ ZapStep(l) \/ ZapStart(l)
         \/ \E t \in Reader, l \in Level, n \in Nr : find_vpid(t, l, n)
         \/ \E t \in Reader : get_pid(t)
         \/ UNCHANGED vars
         \/ (\E p \in Pid : delayed_put_pid(p)) \/ (\E t \in Reader : ReaderPut(t))
  PROVE  UNCHANGED <<last_pid, th>>
BY DEF PutNsproxy, proc_cleanup_work, ZapStep, ZapSignal, ZapPrepareToSleep, ZapDone, ZapSleep,
       ZapWake, ZapMoves, ZapStart, find_vpid, get_pid, vars, delayed_put_pid, ReaderPut, nsVars

(* A new namespace starts from number 1; it is made by a task of a         *)
(* namespace that is in use.                                               *)
LEMMA CreateFirst ==
  ASSUME Inv, [Next]_vars, NEW j \in Level, create_pid_namespace(j),
         NEW l \in Level, Exists(l)', pid_allocated'[l] = PIDNS_ADDING
  PROVE  /\ AllFailed(l)' => last_pid'[l] = 0
         /\ \A m \in Level : m > l => ~Exists(m)'
<1>0. TypeOK /\ ChainInv
  BY DEF Inv
<1>1. /\ ~Exists(j) /\ UNCHANGED th
      /\ pid_allocated' = [pid_allocated EXCEPT ![j] = PIDNS_ADDING]
      /\ last_pid' = [last_pid EXCEPT ![j] = 0]
  BY DEF create_pid_namespace
<1>2. PICK c \in Pid : Runnable(c) /\ level[c] = j - 1
  BY DEF create_pid_namespace
<1>3. l \in Nat /\ j \in Nat
  BY Ranges
<1>4. CASE l = j
  <2>1. last_pid'[l] = 0
    BY <1>0, <1>1, <1>4 DEF TypeOK
  <2>2. ASSUME NEW m \in Level, m > l, Exists(m)' PROVE FALSE
    <3>1. m # j /\ l \in 0 .. m
      BY <1>3, <1>4, <2>2, Ranges
    <3>2. Exists(m)
      BY <2>2, <3>1, CreateOther
    <3>3. QED
      BY <1>0, <1>1, <1>4, <3>1, <3>2 DEF ChainInv
  <2>3. QED
    BY <2>1, <2>2
<1>5. CASE l # j
  <2>1. Exists(l) /\ pid_allocated[l] = PIDNS_ADDING /\ last_pid'[l] = last_pid[l]
    BY <1>0, <1>1, <1>5, CreateOther DEF TypeOK
  <2>2. ~(l <= j - 1)
    <3>1. LiveAt(l) = {}
      BY <2>1, UnusedEmpty
    <3>2. QED
      BY <1>2, <3>1 DEF LiveAt, Live, Runnable
  <2>3. \A m \in Level : m > l => m # j
    BY <1>3, <2>2
  <2>4. \A m \in Level : m > l => ~Exists(m)'
    <3>1. SUFFICES ASSUME NEW m \in Level, m > l, Exists(m)' PROVE FALSE
      OBVIOUS
    <3>2. Exists(m)
      BY <2>3, <3>1, CreateOther
    <3>3. QED
      BY <2>1, <3>1, <3>2 DEF Inv, FirstInv
  <2>5. AllFailed(l)' => AllFailed(l)
    BY <1>1 DEF AllFailed
  <2>6. AllFailed(l)' => last_pid'[l] = 0
    BY <2>1, <2>5 DEF Inv, FirstInv, Forking, AllFailed
  <2>7. QED
    BY <2>4, <2>6
<1>6. QED
  BY <1>4, <1>5

(* A call of alloc_pid() numbers the first process from 1, or sets         *)
(* last_pid back when it fails.                                            *)
LEMMA CallFirst ==
  ASSUME Inv, NEW t \in Thread,
         \/ \E c \in Pid, l \in Level : alloc_pid(t, c, l)
         \/ Reserve(t) \/ ReserveFails(t) \/ Prepare(t) \/ PrepareFails(t) \/ PublishRefused(t)
         \/ OutFree(t) \/ ReturnError(t) \/ AttachTask(t),
         NEW l \in Level, Exists(l), pid_allocated[l] = PIDNS_ADDING,
         \A m \in Level : Exists(m)' => Exists(m)
  PROVE  /\ AllFailed(l)' => last_pid'[l] = 0
         /\ \A m \in Level : m > l => ~Exists(m)'
<1>0. TypeOK
  BY DEF Inv
<1>1. \A m \in Level : m > l => ~Exists(m)'
  BY DEF Inv, FirstInv
<1>2. ASSUME AllFailed(l)' => AllFailed(l) /\ last_pid'[l] = last_pid[l]
      PROVE  AllFailed(l)' => last_pid'[l] = 0
  BY <1>2, SameFirst
<1>3. ASSUME SameCall(t), th[t].pc # "idle", th'[t].pc # "failed", UNCHANGED last_pid
      PROVE  AllFailed(l)' => last_pid'[l] = 0
  <2>1. th[t].ns = l => ~AllFailed(l)'
    BY <1>3 DEF AllFailed, SameCall
  <2>2. \A u \in Thread \ {t} : th'[u] = th[u]
    BY <1>3 DEF SameCall
  <2>3. QED
    BY <1>2, <1>3, <2>1, <2>2, CallElsewhere
<1>4. ASSUME NEW c \in Pid, NEW k \in Level, alloc_pid(t, c, k)
      PROVE  AllFailed(l)' => last_pid'[l] = 0
  <2>1. UNCHANGED last_pid
    BY <1>4 DEF alloc_pid, nsVars
  <2>2. th[t].pc = "idle" /\ \A u \in Thread \ {t} : th'[u] = th[u]
    BY <1>4, AllocEffect
  <2>3. QED
    BY <1>2, <2>1, <2>2, CallElsewhere
<1>5. ASSUME Reserve(t) PROVE AllFailed(l)' => last_pid'[l] = 0
  <2>1. /\ SameCall(t) /\ th[t].pc = "reserve" /\ th'[t].pc \in {"reserve", "prepare"}
    BY <1>5, ReserveLocals
  <2>2. PICK k \in Level, n \in Nr : k = th[t].i /\ k <= th[t].ns
                                     /\ last_pid' = [last_pid EXCEPT ![k] = n]
    BY <1>5, ReserveEffect
  <2>3. CASE th[t].ns = l
    BY <2>1, <2>3 DEF AllFailed, SameCall
  <2>4. CASE th[t].ns # l /\ k # l
    <3>1. last_pid'[l] = last_pid[l]
      BY <1>0, <2>2, <2>4 DEF TypeOK
    <3>2. AllFailed(l)' => AllFailed(l)
      BY <2>1, <2>4, CallElsewhere DEF SameCall
    <3>3. QED
      BY <1>2, <3>1, <3>2
  <2>5. CASE th[t].ns # l /\ k = l
    <3>1. PICK m \in Level : m = th[t].ns
      BY <1>0, ThreadFields
    <3>2. m > l /\ m \in 0 .. m
      BY <2>2, <2>5, <3>1, Ranges
    <3>3. nsproxy[m]
      BY <2>1, <3>1 DEF Inv, ForkInv
    <3>4. Exists(m)
      BY <3>2, <3>3, HeldExists DEF Inv
    <3>5. QED
      BY <3>2, <3>4 DEF Inv, FirstInv
  <2>6. QED
    BY <2>3, <2>4, <2>5
<1>6. ASSUME ReserveFails(t) PROVE AllFailed(l)' => last_pid'[l] = 0
  <2>1. UNCHANGED last_pid
    BY <1>6 DEF ReserveFails, nsVars
  <2>2. QED
    BY <1>0, <1>3, <1>6, <2>1, ReserveFailsLocals
<1>7. ASSUME Prepare(t) \/ PrepareFails(t) \/ PublishRefused(t)
      PROVE  AllFailed(l)' => last_pid'[l] = 0
  <2>1. UNCHANGED last_pid /\ th[t].pc # "idle"
    BY <1>7 DEF Prepare, PrepareFails, PublishRefused, nsVars
  <2>2. PICK pc \in {"publish", "copy_process", "out_free"} : th' = [th EXCEPT ![t].pc = pc]
    BY <1>7 DEF Prepare, PrepareFails, PublishRefused
  <2>3. SameCall(t) /\ th'[t].pc = pc
    BY <1>0, <2>1, <2>2, MoveLocals
  <2>4. QED
    BY <1>3, <2>1, <2>3
<1>8. ASSUME OutFree(t) PROVE AllFailed(l)' => last_pid'[l] = 0
  <2>1. PICK m \in Level : m = th[t].ns
    BY <1>0, ThreadFields
  <2>2. last_pid' = IF pid_allocated[m] = PIDNS_ADDING THEN [last_pid EXCEPT ![m] = 0]
                                                      ELSE last_pid
    BY <1>8, <2>1 DEF OutFree, NeverUsed
  <2>3. CASE m = l
    BY <1>0, <2>2, <2>3 DEF TypeOK
  <2>4. CASE m # l
    <3>1. last_pid'[l] = last_pid[l]
      BY <1>0, <2>2, <2>4 DEF TypeOK
    <3>2. SameCall(t)
      BY <1>0, <1>8, OutFreeLocals
    <3>3. QED
      BY <1>2, <2>1, <2>4, <3>1, <3>2, CallElsewhere DEF SameCall
  <2>5. QED
    BY <2>3, <2>4
<1>9. ASSUME ReturnError(t) PROVE AllFailed(l)' => last_pid'[l] = 0
  <2>1. th[t].pc = "failed" /\ UNCHANGED last_pid /\ \A u \in Thread \ {t} : th'[u] = th[u]
    BY <1>0, <1>9, IdleLocals DEF ReturnError, nsVars
  <2>2. QED
    BY <1>2, <2>1, CallElsewhere
<1>10. ASSUME AttachTask(t) PROVE AllFailed(l)' => last_pid'[l] = 0
  <2>1. UNCHANGED last_pid /\ \A u \in Thread \ {t} : th'[u] = th[u]
    BY <1>0, <1>10, IdleLocals DEF AttachTask, nsVars
  <2>2. PICK p \in Pid : /\ p = th[t].pid /\ state[p] = "published" /\ level[p] = th[t].ns
    BY <1>10 DEF AttachTask, Inv, ThreadInv, CallInv
  <2>3. th[t].ns # l
    <3>1. LiveAt(l) = {} /\ l <= l
      BY UnusedEmpty, Ranges
    <3>2. QED
      BY <2>2, <3>1 DEF LiveAt, Live
  <2>4. QED
    BY <1>2, <2>1, <2>3, CallElsewhere
<1>11. QED
  BY <1>1, <1>4, <1>5, <1>6, <1>7, <1>8, <1>9, <1>10

(* Every step keeps an unused namespace ready for its first process.       *)
LEMMA FirstInvStep ==
  ASSUME Inv, [Next]_vars
  PROVE  FirstInv'
<1>0. TypeOK
  BY DEF Inv
<1>1. SUFFICES ASSUME NEW l \in Level, Exists(l)', pid_allocated'[l] = PIDNS_ADDING
               PROVE  /\ AllFailed(l)' => last_pid'[l] = 0
                      /\ \A m \in Level : m > l => ~Exists(m)'
  BY DEF FirstInv, Forking, AllFailed
<1> DEFINE Goal == /\ AllFailed(l)' => last_pid'[l] = 0
                   /\ \A m \in Level : m > l => ~Exists(m)'
<1>2. SUFFICES ASSUME ~\E j \in Level : create_pid_namespace(j) PROVE Goal
  BY <1>1, CreateFirst
<1>3. Exists(l) /\ \A m \in Level : Exists(m)' => Exists(m)
  BY <1>1, <1>2, ExistsStep
<1>4. ASSUME pid_allocated'[l] = pid_allocated[l], UNCHANGED <<last_pid, th>> PROVE Goal
  <2>1. AllFailed(l)' => AllFailed(l) /\ last_pid'[l] = last_pid[l]
    BY <1>4 DEF AllFailed
  <2>2. QED
    BY <1>1, <1>3, <1>4, <2>1, SameFirst
<1>5. ASSUME NEW j \in Level, ZapStart(j) PROVE Goal
  <2>1. pid_allocated' = [pid_allocated EXCEPT ![j] = pid_allocated[j] % PIDNS_ADDING]
    BY <1>0, <1>5 DEF ZapStart, disable_pid_allocation, TypeOK
  <2>2. j # l
    <3>1. PIDNS_ADDING \in Nat /\ PIDNS_ADDING > 0
      BY LiveAtCount, AddingAssumption
    <3>2. \A a \in Nat : a % PIDNS_ADDING < PIDNS_ADDING /\ a % PIDNS_ADDING \in Nat
      BY <3>1
    <3>3. SUFFICES ASSUME j = l PROVE FALSE
      OBVIOUS
    <3>4. pid_allocated'[l] = pid_allocated[l] % PIDNS_ADDING /\ pid_allocated[l] \in Nat
      BY <1>0, <2>1, <3>3 DEF TypeOK
    <3>5. pid_allocated'[l] < PIDNS_ADDING
      BY <3>2, <3>4
    <3>6. QED
      BY <1>1, <3>1, <3>5
  <2>3. pid_allocated'[l] = pid_allocated[l]
    BY <1>0, <2>1, <2>2 DEF TypeOK
  <2>4. QED
    BY <1>4, <1>5, <2>3, SameFirstSteps
<1>6. ASSUME NEW j \in Level, NEW n \in LastPidWrites, pid_ns_ctl_handler(j, n) PROVE Goal
  <2>1. /\ \E p \in Pid : state[p] = "attached" /\ level[p] = j
        /\ last_pid' = [last_pid EXCEPT ![j] = n]
        /\ UNCHANGED <<pid_allocated, th>>
    BY <1>6 DEF pid_ns_ctl_handler
  <2>2. j # l
    <3>1. LiveAt(l) = {} /\ l <= l
      BY <1>1, <1>3, <2>1, UnusedEmpty, Ranges
    <3>2. QED
      BY <2>1, <3>1 DEF LiveAt, Live
  <2>3. last_pid'[l] = last_pid[l] /\ (AllFailed(l)' => AllFailed(l))
    BY <1>0, <2>1, <2>2 DEF TypeOK, AllFailed
  <2>4. QED
    BY <1>1, <1>3, <2>1, <2>3, SameFirst
<1>7. ASSUME NEW t \in Thread, Publish(t) PROVE Goal
  <2>1. ~(l <= level[th[t].pid])
    <3>1. SUFFICES ASSUME l <= level[th[t].pid] PROVE FALSE
      OBVIOUS
    <3>2. pid_allocated'[l] = pid_allocated[l] + 1 /\ pid_allocated[l] \in Nat
      BY <1>0, <1>7, <3>1, PublishEffect DEF TypeOK
    <3>3. Cardinality(LiveAt(l)) \in Nat /\ Cardinality(LiveAt(l)) + 2 < PIDNS_ADDING
          /\ PIDNS_ADDING \in Nat
      BY LiveAtCount, AddingAssumption
    <3>4. \/ pid_allocated[l] = Cardinality(LiveAt(l))
          \/ pid_allocated[l] = Cardinality(LiveAt(l)) + PIDNS_ADDING
      BY <1>3 DEF Inv, CountInv
    <3>5. QED
      BY <1>1, <3>2, <3>3, <3>4
  <2>2. /\ pid_allocated'[l] = pid_allocated[l] /\ SameCall(t) /\ th[t].ns = level[th[t].pid]
    BY <1>7, <2>1, PublishEffect
  <2>3. UNCHANGED last_pid
    BY <1>7 DEF Publish, nsVars
  <2>4. th[t].ns # l
    BY <2>1, <2>2, Ranges
  <2>5. AllFailed(l)' => AllFailed(l)
    BY <2>2, <2>4, CallElsewhere DEF SameCall
  <2>6. QED
    BY <1>1, <1>3, <2>2, <2>3, <2>5, SameFirst
<1>8. ASSUME (\E t \in Thread : ForkFails(t)) \/ (\E p \in Pid : Exit(p)) PROVE Goal
  <2>1. PICK p \in Live :
          /\ p \in Pid /\ free_pid(p) /\ UNCHANGED last_pid
          /\ \/ UNCHANGED th
             \/ \E t \in Thread : /\ level[p] = th[t].ns
                                  /\ \A u \in Thread \ {t} : th'[u] = th[u]
    BY <1>8, FreePidEffect
  <2>2. ~(l <= level[p])
    <3>1. SUFFICES ASSUME l <= level[p] PROVE FALSE
      OBVIOUS
    <3>2. /\ pid_allocated[l] \in Nat
          /\ pid_allocated'[l] = IF pid_allocated[l] = PIDNS_ADDING + 1 THEN 0
                                 ELSE pid_allocated[l] - 1
      BY <1>0, <2>1, <3>1, FreeEffect DEF TypeOK
    <3>3. PIDNS_ADDING \in Nat /\ PIDNS_ADDING > 0
      BY LiveAtCount, AddingAssumption
    <3>4. QED
      BY <1>1, <3>2, <3>3
  <2>3. pid_allocated'[l] = pid_allocated[l] /\ level[p] # l
    BY <2>1, <2>2, FreeEffect, Ranges
  <2>4. AllFailed(l)' => AllFailed(l)
    <3>1. CASE UNCHANGED th
      BY <3>1 DEF AllFailed
    <3>2. CASE \E t \in Thread : level[p] = th[t].ns /\ \A u \in Thread \ {t} : th'[u] = th[u]
      BY <2>3, <3>2, CallElsewhere
    <3>3. QED
      BY <2>1, <3>1, <3>2
  <2>5. QED
    BY <1>1, <1>3, <2>1, <2>3, <2>4, SameFirst
<1>9. ASSUME NEW t \in Thread,
             \/ \E c \in Pid, k \in Level : alloc_pid(t, c, k)
             \/ Reserve(t) \/ ReserveFails(t) \/ Prepare(t) \/ PrepareFails(t)
             \/ PublishRefused(t) \/ OutFree(t) \/ ReturnError(t) \/ AttachTask(t)
      PROVE  Goal
  <2>1. UNCHANGED pid_allocated
    BY <1>9, SameCountSteps
  <2>2. QED
    BY <1>1, <1>3, <1>9, <2>1, CallFirst
<1>10. QED
  BY <1>2, <1>4, <1>5, <1>6, <1>7, <1>8, <1>9, SameFirstSteps, SameCountSteps, Kinds
-----------------------------------------------------------------------------
(* The zapping init is woken: NoLostWakeup.                                *)

(* One or two tasks zap a namespace, and the namespace counts them.        *)
LEMMA ZappingTasks ==
  ASSUME Inv, NEW l \in Level, zap[l] \notin {"none", "done"}
  PROVE  /\ Exists(l) /\ ~Adding(l) /\ init_tasks[l] \subseteq LiveAt(l)
         /\ Cardinality(init_tasks[l]) \in {1, 2}
         /\ pid_allocated[l] = Cardinality(LiveAt(l))
         /\ Cardinality(init_tasks[l]) <= Cardinality(LiveAt(l))
<1>1. PICK x \in init_tasks[l] : init_tasks[l] = {x, child_reaper[l]}
  BY DEF Inv, ReaperInv, ZapGroup
<1>2. \A y \in init_tasks[l] : y \in Pid /\ state[y] = "attached" /\ level[y] = l
  BY DEF Inv, ReaperInv, ZapGroup
<1>3. l \in 0 .. l /\ l <= l
  BY Ranges
<1>4. init_tasks[l] \subseteq LiveAt(l)
  BY <1>2, <1>3 DEF LiveAt, Live
<1>5. Exists(l)
  BY <1>1, <1>4, NoneLive
<1>6. ~Adding(l) /\ pid_allocated[l] = Cardinality(LiveAt(l))
  <2>1. ~Adding(l)
    BY <1>5 DEF Inv, ReaperInv, ReaperLife
  <2>2. QED
    BY <1>5, <2>1, AddingCount
<1>7. Cardinality(init_tasks[l]) \in {1, 2}
  <2>1. PICK y : y = child_reaper[l]
    OBVIOUS
  <2>2. IsFiniteSet({x}) /\ Cardinality({x}) = 1
    BY FS_Singleton
  <2>3. Cardinality({x} \cup {y}) \in {1, 2}
    BY <2>2, FS_AddElement
  <2>4. init_tasks[l] = {x} \cup {y}
    BY <1>1, <2>1
  <2>5. QED
    BY <2>3, <2>4
<1>8. Cardinality(init_tasks[l]) <= Cardinality(LiveAt(l))
  BY <1>4, LiveAtCount, FS_Subset
<1>9. QED
  BY <1>4, <1>5, <1>6, <1>7, <1>8

(* Every step keeps the sleeping init from missing the last task's exit.   *)
LEMMA NoLostWakeupStep ==
  ASSUME Inv, [Next]_vars
  PROVE  NoLostWakeup'
<1>0. TypeOK
  BY DEF Inv
<1>1. SUFFICES ASSUME NEW l \in Level, zap'[l] = "sleep", OnlyInitLeft(l)'
               PROVE  awake'[l]
  BY DEF NoLostWakeup
<1>2. ASSUME zap'[l] = zap[l], pid_allocated'[l] = pid_allocated[l],
             init_tasks'[l] = init_tasks[l], awake'[l] = awake[l]
      PROVE  awake'[l]
  BY <1>1, <1>2 DEF Inv, NoLostWakeup, OnlyInitLeft
<1>3. ASSUME NEW j \in Level, create_pid_namespace(j) PROVE awake'[l]
  <2>1. /\ zap' = [zap EXCEPT ![j] = "none"] /\ awake' = [awake EXCEPT ![j] = TRUE]
        /\ pid_allocated' = [pid_allocated EXCEPT ![j] = PIDNS_ADDING] /\ UNCHANGED init_tasks
    BY <1>3 DEF create_pid_namespace
  <2>2. QED
    BY <1>0, <1>1, <1>2, <2>1 DEF TypeOK
<1>4. ASSUME NEW j \in Level, ZapStart(j) PROVE awake'[l]
  <2>1. /\ zap' = [zap EXCEPT ![j] = "signal"] /\ UNCHANGED awake
        /\ pid_allocated' = [pid_allocated EXCEPT ![j] = @ % PIDNS_ADDING]
        /\ \E me : init_tasks' = [init_tasks EXCEPT ![j] = {child_reaper[j], me}]
    BY <1>4 DEF ZapStart, disable_pid_allocation
  <2>2. j # l
    BY <1>0, <1>1, <2>1 DEF TypeOK
  <2>3. QED
    BY <1>0, <1>2, <2>1, <2>2 DEF TypeOK
<1>5. ASSUME NEW j \in Level, ZapStep(j) PROVE awake'[l]
  <2>1. UNCHANGED <<pid_allocated, init_tasks>>
    BY <1>5 DEF ZapStep, ZapSignal, ZapPrepareToSleep, ZapDone, ZapSleep, ZapWake, ZapMoves
  <2>2. CASE j = l
    <3>1. ~ZapSignal(j) /\ ~ZapPrepareToSleep(j) /\ ~ZapDone(j) /\ ~ZapWake(j)
      BY <1>0, <1>1, <2>2 DEF ZapSignal, ZapPrepareToSleep, ZapDone, ZapWake, ZapMoves, TypeOK
    <3>2. ~OnlyInitLeft(j)
      BY <1>5, <3>1 DEF ZapStep, ZapSleep
    <3>3. QED
      BY <1>1, <2>1, <2>2, <3>2 DEF OnlyInitLeft
  <2>3. CASE j # l
    <3>1. zap'[l] = zap[l] /\ awake'[l] = awake[l]
      BY <1>0, <1>5, <2>3
         DEF ZapStep, ZapSignal, ZapPrepareToSleep, ZapDone, ZapSleep, ZapWake, ZapMoves, TypeOK
    <3>2. QED
      BY <1>2, <2>1, <3>1
  <2>4. QED
    BY <2>2, <2>3
<1>6. ASSUME NEW t \in Thread, Publish(t) PROVE awake'[l]
  <2>1. UNCHANGED <<zap, init_tasks, awake>>
    BY <1>6, SameReaperSteps
  <2>2. CASE l <= level[th[t].pid]
    <3>1. /\ pid_allocated[l] = Cardinality(LiveAt(l))
          /\ Cardinality(init_tasks[l]) <= Cardinality(LiveAt(l))
          /\ Cardinality(init_tasks[l]) \in {1, 2}
      BY <1>1, <2>1, ZappingTasks
    <3>2. pid_allocated'[l] = pid_allocated[l] + 1 /\ Cardinality(LiveAt(l)) \in Nat
      BY <1>6, <2>2, PublishEffect, LiveAtCount
    <3>3. pid_allocated'[l] = Cardinality(init_tasks[l])
      BY <1>1, <2>1 DEF OnlyInitLeft
    <3>4. QED
      BY <3>1, <3>2, <3>3
  <2>3. CASE ~(l <= level[th[t].pid])
    BY <1>2, <1>6, <2>1, <2>3, PublishEffect
  <2>4. QED
    BY <2>2, <2>3
<1>7. ASSUME (\E t \in Thread : ForkFails(t)) \/ (\E p \in Pid : Exit(p)) PROVE awake'[l]
  <2>1. PICK p \in Live :
          /\ p \in Pid /\ free_pid(p) /\ UNCHANGED zap
          /\ Exit(p) \/ UNCHANGED init_tasks
    BY <1>7, FreePidEffect
  <2>2. zap[l] = "sleep"
    BY <1>1, <2>1
  <2>3. init_tasks'[l] = init_tasks[l]
    <3>1. \A y \in init_tasks[l] : level[y] = l
      BY DEF Inv, ReaperInv, ZapGroup
    <3>2. Exit(p) => /\ init_tasks' = [init_tasks EXCEPT ![level[p]] = @ \ {p}]
                     /\ level[p] = l => p \notin init_tasks[l]
      BY <2>2 DEF Exit, MayExit
    <3>3. Exit(p) /\ level[p] = l => init_tasks'[l] = init_tasks[l] \ {p}
      BY <1>0, <3>2 DEF TypeOK
    <3>4. Exit(p) /\ level[p] # l => init_tasks'[l] = init_tasks[l]
      BY <1>0, <2>1, <3>2 DEF TypeOK
    <3>5. QED
      BY <2>1, <3>2, <3>3, <3>4
  <2>4. CASE l <= level[p]
    <3>1. /\ pid_allocated[l] \in Nat
          /\ pid_allocated'[l] = IF pid_allocated[l] = PIDNS_ADDING + 1 THEN 0
                                 ELSE pid_allocated[l] - 1
          /\ awake'[l] <=> (awake[l] \/ pid_allocated[l] - 1 \in {1, 2})
      BY <1>0, <2>1, <2>4, FreeEffect DEF TypeOK
    <3>2. pid_allocated'[l] \in {1, 2}
      <4>1. Cardinality(init_tasks[l]) \in {1, 2}
        BY <2>2, ZappingTasks
      <4>2. QED
        BY <1>1, <2>3, <4>1 DEF OnlyInitLeft
    <3>3. QED
      BY <3>1, <3>2
  <2>5. CASE ~(l <= level[p])
    <3>1. pid_allocated'[l] = pid_allocated[l] /\ (awake'[l] <=> awake[l])
      BY <2>1, <2>5, FreeEffect
    <3>2. OnlyInitLeft(l)
      BY <1>1, <2>3, <3>1 DEF OnlyInitLeft
    <3>3. QED
      BY <2>2, <3>1, <3>2 DEF Inv, NoLostWakeup
  <2>6. QED
    BY <2>4, <2>5
<1>8. ASSUME NEW t \in Thread, AttachTask(t) PROVE UNCHANGED <<zap, init_tasks, awake>>
  BY <1>8 DEF AttachTask, zapVars
<1>9. QED
  BY <1>2, <1>3, <1>4, <1>5, <1>6, <1>7, <1>8, SameReaperSteps, SameCountSteps, Kinds
-----------------------------------------------------------------------------
(* The invariant and what follows from it.                                 *)

(* The system after boot.                                                  *)
LEMMA InitInv == Init => Inv
<1> SUFFICES ASSUME Init PROVE Inv
  OBVIOUS
<1>0. 0 \in Level /\ Level \subseteq Nat /\ 1 \in Nr /\ InitPid \in Pid /\ NULL \notin Pid
      /\ NoNumbers \in [Level -> 0 .. PID_MAX - 1] /\ PIDNS_ADDING \in Nat
      /\ PID_MAX \in Nat /\ PID_MAX > 2 /\ 0 \in 0 .. PID_MAX - 1
      /\ ABSENT \notin Pid \cup {NULL}
  BY Ranges, PidAssumption, AddingAssumption, SizeAssumption DEF NoNumbers
<1>1. /\ IdleThread \in ThreadType /\ IdleReader \in ReaderType
      /\ \A t \in Thread : th[t].pc = "idle" /\ th[t].pid = NULL
      /\ \A t \in Reader : rd[t].pc = "idle"
  BY <1>0, SizeAssumption DEF IdleThread, ThreadType, IdleReader, ReaderType, Init
<1>2. TypeOK
  <2>1. map \in [Level -> [Nr -> Pid \cup {NULL, ABSENT}]]
    BY <1>0 DEF Init, NoEntries
  <2>2. numbers \in [Pid -> [Level -> 0 .. PID_MAX - 1]]
    <3>1. [NoNumbers EXCEPT ![0] = 1] \in [Level -> 0 .. PID_MAX - 1]
      BY <1>0
    <3>2. QED
      BY <1>0, <3>1 DEF Init
  <2>3. /\ last_pid \in [Level -> 0 .. PID_MAX] /\ pid_allocated \in [Level -> Nat]
        /\ kref \in [Level -> Nat] /\ child_reaper \in [Level -> Pid \cup {NULL}]
        /\ count \in [Pid -> Nat] /\ level \in [Pid -> Level]
        /\ state \in [Pid -> {"free", "new", "published", "attached", "dead", "stale"}]
        /\ gp \in [Pid -> SUBSET Reader]
    BY <1>0 DEF Init
  <2>4. /\ proc_mnt \in [Level -> BOOLEAN] /\ proc_work \in [Level -> BOOLEAN]
        /\ nsproxy \in [Level -> BOOLEAN] /\ awake \in [Level -> BOOLEAN]
        /\ zap \in [Level -> {"none", "signal", "wait", "check", "sleep", "done"}]
        /\ init_tasks \in [Level -> SUBSET Pid]
        /\ killed \subseteq Pid /\ shared \subseteq Pid /\ missed \subseteq Level
    BY DEF Init
  <2>5. th \in [Thread -> ThreadType] /\ rd \in [Reader -> ReaderType]
    BY <1>1 DEF Init
  <2>6. QED
    BY <2>1, <2>2, <2>3, <2>4, <2>5 DEF TypeOK
<1>3. /\ state[InitPid] = "attached" /\ level[InitPid] = 0 /\ numbers[InitPid][0] = 1
      /\ \A l \in Level : l # 0 => numbers[InitPid][l] = 0
      /\ \A p \in Pid : level[p] = 0
      /\ \A p \in Pid \ {InitPid} : state[p] = "free" /\ numbers[p] = NoNumbers
      /\ Live = {InitPid}
  BY <1>0 DEF Init, NoNumbers, Live
<1>4. /\ \A l \in Level : Exists(l) <=> l = 0
      /\ \A l \in Level : zap[l] = "none" /\ init_tasks[l] = {}
      /\ \A n \in Nr : map[0][n] = IF n = 1 THEN InitPid ELSE ABSENT
      /\ \A l \in Level : l # 0 => \A n \in Nr : map[l][n] = ABSENT
  BY <1>0 DEF Init, Exists, NoEntries
<1>5. ThreadInv /\ ForkInv
  BY <1>1 DEF ThreadInv, CallInv, Reserving, ForkInv
<1>6. PidInv
  <2>1. \A l \in Level : l <= 0 <=> l = 0
    BY <1>0
  <2>2. \A p \in Live : \A l \in Level : numbers[p][l] # 0 <=> l <= level[p]
    BY <1>3, <2>1
  <2>3. QED
    BY <1>3, <2>2 DEF PidInv
<1>7. BootInv
  <2>1. child_reaper[0] = InitPid /\ nsproxy[0]
    BY <1>0 DEF Init
  <2>2. \A q \in Pid \ {InitPid} : numbers[q][0] # 1
    BY <1>0, <1>3 DEF NoNumbers
  <2>3. QED
    BY <1>0, <1>3, <1>4, <2>1, <2>2 DEF BootInv
<1>8. RefInv
  <2>1. \A p \in Pid : Holding(p) = {}
    BY <1>1 DEF Holding
  <2>2. count[InitPid] = Cardinality(Holding(InitPid)) + 1
    <3>1. Cardinality(Holding(InitPid)) = 0
      BY <1>0, <2>1, FS_EmptySet
    <3>2. count[InitPid] = 1
      BY <1>0 DEF Init
    <3>3. QED
      BY <3>1, <3>2
  <2>3. \A p \in Pid : state[p] \notin {"dead", "stale"}
    BY <1>3
  <2>4. QED
    BY <1>1, <1>3, <2>2, <2>3 DEF RefInv
<1>9. EntriesOwned /\ IndexInv /\ IndexedUnlessShared
  <2>1. EntriesOwned
    <3>1. SUFFICES ASSUME NEW l \in Level, NEW n \in Nr
                   PROVE  /\ map[l][n] \in Pid => /\ map[l][n] \in Live /\ l <= level[map[l][n]]
                                                  /\ numbers[map[l][n]][l] = n
                          /\ map[l][n] # NULL
      BY DEF EntriesOwned
    <3>2. CASE l = 0
      BY <1>0, <1>3, <1>4, <3>2
    <3>3. CASE l # 0
      BY <1>0, <1>4, <3>3
    <3>4. QED
      BY <3>2, <3>3
  <2>2. IndexInv
    BY <1>1, <1>3 DEF IndexInv, Reserving
  <2>3. IndexedUnlessShared
    <3>1. SUFFICES ASSUME NEW l \in 0 .. level[InitPid] PROVE map[l][numbers[InitPid][l]] = InitPid
      BY <1>3 DEF IndexedUnlessShared
    <3>2. l = 0
      BY <1>3
    <3>3. QED
      BY <1>0, <1>3, <1>4, <3>2
  <2>4. QED
    BY <2>1, <2>2, <2>3
<1>10. KrefExact /\ ChainInv
  <2>1. ASSUME NEW l \in Level \ {0}
        PROVE  kref[l] = One(nsproxy[l]) + One(proc_mnt[l]) + One(l < DEPTH /\ Exists(l + 1))
                         + Cardinality({p \in Pid : level[p] = l /\ HoldsNs(p)})
    <3>1. ~nsproxy[l] /\ ~proc_mnt[l] /\ kref[l] = 0
      BY DEF Init
    <3>2. ~(l < DEPTH /\ Exists(l + 1))
      BY <1>0, <1>4, Ranges
    <3>3. {p \in Pid : level[p] = l /\ HoldsNs(p)} = {}
      BY <1>3
    <3>4. Cardinality({p \in Pid : level[p] = l /\ HoldsNs(p)}) = 0
      BY <3>3, FS_EmptySet
    <3>5. One(nsproxy[l]) = 0 /\ One(proc_mnt[l]) = 0 /\ One(l < DEPTH /\ Exists(l + 1)) = 0
      BY <3>1, <3>2 DEF One
    <3>6. QED
      BY <3>1, <3>4, <3>5
  <2>2. ChainInv
    <3>1. \A m \in 0 .. 0 : m = 0
      OBVIOUS
    <3>2. QED
      BY <1>0, <1>4, <3>1 DEF ChainInv
  <2>3. QED
    BY <2>1, <2>2 DEF KrefExact
<1>11. pid_allocated[0] = PIDNS_ADDING + 1 /\ child_reaper[0] = InitPid
  BY <1>0 DEF Init
<1>12. CountInv
  <2>1. LiveAt(0) = {InitPid}
    BY <1>0, <1>3 DEF LiveAt
  <2>2. Cardinality(LiveAt(0)) = 1
    BY <2>1, FS_Singleton
  <2>3. pid_allocated[0] = Cardinality(LiveAt(0)) + PIDNS_ADDING
    BY <1>0, <1>11, <2>2
  <2>4. QED
    BY <1>4, <2>3 DEF CountInv
<1>13. ReaperInv
  <2>1. \A l \in Level : ZapGroup(l)
    BY <1>4 DEF ZapGroup
  <2>2. ReaperLife(0)
    BY <1>0, <1>3, <1>4, <1>11 DEF ReaperLife, Adding
  <2>3. QED
    BY <1>4, <2>1, <2>2 DEF ReaperInv
<1>14. FirstInv
  BY <1>0, <1>4, <1>11 DEF FirstInv
<1>15. NoLostWakeup
  BY <1>4 DEF NoLostWakeup
<1>16. QED
  BY <1>2, <1>5, <1>6, <1>7, <1>8, <1>9, <1>10, <1>12, <1>13, <1>14, <1>15 DEF Inv

(* Every step of alloc_pid(), free_pid(), the namespaces and their readers *)
(* keeps the invariant.                                                    *)
LEMMA NextInv == Inv /\ [Next]_vars => Inv'
<1> SUFFICES ASSUME Inv, [Next]_vars PROVE Inv'
  OBVIOUS
<1>1. TypeOK' /\ KrefExact' /\ ChainInv'
  BY BaseStep
<1>2. ThreadInv' /\ ForkInv' /\ PidInv'
  BY <1>1, ThreadInvStep, ForkInvStep, PidInvStep
<1>3. IndexInv' /\ IndexedUnlessShared'
  BY <1>1, <1>2, IndexStep
<1>4. BootInv' /\ RefInv' /\ EntriesOwned'
  BY BootInvStep, RefInvStep, EntriesOwnedStep
<1>5. CountInv' /\ ReaperInv' /\ FirstInv' /\ NoLostWakeup'
  BY CountInvStep, ReaperInvStep, FirstInvStep, NoLostWakeupStep
<1>6. QED
  BY <1>1, <1>2, <1>3, <1>4, <1>5 DEF Inv

(* The inductive invariant of skiplist/pid.c and skiplist/pid_namespace.c, *)
(* for every interleaving of forks, exits, lookups and namespaces.         *)
THEOREM Invariance == Spec => []Inv
BY InitInv, NextInv, PTL DEF Spec

(* Type correctness: no reference count and no pid_allocated drops below   *)
(* 0, and no number leaves its range.                                      *)
THEOREM TypeCorrect == Spec => []TypeOK
<1>1. Inv => TypeOK
  BY DEF Inv
<1>2. QED
  BY <1>1, Invariance, PTL

(* No error path of alloc_pid() leaves a placeholder behind, and no index  *)
(* points to a struct pid that free_pid() has taken back.                  *)
THEOREM EntriesHaveOwners == Spec => []EntriesOwned
<1>1. Inv => EntriesOwned
  BY DEF Inv
<1>2. QED
  BY <1>1, Invariance, PTL

(* A live struct pid is found under its number on each of its levels,      *)
(* unless alloc_pid() gave the number out twice.                           *)
THEOREM LiveIsIndexed == Spec => []IndexedUnlessShared
<1>1. Inv => IndexedUnlessShared
  BY DEF Inv
<1>2. QED
  BY <1>1, Invariance, PTL

(* pid_allocated without PIDNS_ADDING is the number of live struct pids of *)
(* the namespace and those below it.                                       *)
THEOREM AllocatedIsCount == Spec => []CountExact
<1>1. ASSUME Inv PROVE CountExact
  <2>1. SUFFICES ASSUME NEW l \in Level, Exists(l)
                 PROVE  pid_allocated[l] % PIDNS_ADDING = Cardinality(LiveAt(l))
    BY DEF CountExact, LiveAt
  <2>2. Cardinality(LiveAt(l)) \in Nat /\ Cardinality(LiveAt(l)) < PIDNS_ADDING
    BY LiveAtCount, AddingAssumption
  <2>3. QED
    BY <1>1, <2>1, <2>2, FlagBit DEF Inv, CountInv
<1>2. QED
  BY <1>1, Invariance, PTL

(* The kref of a namespace counts its holders, so that put_pid_ns()        *)
(* neither leaks a namespace nor frees one in use.                         *)
THEOREM KrefIsHolders == Spec => []KrefExact
<1>1. Inv => KrefExact
  BY DEF Inv
<1>2. QED
  BY <1>1, Invariance, PTL

(* get_pid() in find_get_pid() never raises a count from 0, and put_pid()  *)
(* never drops a reference it does not have.                               *)
THEOREM CountsCoverReaders == Spec => []RefcountSafe
<1>1. ASSUME Inv PROVE RefcountSafe
  <2>0. TypeOK /\ RefInv
    BY <1>1 DEF Inv
  <2>1. ASSUME NEW p \in Pid
        PROVE  /\ IsFiniteSet(Holding(p)) /\ Cardinality(Holding(p)) \in Nat
               /\ {t \in Reader : rd[t] = [pc |-> "holds", pid |-> p]} = Holding(p)
    <3>1. Holding(p) \in SUBSET Reader
      BY DEF Holding
    <3>2. IsFiniteSet(Holding(p)) /\ Cardinality(Holding(p)) \in Nat
      BY <3>1, PidAssumption, FS_Subset, FS_CardinalityType
    <3>3. \A t \in Reader : rd[t] = [pc |-> "holds", pid |-> p] <=>
                              rd[t].pc = "holds" /\ rd[t].pid = p
      BY <2>0 DEF TypeOK, ReaderType
    <3>4. QED
      BY <3>2, <3>3 DEF Holding
  <2>2. ASSUME NEW t \in Reader, rd[t].pc # "idle" PROVE count[rd[t].pid] > 0
    <3>1. PICK p \in Pid : p = rd[t].pid
      BY <2>0, <2>2 DEF RefInv
    <3>2. rd[t].pc \in {"section", "holds"}
      BY <2>0, <2>2 DEF TypeOK, ReaderType
    <3>3. Cardinality(Holding(p)) \in Nat
      BY <2>1
    <3>4. rd[t].pc = "holds" => Cardinality(Holding(p)) > 0
      <4>1. rd[t].pc = "holds" => Holding(p) # {}
        BY <3>1 DEF Holding
      <4>2. IsFiniteSet(Holding(p))
        BY <2>1
      <4>3. Holding(p) # {} => Cardinality(Holding(p)) # 0
        BY <4>2, FS_EmptySet
      <4>4. QED
        BY <3>3, <4>1, <4>3
    <3>5. CASE rd[t].pc = "section"
      <4>1. count[p] = Cardinality(Holding(p)) + 1
        BY <2>0, <3>1, <3>5 DEF RefInv
      <4>2. QED
        BY <3>1, <3>3, <4>1
    <3>6. CASE rd[t].pc = "holds"
      <4>1. state[p] \notin {"free", "new"}
        BY <2>0, <3>1, <3>6 DEF RefInv
      <4>2. p \in Live \/ state[p] = "dead" \/ state[p] = "stale"
        BY <2>0, <4>1 DEF TypeOK, Live
      <4>3. count[p] \in {Cardinality(Holding(p)), Cardinality(Holding(p)) + 1}
        BY <2>0, <4>2 DEF RefInv
      <4>4. QED
        BY <3>1, <3>3, <3>4, <3>6, <4>3
    <3>7. QED
      BY <3>2, <3>5, <3>6
  <2>3. ASSUME NEW p \in Pid PROVE count[p] >= Cardinality(Holding(p)) + One(p \in Live)
    <3>1. Cardinality(Holding(p)) \in Nat /\ count[p] \in Nat
      BY <2>0, <2>1 DEF TypeOK
    <3>2. CASE p \in Live
      BY <2>0, <3>1, <3>2 DEF RefInv, One
    <3>3. CASE p \notin Live /\ state[p] \in {"dead", "stale"}
      BY <2>0, <3>1, <3>3 DEF RefInv, One
    <3>4. CASE state[p] \in {"free", "new"}
      <4>1. Holding(p) = {} /\ p \notin Live
        BY <2>0, <3>4 DEF RefInv, Holding, Live
      <4>2. Cardinality(Holding(p)) = 0
        BY <4>1, FS_EmptySet
      <4>3. QED
        BY <3>1, <4>1, <4>2 DEF One
    <3>5. QED
      BY <2>0, <3>2, <3>3, <3>4 DEF Live, TypeOK
  <2>4. QED
    BY <2>1, <2>2, <2>3 DEF RefcountSafe
<1>2. QED
  BY <1>1, Invariance, PTL

(* The first process of a namespace is offered number 1, whatever failed   *)
(* before it: the reset of last_pid at out_free is enough.                 *)
THEOREM FirstScanFromOne == Spec => []FirstIsReaper
<1>1. Inv => FirstIsReaper
  BY DEF Inv, FirstInv, FirstIsReaper
<1>2. QED
  BY <1>1, Invariance, PTL

(* zap_pid_ns_processes() does not sleep through the exit of the last task *)
(* it waits for.                                                           *)
THEOREM WakeupNotLost == Spec => []NoLostWakeup
<1>1. Inv => NoLostWakeup
  BY DEF Inv
<1>2. QED
  BY <1>1, Invariance, PTL

(* When free_pid() leaves one or two struct pids the child_reaper it wakes *)
(* is there; when the last one goes from a namespace that still takes      *)
(* processes there is none, as its WARN_ON says.                           *)
LEMMA FreeFindsReaper ==
  ASSUME Inv, [Next]_vars, NEW l \in Level, NEW p \in Live \ Live', l <= level[p]
  PROVE  /\ pid_allocated'[l] \in {1, 2} =>
              child_reaper[l] # NULL /\ state[child_reaper[l]] = "attached"
         /\ pid_allocated[l] = PIDNS_ADDING + 1 => child_reaper[l] = NULL
<1>0. TypeOK /\ p \in Pid
  BY DEF Inv, Live
<1>1. ASSUME NEW t \in Thread, Publish(t) PROVE FALSE
  <2>1. th[t].pid \in Pid /\ state' = [state EXCEPT ![th[t].pid] = "published"]
    BY <1>1, PublishEffect
  <2>2. QED
    BY <1>0, <2>1 DEF TypeOK, Live
<1>2. (\E t \in Thread : ForkFails(t)) \/ (\E q \in Pid : Exit(q))
  BY <1>1, SameLiveSteps, Kinds DEF SameLive
<1>3. PICK q \in Live :
        /\ q \in Pid /\ free_pid(q) /\ \A x \in Pid \ {q} : state'[x] = state[x]
        /\ Exit(q) \/ state[q] = "published"
  BY <1>2, FreePidEffect
<1>4. q = p
  BY <1>0, <1>3 DEF Live
<1>5. free_pid(p) /\ (Exit(p) \/ state[p] = "published") /\ (Exit(p) => MayExit(p))
  BY <1>3, <1>4 DEF Exit
<1>6. /\ Exists(l) /\ p \in LiveAt(l) /\ Cardinality(LiveAt(l)) >= 1
      /\ Cardinality(LiveAt(l)) \in Nat /\ Cardinality(LiveAt(l)) + 2 < PIDNS_ADDING
      /\ IsFiniteSet(LiveAt(l))
  <2>1. l \in 0 .. level[p]
    BY <1>0, Ranges DEF TypeOK
  <2>2. QED
    BY <2>1, Counted, LiveAtCount
<1>7. /\ Adding(l) <=> pid_allocated[l] = Cardinality(LiveAt(l)) + PIDNS_ADDING
      /\ ~Adding(l) <=> pid_allocated[l] = Cardinality(LiveAt(l))
      /\ pid_allocated[l] \in Nat
      /\ pid_allocated'[l] = IF pid_allocated[l] = PIDNS_ADDING + 1 THEN 0
                             ELSE pid_allocated[l] - 1
  BY <1>5, <1>6, AddingCount, FreeEffect
<1>8. ReaperLife(l) /\ ZapGroup(l) /\ child_reaper[l] \in Pid \cup {NULL}
  BY <1>0, <1>6 DEF Inv, ReaperInv, TypeOK
<1>9. ASSUME pid_allocated'[l] \in {1, 2}
      PROVE  child_reaper[l] # NULL /\ state[child_reaper[l]] = "attached"
  <2>1. ~Adding(l) /\ Cardinality(LiveAt(l)) \in {2, 3}
    BY <1>6, <1>7, <1>9, AddingAssumption
  <2>2. child_reaper[l] # NULL /\ zap[l] # "none"
    BY <1>6, <1>8, <2>1 DEF ReaperLife
  <2>3. child_reaper[l] \in init_tasks[l]
    <3>1. CASE zap[l] # "done"
      BY <1>8, <2>2, <3>1 DEF ZapGroup
    <3>2. CASE zap[l] = "done"
      <4>1. LiveAt(l) = init_tasks[l]
        BY <1>8, <3>2 DEF ReaperLife
      <4>2. \A x : init_tasks[l] # {x}
        BY <2>1, <4>1, FS_Singleton
      <4>3. QED
        BY <1>6, <1>8, <3>2, <4>1, <4>2 DEF ZapGroup
    <3>3. QED
      BY <3>1, <3>2
  <2>4. QED
    BY <1>8, <2>2, <2>3 DEF ZapGroup
<1>10. ASSUME pid_allocated[l] = PIDNS_ADDING + 1, child_reaper[l] # NULL PROVE FALSE
  <2>1. Adding(l) /\ Cardinality(LiveAt(l)) = 1
    BY <1>6, <1>7, <1>10, AddingAssumption
  <2>2. LiveAt(l) = {p}
    BY <1>6, <2>1, FS_Singleton
  <2>3. zap[l] = "none" /\ init_tasks[l] = {}
    BY <1>8, <2>1 DEF ReaperLife, ZapGroup
  <2>4. PICK c \in Pid : c = child_reaper[l]
    BY <1>8, <1>10
  <2>5. state[c] = "attached" /\ level[c] = l
    BY <1>8, <1>10, <2>3, <2>4 DEF ReaperLife
  <2>6. c = p
    <3>1. l <= l
      BY Ranges
    <3>2. QED
      BY <2>2, <2>5, <3>1 DEF LiveAt, Live
  <2>7. QED
    BY <1>5, <2>3, <2>4, <2>5, <2>6 DEF MayExit
<1>11. QED
  BY <1>9, <1>10

(* The WARN_ON of free_pid() does not fire and its wake_up_process() has a *)
(* task to wake, at every step.                                            *)
THEOREM ReaperThere == Spec => ReaperAtHand
<1>1. Inv /\ [Next]_vars =>
        [\A l \in Level : \A p \in Live \ Live' : l <= level[p] =>
           /\ pid_allocated'[l] \in {1, 2} =>
                child_reaper[l] # NULL /\ state[child_reaper[l]] = "attached"
           /\ pid_allocated[l] = PIDNS_ADDING + 1 => child_reaper[l] = NULL]_vars
  BY FreeFindsReaper
<1>2. QED
  BY <1>1, Invariance, PTL DEF Spec, ReaperAtHand
=============================================================================
