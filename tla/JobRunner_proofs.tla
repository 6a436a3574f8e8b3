---------------------------- MODULE JobRunner_proofs ----------------------------
(***************************************************************************)
(* Theorems about JobRunner, for every number of jobs, hosts and messages. *)
(***************************************************************************)
EXTENDS JobRunner, SequenceTheorems, WellFoundedInduction, TLAPS

-----------------------------------------------------------------------------
(***************************************************************************)
(* Sequences                                                               *)
(***************************************************************************)
LEMMA RemoveAtIsSeq ==
    ASSUME NEW S, NEW s \in Seq(S), NEW i \in DOMAIN s
    PROVE  RemoveAt(s, i) \in Seq(S)
<1>1. Len(s) \in Nat /\ i \in 1..Len(s) /\ \A k \in 1..Len(s) : s[k] \in S
  BY LenProperties, ElementOfSeq
<1>2. SubSeq(s, 1, i-1) \in Seq(S)
  BY <1>1, SubSeqProperties
<1>3. SubSeq(s, i+1, Len(s)) \in Seq(S)
  BY <1>1, SubSeqProperties
<1>. QED BY <1>2, <1>3, ConcatProperties DEF RemoveAt

LEMMA AppendIsSeq ==
    ASSUME NEW S, NEW s \in Seq(S), NEW x \in S
    PROVE  /\ Append(s, x) \in Seq(S)
           /\ \A i \in DOMAIN Append(s, x) :
                 Append(s, x)[i] = x \/ \E k \in DOMAIN s : Append(s, x)[i] = s[k]
<1>1. Len(s) \in Nat /\ DOMAIN s = 1..Len(s)
  BY LenProperties
<1>2. /\ Append(s, x) \in Seq(S)
      /\ Len(Append(s, x)) = Len(s) + 1
      /\ \A i \in 1..Len(s) : Append(s, x)[i] = s[i]
      /\ Append(s, x)[Len(s) + 1] = x
  BY AppendProperties
<1>3. DOMAIN Append(s, x) = 1..Len(s) + 1
  BY <1>2, LenProperties
<1>. QED BY <1>1, <1>2, <1>3

LEMMA TailIsSeq ==
    ASSUME NEW S, NEW s \in Seq(S), s # <<>>
    PROVE  /\ Head(s) \in S /\ Tail(s) \in Seq(S)
           /\ \E k \in DOMAIN s : Head(s) = s[k]
           /\ \A i \in DOMAIN Tail(s) : \E k \in DOMAIN s : Tail(s)[i] = s[k]
<1>1. Len(s) \in Nat \ {0} /\ DOMAIN s = 1..Len(s) /\ Head(s) = s[1]
  BY LenProperties, EmptySeq, HeadTailProperties
<1>2. /\ Head(s) \in S /\ Tail(s) \in Seq(S)
      /\ Len(Tail(s)) = Len(s) - 1
      /\ \A i \in 1..Len(Tail(s)) : Tail(s)[i] = s[i+1]
  BY HeadTailProperties
<1>3. DOMAIN Tail(s) = 1..Len(s) - 1
  BY <1>2, LenProperties
<1>. QED BY <1>1, <1>2, <1>3

-----------------------------------------------------------------------------
(***************************************************************************)
(* The inductive invariant                                                 *)
(***************************************************************************)
\* A job that may be started has a failure counted for each start; another one for each
\* start but the last.
RetryOK(info) ==
    /\ info.starts <= info.jobfailures + info.hstfailures + 1
    /\ info.state \in FailedStates \cup {"ToDo"} =>
           info.starts <= info.jobfailures + info.hstfailures

\* A state that says that the work has been done.
SaysDone(info) == info.state \in {"Completed", "WrappingUp"}

JobsInv == \A j \in Jobs : RetryOK(job[j]) /\ (SaysDone(job[j]) => j \in worked)

\* The same for what has been said and for who will say it.
QueueInv ==
    \A i \in DOMAIN statusqueue :
        statusqueue[i].tag \in {"finished", "done"} => statusqueue[i].job \in worked

ProcInv ==
    \A a \in Attempts :
        /\ Alive(a) => proc[a].host \in Hosts
        /\ proc[a].at \in {"worked", "finished"} => a[1] \in worked

\* assignJob is called for a host.
TargetInv == pc = "assign" => target \in Hosts

IInv == TypeOK /\ JobsInv /\ QueueInv /\ ProcInv /\ TargetInv

-----------------------------------------------------------------------------
(***************************************************************************)
(* What may happen to a job                                                *)
(***************************************************************************)
\* The information about a job that an action may store.
Good(j, info) == info \in JobInfo /\ RetryOK(info) /\ (SaysDone(info) => j \in worked)

JobMoved == \E j, info : job' = [job EXCEPT ![j] = info] /\ (j \in Jobs => Good(j, info))

LEMMA JobMoveKeeps ==
    ASSUME TypeOK, JobsInv, JobMoved, worked \subseteq worked'
    PROVE  job' \in [Jobs -> JobInfo] /\ JobsInv'
<1>1. PICK j, info : job' = [job EXCEPT ![j] = info] /\ (j \in Jobs => Good(j, info))
  BY DEF JobMoved
<1>2. job \in [Jobs -> JobInfo]
  BY DEF TypeOK
<1>3. \A k \in Jobs : job'[k] = IF k = j THEN info ELSE job[k]
  BY <1>1, <1>2
<1>4. job' \in [Jobs -> JobInfo]
  BY <1>1, <1>2 DEF Good
<1>5. ASSUME NEW k \in Jobs
      PROVE  RetryOK(job'[k]) /\ (SaysDone(job'[k]) => k \in worked')
  <2>1. CASE k = j
    BY <2>1, <1>1, <1>3 DEF Good
  <2>2. CASE k # j
    BY <2>2, <1>3 DEF JobsInv
  <2>. QED BY <2>1, <2>2
<1>6. JobsInv'
  BY <1>5 DEF JobsInv
<1>. QED BY <1>4, <1>6

LEMMA RespsRemoved ==
    ASSUME NEW list \in [Jobs \X Hosts -> Seq(Responses)], NEW j, NEW h
    PROVE  removeJobDesc(list, j, h) \in [Jobs \X Hosts -> Seq(Responses)]
<1>1. \A r \in Jobs \X Hosts : list[r] # <<>> => Tail(list[r]) \in Seq(Responses)
  BY TailIsSeq
<1>. QED BY <1>1 DEF removeJobDesc

LEMMA HostChanged ==
    ASSUME TypeOK, NEW h, NEW info \in HostNFailInfo
    PROVE  [host EXCEPT ![h] = info] \in [Hosts -> HostNFailInfo]
BY DEF TypeOK

LEMMA ListedJob ==
    ASSUME TypeOK, NEW i \in DOMAIN jobinfos
    PROVE  jobinfos[i] \in Jobs
BY ElementOfSeq, LenProperties DEF TypeOK

LEMMA ListedHost ==
    ASSUME TypeOK, NEW i \in DOMAIN hostinfo
    PROVE  hostinfo[i] \in Hosts
BY ElementOfSeq, LenProperties DEF TypeOK

LEMMA FailedJobMoves ==
    ASSUME TypeOK, JobsInv, NEW j, NEW reason \in FailedStates,
           NEW listed \in Seq(Hosts), NEW list \in [Jobs \X Hosts -> Seq(Responses)],
           failedJob(j, reason, listed, list)
    PROVE  /\ JobMoved
           /\ resps' \in [Jobs \X Hosts -> Seq(Responses)]
           /\ host' \in [Hosts -> HostNFailInfo]
<1>1. resps' \in [Jobs \X Hosts -> Seq(Responses)]
  BY RespsRemoved DEF failedJob
<1>2. job \in [Jobs -> JobInfo] /\ host \in [Hosts -> HostNFailInfo]
  BY DEF TypeOK
<1>3. host' \in [Hosts -> HostNFailInfo]
  <2>. DEFINE h == job[j].host
              known == \E i \in DOMAIN listed : listed[i] = h
  <2>1. CASE ~known
    BY <2>1, <1>2 DEF failedJob
  <2>2. CASE known
    <3>1. h \in Hosts
      BY <2>2, ElementOfSeq, LenProperties
    <3>2. host[h] \in HostNFailInfo
      BY <3>1, <1>2
    <3>3. host' = [host EXCEPT
                       ![h].inuse = FALSE,
                       ![h].nrfailures = IF isAssigned(j) /\ reason = "HostFailed"
                                         THEN @ + 1 ELSE @]
      BY <2>2 DEF failedJob
    <3>. DEFINE fails == IF isAssigned(j) /\ reason = "HostFailed"
                         THEN host[h].nrfailures + 1 ELSE host[h].nrfailures
                info == [host[h] EXCEPT !.inuse = FALSE, !.nrfailures = fails]
    <3>4. fails \in Nat
      BY <3>2 DEF HostNFailInfo
    <3>5. info \in HostNFailInfo
      BY <3>2, <3>4 DEF HostNFailInfo
    <3>6. host' = [host EXCEPT ![h] = info]
      BY <3>1, <3>3, <1>2
    <3>. QED BY <3>5, <3>6, HostChanged
  <2>. QED BY <2>1, <2>2
<1>4. JobMoved
  <2>1. CASE ~isAssigned(j)
    <3>1. job' = [job EXCEPT ![j] = job[j]]
      BY <2>1, <1>2 DEF failedJob
    <3>2. j \in Jobs => Good(j, job[j])
      BY <1>2 DEF Good, JobsInv
    <3>. QED BY <3>1, <3>2 DEF JobMoved
  <2>2. CASE isAssigned(j)
    <3>. DEFINE nj == IF reason = "JobFailed" THEN job[j].jobfailures + 1
                      ELSE job[j].jobfailures
                nh == IF reason = "HostFailed" THEN job[j].hstfailures + 1
                      ELSE job[j].hstfailures
                info == [job[j] EXCEPT !.state = reason, !.jobfailures = nj,
                                       !.hstfailures = nh]
    <3>1. job' = [job EXCEPT ![j] = info]
      BY <2>2, <1>2 DEF failedJob
    <3>2. ASSUME j \in Jobs PROVE Good(j, info)
      <4>1. job[j] \in JobInfo /\ RetryOK(job[j])
        BY <3>2, <1>2 DEF JobsInv
      <4>2. reason = "JobFailed" \/ reason = "HostFailed"
        BY DEF FailedStates
      <4>6. nj \in Nat /\ nh \in Nat /\ reason \in States
        BY <4>1, <4>2 DEF JobInfo, States, FailedStates
      <4>3. info \in JobInfo
        <5>. HIDE DEF nj, nh
        <5>. QED BY <4>1, <4>6 DEF JobInfo
      <4>4. RetryOK(info)
        BY <4>1, <4>2 DEF RetryOK, JobInfo
      <4>5. ~SaysDone(info)
        BY <4>1, <4>2 DEF SaysDone, JobInfo
      <4>. QED BY <4>3, <4>4, <4>5 DEF Good
    <3>. QED BY <3>1, <3>2 DEF JobMoved
  <2>. QED BY <2>1, <2>2
<1>. QED BY <1>1, <1>3, <1>4

LEMMA ExitMoves ==
    ASSUME TypeOK, JobsInv, NEW j \in Jobs, j \in worked, handleExitStatus(j)
    PROVE  JobMoved /\ host' \in [Hosts -> HostNFailInfo]
<1>1. job \in [Jobs -> JobInfo] /\ host \in [Hosts -> HostNFailInfo] /\ job[j] \in JobInfo
  BY DEF TypeOK
<1>2. host' \in [Hosts -> HostNFailInfo]
  BY <1>1 DEF handleExitStatus, HostNFailInfo
<1>. DEFINE info == [job[j] EXCEPT !.state = "Completed"]
<1>3. job' = [job EXCEPT ![j] = info]
  BY <1>1 DEF handleExitStatus
<1>4. RetryOK(job[j])
  BY DEF JobsInv
<1>5. Good(j, info)
  BY <1>1, <1>4 DEF Good, RetryOK, SaysDone, JobInfo, States, FailedStates
<1>. QED BY <1>2, <1>3, <1>5 DEF JobMoved

\* What most actions leave alone.
LEMMA Quiet ==
    ASSUME JobsInv, QueueInv, ProcInv, UNCHANGED <<job, worked, statusqueue, proc>>
    PROVE  JobsInv' /\ QueueInv' /\ ProcInv'
BY DEF JobsInv, QueueInv, ProcInv, Alive

LEMMA QuietButJobs ==
    ASSUME QueueInv, ProcInv, UNCHANGED <<worked, statusqueue, proc>>
    PROVE  QueueInv' /\ ProcInv'
BY DEF QueueInv, ProcInv, Alive

-----------------------------------------------------------------------------
(***************************************************************************)
(* doCycle                                                                 *)
(***************************************************************************)
LEMMA HandleStatusInfoStep ==
    ASSUME IInv, handleStatusInfo
    PROVE  IInv'
<1>. USE DEF IInv
<1>. DEFINE m == Head(statusqueue)
            j == m.job
<1>1. statusqueue \in Seq(StatusInfo) /\ statusqueue # <<>>
  BY DEF TypeOK, handleStatusInfo
<1>2. /\ m \in StatusInfo /\ Tail(statusqueue) \in Seq(StatusInfo)
      /\ \E k \in DOMAIN statusqueue : m = statusqueue[k]
      /\ \A i \in DOMAIN Tail(statusqueue) :
            \E k \in DOMAIN statusqueue : Tail(statusqueue)[i] = statusqueue[k]
  BY <1>1, TailIsSeq
<1>3. j \in Jobs /\ m.nr \in Nat
  BY <1>2, ConstantAssumption DEF StatusInfo, MaxStarts
<1>4. m.tag \in {"finished", "done"} => j \in worked
  BY <1>2 DEF QueueInv
<1>5. /\ job \in [Jobs -> JobInfo] /\ job[j] \in JobInfo /\ RetryOK(job[j])
      /\ resps \in [Jobs \X Hosts -> Seq(Responses)] /\ host \in [Hosts -> HostNFailInfo]
      /\ hostinfo \in Seq(Hosts)
  BY <1>3 DEF TypeOK, JobsInv
<1>6. JobMoved /\ resps' \in [Jobs \X Hosts -> Seq(Responses)]
               /\ host' \in [Hosts -> HostNFailInfo]
  <2>1. CASE m.tag = "pid"
    <3>. DEFINE info == [job[j] EXCEPT !.state = "Working", !.pid = m.nr]
    <3>1. job' = [job EXCEPT ![j] = info] /\ UNCHANGED <<host, resps>>
      BY <2>1, <1>5 DEF handleStatusInfo
    <3>2. info \in JobInfo /\ RetryOK(info) /\ ~SaysDone(info)
      BY <1>3, <1>5 DEF JobInfo, States, AssignedStates, FailedStates, RetryOK, SaysDone
    <3>. QED BY <3>1, <3>2, <1>5 DEF JobMoved, Good
  <2>2. ASSUME NEW state \in {"Working", "Paused", "WrappingUp"}, SetState(j, state),
               state = "WrappingUp" => j \in worked
        PROVE  JobMoved /\ UNCHANGED <<host, resps>>
    <3>. DEFINE info == [job[j] EXCEPT !.state = state]
    <3>1. job' = [job EXCEPT ![j] = info] /\ UNCHANGED <<host, resps>>
      BY <2>2, <1>5 DEF SetState
    <3>2. info \in JobInfo /\ RetryOK(info) /\ (SaysDone(info) => j \in worked)
      BY <2>2, <1>3, <1>5
      DEF JobInfo, States, AssignedStates, FailedStates, RetryOK, SaysDone
    <3>. QED BY <3>1, <3>2 DEF JobMoved, Good
  <2>3. CASE m.tag = "working"
    <3>1. SetState(j, "Working")
      BY <2>3 DEF handleStatusInfo
    <3>. QED BY <3>1, <2>2, <1>5
  <2>4. CASE m.tag = "paused"
    <3>1. SetState(j, "Paused")
      BY <2>4 DEF handleStatusInfo
    <3>. QED BY <3>1, <2>2, <1>5
  <2>5. CASE m.tag = "finished"
    <3>1. SetState(j, "WrappingUp")
      BY <2>5 DEF handleStatusInfo
    <3>. QED BY <3>1, <2>2, <2>5, <1>4, <1>5
  <2>6. CASE m.tag = "progress"
    <3>1. failedJob(j, "JobFailed", hostinfo, resps) \/ UNCHANGED <<job, host, resps>>
      BY <2>6 DEF handleStatusInfo
    <3>2. CASE failedJob(j, "JobFailed", hostinfo, resps)
      BY <3>2, <1>5, FailedJobMoves DEF FailedStates
    <3>3. CASE UNCHANGED <<job, host, resps>>
      <4>1. job' = [job EXCEPT ![j] = job[j]]
        BY <3>3, <1>5
      <4>2. Good(j, job[j])
        BY <1>3, <1>5 DEF Good, JobsInv
      <4>. QED BY <4>1, <4>2, <3>3, <1>5 DEF JobMoved
    <3>. QED BY <3>1, <3>2, <3>3
  <2>7. CASE m.tag = "done"
    <3>1. handleExitStatus(j) /\ resps' = removeJobDesc(resps, j, m.host)
      BY <2>7 DEF handleStatusInfo
    <3>. QED BY <3>1, <2>7, <1>3, <1>4, <1>5, ExitMoves, RespsRemoved
  <2>8. CASE m.tag \in {"joberror", "hosterror"}
    <3>1. PICK reason \in FailedStates :
              failedJob(j, reason, hostinfo, removeJobDesc(resps, j, m.host))
      BY <2>8 DEF handleStatusInfo, FailedStates
    <3>2. removeJobDesc(resps, j, m.host) \in [Jobs \X Hosts -> Seq(Responses)]
      BY <1>5, RespsRemoved
    <3>. QED BY <3>1, <3>2, <1>5, FailedJobMoves
  <2>9. m.tag \in Tags
    BY <1>2 DEF StatusInfo
  <2>. QED BY <2>1, <2>3, <2>4, <2>5, <2>6, <2>7, <2>8, <2>9 DEF Tags, Exits
<1>7. job' \in [Jobs -> JobInfo] /\ JobsInv'
  BY <1>6, JobMoveKeeps DEF handleStatusInfo
<1>8. QueueInv' /\ ProcInv' /\ TargetInv'
  BY <1>2 DEF handleStatusInfo, QueueInv, ProcInv, Alive, TargetInv, Goto
<1>9. late' \in BOOLEAN
  BY DEF handleStatusInfo, TypeOK
<1>10. TypeOK'
  BY <1>2, <1>6, <1>7, <1>9
  DEF TypeOK, handleStatusInfo, Goto, runner, faults
<1>. QED BY <1>7, <1>8, <1>10

LEMMA TimeOutStep ==
    ASSUME IInv, NEW i \in DOMAIN jobinfos, TimeOut(i)
    PROVE  IInv'
<1>. USE DEF IInv
<1>. DEFINE j == jobinfos[i]
<1>1. j \in Jobs
  BY ListedJob
<1>2. /\ resps \in [Jobs \X Hosts -> Seq(Responses)]
      /\ hostinfo \in Seq(Hosts) /\ host \in [Hosts -> HostNFailInfo]
  BY DEF TypeOK
<1>3. JobMoved /\ resps' \in [Jobs \X Hosts -> Seq(Responses)]
               /\ host' \in [Hosts -> HostNFailInfo]
  <2>1. CASE IsWrappingUp(j) /\ handleExitStatus(j) /\ UNCHANGED resps
    <3>1. j \in worked
      BY <2>1, <1>1 DEF IsWrappingUp, JobsInv, SaysDone
    <3>. QED BY <2>1, <3>1, <1>1, <1>2, ExitMoves
  <2>2. CASE failedJob(j, "HostFailed", hostinfo, removeJobDesc(resps, j, job[j].host))
    <3>1. removeJobDesc(resps, j, job[j].host) \in [Jobs \X Hosts -> Seq(Responses)]
      BY <1>2, RespsRemoved
    <3>. QED BY <2>2, <3>1, <1>2, FailedJobMoves DEF FailedStates
  <2>. QED BY <2>1, <2>2 DEF TimeOut
<1>4. job' \in [Jobs -> JobInfo] /\ JobsInv'
  BY <1>3, JobMoveKeeps DEF TimeOut
<1>5. i \in Nat
  BY LenProperties DEF TypeOK
<1>6. QueueInv' /\ ProcInv' /\ TargetInv'
  BY QuietButJobs DEF TimeOut, TargetInv, Goto
<1>7. TypeOK'
  BY <1>3, <1>4, <1>5 DEF TypeOK, TimeOut, Goto, runner, faults
<1>. QED BY <1>4, <1>6, <1>7

LEMMA PutHostToWorkStep ==
    ASSUME IInv, PutHostToWork
    PROVE  IInv'
<1>. USE DEF IInv
<1>1. PICK i \in IdleHosts : assignJob(hostinfo[i], TRUE)
  BY DEF PutHostToWork
<1>2. hostinfo[i] \in Hosts
  BY <1>1, ListedHost DEF IdleHosts
<1>3. JobsInv' /\ QueueInv' /\ ProcInv'
  BY Quiet DEF PutHostToWork
<1>4. TargetInv'
  BY <1>1, <1>2 DEF assignJob, TargetInv
<1>5. TypeOK'
  BY <1>1, <1>2 DEF PutHostToWork, assignJob, Goto, TypeOK, runner, faults
<1>. QED BY <1>3, <1>4, <1>5

LEMMA AssignedTypes ==
    ASSUME IInv, pc = "assign", Assigned
    PROVE  /\ hostinfo' \in Seq(Hosts) /\ pc' \in {"idle", "assigned"}
           /\ target' = None /\ incycle' = FALSE /\ ijob' = 1 /\ selectfailed' = FALSE
<1>1. target \in Hosts /\ hostinfo \in Seq(Hosts)
  BY DEF IInv, TargetInv, TypeOK
<1>2. Append(hostinfo, target) \in Seq(Hosts)
  BY <1>1, AppendIsSeq
<1>. QED BY <1>1, <1>2 DEF Assigned, Goto

LEMMA NothingAssignedStep ==
    ASSUME IInv, NothingAssigned
    PROVE  IInv'
<1>. USE DEF IInv
<1>1. /\ hostinfo' \in Seq(Hosts) /\ pc' \in {"idle", "assigned"}
      /\ target' = None /\ incycle' = FALSE /\ ijob' = 1 /\ selectfailed' = FALSE
  BY AssignedTypes DEF NothingAssigned
<1>2. JobsInv' /\ QueueInv' /\ ProcInv'
  BY Quiet DEF NothingAssigned
<1>3. TypeOK' /\ TargetInv'
  BY <1>1 DEF NothingAssigned, TypeOK, TargetInv, faults
<1>. QED BY <1>2, <1>3

\* Where the loop of assignJob is.
LEMMA TryIsStartable ==
    ASSUME IInv, NEW i, Try(i)
    PROVE  /\ pc = "assign" /\ i \in Nat
           /\ i \in DOMAIN jobinfos
           /\ jobinfos[i] \in Jobs
           /\ job[jobinfos[i]].state \in FailedStates \cup {"ToDo"}
<1>1. PICK failed, from : i \in Startable(failed, from)
  BY DEF Try, Candidates
<1>2. i \in DOMAIN jobinfos
  BY <1>1 DEF Startable
<1>3. i \in Nat
  BY <1>2, LenProperties DEF IInv, TypeOK
<1>4. jobinfos[i] \in Jobs
  BY <1>2, ListedJob DEF IInv
<1>. QED BY <1>1, <1>2, <1>3, <1>4 DEF Startable, Try

LEMMA JobBadStep ==
    ASSUME IInv, NEW i, JobBad(i)
    PROVE  IInv'
<1>. USE DEF IInv
<1>1. i \in Nat /\ i \in DOMAIN jobinfos /\ jobinfos[i] \in Jobs
  BY TryIsStartable DEF JobBad
<1>2. jobinfos' \in Seq(Jobs)
  BY <1>1, RemoveAtIsSeq DEF JobBad, TypeOK
<1>3. JobsInv' /\ QueueInv' /\ ProcInv'
  BY Quiet DEF JobBad
<1>4. (selectfailed \/ ~InPass) \in BOOLEAN
  OBVIOUS
<1>5. TypeOK' /\ TargetInv'
  BY <1>1, <1>2, <1>4 DEF JobBad, NextJob, TypeOK, TargetInv, faults
<1>. QED BY <1>3, <1>5

LEMMA StartJobStep ==
    ASSUME IInv, NEW i, StartJob(i)
    PROVE  IInv'
<1>. USE DEF IInv
<1>. DEFINE j == jobinfos[i]
            n == job[j].starts + 1
            info == Scheduled(j, n)
            entry == [at |-> "launched", host |-> target, pausereq |-> FALSE]
<1>1. /\ pc = "assign" /\ j \in Jobs /\ job[j].state \in FailedStates \cup {"ToDo"}
      /\ target \in Hosts
  BY TryIsStartable DEF StartJob, TargetInv
<1>2. /\ job \in [Jobs -> JobInfo] /\ job[j] \in JobInfo /\ RetryOK(job[j])
      /\ resps \in [Jobs \X Hosts -> Seq(Responses)] /\ host \in [Hosts -> HostNFailInfo]
      /\ proc \in [Attempts -> Process]
  BY <1>1 DEF TypeOK, JobsInv
<1>3. JobMoved
  <2>1. n \in Nat /\ job[j].starts <= job[j].jobfailures + job[j].hstfailures
    BY <1>1, <1>2 DEF JobInfo, RetryOK
  <2>2. info \in JobInfo
    BY <1>1, <1>2, <2>1 DEF Scheduled, JobInfo, States, AssignedStates
  <2>3. RetryOK(info) /\ ~SaysDone(info)
    BY <1>2, <2>1 DEF Scheduled, JobInfo, RetryOK, SaysDone, FailedStates
  <2>4. job' = [job EXCEPT ![j] = info]
    BY DEF StartJob
  <2>. QED BY <2>2, <2>3, <2>4 DEF JobMoved, Good
<1>4. job' \in [Jobs -> JobInfo] /\ JobsInv'
  BY <1>3, JobMoveKeeps DEF StartJob
<1>5. host' \in [Hosts -> HostNFailInfo]
  <2>1. [host[target] EXCEPT !.inuse = TRUE] \in HostNFailInfo
    BY <1>1, <1>2 DEF HostNFailInfo
  <2>. QED BY <2>1, HostChanged DEF StartJob
<1>6. resps' \in [Jobs \X Hosts -> Seq(Responses)]
  <2>1. Append(resps[<<j, target>>], "work") \in Seq(Responses)
    BY <1>1, <1>2, AppendIsSeq DEF Responses
  <2>. QED BY <2>1, <1>2 DEF StartJob, addJobDesc
<1>7. entry \in Process
  BY <1>1 DEF Process
<1>8. proc' \in [Attempts -> Process]
  BY <1>2, <1>7 DEF StartJob
<1>9. QueueInv'
  BY DEF QueueInv, StartJob
<1>10. ProcInv'
  <2>1. \A a \in Attempts : proc'[a] = entry \/ proc'[a] = proc[a]
    BY <1>2 DEF StartJob
  <2>. QED BY <2>1, <1>1 DEF ProcInv, Alive, StartJob
<1>11. /\ hostinfo' \in Seq(Hosts) /\ pc' \in {"idle", "assigned"}
       /\ target' = None /\ incycle' = FALSE /\ ijob' = 1 /\ selectfailed' = FALSE
  BY <1>1, AssignedTypes DEF StartJob
<1>12. TypeOK' /\ TargetInv'
  BY <1>4, <1>5, <1>6, <1>8, <1>11 DEF StartJob, TypeOK, TargetInv, faults
<1>. QED BY <1>4, <1>9, <1>10, <1>12

LEMMA StartFailsStep ==
    ASSUME IInv, NEW i, StartFails(i)
    PROVE  IInv'
<1>. USE DEF IInv
<1>. DEFINE j == jobinfos[i]
            base == Scheduled(j, job[j].starts)
            more == base.hstfailures + 1
            info == [base EXCEPT !.state = "HostFailed", !.hstfailures = more]
<1>1. /\ pc = "assign" /\ i \in Nat /\ j \in Jobs
      /\ job[j].state \in FailedStates \cup {"ToDo"} /\ target \in Hosts
  BY TryIsStartable DEF StartFails, TargetInv
<1>2. /\ job \in [Jobs -> JobInfo] /\ job[j] \in JobInfo /\ RetryOK(job[j])
      /\ resps \in [Jobs \X Hosts -> Seq(Responses)] /\ host \in [Hosts -> HostNFailInfo]
  BY <1>1 DEF TypeOK, JobsInv
<1>3. JobMoved
  <2>1. job[j].starts <= job[j].jobfailures + job[j].hstfailures
    BY <1>1, <1>2 DEF RetryOK
  <2>5. /\ base \in JobInfo
        /\ base.starts = job[j].starts
        /\ base.jobfailures = job[j].jobfailures
        /\ base.hstfailures = job[j].hstfailures
    BY <1>1, <1>2 DEF Scheduled, JobInfo, States, AssignedStates
  <2>4. job' = [job EXCEPT ![j] = info]
    BY DEF StartFails
  <2>. HIDE DEF base
  <2>2. info \in JobInfo
    <3>1. more \in Nat /\ "HostFailed" \in States
      BY <2>5 DEF JobInfo, States, FailedStates
    <3>. HIDE DEF more
    <3>. QED BY <2>5, <3>1 DEF JobInfo
  <2>3. RetryOK(info) /\ ~SaysDone(info)
    BY <2>1, <2>5 DEF JobInfo, RetryOK, SaysDone
  <2>. QED BY <2>2, <2>3, <2>4 DEF JobMoved, Good
<1>4. job' \in [Jobs -> JobInfo] /\ JobsInv'
  BY <1>3, JobMoveKeeps DEF StartFails
<1>5. host' \in [Hosts -> HostNFailInfo]
  <2>1. [host[target] EXCEPT !.nrfailures = @ + 1] \in HostNFailInfo
    BY <1>1, <1>2 DEF HostNFailInfo
  <2>. QED BY <2>1, <1>2, HostChanged DEF StartFails
<1>6. resps' \in [Jobs \X Hosts -> Seq(Responses)]
  <2>1. Append(resps[<<j, target>>], "work") \in Seq(Responses)
    BY <1>1, <1>2, AppendIsSeq DEF Responses
  <2>2. addJobDesc(j) \in [Jobs \X Hosts -> Seq(Responses)]
    BY <2>1, <1>2 DEF addJobDesc
  <2>. QED BY <2>2, RespsRemoved DEF StartFails
<1>7. QueueInv' /\ ProcInv'
  BY QuietButJobs DEF StartFails
<1>8. (selectfailed \/ ~InPass) \in BOOLEAN /\ startfails' \in Nat
  BY DEF StartFails, TypeOK
<1>9. TypeOK' /\ TargetInv'
  BY <1>1, <1>4, <1>5, <1>6, <1>8 DEF StartFails, NextJob, TypeOK, TargetInv
<1>. QED BY <1>4, <1>7, <1>9

LEMMA HandleJobPausingStep ==
    ASSUME IInv, handleJobPausing
    PROVE  IInv'
<1>. USE DEF IInv
<1>1. ASSUME NEW r \in Jobs \X Hosts
      PROVE  resps'[r] \in Seq(Responses)
  <2>. DEFINE answer == IF dopause THEN "pause" ELSE "work"
  <2>1. resps[r] \in Seq(Responses) /\ answer \in Responses
    BY DEF TypeOK, Responses
  <2>2. CASE Told(r[1], r[2])
    <3>1. resps[r] # <<>>
      BY <2>2 DEF Told
    <3>2. 1 \in 1..Len(resps[r])
      BY <2>1, <3>1, EmptySeq, LenProperties
    <3>3. [resps[r] EXCEPT ![1] = answer] \in Seq(Responses)
      BY <2>1, <3>2, ExceptSeq
    <3>. QED BY <2>2, <3>3 DEF handleJobPausing, TypeOK
  <2>3. CASE ~Told(r[1], r[2])
    BY <2>1, <2>3 DEF handleJobPausing, TypeOK
  <2>. QED BY <2>2, <2>3
<1>2. resps' \in [Jobs \X Hosts -> Seq(Responses)]
  BY <1>1 DEF handleJobPausing, TypeOK
<1>3. JobsInv' /\ QueueInv' /\ ProcInv'
  BY Quiet DEF handleJobPausing
<1>4. TypeOK' /\ TargetInv'
  BY <1>2 DEF handleJobPausing, Goto, TypeOK, TargetInv, runner, faults
<1>. QED BY <1>3, <1>4

-----------------------------------------------------------------------------
(***************************************************************************)
(* The user                                                                *)
(***************************************************************************)
LEMMA AddHostStep ==
    ASSUME IInv, NEW h \in Hosts, addHost(h)
    PROVE  IInv'
<1>. USE DEF IInv
<1>. DEFINE info == IF ~Listed(h) THEN NewHost
                    ELSE [host[h] EXCEPT !.nrfailures = 0, !.ontime = TRUE]
<1>1. host \in [Hosts -> HostNFailInfo] /\ hostinfo \in Seq(Hosts)
  BY DEF TypeOK
<1>2. info \in HostNFailInfo
  BY <1>1 DEF NewHost, HostNFailInfo
<1>3. host' = [host EXCEPT ![h] = info]
  BY DEF addHost
<1>4. host' \in [Hosts -> HostNFailInfo]
  BY <1>2, <1>3, HostChanged
<1>5. JobsInv' /\ QueueInv' /\ ProcInv'
  BY Quiet DEF addHost
<1>6. calls' \in Nat /\ UNCHANGED <<startfails, deaths, lost>>
  BY DEF addHost, Call, TypeOK
<1>7. CASE assignJob(h, FALSE) /\ UNCHANGED hostinfo
  BY <1>4, <1>5, <1>6, <1>7 DEF addHost, assignJob, Goto, TypeOK, TargetInv
<1>8. CASE /\ hostinfo' = IF Listed(h) THEN hostinfo ELSE Append(hostinfo, h)
           /\ UNCHANGED master
  <2>1. hostinfo' \in Seq(Hosts)
    BY <1>1, <1>8, AppendIsSeq
  <2>. QED BY <1>4, <1>5, <1>6, <1>8, <2>1 DEF addHost, TypeOK, TargetInv, master
<1>. QED BY <1>7, <1>8 DEF addHost

LEMMA RemoveHostStep ==
    ASSUME IInv, NEW i \in DOMAIN hostinfo, removeHost(i),
           pc' \in {"idle", "stop"},
           calls' \in Nat /\ UNCHANGED <<startfails, deaths, lost>>
    PROVE  IInv'
<1>. USE DEF IInv
<1>. DEFINE h == hostinfo[i]
            j == currentJob(h)
<1>1. hostinfo' \in Seq(Hosts)
  BY RemoveAtIsSeq DEF removeHost, TypeOK
<1>2. /\ resps \in [Jobs \X Hosts -> Seq(Responses)]
      /\ host \in [Hosts -> HostNFailInfo] /\ job \in [Jobs -> JobInfo]
  BY DEF TypeOK
<1>3. /\ job' \in [Jobs -> JobInfo] /\ JobsInv'
      /\ resps' \in [Jobs \X Hosts -> Seq(Responses)]
      /\ host' \in [Hosts -> HostNFailInfo]
  <2>1. CASE UNCHANGED <<job, host, resps>>
    BY <2>1, <1>2, Quiet DEF removeHost
  <2>2. CASE failedJob(j, "HostFailed", hostinfo', removeJobDesc(resps, j, h))
    <3>1. removeJobDesc(resps, j, h) \in [Jobs \X Hosts -> Seq(Responses)]
      BY <1>2, RespsRemoved
    <3>2. /\ JobMoved
          /\ resps' \in [Jobs \X Hosts -> Seq(Responses)]
          /\ host' \in [Hosts -> HostNFailInfo]
      BY <2>2, <3>1, <1>1, FailedJobMoves DEF FailedStates
    <3>. QED BY <3>2, JobMoveKeeps DEF removeHost
  <2>. QED BY <2>1, <2>2 DEF removeHost
<1>4. QueueInv' /\ ProcInv'
  BY QuietButJobs DEF removeHost
<1>5. TypeOK' /\ TargetInv'
  BY <1>1, <1>3 DEF removeHost, TypeOK, TargetInv
<1>. QED BY <1>3, <1>4, <1>5

LEMMA StopAllStep ==
    ASSUME IInv, stopAll
    PROVE  IInv'
<1>1. hostinfo \in Seq(Hosts) /\ hostinfo # <<>>
  BY DEF IInv, TypeOK, stopAll
<1>2. 1 \in DOMAIN hostinfo
  BY <1>1, EmptySeq, LenProperties
<1>3. calls' \in Nat /\ UNCHANGED <<startfails, deaths, lost>>
  BY DEF stopAll, Call, faults, IInv, TypeOK
<1>4. pc' \in {"idle", "stop"} /\ removeHost(1)
  BY DEF stopAll, Goto
<1>. QED BY <1>2, <1>3, <1>4, RemoveHostStep

LEMMA OtherCallsStep ==
    ASSUME IInv,
           SetPause \/ (\E h \in Hosts : HostTimeOver(h))
                    \/ (\E i \in DOMAIN hostinfo : RemoveHost(i))
    PROVE  IInv'
<1>. USE DEF IInv
<1>1. CASE SetPause
  <2>1. JobsInv' /\ QueueInv' /\ ProcInv'
    BY <1>1, Quiet DEF SetPause
  <2>2. dopause' \in BOOLEAN
    BY <1>1 DEF SetPause, TypeOK
  <2>. QED BY <1>1, <2>1, <2>2 DEF SetPause, TypeOK, TargetInv, runner, master, faults
<1>2. CASE \E h \in Hosts : HostTimeOver(h)
  <2>1. PICK h \in Hosts : HostTimeOver(h)
    BY <1>2
  <2>2. [host[h] EXCEPT !.ontime = FALSE] \in HostNFailInfo
    BY DEF TypeOK, HostNFailInfo
  <2>3. host' \in [Hosts -> HostNFailInfo]
    BY <2>1, <2>2, HostChanged DEF HostTimeOver
  <2>4. JobsInv' /\ QueueInv' /\ ProcInv'
    BY <2>1, Quiet DEF HostTimeOver
  <2>. QED BY <2>1, <2>3, <2>4 DEF HostTimeOver, TypeOK, TargetInv, runner, master, faults
<1>3. CASE \E i \in DOMAIN hostinfo : RemoveHost(i)
  <2>1. PICK i \in DOMAIN hostinfo : RemoveHost(i)
    BY <1>3
  <2>2. calls' \in Nat /\ UNCHANGED <<startfails, deaths, lost>>
    BY <2>1 DEF RemoveHost, Call, TypeOK
  <2>3. pc' = "idle" /\ removeHost(i)
    BY <2>1 DEF RemoveHost
  <2>. QED BY <2>2, <2>3, RemoveHostStep
<1>. QED BY <1>1, <1>2, <1>3

-----------------------------------------------------------------------------
(***************************************************************************)
(* The processes                                                           *)
(***************************************************************************)
LEMMA MessageOf ==
    ASSUME IInv, NEW a \in Attempts, Alive(a), NEW tag \in MessagesOf(a)
    PROVE  /\ tag \in Tags
           /\ tag = "done" => proc[a].at = "finished"
           /\ Answered(tag) \in {"busy", "finished", "gone"}
           /\ Answered(tag) = "finished" => tag = "finished"
           /\ Unanswered(tag) \in {"launched", "busy", "worked", "finished", "joberror",
                                   "hosterror"}
           /\ Unanswered(tag) \in {"worked", "finished"} => tag \in {"finished", "done"}
<1>1. proc[a] \in Process
  BY DEF IInv, TypeOK
<1>2. tag \in Tags /\ (tag = "done" => proc[a].at = "finished")
  <2>1. CASE proc[a].at \in {"launched", "worked", "finished"}
    BY <2>1 DEF MessagesOf, Tags, Exits
  <2>2. CASE proc[a].at = "busy"
    BY <2>2, ConstantAssumption DEF MessagesOf, Tags, Exits
  <2>3. CASE proc[a].at \in {"joberror", "hosterror"}
    BY <2>3 DEF MessagesOf, Tags, Exits
  <2>. QED BY <2>1, <2>2, <2>3, <1>1 DEF Process, Alive
<1>3. /\ Answered(tag) \in {"busy", "finished", "gone"}
      /\ Answered(tag) = "finished" => tag = "finished"
  BY DEF Answered
<1>4. /\ Unanswered(tag) \in {"launched", "busy", "worked", "finished", "joberror",
                              "hosterror"}
      /\ Unanswered(tag) \in {"worked", "finished"} => tag \in {"finished", "done"}
  BY <1>2 DEF Unanswered, Tags, Exits
<1>. QED BY <1>2, <1>3, <1>4

LEMMA SayStep ==
    ASSUME IInv, NEW a \in Attempts, NEW tag \in MessagesOf(a), NEW answered \in BOOLEAN,
           Say(a, tag, answered), deaths' = deaths, lost' \in Nat
    PROVE  IInv'
<1>. USE DEF IInv
<1>. DEFINE answer == resps[<<a[1], proc[a].host>>]
            m == [tag |-> tag, job |-> a[1], nr |-> a[2], host |-> proc[a].host]
            noanswer == [proc[a] EXCEPT !.at = Unanswered(tag)]
            goeson == [proc[a] EXCEPT !.at = Answered(tag),
                                      !.pausereq = (Head(answer) = "pause")]
<1>1. /\ Alive(a) /\ proc[a].host \in Hosts /\ proc[a] \in Process
      /\ a[1] \in Jobs /\ a[2] \in 1..MaxStarts
      /\ proc \in [Attempts -> Process] /\ statusqueue \in Seq(StatusInfo)
  BY DEF Say, ProcInv, TypeOK, Attempts
<1>2. /\ tag \in Tags
      /\ tag = "done" => proc[a].at = "finished"
      /\ Answered(tag) \in {"busy", "finished", "gone"}
      /\ Answered(tag) = "finished" => tag = "finished"
      /\ Unanswered(tag) \in {"launched", "busy", "worked", "finished", "joberror",
                              "hosterror"}
      /\ Unanswered(tag) \in {"worked", "finished"} => tag \in {"finished", "done"}
  BY <1>1, MessageOf
<1>3. worked \subseteq worked' /\ worked' \subseteq Jobs
  BY <1>1 DEF Say, TypeOK
<1>4. tag \in {"finished", "done"} => a[1] \in worked'
  <2>1. CASE tag = "finished"
    BY <2>1 DEF Say
  <2>2. CASE tag = "done"
    BY <2>2, <1>2, <1>3 DEF ProcInv
  <2>. QED BY <2>1, <2>2
<1>5. statusqueue' \in Seq(StatusInfo) /\ QueueInv'
  <2>1. m \in StatusInfo
    BY <1>1, <1>2 DEF StatusInfo
  <2>2. CASE statusqueue' = statusqueue
    BY <2>2, <1>1, <1>3 DEF QueueInv
  <2>3. CASE statusqueue' = Append(statusqueue, m)
    <3>1. /\ statusqueue' \in Seq(StatusInfo)
          /\ \A i \in DOMAIN statusqueue' :
                statusqueue'[i] = m \/ \E k \in DOMAIN statusqueue :
                                           statusqueue'[i] = statusqueue[k]
      BY <2>1, <2>3, <1>1, AppendIsSeq
    <3>. QED BY <3>1, <1>3, <1>4 DEF QueueInv
  <2>. QED BY <2>2, <2>3 DEF Say
<1>6. /\ noanswer \in Process
      /\ Answered(tag) # "gone" => goeson \in Process
      /\ Gone \in Process
  <2>1. (Head(answer) = "pause") \in BOOLEAN
    OBVIOUS
  <2>. QED BY <2>1, <1>1, <1>2 DEF Process, Gone
<1>7. PICK entry : /\ proc' = [proc EXCEPT ![a] = entry]
                   /\ \/ entry = noanswer
                      \/ entry = Gone
                      \/ entry = goeson /\ Answered(tag) # "gone"
  BY DEF Say
<1>8. /\ entry \in Process
      /\ entry.at \notin {"none", "gone"} => entry.host \in Hosts
      /\ entry.at \in {"worked", "finished"} => a[1] \in worked'
  <2>1. CASE entry = noanswer
    BY <2>1, <1>1, <1>2, <1>4, <1>6 DEF Process
  <2>2. CASE entry = Gone
    BY <2>2, <1>6 DEF Gone
  <2>3. CASE entry = goeson /\ Answered(tag) # "gone"
    BY <2>3, <1>1, <1>2, <1>4, <1>6 DEF Process
  <2>. QED BY <2>1, <2>2, <2>3, <1>7
<1>9. /\ proc' \in [Attempts -> Process]
      /\ \A b \in Attempts : proc'[b] = IF b = a THEN entry ELSE proc[b]
  BY <1>1, <1>7, <1>8
<1>10. ProcInv'
  BY <1>3, <1>8, <1>9 DEF ProcInv, Alive
<1>11. JobsInv'
  BY <1>3 DEF Say, JobsInv
<1>12. TypeOK' /\ TargetInv'
  BY <1>3, <1>5, <1>9 DEF Say, TypeOK, TargetInv, runner, master
<1>. QED BY <1>5, <1>10, <1>11, <1>12

LEMMA ProcessStep ==
    ASSUME IInv, NEW a \in Attempts, Report(a) \/ AnswerLost(a) \/ Die(a)
    PROVE  IInv'
<1>1. CASE Report(a)
  <2>1. PICK tag \in MessagesOf(a) : Say(a, tag, TRUE) /\ UNCHANGED lost
    BY <1>1 DEF Report
  <2>2. deaths' = deaths /\ lost' \in Nat
    BY <2>1 DEF Say, IInv, TypeOK
  <2>. QED BY <2>1, <2>2, SayStep
<1>2. CASE AnswerLost(a)
  <2>1. PICK tag \in MessagesOf(a) : Say(a, tag, FALSE)
    BY <1>2 DEF AnswerLost
  <2>2. deaths' = deaths /\ lost' \in Nat
    BY <1>2, <2>1 DEF AnswerLost, Say, IInv, TypeOK
  <2>. QED BY <2>1, <2>2, SayStep
<1>3. CASE Die(a)
  <2>. USE DEF IInv
  <2>1. Gone \in Process
    BY DEF Gone, Process
  <2>2. /\ proc' \in [Attempts -> Process]
        /\ \A b \in Attempts : proc'[b] = IF b = a THEN Gone ELSE proc[b]
    BY <1>3, <2>1 DEF Die, TypeOK
  <2>3. ProcInv'
    BY <1>3, <2>2 DEF Die, ProcInv, Alive, Gone
  <2>4. JobsInv' /\ QueueInv'
    BY <1>3 DEF Die, JobsInv, QueueInv
  <2>5. TypeOK' /\ TargetInv'
    BY <1>3, <2>2 DEF Die, TypeOK, TargetInv, runner, master
  <2>. QED BY <2>3, <2>4, <2>5
<1>. QED BY <1>1, <1>2, <1>3

-----------------------------------------------------------------------------
LEMMA IInvInit == Init => IInv
<1>. SUFFICES ASSUME Init PROVE IInv
  OBVIOUS
<1>1. /\ jobinfos \in Seq(Jobs) /\ hostinfo \in Seq(Hosts) /\ statusqueue \in Seq(StatusInfo)
      /\ resps \in [Jobs \X Hosts -> Seq(Responses)]
  BY ConstantAssumption, IsASeq, EmptySeq DEF Init, Jobs
<1>2. /\ job \in [Jobs -> JobInfo] /\ host \in [Hosts -> HostNFailInfo]
      /\ proc \in [Attempts -> Process]
  BY DEF Init, JobInfo, States, HostNFailInfo, NewHost, Process
<1>3. TypeOK
  BY <1>1, <1>2 DEF Init, TypeOK
<1>4. JobsInv
  BY DEF Init, JobsInv, RetryOK, SaysDone, FailedStates
<1>5. QueueInv
  BY EmptySeq DEF Init, QueueInv
<1>6. ProcInv /\ TargetInv
  BY DEF Init, ProcInv, Alive, TargetInv
<1>. QED BY <1>3, <1>4, <1>5, <1>6 DEF IInv

LEMMA IInvStep == IInv /\ [Next]_vars => IInv'
<1>. SUFFICES ASSUME IInv, [Next]_vars PROVE IInv'
  OBVIOUS
<1>1. CASE handleStatusInfo
  BY <1>1, HandleStatusInfoStep
<1>2. CASE \E i \in DOMAIN jobinfos : TimeOut(i)
  BY <1>2, TimeOutStep
<1>3. CASE PutHostToWork
  BY <1>3, PutHostToWorkStep
<1>4. CASE Assigning
  BY <1>4, NothingAssignedStep, JobBadStep, StartJobStep, StartFailsStep DEF Assigning
<1>5. CASE handleJobPausing
  BY <1>5, HandleJobPausingStep
<1>6. CASE Calls
  BY <1>6, AddHostStep, StopAllStep, OtherCallsStep DEF Calls
<1>7. CASE Environment
  BY <1>7, ProcessStep, OtherCallsStep DEF Environment
<1>8. CASE UNCHANGED vars
  <2>. USE DEF IInv
  <2>1. JobsInv' /\ QueueInv' /\ ProcInv'
    BY <1>8, Quiet DEF vars
  <2>2. TypeOK' /\ TargetInv'
    BY <1>8 DEF vars, runner, master, faults, TypeOK, TargetInv
  <2>. QED BY <2>1, <2>2
<1>. QED BY <1>1, <1>2, <1>3, <1>4, <1>5, <1>6, <1>7, <1>8 DEF Next

LEMMA Inductive == Spec => []IInv
BY IInvInit, IInvStep, PTL DEF Spec

\* Every variable has its type; in particular assignJob adds only hosts to hostinfo_
\* and a process that lives has a host.
THEOREM JobTypeCorrect == Spec => []TypeOK
<1>1. IInv => TypeOK
  BY DEF IInv
<1>. QED BY <1>1, Inductive, PTL

\* A job is started at most once more than it has failed, for any number of jobs, hosts and
\* faults, and with messages of processes that had been given up.
THEOREM RetriesAreBoundedCorrect == Spec => []RetriesAreBounded
<1>1. IInv => RetriesAreBounded
  BY DEF IInv, JobsInv, RetryOK, RetriesAreBounded
<1>. QED BY <1>1, Inductive, PTL

\* A job that counts as completed has been done by a process, also if its last message was
\* lost or is one of a process that had been given up.
THEOREM CompletedIsDoneCorrect == Spec => []CompletedIsDone
<1>1. IInv => CompletedIsDone
  BY DEF IInv, JobsInv, SaysDone, CompletedIsDone
<1>. QED BY <1>1, Inductive, PTL

-----------------------------------------------------------------------------
(***************************************************************************)
(* More about sequences                                                    *)
(***************************************************************************)
LEMMA FirstIsFirst ==
    ASSUME NEW S, S \subseteq Nat, S # {}
    PROVE  First(S) \in S /\ \A k \in S : First(S) <= k
<1>. DEFINE R == OpToRel(<, Nat)
<1>1. IsWellFoundedOn(R, Nat)
  BY NatLessThanWellFounded
<1>. HIDE DEF R
<1>2. PICK x \in S : \A y \in S : ~ (<<y, x>> \in R)
  BY <1>1, WFMin
<1>3. \A y \in S : ~(y < x)
  BY <1>2 DEF R, OpToRel
<1>4. \E i \in S : \A k \in S : i <= k
  BY <1>3
<1>. QED BY <1>4 DEF First

LEMMA RemoveAtElements ==
    ASSUME NEW S, NEW s \in Seq(S), NEW i \in DOMAIN s
    PROVE  /\ DOMAIN RemoveAt(s, i) = 1 .. Len(s) - 1
           /\ \A k \in 1 .. Len(s) - 1 :
                 RemoveAt(s, i)[k] = IF k < i THEN s[k] ELSE s[k+1]
<1>1. Len(s) \in Nat /\ i \in 1..Len(s) /\ \A k \in 1..Len(s) : s[k] \in S
  BY LenProperties, ElementOfSeq
<1>2. /\ SubSeq(s, 1, i-1) \in Seq(S) /\ Len(SubSeq(s, 1, i-1)) = i-1
      /\ \A k \in 1..i-1 : SubSeq(s, 1, i-1)[k] = s[k]
  <2>1. \A k \in 1..i-1 : s[k] \in S
    BY <1>1
  <2>2. /\ SubSeq(s, 1, i-1) \in Seq(S)
        /\ Len(SubSeq(s, 1, i-1)) = IF 1 <= i-1 THEN (i-1) - 1 + 1 ELSE 0
        /\ \A k \in 1 .. (i-1) - 1 + 1 : SubSeq(s, 1, i-1)[k] = s[1 + k - 1]
    BY <1>1, <2>1, SubSeqProperties
  <2>. QED BY <2>2, <1>1
<1>3. /\ SubSeq(s, i+1, Len(s)) \in Seq(S)
      /\ Len(SubSeq(s, i+1, Len(s))) = Len(s) - i
      /\ \A k \in 1 .. Len(s) - i : SubSeq(s, i+1, Len(s))[k] = s[k+i]
  <2>1. \A k \in i+1 .. Len(s) : s[k] \in S
    BY <1>1
  <2>2. /\ SubSeq(s, i+1, Len(s)) \in Seq(S)
        /\ Len(SubSeq(s, i+1, Len(s))) = IF i+1 <= Len(s) THEN Len(s) - (i+1) + 1 ELSE 0
        /\ \A k \in 1 .. Len(s) - (i+1) + 1 :
              SubSeq(s, i+1, Len(s))[k] = s[(i+1) + k - 1]
    BY <1>1, <2>1, SubSeqProperties
  <2>. QED BY <2>2, <1>1
<1>. DEFINE before == SubSeq(s, 1, i-1)
            after == SubSeq(s, i+1, Len(s))
<1>7. RemoveAt(s, i) = before \o after
  BY DEF RemoveAt
<1>. HIDE DEF before, after
<1>4. /\ RemoveAt(s, i) \in Seq(S)
      /\ Len(RemoveAt(s, i)) = Len(s) - 1
      /\ \A k \in 1 .. Len(s) - 1 : RemoveAt(s, i)[k] =
            IF k <= i-1 THEN before[k] ELSE after[k - (i-1)]
  <2>1. before \in Seq(S) /\ after \in Seq(S) /\ Len(before) = i-1 /\ Len(after) = Len(s) - i
    BY <1>2, <1>3 DEF before, after
  <2>2. /\ before \o after \in Seq(S)
        /\ Len(before \o after) = Len(before) + Len(after)
        /\ \A k \in 1 .. Len(before) + Len(after) : (before \o after)[k] =
              IF k <= Len(before) THEN before[k] ELSE after[k - Len(before)]
    BY <2>1, ConcatProperties
  <2>3. Len(before) + Len(after) = Len(s) - 1
    BY <2>1, <1>1
  <2>. QED BY <2>1, <2>2, <2>3, <1>7
<1>5. DOMAIN RemoveAt(s, i) = 1 .. Len(s) - 1
  BY <1>4, LenProperties
<1>6. ASSUME NEW k \in 1 .. Len(s) - 1
      PROVE  RemoveAt(s, i)[k] = IF k < i THEN s[k] ELSE s[k+1]
  <2>1. CASE k < i
    <3>1. k \in 1..i-1 /\ k <= i-1
      BY <2>1, <1>1
    <3>2. before[k] = s[k]
      BY <3>1, <1>2 DEF before
    <3>. QED BY <2>1, <3>1, <3>2, <1>4
  <2>2. CASE ~(k < i)
    <3>1. k - (i-1) \in 1 .. Len(s) - i /\ (k - (i-1)) + i = k + 1 /\ ~(k <= i-1)
      BY <2>2, <1>1
    <3>2. after[k - (i-1)] = s[k+1]
      BY <3>1, <1>3 DEF after
    <3>. QED BY <2>2, <3>1, <3>2, <1>4
  <2>. QED BY <2>1, <2>2
<1>. QED BY <1>5, <1>6

\* The elements that are left, and that no two are equal if no two were.
LEMMA RemoveAtKeeps ==
    ASSUME NEW S, NEW s \in Seq(S), NEW i \in DOMAIN s
    PROVE  /\ \A k \in DOMAIN RemoveAt(s, i) : \E m \in DOMAIN s :
                  m # i /\ RemoveAt(s, i)[k] = s[m]
           /\ \A m \in DOMAIN s : m # i =>
                  \E k \in DOMAIN RemoveAt(s, i) : RemoveAt(s, i)[k] = s[m]
           /\ (\A k, m \in DOMAIN s : s[k] = s[m] => k = m) =>
                  \A k, m \in DOMAIN RemoveAt(s, i) :
                      RemoveAt(s, i)[k] = RemoveAt(s, i)[m] => k = m
<1>. DEFINE r == RemoveAt(s, i)
<1>1. Len(s) \in Nat /\ i \in 1..Len(s) /\ DOMAIN s = 1..Len(s)
  BY LenProperties
<1>2. /\ DOMAIN r = 1 .. Len(s) - 1
      /\ \A k \in 1 .. Len(s) - 1 : r[k] = IF k < i THEN s[k] ELSE s[k+1]
  BY RemoveAtElements
<1>. HIDE DEF r
<1>3. ASSUME NEW k \in DOMAIN r
      PROVE  \E m \in DOMAIN s : m # i /\ r[k] = s[m]
  <2>1. CASE k < i
    BY <2>1, <1>1, <1>2
  <2>2. CASE ~(k < i)
    <3>1. k + 1 \in DOMAIN s /\ k + 1 # i /\ r[k] = s[k+1]
      BY <2>2, <1>1, <1>2
    <3>. QED BY <3>1
  <2>. QED BY <2>1, <2>2
<1>4. ASSUME NEW m \in DOMAIN s, m # i
      PROVE  \E k \in DOMAIN r : r[k] = s[m]
  <2>1. CASE m < i
    <3>1. m \in DOMAIN r /\ r[m] = s[m]
      BY <2>1, <1>1, <1>2
    <3>. QED BY <3>1
  <2>2. CASE ~(m < i)
    <3>1. m - 1 \in DOMAIN r /\ ~(m - 1 < i) /\ (m - 1) + 1 = m
      BY <2>2, <1>4, <1>1, <1>2
    <3>2. r[m-1] = s[m]
      BY <3>1, <1>2
    <3>. QED BY <3>1, <3>2
  <2>. QED BY <2>1, <2>2
<1>5. ASSUME \A k, m \in DOMAIN s : s[k] = s[m] => k = m,
             NEW k \in DOMAIN r, NEW m \in DOMAIN r, r[k] = r[m]
      PROVE  k = m
  <2>. DEFINE at(x) == IF x < i THEN x ELSE x + 1
  <2>1. at(k) \in DOMAIN s /\ at(m) \in DOMAIN s /\ r[k] = s[at(k)] /\ r[m] = s[at(m)]
    BY <1>1, <1>2
  <2>2. at(k) = at(m)
    BY <1>5, <2>1
  <2>. QED BY <2>2, <1>1, <1>2
<1>. QED BY <1>3, <1>4, <1>5 DEF r

LEMMA AppendElements ==
    ASSUME NEW S, NEW s \in Seq(S), NEW x \in S
    PROVE  /\ Len(s) + 1 \in DOMAIN Append(s, x) /\ Append(s, x)[Len(s) + 1] = x
           /\ \A k \in DOMAIN s : k \in DOMAIN Append(s, x) /\ Append(s, x)[k] = s[k]
           /\ \A k \in DOMAIN Append(s, x) :
                  Append(s, x)[k] = x \/ \E m \in DOMAIN s : Append(s, x)[k] = s[m]
<1>1. Len(s) \in Nat /\ DOMAIN s = 1..Len(s)
  BY LenProperties
<1>2. /\ Append(s, x) \in Seq(S)
      /\ Len(Append(s, x)) = Len(s) + 1
      /\ \A k \in 1..Len(s) : Append(s, x)[k] = s[k]
      /\ Append(s, x)[Len(s) + 1] = x
  BY AppendProperties
<1>3. DOMAIN Append(s, x) = 1..Len(s) + 1
  BY <1>2, LenProperties
<1>. QED BY <1>1, <1>2, <1>3

-----------------------------------------------------------------------------
(***************************************************************************)
(* The second inductive invariant: which host works on which job           *)
(***************************************************************************)
\* The job has not been given up.
InList(j) == \E i \in DOMAIN jobinfos : jobinfos[i] = j

Works(h) == \E k \in Jobs : InList(k) /\ isAssigned(k) /\ job[k].host = h

\* UsedHostHasJob, with the hosts for their places in hostinfo_.
UsedInv == \A h \in Hosts : Listed(h) /\ host[h].inuse => Works(h)

\* assignJob is called for a host that is not in use.
FreshInv == pc = "assign" => ~host[target].inuse

\* A job is listed once, and not after it has been given up.
ListInv ==
    /\ \A i, k \in DOMAIN jobinfos : jobinfos[i] = jobinfos[k] => i = k
    /\ \A j \in failedjobs : ~InList(j)

\* An assigned job may still be given up, and has a listed host to itself.
AssignedInv ==
    /\ \A j \in Jobs : isAssigned(j) =>
           InList(j) /\ Listed(job[j].host) /\ host[job[j].host].inuse
    /\ \A j, k \in Jobs : isAssigned(j) /\ isAssigned(k) /\ j # k => job[j].host # job[k].host

\* ListensToAssigned, without its proviso.
HeardInv ==
    \A j \in Jobs, h \in Hosts : job[j].state # "Completed" =>
        Len(resps[<<j, h>>]) = IF isAssigned(j) /\ job[j].host = h THEN 1 ELSE 0

\* A late message may break the last two: it makes a job assigned again whose host has been
\* released, or ends a job that has been started again elsewhere.
UseInv ==
    /\ UsedInv /\ FreshInv /\ ListInv
    /\ ~late => AssignedInv /\ HeardInv

-----------------------------------------------------------------------------
(***************************************************************************)
(* What a step may do to them                                              *)
(***************************************************************************)
\* The answers that wait for a job on a host.
Answers(list, k, h) == Len(list[<<k, h>>])

\* A step does not change whether a job is assigned, ended, and where.
Keeps(k) ==
    /\ job'[k].state \in AssignedStates <=> job[k].state \in AssignedStates
    /\ job'[k].state = "Completed" <=> job[k].state = "Completed"
    /\ job'[k].host = job[k].host

ListsKept == /\ UNCHANGED <<jobinfos, failedjobs>>
             /\ \A h \in Hosts : Listed(h)' => Listed(h)

LensKept(k) == \A h \in Hosts : Len(resps'[<<k, h>>]) = Len(resps[<<k, h>>])

\* A job is not assigned any more, and its host is released.
Frees(j) ==
    /\ job'[j].state \notin AssignedStates
    /\ \A k \in Jobs : k # j => Keeps(k) /\ LensKept(k)
    /\ \A h \in Hosts : h # job[j].host =>
           host'[h].inuse = host[h].inuse /\ (Listed(h) => Listed(h)')
    /\ \A h \in Hosts : h = job[j].host /\ Listed(h)' => ~host'[h].inuse
    /\ job'[j].state # "Completed" => \A h \in Hosts :
           Len(resps[<<j, h>>]) = (IF isAssigned(j) /\ job[j].host = h THEN 1 ELSE 0)
               => Len(resps'[<<j, h>>]) = 0
    /\ job'[j].state # "Completed" => job[j].state # "Completed"

LEMMA ListedIsHost ==
    ASSUME TypeOK, NEW h, Listed(h)
    PROVE  h \in Hosts
BY ListedHost DEF Listed

LEMMA InListIsJob ==
    ASSUME TypeOK, NEW j, InList(j)
    PROVE  j \in Jobs
BY ListedJob DEF InList

\* A host that is released is not in use; the others still have their jobs.
LEMMA FreesUsed ==
    ASSUME UsedInv, ListsKept, NEW j \in Jobs, Frees(j)
    PROVE  UsedInv'
<1>. SUFFICES ASSUME NEW h \in Hosts, Listed(h)', host'[h].inuse
              PROVE  Works(h)'
  BY DEF UsedInv
<1>1. h # job[j].host /\ host[h].inuse /\ Listed(h)
  BY DEF Frees, ListsKept
<1>2. PICK k \in Jobs : InList(k) /\ isAssigned(k) /\ job[k].host = h
  BY <1>1 DEF UsedInv, Works
<1>3. k # j
  BY <1>1, <1>2
<1>4. InList(k)' /\ isAssigned(k)' /\ job'[k].host = h
  BY <1>2, <1>3 DEF Frees, ListsKept, InList, isAssigned, Keeps
<1>. QED BY <1>4 DEF Works

\* The job that stopped was the only one on its host.
LEMMA FreesAssigned ==
    ASSUME TypeOK, AssignedInv, HeardInv, ListsKept, NEW j \in Jobs, isAssigned(j), Frees(j)
    PROVE  AssignedInv' /\ HeardInv'
<1>1. ASSUME NEW k \in Jobs, isAssigned(k)'
      PROVE  k # j /\ isAssigned(k) /\ job'[k].host = job[k].host
  <2>1. k # j
    BY <1>1 DEF Frees, isAssigned
  <2>. QED BY <2>1, <1>1 DEF Frees, Keeps, isAssigned
<1>2. ASSUME NEW k \in Jobs, isAssigned(k)'
      PROVE  InList(k)' /\ Listed(job[k].host)' /\ host'[job'[k].host].inuse
  <2>1. k # j /\ isAssigned(k) /\ job'[k].host = job[k].host
    BY <1>1, <1>2
  <2>2. /\ InList(k) /\ Listed(job[k].host) /\ host[job[k].host].inuse
        /\ job[k].host # job[j].host
    BY <2>1 DEF AssignedInv
  <2>3. job[k].host \in Hosts
    BY <2>2, ListedIsHost
  <2>4. PICK h \in Hosts : h = job[k].host
    BY <2>3
  <2>5. host'[h].inuse /\ Listed(h)'
    BY <2>2, <2>4 DEF Frees
  <2>6. InList(k)'
    BY <2>2 DEF ListsKept, InList
  <2>. QED BY <2>1, <2>4, <2>5, <2>6 DEF Listed
<1>3. AssignedInv'
  BY <1>1, <1>2 DEF AssignedInv
<1>4. ASSUME NEW k \in Jobs, NEW h \in Hosts, job'[k].state # "Completed"
      PROVE  Len(resps'[<<k, h>>]) =
                 IF isAssigned(k)' /\ job'[k].host = h THEN 1 ELSE 0
  <2>1. CASE k = j
    <3>1. ~isAssigned(k)' /\ job[k].state # "Completed"
      BY <2>1, <1>4 DEF Frees, isAssigned
    <3>2. Len(resps[<<j, h>>]) = IF isAssigned(j) /\ job[j].host = h THEN 1 ELSE 0
      BY <3>1, <2>1 DEF HeardInv
    <3>. QED BY <3>1, <3>2, <2>1, <1>4 DEF Frees
  <2>2. CASE k # j
    <3>1. Keeps(k) /\ LensKept(k)
      BY <2>2 DEF Frees
    <3>. QED BY <3>1, <1>4 DEF HeardInv, Keeps, LensKept, isAssigned
  <2>. QED BY <2>1, <2>2
<1>5. HeardInv'
  BY <1>4 DEF HeardInv
<1>. QED BY <1>3, <1>5

\* Nobody starts or stops to work.
LEMMA KeepsUsed ==
    ASSUME UsedInv, UNCHANGED jobinfos,
           \A k \in Jobs : job'[k].host = job[k].host /\ (isAssigned(k) => isAssigned(k)'),
           \A h \in Hosts : Listed(h)' /\ host'[h].inuse => Listed(h) /\ host[h].inuse
    PROVE  UsedInv'
<1>. SUFFICES ASSUME NEW h \in Hosts, Listed(h)', host'[h].inuse
              PROVE  Works(h)'
  BY DEF UsedInv
<1>1. PICK k \in Jobs : InList(k) /\ isAssigned(k) /\ job[k].host = h
  BY DEF UsedInv, Works
<1>2. InList(k)' /\ isAssigned(k)' /\ job'[k].host = h
  BY <1>1 DEF InList
<1>. QED BY <1>2 DEF Works

LEMMA KeepsAssigned ==
    ASSUME TypeOK, AssignedInv, HeardInv,
           \A k \in Jobs : Keeps(k) /\ LensKept(k),
           \A k \in Jobs : isAssigned(k) /\ InList(k) => InList(k)',
           \A h \in Hosts : Listed(h) /\ host[h].inuse => Listed(h)' /\ host'[h].inuse
    PROVE  AssignedInv' /\ HeardInv'
<1>1. ASSUME NEW k \in Jobs, isAssigned(k)'
      PROVE  isAssigned(k) /\ job'[k].host = job[k].host
  BY <1>1 DEF Keeps, isAssigned
<1>2. ASSUME NEW k \in Jobs, isAssigned(k)'
      PROVE  InList(k)' /\ Listed(job[k].host)' /\ host'[job'[k].host].inuse
  <2>1. isAssigned(k) /\ job'[k].host = job[k].host
    BY <1>1, <1>2
  <2>2. InList(k) /\ Listed(job[k].host) /\ host[job[k].host].inuse
    BY <2>1 DEF AssignedInv
  <2>3. PICK h \in Hosts : h = job[k].host
    BY <2>2, ListedIsHost
  <2>4. host'[h].inuse /\ Listed(h)'
    BY <2>2, <2>3
  <2>. QED BY <2>1, <2>2, <2>3, <2>4 DEF Listed
<1>3. AssignedInv'
  BY <1>1, <1>2 DEF AssignedInv
<1>4. HeardInv'
  BY DEF HeardInv, Keeps, LensKept, isAssigned
<1>. QED BY <1>3, <1>4

LEMMA ListsKeptInv ==
    ASSUME ListInv, UNCHANGED <<jobinfos, failedjobs>>
    PROVE  ListInv'
BY DEF ListInv, InList

-----------------------------------------------------------------------------
\* The answer for a job on a host is removed, if there is one.
OneRemoved(new, list, j, h) ==
    \A k \in Jobs, g \in Hosts :
        Answers(new, k, g) =
            IF k = j /\ g = h /\ Answers(list, k, g) > 0 THEN Answers(list, k, g) - 1
            ELSE Answers(list, k, g)

LEMMA LensRemoved ==
    ASSUME NEW list \in [Jobs \X Hosts -> Seq(Responses)], NEW j, NEW h
    PROVE  OneRemoved(removeJobDesc(list, j, h), list, j, h)
<1>. DEFINE new == removeJobDesc(list, j, h)
<1>. SUFFICES ASSUME NEW k \in Jobs, NEW g \in Hosts
              PROVE  Len(new[<<k, g>>]) =
                        IF k = j /\ g = h /\ Len(list[<<k, g>>]) > 0
                        THEN Len(list[<<k, g>>]) - 1
                        ELSE Len(list[<<k, g>>])
  BY DEF Answers, OneRemoved
<1>. DEFINE s == list[<<k, g>>]
<1>1. s \in Seq(Responses) /\ DOMAIN list = Jobs \X Hosts
  OBVIOUS
<1>2. new[<<k, g>>] = IF <<k, g>> = <<j, h>> /\ s # <<>> THEN Tail(s) ELSE s
  BY <1>1 DEF removeJobDesc
<1>. HIDE DEF new
<1>3. Len(s) \in Nat /\ (s # <<>> <=> Len(s) > 0)
  BY <1>1, LenProperties, EmptySeq
<1>4. s # <<>> => Len(Tail(s)) = Len(s) - 1
  BY <1>1, HeadTailProperties
<1>. HIDE DEF s
<1>5. <<k, g>> = <<j, h>> <=> k = j /\ g = h
  OBVIOUS
<1>. QED BY <1>2, <1>3, <1>4, <1>5 DEF s

LEMMA LensAre ==
    ASSUME TypeOK, NEW k \in Jobs, NEW g \in Hosts
    PROVE  Answers(resps, k, g) \in Nat
BY LenProperties DEF TypeOK, Answers

LEMMA FailedJobFrees ==
    ASSUME TypeOK, NEW j \in Jobs, NEW reason \in FailedStates, NEW list, NEW listed,
           list = resps \/ \E g : list = removeJobDesc(resps, j, g),
           listed = hostinfo',
           \A h \in Hosts : h # job[j].host /\ Listed(h) => Listed(h)',
           failedJob(j, reason, listed, list)
    PROVE  Frees(j)
<1>a. PICK at : at = job[j].host
  OBVIOUS
<1>0. /\ job \in [Jobs -> JobInfo] /\ job[j] \in JobInfo /\ host \in [Hosts -> HostNFailInfo]
      /\ resps \in [Jobs \X Hosts -> Seq(Responses)]
  BY DEF TypeOK
<1>1. /\ ~(job'[j].state \in AssignedStates)
      /\ job'[j].state = "Completed" <=> job[j].state = "Completed"
      /\ \A k \in Jobs : k # j => job'[k] = job[k]
  <2>1. CASE ~isAssigned(j)
    <3>1. job' = job
      BY <2>1 DEF failedJob
    <3>. QED BY <2>1, <3>1 DEF isAssigned
  <2>2. CASE isAssigned(j)
    <3>. DEFINE nj == IF reason = "JobFailed" THEN job[j].jobfailures + 1
                      ELSE job[j].jobfailures
                nh == IF reason = "HostFailed" THEN job[j].hstfailures + 1
                      ELSE job[j].hstfailures
                info == [job[j] EXCEPT !.state = reason, !.jobfailures = nj,
                                       !.hstfailures = nh]
    <3>1. job' = [job EXCEPT ![j] = info]
      BY <2>2, <1>0 DEF failedJob
    <3>2. info.state = reason
      <4>. HIDE DEF nj, nh
      <4>. QED BY <1>0 DEF JobInfo
    <3>3. job'[j] = info /\ \A k \in Jobs : k # j => job'[k] = job[k]
      BY <3>1, <1>0
    <3>. QED BY <2>2, <3>2, <3>3 DEF isAssigned, AssignedStates, FailedStates
  <2>. QED BY <2>1, <2>2
<1>2. /\ \A h \in Hosts : h # at => host'[h].inuse = host[h].inuse
      /\ \A h \in Hosts : h = at /\ Listed(h)' => ~host'[h].inuse
  <2>. DEFINE known == \E i \in DOMAIN listed : listed[i] = at
  <2>1. CASE ~known
    <3>1. host' = host
      BY <2>1, <1>a DEF failedJob
    <3>2. ~Listed(at)'
      BY <2>1 DEF Listed
    <3>. QED BY <3>1, <3>2, <2>1 DEF Listed
  <2>2. CASE known
    <3>. DEFINE x == host[at]
                more == IF isAssigned(j) /\ reason = "HostFailed"
                        THEN x.nrfailures + 1 ELSE x.nrfailures
                info == [x EXCEPT !.inuse = FALSE, !.nrfailures = more]
    <3>1. host' = [host EXCEPT ![at].inuse = FALSE,
                       ![at].nrfailures = IF isAssigned(j) /\ reason = "HostFailed"
                                         THEN @ + 1 ELSE @]
      BY <2>2, <1>a DEF failedJob
    <3>2. \A h \in Hosts : h # at => host'[h] = host[h]
      BY <3>1, <1>0
    <3>3. ASSUME at \in Hosts PROVE ~host'[at].inuse
      <4>1. x \in HostNFailInfo
        BY <3>3, <1>0
      <4>2. host'[at] = info
        BY <3>1, <3>3, <1>0
      <4>3. info.inuse = FALSE
        <5>. HIDE DEF more, x
        <5>. QED BY <4>1 DEF HostNFailInfo
      <4>. QED BY <4>2, <4>3
    <3>. QED BY <3>2, <3>3
  <2>. QED BY <2>1, <2>2
<1>3. /\ list \in [Jobs \X Hosts -> Seq(Responses)]
      /\ \A k \in Jobs, g \in Hosts :
            /\ Answers(list, k, g) \in Nat
            /\ k # j => Answers(list, k, g) = Answers(resps, k, g)
            /\ Answers(list, k, g) <= Answers(resps, k, g)
  <2>1. CASE list = resps
    BY <2>1, <1>0, LensAre
  <2>2. CASE \E g : list = removeJobDesc(resps, j, g)
    <3>1. PICK g : list = removeJobDesc(resps, j, g)
      BY <2>2
    <3>2. \A k \in Jobs, h \in Hosts : Answers(resps, k, h) \in Nat
      BY LensAre
    <3>3. OneRemoved(list, resps, j, g)
      BY <3>1, <1>0, LensRemoved
    <3>4. list \in [Jobs \X Hosts -> Seq(Responses)]
      BY <3>1, <1>0, RespsRemoved
    <3>5. ASSUME NEW k \in Jobs, NEW h \in Hosts
          PROVE  /\ Answers(list, k, h) \in Nat
                 /\ k # j => Answers(list, k, h) = Answers(resps, k, h)
                 /\ Answers(list, k, h) <= Answers(resps, k, h)
      <4>. DEFINE a == Answers(list, k, h)
                  b == Answers(resps, k, h)
      <4>1. b \in Nat /\ a = IF k = j /\ h = g /\ b > 0 THEN b - 1 ELSE b
        BY <3>2, <3>3 DEF OneRemoved
      <4>. HIDE DEF a, b
      <4>2. a \in Nat /\ (k # j => a = b) /\ a <= b
        BY <4>1
      <4>. QED BY <4>2 DEF a, b
    <3>. QED BY <3>4, <3>5
  <2>. QED BY <2>1, <2>2
<1>4. resps' = removeJobDesc(list, j, at)
  BY <1>a DEF failedJob
<1>5. OneRemoved(resps', list, j, at)
  BY <1>3, <1>4, LensRemoved
<1>6. \A k \in Jobs : k # j => Keeps(k) /\ LensKept(k)
  BY <1>1, <1>3, <1>5 DEF Keeps, LensKept, Answers, OneRemoved
<1>7. ASSUME NEW h \in Hosts,
             Len(resps[<<j, h>>]) = (IF isAssigned(j) /\ at = h THEN 1 ELSE 0)
      PROVE  Len(resps'[<<j, h>>]) = 0
  <2>0. Answers(resps, j, h) = (IF isAssigned(j) /\ at = h THEN 1 ELSE 0)
    BY <1>7 DEF Answers
  <2>1. Answers(list, j, h) \in Nat /\ Answers(list, j, h) <= Answers(resps, j, h)
    BY <1>3
  <2>2. CASE at = h
    BY <2>0, <2>1, <2>2, <1>5 DEF Answers, OneRemoved
  <2>3. CASE at # h
    BY <2>0, <2>1, <2>3, <1>5 DEF Answers, OneRemoved
  <2>. QED BY <2>2, <2>3
<1>. QED BY <1>a, <1>1, <1>2, <1>6, <1>7 DEF Frees

LEMMA ExitFrees ==
    ASSUME TypeOK, NEW j \in Jobs, handleExitStatus(j), UNCHANGED hostinfo,
           UNCHANGED resps \/ \E g : resps' = removeJobDesc(resps, j, g)
    PROVE  Frees(j)
<1>. DEFINE at == job[j].host
<1>0. /\ job \in [Jobs -> JobInfo] /\ job[j] \in JobInfo /\ host \in [Hosts -> HostNFailInfo]
      /\ resps \in [Jobs \X Hosts -> Seq(Responses)]
  BY DEF TypeOK
<1>1. /\ job'[j].state = "Completed"
      /\ \A k \in Jobs : k # j => job'[k] = job[k]
  BY <1>0 DEF handleExitStatus, JobInfo
<1>2. /\ \A h \in Hosts : h # at => host'[h].inuse = host[h].inuse
      /\ \A h \in Hosts : h = at /\ Listed(h) => ~host'[h].inuse
  BY <1>0 DEF handleExitStatus, HostNFailInfo
<1>3. \A h \in Hosts : Listed(h)' <=> Listed(h)
  BY DEF Listed
<1>4. \A k \in Jobs : k # j => LensKept(k)
  <2>1. CASE UNCHANGED resps
    BY <2>1 DEF LensKept
  <2>2. CASE \E g : resps' = removeJobDesc(resps, j, g)
    <3>1. PICK g : resps' = removeJobDesc(resps, j, g)
      BY <2>2
    <3>2. OneRemoved(resps', resps, j, g)
      BY <3>1, <1>0, LensRemoved
    <3>. QED BY <3>2 DEF LensKept, Answers, OneRemoved
  <2>. QED BY <2>1, <2>2
<1>. QED BY <1>1, <1>2, <1>3, <1>4 DEF Frees, Keeps, AssignedStates

-----------------------------------------------------------------------------
LEMMA HandleStatusInfoUsed ==
    ASSUME IInv, UseInv, handleStatusInfo
    PROVE  UseInv'
<1>1. statusqueue \in Seq(StatusInfo) /\ statusqueue # <<>> /\ TypeOK
  BY DEF IInv, TypeOK, handleStatusInfo
<1>2. PICK m \in StatusInfo : m = Head(statusqueue)
  BY <1>1, TailIsSeq
<1>3. PICK j \in Jobs : j = m.job
  BY DEF StatusInfo
<1>4. /\ job \in [Jobs -> JobInfo] /\ job[j] \in JobInfo
      /\ resps \in [Jobs \X Hosts -> Seq(Responses)]
  BY <1>1 DEF TypeOK
<1>5. UNCHANGED <<jobinfos, failedjobs, hostinfo>> /\ pc' = "update"
  BY DEF handleStatusInfo, runner, Goto
<1>6. ListsKept /\ \A h \in Hosts : Listed(h)' <=> Listed(h)
  BY <1>5 DEF ListsKept, Listed
<1>7. \/ Frees(j)
      \/ /\ UNCHANGED <<host, resps>>
         /\ \/ UNCHANGED job
            \/ \E info \in JobInfo : /\ job' = [job EXCEPT ![j] = info]
                                     /\ info.state \in AssignedStates
                                     /\ info.host = job[j].host
  <2>1. CASE m.tag = "pid"
    <3>. DEFINE info == [job[j] EXCEPT !.state = "Working", !.pid = m.nr]
    <3>1. job' = [job EXCEPT ![j] = info] /\ UNCHANGED <<host, resps>>
      BY <2>1, <1>2, <1>3, <1>4 DEF handleStatusInfo
    <3>2. m.nr \in Nat
      BY ConstantAssumption DEF StatusInfo, MaxStarts
    <3>3. info \in JobInfo /\ info.state \in AssignedStates /\ info.host = job[j].host
      BY <1>4, <3>2 DEF JobInfo, States, AssignedStates
    <3>. QED BY <3>1, <3>3
  <2>2. ASSUME NEW state \in {"Working", "Paused", "WrappingUp"}, SetState(j, state)
        PROVE  /\ UNCHANGED <<host, resps>>
               /\ \E info \in JobInfo : /\ job' = [job EXCEPT ![j] = info]
                                        /\ info.state \in AssignedStates
                                        /\ info.host = job[j].host
    <3>. DEFINE info == [job[j] EXCEPT !.state = state]
    <3>1. job' = [job EXCEPT ![j] = info] /\ UNCHANGED <<host, resps>>
      BY <2>2, <1>4 DEF SetState
    <3>2. info \in JobInfo /\ info.state \in AssignedStates /\ info.host = job[j].host
      BY <1>4 DEF JobInfo, States, AssignedStates
    <3>. QED BY <3>1, <3>2
  <2>3. CASE m.tag \in {"working", "paused", "finished"}
    <3>1. \E state \in {"Working", "Paused", "WrappingUp"} : SetState(j, state)
      BY <2>3, <1>2, <1>3 DEF handleStatusInfo
    <3>. QED BY <3>1, <2>2
  <2>4. CASE m.tag = "progress"
    <3>1. failedJob(j, "JobFailed", hostinfo, resps) \/ UNCHANGED <<job, host, resps>>
      BY <2>4, <1>2, <1>3 DEF handleStatusInfo
    <3>2. CASE failedJob(j, "JobFailed", hostinfo, resps)
      BY <3>2, <1>1, <1>5, <1>6, FailedJobFrees DEF FailedStates
    <3>. QED BY <3>1, <3>2
  <2>5. CASE m.tag = "done"
    <3>1. handleExitStatus(j) /\ resps' = removeJobDesc(resps, j, m.host)
      BY <2>5, <1>2, <1>3 DEF handleStatusInfo
    <3>. QED BY <3>1, <1>1, <1>5, ExitFrees
  <2>6. CASE m.tag \in {"joberror", "hosterror"}
    <3>1. PICK reason \in FailedStates :
              failedJob(j, reason, hostinfo, removeJobDesc(resps, j, m.host))
      BY <2>6, <1>2, <1>3 DEF handleStatusInfo, FailedStates
    <3>. QED BY <3>1, <1>1, <1>5, <1>6, FailedJobFrees
  <2>7. m.tag \in Tags
    BY DEF StatusInfo
  <2>. QED BY <2>1, <2>3, <2>4, <2>5, <2>6, <2>7 DEF Tags, Exits
<1>8. UsedInv'
  <2>1. CASE Frees(j)
    BY <2>1, <1>6, FreesUsed DEF UseInv
  <2>2. CASE ~Frees(j)
    <3>1. host' = host
      BY <2>2, <1>7
    <3>2. \A k \in Jobs : job'[k].host = job[k].host /\ (isAssigned(k) => isAssigned(k)')
      BY <2>2, <1>4, <1>7 DEF isAssigned
    <3>. QED BY <3>1, <3>2, <1>5, <1>6, KeepsUsed DEF UseInv
  <2>. QED BY <2>1, <2>2
<1>9. FreshInv' /\ ListInv'
  BY <1>5, ListsKeptInv DEF FreshInv, UseInv
<1>10. ASSUME ~late'
       PROVE  AssignedInv' /\ HeardInv'
  <2>1. ~late /\ isAssigned(j)
    BY <1>10, <1>2, <1>3 DEF handleStatusInfo
  <2>2. AssignedInv /\ HeardInv
    BY <2>1 DEF UseInv
  <2>3. CASE Frees(j)
    BY <2>1, <2>2, <2>3, <1>1, <1>6, FreesAssigned
  <2>4. CASE ~Frees(j)
    <3>1. \A k \in Jobs : Keeps(k)
      BY <2>4, <2>1, <1>4, <1>7 DEF isAssigned, Keeps, AssignedStates
    <3>2. host' = host /\ resps' = resps
      BY <2>4, <1>7
    <3>3. \A k \in Jobs : LensKept(k) /\ (InList(k) => InList(k)')
      BY <3>2, <1>5 DEF LensKept, InList
    <3>. QED BY <3>1, <3>2, <3>3, <2>2, <1>1, <1>6, KeepsAssigned
  <2>. QED BY <2>3, <2>4
<1>. QED BY <1>8, <1>9, <1>10 DEF UseInv

LEMMA TimeOutUsed ==
    ASSUME IInv, UseInv, NEW i \in DOMAIN jobinfos, TimeOut(i)
    PROVE  UseInv'
<1>1. TypeOK /\ UNCHANGED <<jobinfos, failedjobs, hostinfo, late>> /\ pc' = "update"
  BY DEF IInv, TimeOut, runner, Goto
<1>2. PICK j \in Jobs : j = jobinfos[i] /\ isAssigned(j)
  BY <1>1, ListedJob DEF TimeOut
<1>3. ListsKept /\ \A h \in Hosts : Listed(h)' <=> Listed(h)
  BY <1>1 DEF ListsKept, Listed
<1>4. Frees(j)
  <2>1. CASE handleExitStatus(j) /\ UNCHANGED resps
    BY <2>1, <1>1, ExitFrees
  <2>2. CASE failedJob(j, "HostFailed", hostinfo, removeJobDesc(resps, j, job[j].host))
    BY <2>2, <1>1, <1>3, FailedJobFrees DEF FailedStates
  <2>. QED BY <2>1, <2>2, <1>2 DEF TimeOut
<1>5. UsedInv'
  BY <1>3, <1>4, FreesUsed DEF UseInv
<1>6. FreshInv' /\ ListInv'
  BY <1>1, ListsKeptInv DEF FreshInv, UseInv
<1>7. ~late' => AssignedInv' /\ HeardInv'
  BY <1>1, <1>2, <1>3, <1>4, FreesAssigned DEF UseInv
<1>. QED BY <1>5, <1>6, <1>7 DEF UseInv

\* Actions that touch no job, list or answer, and no mark of a host.
LEMMA CalmKeeps ==
    ASSUME UseInv, UNCHANGED <<jobinfos, failedjobs, job, hostinfo, late>>,
           UNCHANGED resps \/ \A k \in Jobs : LensKept(k),
           \A h \in Hosts : host'[h].inuse = host[h].inuse, TypeOK
    PROVE  UsedInv' /\ ListInv' /\ (~late' => AssignedInv' /\ HeardInv')
<1>1. \A k \in Jobs : Keeps(k) /\ LensKept(k)
  BY DEF Keeps, LensKept
<1>2. /\ \A h \in Hosts : Listed(h)' <=> Listed(h)
      /\ \A k \in Jobs : InList(k)' <=> InList(k)
      /\ \A k \in Jobs : isAssigned(k)' <=> isAssigned(k)
  BY DEF Listed, InList, isAssigned
<1>3. UsedInv'
  BY <1>2, KeepsUsed DEF UseInv
<1>4. ~late' => AssignedInv' /\ HeardInv'
  BY <1>1, <1>2, KeepsAssigned DEF UseInv
<1>. QED BY <1>3, <1>4, ListsKeptInv DEF UseInv

LEMMA PutHostToWorkUsed ==
    ASSUME IInv, UseInv, PutHostToWork
    PROVE  UseInv'
<1>1. PICK i \in IdleHosts : assignJob(hostinfo[i], TRUE)
  BY DEF PutHostToWork
<1>2. UNCHANGED <<jobinfos, failedjobs, job, hostinfo, host, late, resps>> /\ TypeOK
  BY DEF PutHostToWork, runner, IInv
<1>3. FreshInv'
  BY <1>1, <1>2 DEF FreshInv, IdleHosts, assignJob
<1>. QED BY <1>2, <1>3, CalmKeeps DEF UseInv

\* Hosts that assignJob is done with are listed; the new one is the one it was called for.
LEMMA AssignedLists ==
    ASSUME IInv, pc = "assign", Assigned
    PROVE  /\ target \in Hosts /\ pc' # "assign"
           /\ \A h \in Hosts : Listed(h)' <=> Listed(h) \/ h = target
<1>1. target \in Hosts /\ hostinfo \in Seq(Hosts)
  BY DEF IInv, TargetInv, TypeOK
<1>2. pc' # "assign"
  BY DEF Assigned, Goto
<1>3. ASSUME NEW h \in Hosts
      PROVE  Listed(h)' <=> Listed(h) \/ h = target
  <2>1. CASE Listed(target)
    <3>1. hostinfo' = hostinfo
      BY <2>1 DEF Assigned
    <3>. QED BY <2>1, <3>1 DEF Listed
  <2>2. CASE ~Listed(target)
    <3>1. hostinfo' = Append(hostinfo, target)
      BY <2>2 DEF Assigned
    <3>2. /\ Len(hostinfo) + 1 \in DOMAIN Append(hostinfo, target)
          /\ Append(hostinfo, target)[Len(hostinfo) + 1] = target
          /\ \A k \in DOMAIN hostinfo : k \in DOMAIN Append(hostinfo, target)
                                        /\ Append(hostinfo, target)[k] = hostinfo[k]
          /\ \A k \in DOMAIN Append(hostinfo, target) :
                 \/ Append(hostinfo, target)[k] = target
                 \/ \E m \in DOMAIN hostinfo : Append(hostinfo, target)[k] = hostinfo[m]
      BY <1>1, AppendElements
    <3>. QED BY <3>1, <3>2 DEF Listed
  <2>. QED BY <2>1, <2>2
<1>. QED BY <1>1, <1>2, <1>3

LEMMA NothingAssignedUsed ==
    ASSUME IInv, UseInv, NothingAssigned
    PROVE  UseInv'
<1>1. /\ UNCHANGED <<jobinfos, failedjobs, job, host, late, resps>> /\ TypeOK
      /\ pc = "assign" /\ Assigned
  BY DEF NothingAssigned, IInv
<1>2. /\ target \in Hosts /\ pc' # "assign"
      /\ \A h \in Hosts : Listed(h)' <=> Listed(h) \/ h = target
  BY <1>1, AssignedLists
<1>3. ~host[target].inuse
  BY <1>1 DEF UseInv, FreshInv
<1>4. /\ \A k \in Jobs : InList(k)' <=> InList(k)
      /\ \A k \in Jobs : isAssigned(k)' <=> isAssigned(k)
      /\ \A k \in Jobs : Keeps(k) /\ LensKept(k)
  BY <1>1 DEF InList, isAssigned, Keeps, LensKept
<1>5. UsedInv'
  BY <1>1, <1>2, <1>3, <1>4, KeepsUsed DEF UseInv
<1>6. ~late' => AssignedInv' /\ HeardInv'
  BY <1>1, <1>2, <1>4, KeepsAssigned DEF UseInv
<1>7. FreshInv' /\ ListInv'
  BY <1>1, <1>2, ListsKeptInv DEF UseInv, FreshInv
<1>. QED BY <1>5, <1>6, <1>7 DEF UseInv

LEMMA JobBadUsed ==
    ASSUME IInv, UseInv, NEW i, JobBad(i)
    PROVE  UseInv'
<1>1. /\ i \in DOMAIN jobinfos /\ jobinfos[i] \in Jobs
      /\ job[jobinfos[i]].state \in FailedStates \cup {"ToDo"}
  BY TryIsStartable DEF JobBad
<1>2. PICK j \in Jobs : j = jobinfos[i]
  BY <1>1
<1>3. /\ UNCHANGED <<job, host, hostinfo, late, resps, pc, target>>
      /\ TypeOK /\ jobinfos \in Seq(Jobs)
      /\ jobinfos' = RemoveAt(jobinfos, i) /\ failedjobs' = failedjobs \cup {j}
  BY <1>2 DEF JobBad, NextJob, IInv, TypeOK
<1>4. /\ \A k \in DOMAIN jobinfos' : \E m \in DOMAIN jobinfos :
             m # i /\ jobinfos'[k] = jobinfos[m]
      /\ \A m \in DOMAIN jobinfos : m # i =>
             \E k \in DOMAIN jobinfos' : jobinfos'[k] = jobinfos[m]
      /\ \A k, m \in DOMAIN jobinfos' : jobinfos'[k] = jobinfos'[m] => k = m
  BY <1>1, <1>3, RemoveAtKeeps DEF UseInv, ListInv
<1>5. ~isAssigned(j)
  BY <1>1, <1>2 DEF isAssigned, AssignedStates, FailedStates
<1>6. /\ \A k \in Jobs : Keeps(k) /\ LensKept(k) /\ (isAssigned(k)' <=> isAssigned(k))
      /\ \A h \in Hosts : Listed(h)' <=> Listed(h)
      /\ \A k \in Jobs : isAssigned(k) /\ InList(k) => InList(k)'
  <2>1. \A k \in Jobs : isAssigned(k) /\ InList(k) => InList(k)'
    BY <1>2, <1>4, <1>5 DEF InList
  <2>. QED BY <2>1, <1>3 DEF Keeps, LensKept, isAssigned, Listed
<1>7. UsedInv'
  <2>. SUFFICES ASSUME NEW h \in Hosts, Listed(h)', host'[h].inuse
                PROVE  Works(h)'
    BY DEF UsedInv
  <2>1. PICK k \in Jobs : InList(k) /\ isAssigned(k) /\ job[k].host = h
    BY <1>3, <1>6 DEF UseInv, UsedInv, Works
  <2>. QED BY <2>1, <1>3, <1>6 DEF Works
<1>8. ListInv'
  <2>1. ~InList(j)'
    BY <1>1, <1>2, <1>4 DEF InList, UseInv, ListInv
  <2>2. \A k \in failedjobs : ~InList(k)'
    BY <1>4 DEF InList, UseInv, ListInv
  <2>. QED BY <2>1, <2>2, <1>3, <1>4 DEF ListInv
<1>9. ~late' => AssignedInv' /\ HeardInv'
  BY <1>3, <1>6, KeepsAssigned DEF UseInv
<1>10. FreshInv'
  BY <1>3 DEF UseInv, FreshInv
<1>. QED BY <1>7, <1>8, <1>9, <1>10 DEF UseInv

LEMMA StartJobUsed ==
    ASSUME IInv, UseInv, NEW i, StartJob(i)
    PROVE  UseInv'
<1>1. /\ i \in DOMAIN jobinfos /\ jobinfos[i] \in Jobs /\ pc = "assign"
      /\ job[jobinfos[i]].state \in FailedStates \cup {"ToDo"}
  BY TryIsStartable DEF StartJob
<1>2. PICK j \in Jobs : j = jobinfos[i]
  BY <1>1
<1>3. /\ UNCHANGED <<jobinfos, failedjobs, late>>
      /\ TypeOK /\ Assigned
      /\ job' = [job EXCEPT ![j] = Scheduled(j, job[j].starts + 1)]
      /\ host' = [host EXCEPT ![target].inuse = TRUE]
      /\ resps' = addJobDesc(j)
  BY <1>2 DEF StartJob, IInv
<1>4. /\ target \in Hosts /\ pc' # "assign"
      /\ \A h \in Hosts : Listed(h)' <=> Listed(h) \/ h = target
  BY <1>1, <1>3, AssignedLists
<1>5. /\ job \in [Jobs -> JobInfo] /\ host \in [Hosts -> HostNFailInfo]
      /\ resps \in [Jobs \X Hosts -> Seq(Responses)]
  BY <1>3 DEF TypeOK
<1>6. /\ job'[j].state = "Scheduled" /\ job'[j].host = target
      /\ \A k \in Jobs : k # j => job'[k] = job[k]
      /\ ~isAssigned(j) /\ isAssigned(j)' /\ job[j].state # "Completed"
  BY <1>1, <1>2, <1>3, <1>5
  DEF Scheduled, JobInfo, isAssigned, AssignedStates, FailedStates
<1>7. /\ \A h \in Hosts : h # target => host'[h] = host[h]
      /\ host'[target].inuse
  BY <1>3, <1>4, <1>5 DEF HostNFailInfo
<1>8. ASSUME NEW k \in Jobs, NEW h \in Hosts
      PROVE  Len(resps'[<<k, h>>]) = IF k = j /\ h = target THEN Len(resps[<<k, h>>]) + 1
                                     ELSE Len(resps[<<k, h>>])
  <2>1. "work" \in Responses /\ resps[<<k, h>>] \in Seq(Responses)
    BY <1>5 DEF Responses
  <2>2. Len(Append(resps[<<k, h>>], "work")) = Len(resps[<<k, h>>]) + 1
    BY <2>1, AppendProperties
  <2>3. CASE k = j /\ h = target
    BY <2>2, <2>3, <1>3, <1>5 DEF addJobDesc
  <2>4. CASE ~(k = j /\ h = target)
    <3>1. <<k, h>> # <<j, target>>
      BY <2>4
    <3>. QED BY <2>4, <3>1, <1>3, <1>5 DEF addJobDesc
  <2>. QED BY <2>3, <2>4
<1>9. InList(j) /\ \A k \in Jobs : InList(k)' <=> InList(k)
  BY <1>1, <1>2, <1>3 DEF InList
<1>10. \A k \in Jobs : k # j => (isAssigned(k)' <=> isAssigned(k))
  BY <1>6 DEF isAssigned
<1>11. UsedInv'
  <2>. SUFFICES ASSUME NEW h \in Hosts, Listed(h)', host'[h].inuse
                PROVE  Works(h)'
    BY DEF UsedInv
  <2>1. CASE h = target
    BY <2>1, <1>6, <1>9 DEF Works
  <2>2. CASE h # target
    <3>1. PICK k \in Jobs : InList(k) /\ isAssigned(k) /\ job[k].host = h
      BY <2>2, <1>4, <1>7 DEF UseInv, UsedInv, Works
    <3>. QED BY <3>1, <1>6, <1>9, <1>10 DEF Works
  <2>. QED BY <2>1, <2>2
<1>12. FreshInv' /\ ListInv'
  BY <1>3, <1>4, ListsKeptInv DEF UseInv, FreshInv
<1>13. ASSUME ~late'
       PROVE  AssignedInv' /\ HeardInv'
  <2>1. AssignedInv /\ HeardInv
    BY <1>3, <1>13 DEF UseInv
  <2>2. \A k \in Jobs : isAssigned(k) => job[k].host \in Hosts /\ job[k].host # target
    BY <2>1, <1>1, <1>3, ListedIsHost DEF UseInv, FreshInv, AssignedInv
  <2>4. ASSUME NEW k \in Jobs, isAssigned(k)'
        PROVE  /\ InList(k)' /\ host'[job'[k].host].inuse
               /\ \E h \in Hosts : h = job'[k].host /\ Listed(h)'
    <3>1. CASE k = j
      BY <3>1, <1>4, <1>6, <1>7, <1>9
    <3>2. CASE k # j
      <4>1. isAssigned(k) /\ job'[k] = job[k]
        BY <3>2, <2>4, <1>6, <1>10
      <4>2. PICK h \in Hosts : h = job[k].host
        BY <4>1, <2>2
      <4>3. InList(k) /\ Listed(h) /\ host[h].inuse /\ h # target
        BY <4>1, <4>2, <2>1, <2>2 DEF AssignedInv
      <4>. QED BY <4>1, <4>2, <4>3, <1>4, <1>7, <1>9
    <3>. QED BY <3>1, <3>2
  <2>5. ASSUME NEW k \in Jobs, NEW m \in Jobs, isAssigned(k)', isAssigned(m)', k # m
        PROVE  job'[k].host # job'[m].host
    BY <2>5, <2>1, <2>2, <1>6, <1>10 DEF AssignedInv
  <2>6. AssignedInv'
    BY <2>4, <2>5 DEF AssignedInv, Listed
  <2>7. ASSUME NEW k \in Jobs, NEW h \in Hosts, job'[k].state # "Completed"
        PROVE  Len(resps'[<<k, h>>]) = IF isAssigned(k)' /\ job'[k].host = h THEN 1 ELSE 0
    <3>1. CASE k = j
      <4>1. Len(resps[<<k, h>>]) = 0
        BY <3>1, <2>1, <1>6 DEF HeardInv
      <4>. QED BY <4>1, <3>1, <1>6, <1>8
    <3>2. CASE k # j
      BY <3>2, <2>1, <2>7, <1>6, <1>8, <1>10 DEF HeardInv
    <3>. QED BY <3>1, <3>2
  <2>8. HeardInv'
    BY <2>7 DEF HeardInv
  <2>. QED BY <2>6, <2>8
<1>. QED BY <1>11, <1>12, <1>13 DEF UseInv

LEMMA StartFailsUsed ==
    ASSUME IInv, UseInv, NEW i, StartFails(i)
    PROVE  UseInv'
<1>1. /\ i \in DOMAIN jobinfos /\ jobinfos[i] \in Jobs /\ pc = "assign"
      /\ job[jobinfos[i]].state \in FailedStates \cup {"ToDo"}
      /\ target \in Hosts
  BY TryIsStartable DEF StartFails, IInv, TargetInv
<1>2. PICK j \in Jobs : j = jobinfos[i]
  BY <1>1
<1>. DEFINE base == Scheduled(j, job[j].starts)
            more == base.hstfailures + 1
            info == [base EXCEPT !.state = "HostFailed", !.hstfailures = more]
<1>3. /\ UNCHANGED <<jobinfos, failedjobs, late, hostinfo, pc, target>>
      /\ TypeOK
      /\ job' = [job EXCEPT ![j] = info]
      /\ host' = IF Listed(target) THEN [host EXCEPT ![target].nrfailures = @ + 1] ELSE host
      /\ resps' = removeJobDesc(removeJobDesc(addJobDesc(j), j, target), j, target)
  BY <1>2 DEF StartFails, IInv, NextJob
<1>4. /\ job \in [Jobs -> JobInfo] /\ job[j] \in JobInfo /\ host \in [Hosts -> HostNFailInfo]
      /\ resps \in [Jobs \X Hosts -> Seq(Responses)]
  BY <1>3 DEF TypeOK
<1>5. info.state = "HostFailed"
  <2>1. base \in JobInfo
    BY <1>1, <1>4 DEF Scheduled, JobInfo, States, AssignedStates
  <2>. HIDE DEF base
  <2>. QED BY <2>1 DEF JobInfo
<1>6. /\ job'[j].state = "HostFailed"
      /\ \A k \in Jobs : k # j => job'[k] = job[k]
      /\ ~isAssigned(j) /\ ~isAssigned(j)' /\ job[j].state # "Completed"
  BY <1>1, <1>2, <1>3, <1>4, <1>5 DEF isAssigned, AssignedStates, FailedStates
<1>7. \A h \in Hosts : host'[h].inuse = host[h].inuse
  BY <1>3, <1>4 DEF HostNFailInfo
<1>8. /\ \A h \in Hosts : Listed(h)' <=> Listed(h)
      /\ \A k \in Jobs : InList(k)' <=> InList(k)
      /\ \A k \in Jobs : isAssigned(k)' <=> isAssigned(k)
  BY <1>3, <1>6 DEF Listed, InList, isAssigned
<1>. HIDE DEF info
<1>9. UsedInv'
  <2>. SUFFICES ASSUME NEW h \in Hosts, Listed(h)', host'[h].inuse
                PROVE  Works(h)'
    BY DEF UsedInv
  <2>1. PICK k \in Jobs : InList(k) /\ isAssigned(k) /\ job[k].host = h
    BY <1>7, <1>8 DEF UseInv, UsedInv, Works
  <2>. QED BY <2>1, <1>6, <1>8 DEF Works
<1>10. FreshInv' /\ ListInv'
  BY <1>1, <1>3, <1>7, ListsKeptInv DEF UseInv, FreshInv
<1>11. ASSUME ~late'
       PROVE  AssignedInv' /\ HeardInv'
  <2>1. AssignedInv /\ HeardInv
    BY <1>3, <1>11 DEF UseInv
  <2>2. \A k \in Jobs, h \in Hosts : Answers(resps, k, h) \in Nat
    BY <1>3, LensAre
  <2>3. ASSUME NEW k \in Jobs, NEW h \in Hosts
        PROVE  Answers(addJobDesc(j), k, h) =
                   IF k = j /\ h = target THEN Answers(resps, k, h) + 1
                   ELSE Answers(resps, k, h)
    <3>1. "work" \in Responses /\ resps[<<k, h>>] \in Seq(Responses)
      BY <1>4 DEF Responses
    <3>2. Len(Append(resps[<<k, h>>], "work")) = Len(resps[<<k, h>>]) + 1
      BY <3>1, AppendProperties
    <3>3. CASE k = j /\ h = target
      BY <3>2, <3>3, <1>4 DEF addJobDesc, Answers
    <3>4. CASE ~(k = j /\ h = target)
      <4>1. <<k, h>> # <<j, target>>
        BY <3>4
      <4>. QED BY <3>4, <4>1, <1>4 DEF addJobDesc, Answers
    <3>. QED BY <3>3, <3>4
  <2>4. addJobDesc(j) \in [Jobs \X Hosts -> Seq(Responses)]
    <3>1. Append(resps[<<j, target>>], "work") \in Seq(Responses)
      BY <1>1, <1>4, AppendIsSeq DEF Responses
    <3>. QED BY <3>1, <1>4 DEF addJobDesc
  <2>5. PICK once : once = removeJobDesc(addJobDesc(j), j, target)
    OBVIOUS
  <2>6. once \in [Jobs \X Hosts -> Seq(Responses)]
    BY <2>4, <2>5, RespsRemoved
  <2>7. OneRemoved(once, addJobDesc(j), j, target)
    BY <2>4, <2>5, LensRemoved
  <2>8. OneRemoved(resps', once, j, target)
    BY <2>5, <2>6, <1>3, LensRemoved
  <2>9. ASSUME NEW k \in Jobs, NEW h \in Hosts
        PROVE  /\ k # j => Answers(resps', k, h) = Answers(resps, k, h)
               /\ Answers(resps, k, h) = 0 => Answers(resps', k, h) = 0
    <3>. DEFINE a == Answers(resps, k, h)
                b == Answers(addJobDesc(j), k, h)
                c == Answers(once, k, h)
                d == Answers(resps', k, h)
    <3>1. /\ a \in Nat
          /\ b = IF k = j /\ h = target THEN a + 1 ELSE a
          /\ c = IF k = j /\ h = target /\ b > 0 THEN b - 1 ELSE b
          /\ d = IF k = j /\ h = target /\ c > 0 THEN c - 1 ELSE c
      BY <1>1, <2>2, <2>3, <2>7, <2>8 DEF OneRemoved
    <3>. HIDE DEF a, b, c, d
    <3>2. (k # j => d = a) /\ (a = 0 => d = 0)
      BY <3>1
    <3>. QED BY <3>2 DEF a, d
  <2>10. ASSUME NEW k \in Jobs, NEW h \in Hosts, job'[k].state # "Completed"
         PROVE  Len(resps'[<<k, h>>]) = IF isAssigned(k)' /\ job'[k].host = h THEN 1 ELSE 0
    <3>1. CASE k = j
      <4>1. Answers(resps, k, h) = 0
        BY <3>1, <2>1, <1>6 DEF HeardInv, Answers
      <4>2. Answers(resps', k, h) = 0
        BY <4>1, <2>9
      <4>. QED BY <4>2, <3>1, <1>6 DEF Answers
    <3>2. CASE k # j
      <4>1. Answers(resps', k, h) = Answers(resps, k, h)
        BY <3>2, <2>9
      <4>. QED BY <4>1, <3>2, <2>1, <2>10, <1>6, <1>8 DEF HeardInv, Answers
    <3>. QED BY <3>1, <3>2
  <2>11. ASSUME NEW k \in Jobs, isAssigned(k)'
         PROVE  isAssigned(k) /\ k # j /\ job'[k] = job[k]
    BY <2>11, <1>6, <1>8
  <2>12. ASSUME NEW k \in Jobs, isAssigned(k)'
         PROVE  /\ InList(k)' /\ host'[job'[k].host].inuse
                /\ \E h \in Hosts : h = job'[k].host /\ Listed(h)'
    <3>1. isAssigned(k) /\ job'[k] = job[k]
      BY <2>11, <2>12
    <3>2. InList(k) /\ Listed(job[k].host) /\ host[job[k].host].inuse
      BY <3>1, <2>1 DEF AssignedInv
    <3>3. PICK h \in Hosts : h = job[k].host
      BY <3>2, <1>3, ListedIsHost
    <3>. QED BY <3>1, <3>2, <3>3, <1>7, <1>8
  <2>13. AssignedInv'
    BY <2>1, <2>11, <2>12 DEF AssignedInv, Listed
  <2>. QED BY <2>10, <2>13 DEF HeardInv
<1>. QED BY <1>9, <1>10, <1>11 DEF UseInv

LEMMA HandleJobPausingUsed ==
    ASSUME IInv, UseInv, handleJobPausing
    PROVE  UseInv'
<1>1. /\ UNCHANGED <<jobinfos, failedjobs, job, hostinfo, host, late>>
      /\ TypeOK /\ pc' = "idle"
  BY DEF handleJobPausing, runner, IInv, Goto
<1>2. ASSUME NEW k \in Jobs, NEW h \in Hosts
      PROVE  Len(resps'[<<k, h>>]) = Len(resps[<<k, h>>])
  <2>. DEFINE answer == IF dopause THEN "pause" ELSE "work"
              s == resps[<<k, h>>]
  <2>1. /\ s \in Seq(Responses) /\ answer \in Responses
        /\ resps \in [Jobs \X Hosts -> Seq(Responses)]
    BY <1>1 DEF TypeOK, Responses
  <2>2. resps'[<<k, h>>] = IF Told(k, h) THEN [s EXCEPT ![1] = answer] ELSE s
    BY <2>1 DEF handleJobPausing
  <2>3. CASE Told(k, h)
    <3>1. s # <<>>
      BY <2>3 DEF Told
    <3>2. 1 \in 1..Len(s)
      BY <2>1, <3>1, EmptySeq
    <3>3. Len([s EXCEPT ![1] = answer]) = Len(s)
      BY <2>1, <3>2, ExceptSeq
    <3>. QED BY <2>2, <2>3, <3>3
  <2>4. CASE ~Told(k, h)
    BY <2>2, <2>4
  <2>. QED BY <2>3, <2>4
<1>3. UsedInv' /\ ListInv' /\ (~late' => AssignedInv' /\ HeardInv')
  BY <1>1, <1>2, CalmKeeps DEF LensKept
<1>. QED BY <1>1, <1>3 DEF UseInv, FreshInv

LEMMA AddHostUsed ==
    ASSUME IInv, UseInv, NEW h \in Hosts, addHost(h)
    PROVE  UseInv'
<1>1. /\ UNCHANGED <<jobinfos, failedjobs, job, resps, late>> /\ TypeOK
      /\ pc = "idle" /\ (~Listed(h) \/ ~host[h].inuse)
      /\ host \in [Hosts -> HostNFailInfo]
  BY DEF addHost, IInv, TypeOK
<1>2. \A g \in Hosts : g # h => host'[g] = host[g]
  BY <1>1 DEF addHost
<1>3. ~host'[h].inuse
  <2>1. CASE Listed(h)
    <3>1. host'[h] = [host[h] EXCEPT !.nrfailures = 0, !.ontime = TRUE]
      BY <2>1, <1>1 DEF addHost
    <3>. QED BY <2>1, <3>1, <1>1 DEF HostNFailInfo
  <2>2. CASE ~Listed(h)
    BY <2>2, <1>1 DEF addHost, NewHost
  <2>. QED BY <2>1, <2>2
<1>4. \A g \in Hosts : (Listed(g)' => Listed(g) \/ g = h) /\ (Listed(g) => Listed(g)')
  <2>1. CASE hostinfo' = hostinfo
    BY <2>1 DEF Listed
  <2>2. CASE hostinfo' = Append(hostinfo, h)
    <3>1. hostinfo \in Seq(Hosts)
      BY <1>1 DEF TypeOK
    <3>2. /\ \A k \in DOMAIN hostinfo : k \in DOMAIN Append(hostinfo, h)
                                        /\ Append(hostinfo, h)[k] = hostinfo[k]
          /\ \A k \in DOMAIN Append(hostinfo, h) :
                 \/ Append(hostinfo, h)[k] = h
                 \/ \E m \in DOMAIN hostinfo : Append(hostinfo, h)[k] = hostinfo[m]
      BY <3>1, AppendElements
    <3>. QED BY <2>2, <3>2 DEF Listed
  <2>. QED BY <2>1, <2>2 DEF addHost
<1>5. FreshInv'
  BY <1>1, <1>3 DEF addHost, assignJob, master, FreshInv
<1>6. /\ \A k \in Jobs : InList(k)' <=> InList(k)
      /\ \A k \in Jobs : isAssigned(k)' <=> isAssigned(k)
      /\ \A k \in Jobs : Keeps(k) /\ LensKept(k)
  BY <1>1 DEF InList, isAssigned, Keeps, LensKept
<1>7. UsedInv'
  BY <1>1, <1>2, <1>3, <1>4, <1>6, KeepsUsed DEF UseInv
<1>8. ASSUME ~late'
      PROVE  AssignedInv' /\ HeardInv'
  <2>1. \A g \in Hosts : Listed(g) /\ host[g].inuse => Listed(g)' /\ host'[g].inuse
    BY <1>1, <1>2, <1>4
  <2>. QED BY <2>1, <1>1, <1>6, <1>8, KeepsAssigned DEF UseInv
<1>. QED BY <1>1, <1>5, <1>7, <1>8, ListsKeptInv DEF UseInv

\* The job that currentJob finds.
LEMMA CurrentJobWorks ==
    ASSUME TypeOK, NEW h, JobsOn(h) # {}
    PROVE  /\ currentJob(h) \in Jobs /\ InList(currentJob(h))
           /\ isAssigned(currentJob(h)) /\ job[currentJob(h)].host = h
<1>1. JobsOn(h) \subseteq Nat
  BY LenProperties DEF TypeOK, JobsOn
<1>2. First(JobsOn(h)) \in JobsOn(h)
  BY <1>1, FirstIsFirst
<1>3. PICK i \in JobsOn(h) : i = First(JobsOn(h))
  BY <1>2
<1>4. i \in DOMAIN jobinfos /\ currentJob(h) = jobinfos[i]
  BY <1>3 DEF JobsOn, currentJob
<1>. QED BY <1>3, <1>4, ListedJob DEF JobsOn, InList

LEMMA JobsOnWorks ==
    ASSUME TypeOK, NEW h
    PROVE  JobsOn(h) # {} <=> Works(h)
<1>1. ASSUME JobsOn(h) # {} PROVE Works(h)
  BY <1>1, CurrentJobWorks DEF Works
<1>2. ASSUME Works(h) PROVE JobsOn(h) # {}
  BY <1>2 DEF Works, JobsOn, InList
<1>. QED BY <1>1, <1>2

LEMMA RemoveHostUsed ==
    ASSUME IInv, UseInv, NEW i \in DOMAIN hostinfo, removeHost(i), pc' \in {"idle", "stop"}
    PROVE  UseInv'
<1>1. /\ UNCHANGED <<jobinfos, failedjobs, late>> /\ TypeOK
      /\ hostinfo \in Seq(Hosts) /\ hostinfo' = RemoveAt(hostinfo, i)
  BY DEF removeHost, IInv, TypeOK
<1>2. PICK h \in Hosts : h = hostinfo[i]
  BY <1>1, ListedHost
<1>3. /\ \A g \in Hosts : Listed(g)' => Listed(g)
      /\ \A g \in Hosts : g # h /\ Listed(g) => Listed(g)'
      /\ Listed(h)
  <2>1. /\ \A k \in DOMAIN hostinfo' : \E m \in DOMAIN hostinfo :
               m # i /\ hostinfo'[k] = hostinfo[m]
        /\ \A m \in DOMAIN hostinfo : m # i =>
               \E k \in DOMAIN hostinfo' : hostinfo'[k] = hostinfo[m]
    BY <1>1, RemoveAtKeeps
  <2>. QED BY <2>1, <1>2 DEF Listed
<1>4. ListsKept
  BY <1>1, <1>3 DEF ListsKept
<1>5. FreshInv' /\ ListInv'
  BY <1>1, ListsKeptInv DEF UseInv, FreshInv
<1>6. CASE JobsOn(h) = {} /\ UNCHANGED <<job, host, resps>>
  <2>1. ~Works(h)
    BY <1>1, <1>6, JobsOnWorks
  <2>2. /\ \A k \in Jobs : InList(k)' <=> InList(k)
        /\ \A k \in Jobs : isAssigned(k)' <=> isAssigned(k)
        /\ \A k \in Jobs : Keeps(k) /\ LensKept(k)
    BY <1>1, <1>6 DEF InList, isAssigned, Keeps, LensKept
  <2>3. UsedInv'
    BY <1>1, <1>3, <1>6, <2>2, KeepsUsed DEF UseInv
  <2>4. ~host[h].inuse
    BY <2>1, <1>3 DEF UseInv, UsedInv
  <2>5. \A g \in Hosts : Listed(g) /\ host[g].inuse => Listed(g)' /\ host'[g].inuse
    BY <2>4, <1>3, <1>6
  <2>6. ~late' => AssignedInv' /\ HeardInv'
    BY <1>1, <2>2, <2>5, KeepsAssigned DEF UseInv
  <2>. QED BY <2>3, <2>6, <1>5 DEF UseInv
<1>7. ASSUME JobsOn(h) # {},
             failedJob(currentJob(h), "HostFailed", hostinfo',
                       removeJobDesc(resps, currentJob(h), h))
      PROVE  UseInv'
  <2>1. PICK j \in Jobs : j = currentJob(h) /\ isAssigned(j) /\ job[j].host = h
    BY <1>1, <1>7, CurrentJobWorks
  <2>2. Frees(j)
    BY <2>1, <1>1, <1>3, <1>7, FailedJobFrees DEF FailedStates
  <2>3. UsedInv'
    BY <2>2, <1>4, FreesUsed DEF UseInv
  <2>4. ~late' => AssignedInv' /\ HeardInv'
    BY <2>1, <2>2, <1>1, <1>4, FreesAssigned DEF UseInv
  <2>. QED BY <2>3, <2>4, <1>5 DEF UseInv
<1>. QED BY <1>2, <1>6, <1>7 DEF removeHost

LEMMA OtherUsed ==
    ASSUME IInv, UseInv,
           \/ stopAll \/ SetPause
           \/ \E i \in DOMAIN hostinfo : RemoveHost(i)
           \/ \E h \in Hosts : HostTimeOver(h)
           \/ \E a \in Attempts : Report(a) \/ AnswerLost(a) \/ Die(a)
           \/ UNCHANGED vars
    PROVE  UseInv'
<1>1. CASE stopAll
  <2>1. hostinfo \in Seq(Hosts) /\ hostinfo # <<>>
    BY <1>1 DEF IInv, TypeOK, stopAll
  <2>2. 1 \in DOMAIN hostinfo
    BY <2>1, EmptySeq, LenProperties
  <2>3. pc' \in {"idle", "stop"} /\ removeHost(1)
    BY <1>1 DEF stopAll, Goto
  <2>. QED BY <2>2, <2>3, RemoveHostUsed
<1>2. CASE \E i \in DOMAIN hostinfo : RemoveHost(i)
  <2>1. PICK i \in DOMAIN hostinfo : RemoveHost(i)
    BY <1>2
  <2>2. pc' = "idle" /\ removeHost(i)
    BY <2>1 DEF RemoveHost
  <2>. QED BY <2>2, RemoveHostUsed
<1>3. ASSUME UNCHANGED <<jobinfos, failedjobs, job, hostinfo, late, resps, pc, target>>,
             \A h \in Hosts : host'[h].inuse = host[h].inuse
      PROVE  UseInv'
  <2>1. UsedInv' /\ ListInv' /\ (~late' => AssignedInv' /\ HeardInv')
    BY <1>3, CalmKeeps DEF IInv
  <2>2. FreshInv'
    BY <1>3 DEF UseInv, FreshInv, IInv, TargetInv
  <2>. QED BY <2>1, <2>2 DEF UseInv
<1>4. CASE SetPause \/ UNCHANGED vars
  BY <1>4, <1>3 DEF SetPause, vars, runner, master
<1>5. CASE \E h \in Hosts : HostTimeOver(h)
  <2>1. PICK h \in Hosts : HostTimeOver(h)
    BY <1>5
  <2>2. \A g \in Hosts : host'[g].inuse = host[g].inuse
    BY <2>1 DEF HostTimeOver, IInv, TypeOK, HostNFailInfo
  <2>. QED BY <2>1, <2>2, <1>3 DEF HostTimeOver, runner, master
<1>6. CASE \E a \in Attempts : Report(a) \/ AnswerLost(a) \/ Die(a)
  BY <1>6, <1>3 DEF Report, AnswerLost, Say, Die, runner, master
<1>. QED BY <1>1, <1>2, <1>4, <1>5, <1>6

LEMMA UseInvInit == Init => UseInv
<1>. SUFFICES ASSUME Init PROVE UseInv
  OBVIOUS
<1>1. \A h : ~Listed(h)
  BY DEF Init, Listed
<1>2. \A j \in Jobs : ~isAssigned(j)
  BY DEF Init, isAssigned, AssignedStates
<1>3. \A j \in Jobs, h \in Hosts : Len(resps[<<j, h>>]) = 0
  BY DEF Init
<1>. QED BY <1>1, <1>2, <1>3
     DEF Init, UseInv, UsedInv, FreshInv, ListInv, AssignedInv, HeardInv

LEMMA UseInvStep == IInv /\ UseInv /\ [Next]_vars => UseInv'
<1>. SUFFICES ASSUME IInv, UseInv, [Next]_vars PROVE UseInv'
  OBVIOUS
<1>1. CASE handleStatusInfo
  BY <1>1, HandleStatusInfoUsed
<1>2. CASE \E i \in DOMAIN jobinfos : TimeOut(i)
  BY <1>2, TimeOutUsed
<1>3. CASE PutHostToWork \/ handleJobPausing
  BY <1>3, PutHostToWorkUsed, HandleJobPausingUsed
<1>4. CASE Assigning
  BY <1>4, NothingAssignedUsed, JobBadUsed, StartJobUsed, StartFailsUsed DEF Assigning
<1>5. CASE Calls
  BY <1>5, AddHostUsed, OtherUsed DEF Calls
<1>6. CASE Environment \/ UNCHANGED vars
  BY <1>6, OtherUsed DEF Environment
<1>. QED BY <1>1, <1>2, <1>3, <1>4, <1>5, <1>6 DEF Next

LEMMA UsedInductive == Spec => []UseInv
BY Inductive, UseInvInit, UseInvStep, PTL DEF Spec

\* A host that is marked as in use has a job, whatever late messages come: no host is lost
\* to the work because nobody released it.
THEOREM UsedHostHasJobCorrect == Spec => []UsedHostHasJob
<1>1. IInv /\ UseInv => UsedHostHasJob
  <2>. SUFFICES ASSUME IInv, UseInv, NEW i \in DOMAIN hostinfo, host[hostinfo[i]].inuse
                PROVE  JobsOn(hostinfo[i]) # {}
    BY DEF UsedHostHasJob
  <2>1. PICK h \in Hosts : h = hostinfo[i]
    BY ListedHost DEF IInv
  <2>2. Works(h)
    BY <2>1 DEF UseInv, UsedInv, Listed
  <2>. QED BY <2>1, <2>2, JobsOnWorks DEF IInv
<1>. QED BY <1>1, Inductive, UsedInductive, PTL

\* Unless a message came of a process that had been given up, no two assigned jobs have the
\* same host, and the host of an assigned job is marked.
THEOREM OneJobPerHostCorrect == Spec => []OneJobPerHost
<1>1. UseInv => OneJobPerHost
  BY DEF UseInv, AssignedInv, OneJobPerHost
<1>. QED BY <1>1, UsedInductive, PTL

\* With the same proviso, jobhostresps_ has one answer for a job that is assigned, on its
\* host, and none otherwise: a process that was given up will be told to stop.
THEOREM ListensToAssignedCorrect == Spec => []ListensToAssigned
<1>1. UseInv => ListensToAssigned
  BY DEF UseInv, HeardInv, ListensToAssigned
<1>. QED BY <1>1, UsedInductive, PTL

\* What happens to one job happens to no other.
LEMMA OneJobChanges ==
    ASSUME TypeOK, NEW k, NEW j \in Jobs, j # k,
           \/ \E reason, listed, list : failedJob(k, reason, listed, list)
           \/ handleExitStatus(k)
           \/ \E state : SetState(k, state)
           \/ \E info : job' = [job EXCEPT ![k] = info]
           \/ UNCHANGED job
    PROVE  job'[j] = job[j]
<1>0. job \in [Jobs -> JobInfo]
  BY DEF TypeOK
<1>1. CASE \E reason, listed, list : failedJob(k, reason, listed, list)
  <2>1. PICK reason, listed, list : failedJob(k, reason, listed, list)
    BY <1>1
  <2>2. CASE ~isAssigned(k)
    BY <2>1, <2>2 DEF failedJob
  <2>3. CASE isAssigned(k)
    <3>1. \E info : job' = [job EXCEPT ![k] = info]
      <4>. DEFINE nj == IF reason = "JobFailed" THEN job[k].jobfailures + 1
                        ELSE job[k].jobfailures
                  nh == IF reason = "HostFailed" THEN job[k].hstfailures + 1
                        ELSE job[k].hstfailures
                  info == [job[k] EXCEPT !.state = reason, !.jobfailures = nj,
                                         !.hstfailures = nh]
      <4>1. job' = [job EXCEPT ![k] = info]
        BY <2>1, <2>3, <1>0 DEF failedJob
      <4>. QED BY <4>1
    <3>. QED BY <3>1, <1>0
  <2>. QED BY <2>2, <2>3
<1>2. CASE handleExitStatus(k)
  BY <1>2, <1>0 DEF handleExitStatus
<1>3. CASE \E state : SetState(k, state)
  BY <1>3, <1>0 DEF SetState
<1>. QED BY <1>0, <1>1, <1>2, <1>3

\* A job that ended is not assigned, so a message about it would be a late one; it is not
\* listed or not startable, so nothing else touches it.
LEMMA EndedJobRests ==
    ASSUME IInv, UseInv, Next, ~late', NEW j \in Jobs,
           job[j].state = "Completed" \/ j \in failedjobs
    PROVE  job'[j].state = job[j].state
<1>0. TypeOK
  BY DEF IInv
<1>1. CASE handleStatusInfo
  <2>1. PICK k : k = Head(statusqueue).job
    OBVIOUS
  <2>2. isAssigned(k) /\ ~late
    BY <1>1, <2>1 DEF handleStatusInfo
  <2>3. j # k
    BY <2>2 DEF isAssigned, AssignedStates, UseInv, ListInv, AssignedInv
  <2>4. \/ \E reason, listed, list : failedJob(k, reason, listed, list)
        \/ handleExitStatus(k)
        \/ \E state : SetState(k, state)
        \/ \E info : job' = [job EXCEPT ![k] = info]
        \/ UNCHANGED job
    <3>. DEFINE m == Head(statusqueue)
    <3>1. CASE m.tag = "pid"
      <4>. DEFINE info == [job[k] EXCEPT !.state = "Working", !.pid = m.nr]
      <4>1. job' = [job EXCEPT ![k] = info]
        BY <1>1, <2>1, <3>1, <1>0 DEF handleStatusInfo, TypeOK
      <4>. QED BY <4>1
    <3>2. CASE m.tag \in {"working", "paused", "finished"}
      BY <1>1, <2>1, <3>2 DEF handleStatusInfo
    <3>3. CASE m.tag \notin {"pid", "working", "paused", "finished"}
      BY <1>1, <2>1, <3>3 DEF handleStatusInfo
    <3>. QED BY <3>1, <3>2, <3>3
  <2>5. job'[j] = job[j]
    BY <2>3, <2>4, <1>0, OneJobChanges
  <2>. QED BY <2>5
<1>2. ASSUME NEW k \in Jobs, isAssigned(k), InList(k),
             \/ \E reason, listed, list : failedJob(k, reason, listed, list)
             \/ handleExitStatus(k)
      PROVE  job'[j] = job[j]
  <2>1. j # k
    BY <1>2 DEF isAssigned, AssignedStates, UseInv, ListInv
  <2>. QED BY <2>1, <1>0, <1>2, OneJobChanges
<1>3. CASE \E i \in DOMAIN jobinfos : TimeOut(i)
  <2>1. PICK i \in DOMAIN jobinfos : TimeOut(i)
    BY <1>3
  <2>2. PICK k \in Jobs : k = jobinfos[i]
    BY <1>0, ListedJob
  <2>3. isAssigned(k) /\ InList(k)
    BY <2>1, <2>2 DEF TimeOut, InList
  <2>4. \/ \E reason, listed, list : failedJob(k, reason, listed, list)
        \/ handleExitStatus(k)
    BY <2>1, <2>2 DEF TimeOut
  <2>. QED BY <2>3, <2>4, <1>2
<1>4. ASSUME NEW i, StartJob(i) \/ StartFails(i)
      PROVE  job'[j] = job[j]
  <2>1. /\ i \in DOMAIN jobinfos
        /\ job[jobinfos[i]].state \in FailedStates \cup {"ToDo"}
    BY <1>4, TryIsStartable DEF StartJob, StartFails
  <2>2. j # jobinfos[i]
    BY <2>1 DEF UseInv, ListInv, InList, FailedStates
  <2>3. \E info : job' = [job EXCEPT ![jobinfos[i]] = info]
    BY <1>4 DEF StartJob, StartFails
  <2>. QED BY <2>2, <2>3, <1>0, OneJobChanges
<1>5. ASSUME NEW i \in DOMAIN hostinfo, removeHost(i)
      PROVE  job'[j] = job[j]
  <2>1. PICK h : h = hostinfo[i]
    OBVIOUS
  <2>2. CASE JobsOn(h) # {}
    <3>1. PICK k \in Jobs : k = currentJob(h) /\ isAssigned(k) /\ InList(k)
      BY <2>2, <1>0, CurrentJobWorks
    <3>2. UNCHANGED job \/ \E reason, listed, list : failedJob(k, reason, listed, list)
      BY <2>1, <3>1, <1>5 DEF removeHost
    <3>. QED BY <3>1, <3>2, <1>2
  <2>3. CASE JobsOn(h) = {}
    BY <2>1, <2>3, <1>5 DEF removeHost
  <2>. QED BY <2>2, <2>3
<1>6. CASE Assigning
  <2>1. CASE NothingAssigned \/ \E i \in DOMAIN jobinfos : JobBad(i)
    BY <2>1 DEF NothingAssigned, JobBad
  <2>. QED BY <2>1, <1>4, <1>6 DEF Assigning
<1>7. CASE Calls
  <2>1. CASE stopAll
    <3>1. hostinfo \in Seq(Hosts) /\ hostinfo # <<>>
      BY <2>1, <1>0 DEF TypeOK, stopAll
    <3>2. 1 \in DOMAIN hostinfo
      BY <3>1, EmptySeq, LenProperties
    <3>. QED BY <2>1, <3>2, <1>5 DEF stopAll
  <2>2. CASE \E i \in DOMAIN hostinfo : RemoveHost(i)
    BY <2>2, <1>5 DEF RemoveHost
  <2>3. CASE SetPause \/ \E h \in Hosts : addHost(h)
    BY <2>3 DEF SetPause, addHost
  <2>. QED BY <2>1, <2>2, <2>3, <1>7 DEF Calls
<1>8. CASE PutHostToWork \/ handleJobPausing \/ Environment
  BY <1>8 DEF PutHostToWork, handleJobPausing, Environment, HostTimeOver, Report, AnswerLost,
              Say, Die
<1>. QED BY <1>1, <1>3, <1>6, <1>7, <1>8 DEF Next

\* With the same proviso, a job that is completed or given up keeps its state.
THEOREM EndedStaysEndedCorrect == Spec => EndedStaysEnded
<1>1. /\ IInv /\ UseInv /\ [Next]_vars
      => [~late' => \A j \in Jobs : job[j].state = "Completed" \/ j \in failedjobs
                        => job'[j].state = job[j].state]_vars
  BY EndedJobRests
<1>. QED BY <1>1, Inductive, UsedInductive, PTL DEF Spec, EndedStaysEnded
=============================================================================
