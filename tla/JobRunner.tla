------------------------------ MODULE JobRunner -------------------------------
(***************************************************************************)
(* Distributed jobs: JobRunner gives the jobs of one batch to hosts, and   *)
(* JobIOHandler (jobiomgr.cc) talks to the processes that work on them.    *)
(*                                                                         *)
(* The master is one thread.  Its calls are doCycle, from a timer,         *)
(* addHost, removeHost and stopAll, from the user, and socketCB, when a    *)
(* message arrives; pc says where it is in one of the first.  A loop of    *)
(* the code over jobs or hosts is one action for each element that it does *)
(* something with.                                                         *)
(*                                                                         *)
(* Every start of a job makes a process.  It sends one message at a time   *)
(* and waits for the answer (JobCommunic::sendMsg); when the answer is     *)
(* lost it sends the message again.  A process may be silent for any time, *)
(* and may die.  Time is abstract: whether a time-out or startwaittime_    *)
(* has passed is open each time that the code asks; whether a host started *)
(* or succeeded within hosttimeout_ is a flag.                             *)
(***************************************************************************)
EXTENDS Integers, Sequences, FiniteSets, SequencesExt

CONSTANTS
    NrJobs,            \* descprov_->nrJobs()
    Hosts,
    None,              \* no host
    MaxJobFailures,    \* maxjobfailures_
    MaxJobHostFails,   \* maxjobhstfails_
    MaxHostFailures,   \* maxhostfailures_
    MaxQueue,          \* bound: messages that wait in statusqueue_
    MaxCalls,          \* bound: calls of addHost, removeHost and stopAll
    MaxStartFails,     \* bound: programs that cannot be started
    MaxDeaths,         \* bound: processes that die
    MaxLost,           \* bound: answers that are lost
    Chat,              \* bound: what a process says besides that it starts and ends
    Pausing            \* whether the user pauses the work

Jobs == 1 .. NrJobs

\* A start is possible while both counters are within their limits.
MaxStarts == MaxJobFailures + MaxJobHostFails + 1

Attempts == Jobs \X (1 .. MaxStarts)

ASSUME ConstantAssumption ==
    /\ None \notin Hosts
    /\ NrJobs \in Nat
    /\ MaxJobFailures \in Nat
    /\ MaxJobHostFails \in Nat
    /\ MaxHostFailures \in Nat
    /\ MaxQueue \in Nat
    /\ MaxCalls \in Nat
    /\ MaxStartFails \in Nat
    /\ MaxDeaths \in Nat
    /\ MaxLost \in Nat
    /\ Chat \subseteq {"working", "progress", "joberror", "hosterror"}
    /\ Pausing \in BOOLEAN

VARIABLES
    jobinfos,     \* jobinfos_, in order
    failedjobs,   \* failedjobs_
    job,          \* the JobInfo of every job, and how often it was started
    hostinfo,     \* hostinfo_, in order
    host,         \* the HostNFailInfo of every host
    resps,        \* jobhostresps_: the answers for each job on each host
    statusqueue,  \* statusqueue_
    proc,         \* the processes
    pc,           \* where the master is
    ijob,         \* in updateJobInfo and assignJob
    selectfailed, \* in assignJob
    target,       \* the host that assignJob is called for
    incycle,      \* and whether doCycle has called it, or addHost
    dopause,      \* uiMMBatchJobDispatcher::isPaused
    calls, startfails, deaths, lost,   \* counted for their bounds
    worked,       \* the jobs whose work a process has done
    late          \* a message has been handled of a process that had been given up

runner == <<jobinfos, failedjobs, hostinfo>>
master == <<pc, ijob, selectfailed, target, incycle>>
faults == <<calls, startfails, deaths, lost>>
vars == <<runner, job, host, resps, statusqueue, proc, master, dopause, faults, worked,
          late>>

AssignedStates == {"Scheduled", "Working", "WrappingUp", "Paused"}
FailedStates == {"JobFailed", "HostFailed"}
States == AssignedStates \cup FailedStates \cup {"ToDo", "Completed"}

Exits == {"done", "joberror", "hosterror"}
Tags == Exits \cup {"pid", "working", "progress", "paused", "finished"}

JobInfo == [state : States, host : Hosts \cup {None}, jobfailures : Nat,
            hstfailures : Nat, pid : Nat, starts : Nat]
HostNFailInfo == [nrfailures : Nat, inuse : BOOLEAN, ontime : BOOLEAN]
Responses == {"work", "pause"}
StatusInfo == [tag : Tags, job : Jobs, nr : 1 .. MaxStarts, host : Hosts]
Process == [at : {"none", "launched", "busy", "worked", "finished", "joberror",
                  "hosterror", "gone"},
            host : Hosts \cup {None}, pausereq : BOOLEAN]

\* HostNFailInfo::HostNFailInfo and the starttime_ that addHost sets.
NewHost == [nrfailures |-> 0, inuse |-> FALSE, ontime |-> TRUE]

Init ==
    /\ jobinfos = [j \in Jobs |-> j]
    /\ failedjobs = {}
    /\ job = [j \in Jobs |-> [state |-> "ToDo", host |-> None, jobfailures |-> 0,
                              hstfailures |-> 0, pid |-> 0, starts |-> 0]]
    /\ hostinfo = <<>>
    /\ host = [h \in Hosts |-> NewHost]
    /\ resps = [r \in Jobs \X Hosts |-> <<>>]
    /\ statusqueue = <<>>
    /\ proc = [a \in Attempts |-> [at |-> "none", host |-> None, pausereq |-> FALSE]]
    /\ pc = "idle"
    /\ ijob = 1
    /\ selectfailed = FALSE
    /\ target = None
    /\ incycle = FALSE
    /\ dopause = FALSE
    /\ calls = 0 /\ startfails = 0 /\ deaths = 0 /\ lost = 0
    /\ worked = {}
    /\ late = FALSE

-----------------------------------------------------------------------------
(***************************************************************************)
(* Queries                                                                 *)
(***************************************************************************)
First(S) == CHOOSE i \in S : \A k \in S : i <= k

isAssigned(j) == job[j].state \in AssignedStates

\* currentJob(h): the first of these in jobinfos_.
JobsOn(h) == {i \in DOMAIN jobinfos : job[jobinfos[i]].host = h /\ isAssigned(jobinfos[i])}
currentJob(h) == jobinfos[First(JobsOn(h))]

Listed(h) == \E i \in DOMAIN hostinfo : hostinfo[i] = h

\* hostStatus = HostFailed: too many failures, and neither the start of the host nor its
\* last success is recent.
hostFailed(h) == host[h].nrfailures > MaxHostFailures /\ ~host[h].ontime

haveIncomplete == \E i \in DOMAIN jobinfos : job[jobinfos[i]].state # "Completed"

\* removeJobDesc: the entry that getJHRFor finds, if any.
removeJobDesc(list, j, h) ==
    [r \in DOMAIN list |-> IF r = <<j, h>> /\ list[r] # <<>> THEN Tail(list[r]) ELSE list[r]]

-----------------------------------------------------------------------------
(***************************************************************************)
(* What happens to a job                                                   *)
(***************************************************************************)
\* Mistake: a failure counts only for a host that is still listed.
failedJobIfListed(j, reason, listed, list) ==
    LET h == job[j].host
        known == \E i \in DOMAIN listed : listed[i] = h
    IN  /\ resps' = removeJobDesc(list, j, h)
        /\ job' = IF ~isAssigned(j) THEN job
                  ELSE [job EXCEPT
                      ![j].state = reason,
                      ![j].jobfailures = IF reason = "JobFailed" THEN @ + 1 ELSE @,
                      ![j].hstfailures = IF reason = "HostFailed" /\ known THEN @ + 1 ELSE @]
        /\ host' = IF ~known THEN host
                   ELSE [host EXCEPT
                       ![h].inuse = FALSE,
                       ![h].nrfailures = IF isAssigned(j) /\ reason = "HostFailed"
                                         THEN @ + 1 ELSE @]

\* Mistake: the answer for the process is left in jobhostresps_.
failedJobStillHeard(j, reason, listed, list) ==
    LET h == job[j].host
        known == \E i \in DOMAIN listed : listed[i] = h
    IN  /\ UNCHANGED resps
        /\ job' = IF ~isAssigned(j) THEN job
                  ELSE [job EXCEPT
                      ![j].state = reason,
                      ![j].jobfailures = IF reason = "JobFailed" THEN @ + 1 ELSE @,
                      ![j].hstfailures = IF reason = "HostFailed" THEN @ + 1 ELSE @]
        /\ host' = IF ~known THEN host ELSE [host EXCEPT ![h].inuse = FALSE]

\* failedJob, with the hosts that are listed at the time, and the answers that are left.
\* A job that is not assigned only has its host released.
failedJob(j, reason, listed, list) ==
    LET h == job[j].host
        known == \E i \in DOMAIN listed : listed[i] = h
    IN  /\ resps' = removeJobDesc(list, j, h)
        /\ job' = IF ~isAssigned(j) THEN job
                  ELSE [job EXCEPT
                      ![j].state = reason,
                      ![j].jobfailures = IF reason = "JobFailed" THEN @ + 1 ELSE @,
                      ![j].hstfailures = IF reason = "HostFailed" THEN @ + 1 ELSE @]
        /\ host' = IF ~known THEN host
                   ELSE [host EXCEPT
                       ![h].inuse = FALSE,
                       ![h].nrfailures = IF isAssigned(j) /\ reason = "HostFailed"
                                         THEN @ + 1 ELSE @]

\* Mistake: the host is not released.
handleExitStatusOnly(j) ==
    LET h == job[j].host IN
    /\ job' = [job EXCEPT ![j].state = "Completed"]
    /\ host' = IF Listed(h) THEN [host EXCEPT ![h].ontime = TRUE] ELSE host

handleExitStatus(j) ==
    LET h == job[j].host IN
    /\ job' = [job EXCEPT ![j].state = "Completed"]
    /\ host' = IF Listed(h) THEN [host EXCEPT ![h].inuse = FALSE, ![h].ontime = TRUE]
               ELSE host

-----------------------------------------------------------------------------
(***************************************************************************)
(* doCycle, the first half: updateJobInfo                                  *)
(***************************************************************************)
Goto(next) == pc' = next

\* The timer calls doCycle when the master is idle.
InUpdate == pc \in {"idle", "update"}

SetState(j, state) ==
    /\ job' = [job EXCEPT ![j].state = state]
    /\ UNCHANGED <<host, resps>>

\* One message of statusqueue_, whichever process of the job sent it.
handleStatusInfo ==
    LET m == Head(statusqueue)
        j == m.job
    IN  /\ InUpdate /\ statusqueue # <<>>
        /\ Goto("update")
        /\ statusqueue' = Tail(statusqueue)
        /\ \/ /\ m.tag = "pid"
              /\ job' = [job EXCEPT ![j].state = "Working", ![j].pid = m.nr]
              /\ UNCHANGED <<host, resps>>
           \/ m.tag = "working" /\ SetState(j, "Working")
           \/ m.tag = "paused" /\ SetState(j, "Paused")
           \/ m.tag = "finished" /\ SetState(j, "WrappingUp")
           \/ /\ m.tag = "progress"
              /\ IF job[j].pid # 0 /\ job[j].pid # m.nr
                 THEN failedJob(j, "JobFailed", hostinfo, resps)
                 ELSE UNCHANGED <<job, host, resps>>
           \/ /\ m.tag = "done"
              /\ handleExitStatus(j)
              /\ resps' = removeJobDesc(resps, j, m.host)
           \/ /\ m.tag \in {"joberror", "hosterror"}
              /\ failedJob(j, IF m.tag = "joberror" THEN "JobFailed" ELSE "HostFailed",
                           hostinfo, removeJobDesc(resps, j, m.host))
        /\ late' = (late \/ ~isAssigned(j) \/ m.nr # job[j].starts)
        /\ UNCHANGED <<runner, proc, ijob, selectfailed, target, incycle, dopause, faults,
                       worked>>

\* Mistake: a job that works is taken for one that wraps up.
IsStarted(j) == job[j].state # "Scheduled"
IsWrappingUp(j) == job[j].state = "WrappingUp"

\* A job that the loop has not passed yet, and of which nothing was heard for
\* failtimeout_, or wrapuptimeout_.
TimeOut(i) ==
    LET j == jobinfos[i] IN
    /\ InUpdate /\ statusqueue = <<>>
    /\ Goto("update")
    /\ i \in DOMAIN jobinfos /\ i >= ijob /\ isAssigned(j)
    /\ ijob' = i + 1
    /\ \/ IsWrappingUp(j) /\ handleExitStatus(j) /\ UNCHANGED resps
       \/ /\ ~IsWrappingUp(j)
          /\ failedJob(j, "HostFailed", hostinfo, removeJobDesc(resps, j, job[j].host))
    /\ UNCHANGED <<runner, statusqueue, proc, selectfailed, target, incycle, dopause, faults,
                   worked, late>>

-----------------------------------------------------------------------------
(***************************************************************************)
(* doCycle, the second half: idle hosts are put to work                    *)
(***************************************************************************)
\* assignJob is entered when startwaittime_ has passed since it was last entered, whether
\* it then found a job or not.
assignJob(h, cycle) ==
    /\ Goto("assign")
    /\ target' = h /\ incycle' = cycle
    /\ ijob' = 1
    /\ UNCHANGED selectfailed

\* The hosts without a current job for which doCycle calls assignJob, and it does not
\* return at once.  The first one takes the turn: no time passes before the next.
IdleHosts ==
    {i \in DOMAIN hostinfo :
        /\ ~hostFailed(hostinfo[i])
        /\ JobsOn(hostinfo[i]) = {}
        /\ ~host[hostinfo[i]].inuse}

PutHostToWork ==
    /\ InUpdate /\ statusqueue = <<>>
    /\ haveIncomplete
    /\ \E i \in IdleHosts :
          /\ \A k \in IdleHosts : i <= k
          /\ assignJob(hostinfo[i], TRUE)
    /\ UNCHANGED <<runner, job, host, resps, statusqueue, proc, dopause, faults, worked, late>>

\* Mistake: every job that is not assigned is tried again.
StartableUnlessAssigned(failed, from) ==
    {i \in DOMAIN jobinfos :
        LET j == jobinfos[i] IN
        /\ i >= from
        /\ \/ job[j].state = "ToDo"
           \/ /\ ~isAssigned(j)
              /\ failed
              /\ ~(job[j].host = target /\ Len(hostinfo) > 1)}

\* The jobs that a pass of assignJob may start on the host: new ones, and in the second
\* pass failed ones, but not on the host they last ran on if there are others.
Startable(failed, from) ==
    {i \in DOMAIN jobinfos :
        LET j == jobinfos[i] IN
        /\ i >= from
        /\ \/ job[j].state = "ToDo"
           \/ /\ job[j].state \in FailedStates
              /\ failed
              /\ ~(job[j].host = target /\ Len(hostinfo) > 1)}

\* What is left of the first pass, or else of the second.
InPass == Startable(selectfailed, ijob) # {}
Candidates == IF InPass \/ selectfailed THEN Startable(selectfailed, ijob)
              ELSE Startable(TRUE, 1)

TooManyFailures(j) ==
    job[j].jobfailures > MaxJobFailures \/ job[j].hstfailures > MaxJobHostFails

\* startJob does not return HostBad: the loop of assignJob is at the first candidate.
Try(i) ==
    /\ pc = "assign" /\ ~hostFailed(target)
    /\ i \in Candidates /\ \A k \in Candidates : i <= k

\* The loop goes on with the index that follows.
NextJob(i) ==
    /\ ijob' = i + 1
    /\ selectfailed' = (selectfailed \/ ~InPass)
    /\ UNCHANGED <<pc, target, incycle, hostinfo>>

\* assignJob returns, and addHost keeps a host that is new.
Assigned ==
    /\ Goto(IF incycle THEN "assigned" ELSE "idle")
    /\ hostinfo' = IF Listed(target) THEN hostinfo ELSE Append(hostinfo, target)
    /\ target' = None /\ incycle' = FALSE
    /\ ijob' = 1 /\ selectfailed' = FALSE

\* NoJobs, or BadHost after a start that failed.
NothingAssigned ==
    /\ pc = "assign" /\ (Candidates = {} \/ hostFailed(target))
    /\ Assigned
    /\ UNCHANGED <<jobinfos, failedjobs, job, host, resps, statusqueue, proc, dopause, faults,
                   worked, late>>

\* startJob, JobBad: the job is taken out of jobinfos_ and the loop goes on with the
\* index after it, that is with the job after the next.
JobBad(i) ==
    /\ Try(i) /\ TooManyFailures(jobinfos[i])
    /\ jobinfos' = RemoveAt(jobinfos, i)
    /\ failedjobs' = failedjobs \cup {jobinfos[i]}
    /\ NextJob(i)
    /\ UNCHANGED <<job, host, resps, statusqueue, proc, dopause, faults, worked, late>>

Scheduled(j, n) ==
    [job[j] EXCEPT !.state = "Scheduled", !.host = target, !.pid = 0, !.starts = n]
addJobDesc(j) == [resps EXCEPT ![<<j, target>>] = Append(@, "work")]

\* startJob, Started.
StartJob(i) ==
    LET j == jobinfos[i]
        n == job[j].starts + 1
    IN  /\ Try(i) /\ ~TooManyFailures(j)
        /\ job' = [job EXCEPT ![j] = Scheduled(j, n)]
        /\ host' = [host EXCEPT ![target].inuse = TRUE]
        /\ resps' = addJobDesc(j)
        /\ proc' = [proc EXCEPT ![<<j, n>>] =
                       [at |-> "launched", host |-> target, pausereq |-> FALSE]]
        /\ Assigned
        /\ UNCHANGED <<jobinfos, failedjobs, statusqueue, dopause, faults, worked, late>>

\* startJob, NotStarted: startProg fails, and failedJob is called as for an assigned job.
StartFails(i) ==
    LET j == jobinfos[i]
        failed == [Scheduled(j, job[j].starts) EXCEPT !.state = "HostFailed",
                                                      !.hstfailures = @ + 1]
    IN  /\ Try(i) /\ ~TooManyFailures(j)
        /\ startfails < MaxStartFails /\ startfails' = startfails + 1
        /\ job' = [job EXCEPT ![j] = failed]
        /\ host' = IF Listed(target) THEN [host EXCEPT ![target].nrfailures = @ + 1] ELSE host
        /\ resps' = removeJobDesc(removeJobDesc(addJobDesc(j), j, target), j, target)
        /\ NextJob(i)
        /\ UNCHANGED <<jobinfos, failedjobs, statusqueue, proc, dopause, calls, deaths, lost,
                       worked, late>>

\* Mistake: a job is told to pause but not to go on.
ToldToPause(j, h) ==
    /\ Listed(h) /\ JobsOn(h) # {} /\ currentJob(h) = j
    /\ dopause /\ job[j].state # "Paused"
    /\ resps[<<j, h>>] # <<>>

\* handleJobPausing: after every cycle the current jobs are told to pause or to work.
Told(j, h) ==
    /\ Listed(h) /\ JobsOn(h) # {} /\ currentJob(h) = j
    /\ dopause = (job[j].state # "Paused")
    /\ resps[<<j, h>>] # <<>>
handleJobPausing ==
    /\ (InUpdate /\ statusqueue = <<>>) \/ pc = "assigned"
    /\ Goto("idle")
    /\ ijob' = 1
    /\ resps' = [r \in DOMAIN resps |->
           IF Told(r[1], r[2])
           THEN [resps[r] EXCEPT ![1] = IF dopause THEN "pause" ELSE "work"]
           ELSE resps[r]]
    /\ UNCHANGED <<runner, job, host, statusqueue, proc, selectfailed, target, incycle,
                   dopause, faults, worked, late>>

-----------------------------------------------------------------------------
(***************************************************************************)
(* What the user does                                                      *)
(***************************************************************************)
Call == calls < MaxCalls /\ calls' = calls + 1 /\ UNCHANGED <<startfails, deaths, lost>>

\* addHost: a host that is not in use gets a job at once, if assignJob is ready.
addHost(h) ==
    /\ pc = "idle" /\ Call
    /\ ~Listed(h) \/ ~host[h].inuse
    /\ host' = [host EXCEPT ![h] = IF ~Listed(h) THEN NewHost
                                   ELSE [@ EXCEPT !.nrfailures = 0, !.ontime = TRUE]]
    /\ \/ assignJob(h, FALSE) /\ UNCHANGED hostinfo
       \/ /\ hostinfo' = IF Listed(h) THEN hostinfo ELSE Append(hostinfo, h)
          /\ UNCHANGED master
    /\ UNCHANGED <<jobinfos, failedjobs, job, resps, statusqueue, proc, dopause, worked, late>>

\* Mistake: the job that works on the host is not failed.
removeHostOnly(i) ==
    /\ hostinfo' = RemoveAt(hostinfo, i)
    /\ UNCHANGED <<jobinfos, failedjobs, job, host, resps, statusqueue, proc, ijob,
                   selectfailed, target, incycle, dopause, worked, late>>

\* removeHost: the job fails, and its process will be told to stop.
removeHost(i) ==
    LET h == hostinfo[i]
        j == currentJob(h)
    IN  /\ hostinfo' = RemoveAt(hostinfo, i)
        /\ \/ JobsOn(h) = {} /\ UNCHANGED <<job, host, resps>>
           \/ /\ JobsOn(h) # {}
              /\ failedJob(j, "HostFailed", hostinfo', removeJobDesc(resps, j, h))
        /\ UNCHANGED <<jobinfos, failedjobs, statusqueue, proc, ijob, selectfailed, target,
                       incycle, dopause, worked, late>>

RemoveHost(i) == pc = "idle" /\ Call /\ removeHost(i) /\ UNCHANGED pc

\* stopAll removes the first host until none is left.
stopAll ==
    /\ hostinfo # <<>>
    /\ (pc = "idle" /\ Call) \/ (pc = "stop" /\ UNCHANGED faults)
    /\ removeHost(1)
    /\ Goto(IF Len(hostinfo) = 1 THEN "idle" ELSE "stop")

SetPause ==
    /\ Pausing /\ pc = "idle"
    /\ dopause' = ~dopause
    /\ UNCHANGED <<runner, job, host, resps, statusqueue, proc, master, faults, worked, late>>

-----------------------------------------------------------------------------
(***************************************************************************)
(* Hosts and processes, between two calls of the master                    *)
(***************************************************************************)
\* hosttimeout_ has passed since the start and the last success of the host.
HostTimeOver(h) ==
    /\ pc = "idle" /\ host[h].ontime /\ host[h].nrfailures > MaxHostFailures
    /\ host' = [host EXCEPT ![h].ontime = FALSE]
    /\ UNCHANGED <<runner, job, resps, statusqueue, proc, master, dopause, faults, worked, late>>

Alive(a) == proc[a].at \notin {"none", "gone"}

\* What a process may say: a paused one does not work; one that got no answer says the
\* same again.
MessagesOf(a) ==
    CASE proc[a].at = "launched"  -> {"pid"}
      [] proc[a].at = "busy"      -> IF proc[a].pausereq THEN {"paused"}
                                     ELSE Chat \cup {"finished"}
      [] proc[a].at = "worked"    -> {"finished"}
      [] proc[a].at = "finished"  -> {"done"}
      [] OTHER                    -> {proc[a].at}

\* Where it is when it has been answered, and when it has not.
Answered(tag) ==
    CASE tag \in {"pid", "working", "progress", "paused"} -> "busy"
      [] tag = "finished" -> "finished"
      [] OTHER -> "gone"
Unanswered(tag) ==
    CASE tag = "pid" -> "launched"
      [] tag \in {"working", "progress", "paused"} -> "busy"
      [] tag = "finished" -> "worked"
      [] tag = "done" -> "finished"
      [] OTHER -> tag

Gone == [at |-> "gone", host |-> None, pausereq |-> FALSE]

\* socketCB, and sendMsg at the other end: the message is put in statusqueue_ unless the
\* answer is to stop.
Say(a, tag, answered) ==
    LET answer == resps[<<a[1], proc[a].host>>]
    IN  /\ pc = "idle" /\ Alive(a) /\ tag \in MessagesOf(a)
        /\ Len(statusqueue) < MaxQueue
        /\ statusqueue' = IF answer = <<>> THEN statusqueue
               ELSE Append(statusqueue, [tag |-> tag, job |-> a[1], nr |-> a[2],
                                         host |-> proc[a].host])
        /\ worked' = IF tag = "finished" THEN worked \cup {a[1]} ELSE worked
        /\ proc' = [proc EXCEPT ![a] =
               IF ~answered THEN [@ EXCEPT !.at = Unanswered(tag)]
               ELSE IF answer = <<>> \/ Answered(tag) = "gone" THEN Gone
               ELSE [@ EXCEPT !.at = Answered(tag),
                              !.pausereq = (Head(answer) = "pause")]]
        /\ UNCHANGED <<runner, job, host, resps, master, dopause, calls, startfails, deaths,
                       late>>

Report(a) == \E tag \in MessagesOf(a) : Say(a, tag, TRUE) /\ UNCHANGED lost

AnswerLost(a) ==
    /\ lost < MaxLost /\ lost' = lost + 1
    /\ \E tag \in MessagesOf(a) : Say(a, tag, FALSE)

Die(a) ==
    /\ pc = "idle" /\ Alive(a)
    /\ deaths < MaxDeaths /\ deaths' = deaths + 1
    /\ proc' = [proc EXCEPT ![a] = Gone]
    /\ UNCHANGED <<runner, job, host, resps, statusqueue, master, dopause, calls, startfails,
                   lost, worked, late>>

-----------------------------------------------------------------------------
Assigning ==
    \/ NothingAssigned
    \/ \E i \in DOMAIN jobinfos : JobBad(i) \/ StartJob(i) \/ StartFails(i)
Calls ==
    \/ \E h \in Hosts : addHost(h)
    \/ \E i \in DOMAIN hostinfo : RemoveHost(i)
    \/ stopAll \/ SetPause
Environment ==
    \/ \E h \in Hosts : HostTimeOver(h)
    \/ \E a \in Attempts : Report(a) \/ AnswerLost(a) \/ Die(a)

Next ==
    \/ handleStatusInfo
    \/ \E i \in DOMAIN jobinfos : TimeOut(i)
    \/ PutHostToWork \/ Assigning \/ handleJobPausing
    \/ Calls \/ Environment

Spec == Init /\ [][Next]_vars

\* A job whose process is gone is silent for longer than its time-out.
Silence(j) ==
    /\ job[j].starts > 0 /\ ~Alive(<<j, job[j].starts>>)
    /\ \E i \in DOMAIN jobinfos : jobinfos[i] = j /\ TimeOut(i)

\* The timer runs, the master goes on, and startwaittime_ passes; a process that lives
\* reports, and does not chat for ever.
Fairness ==
    /\ WF_vars(handleStatusInfo) /\ WF_vars(Assigning) /\ WF_vars(pc = "stop" /\ stopAll)
    /\ SF_vars(handleJobPausing) /\ SF_vars(PutHostToWork)
    /\ \A j \in Jobs : SF_vars(Silence(j))
    /\ \A a \in Attempts :
           /\ SF_vars(Report(a))
           /\ SF_vars(Report(a) /\ proc'[a].at # proc[a].at)
FairSpec == Spec /\ Fairness

-----------------------------------------------------------------------------
TypeOK ==
    /\ jobinfos \in Seq(Jobs)
    /\ failedjobs \subseteq Jobs
    /\ job \in [Jobs -> JobInfo]
    /\ hostinfo \in Seq(Hosts)
    /\ host \in [Hosts -> HostNFailInfo]
    /\ resps \in [Jobs \X Hosts -> Seq(Responses)]
    /\ statusqueue \in Seq(StatusInfo)
    /\ proc \in [Attempts -> Process]
    /\ pc \in {"idle", "update", "assign", "assigned", "stop"}
    /\ ijob \in Nat
    /\ selectfailed \in BOOLEAN
    /\ target \in Hosts \cup {None}
    /\ incycle \in BOOLEAN
    /\ dopause \in BOOLEAN
    /\ calls \in Nat /\ startfails \in Nat /\ deaths \in Nat /\ lost \in Nat
    /\ worked \subseteq Jobs
    /\ late \in BOOLEAN

\* failedJob, startJob: a job is started again only after a failure that was counted, so
\* the limits bound the starts, whatever late message changes the state of the job.
RetriesAreBounded ==
    \A j \in Jobs :
        job[j].starts <= job[j].jobfailures + job[j].hstfailures + 1

\* handleStatusInfo, handleExitStatus: no job counts as completed of which no process has
\* done the work, also if it is a time-out that completes it.
CompletedIsDone ==
    \A j \in Jobs :
        job[j].state = "Completed" => j \in worked

\* failedJob, handleExitStatus: a host that is marked as in use has a job; otherwise it
\* would never get one again.
UsedHostHasJob ==
    \A i \in DOMAIN hostinfo : host[hostinfo[i]].inuse => JobsOn(hostinfo[i]) # {}

\* updateJobInfo, assignJob: unless a message came of a process that had been given up, a
\* host works on one job, and is marked.
OneJobPerHost ==
    ~late =>
        \A j, k \in Jobs :
            /\ isAssigned(j) /\ Listed(job[j].host) => host[job[j].host].inuse
            /\ isAssigned(j) /\ isAssigned(k) /\ j # k => job[j].host # job[k].host

\* jobhostresps_: with the same proviso, the master listens to exactly the processes whose
\* job is assigned to their host (a time-out that completes a job leaves the entry of that
\* job behind, and the job never starts again).
ListensToAssigned ==
    ~late =>
        \A j \in Jobs, h \in Hosts : job[j].state # "Completed" =>
            Len(resps[<<j, h>>]) = IF isAssigned(j) /\ job[j].host = h THEN 1 ELSE 0

\* handleStatusInfo: with the same proviso, a job that is completed or given up stays so.
EndedStaysEnded ==
    [][~late' =>
          \A j \in Jobs : job[j].state = "Completed" \/ j \in failedjobs
              => job'[j].state = job[j].state]_vars

\* updateJobInfo, handleJobPausing: with the same proviso, a job does not stay assigned for
\* ever, unless the user pauses the work for good.
AssignedEnds ==
    (<>[]~dopause /\ []~late) => \A j \in Jobs : isAssigned(j) ~> ~isAssigned(j)
=============================================================================
