-------------------------- MODULE AutomaticDispatch --------------------------
(***************************************************************************)
(* The page of automatic dispatch (frontend, AutomaticDispatchPage.tsx):   *)
(* what it shows of the optimization jobs of a branch, what it keeps in    *)
(* localStorage, and the calls whose answers come in any order.            *)
(*                                                                         *)
(* A handler runs to its next await in one step; the state it sets is      *)
(* rendered, and the effects whose dependencies have changed run, before   *)
(* anything else happens.  An answer that the page would ignore, because   *)
(* its effect was cleaned up or its restore is not the latest one, is      *)
(* taken out of `calls' when that is decided.                              *)
(***************************************************************************)
EXTENDS Naturals, FiniteSets

CONSTANTS
  Branches, Jobs,
  BranchOf,     \* the branch that each job will be started for
  NoJob,
  MaxActions,   \* bounds of this model: what the user does,
  MaxReloads,   \*   how often the socket makes the page read the job again,
  MaxFailures   \*   and how many calls fail

ASSUME BranchOfAssumption == BranchOf \in [Jobs -> Branches] /\ NoJob \notin Jobs
ASSUME BoundsAssumption == MaxActions \in Nat /\ MaxReloads \in Nat /\ MaxFailures \in Nat

VARIABLES
  status,     \* of the jobs, at the backend
  page,       \* the state of the React component
  stored,     \* localStorage: the job of each branch, and whether it was applied
  calls,      \* what the page waits for, poll timers included
  actions, reloads, failures

budget   == <<actions, reloads, failures>>
pageVars == <<status, page, stored, calls, budget>>

-----------------------------------------------------------------------------

(* "active" stands for the four statuses that the page polls, "ready" for   *)
(* SUCCEEDED and PARTIAL, "failed" for the other final ones.                *)
Status == {"none", "active", "ready", "applied", "failed"}

JobsOf(b) == {j \in Jobs : BranchOf[j] = b}

Shown  == [job: Jobs \cup {NoJob}, status: Status]
Page   == [branch: Branches, shown: Shown, applied: BOOLEAN, starting: BOOLEAN, applying: BOOLEAN]
Stored == [job: Jobs \cup {NoJob}, applied: BOOLEAN]

(* `seen' is what the backend has answered, once it has; `gone', that the   *)
(* page that waits is no longer open: its answers reach localStorage only.  *)
Call == [kind: {"restore", "poll", "reload", "start", "apply"}, job: Jobs \cup {NoJob},
         branch: Branches, applied: BOOLEAN, seen: Status \cup {"waiting"}, gone: BOOLEAN]

Nothing      == [job |-> NoJob, status |-> "none"]
NothingSaved == [job |-> NoJob, applied |-> FALSE]

NewCall(kind, j, b) ==
  [kind |-> kind, job |-> j, branch |-> b, applied |-> FALSE, seen |-> "waiting", gone |-> FALSE]

(* What is kept for a branch is a job of that branch: it is saved under the *)
(* branch it was started for, wherever the user is when the answer comes.   *)
PageTypeOK ==
  /\ status \in [Jobs -> Status]
  /\ page \in Page
  /\ stored \in [Branches -> Stored]
  /\ \A b \in Branches : stored[b].job \in JobsOf(b) \cup {NoJob}
  /\ calls \subseteq Call
  /\ actions \in 0 .. MaxActions /\ reloads \in 0 .. MaxReloads /\ failures \in 0 .. MaxFailures

-----------------------------------------------------------------------------
(* Rendering.                                                               *)

IsOwn(p)    == p.shown.job # NoJob /\ BranchOf[p.shown.job] = p.branch
IsActive(p) == p.shown.status = "active"

PolledJob(p) == <<p.shown.job, p.branch>>  \* mutant: the status is no dependency
Polled(p)    == <<p.shown.job, p.shown.status, p.branch>>

(* The page goes to q, waiting for cs.  A poll belongs to what it polls, a  *)
(* reload to the job and the branch; the poll effect decides on `starting', *)
(* but not while nothing, or a job of another branch, is shown.             *)
Render(q, cs) ==
  LET repoll  == Polled(q) # Polled(page)
      rejoin  == q.shown.job # page.shown.job \/ q.branch # page.branch
      cleaned == {c \in cs : (repoll /\ c.kind = "poll") \/ (rejoin /\ c.kind = "reload")}
      polls   == repoll /\ IsOwn(q) /\ IsActive(q)
  IN /\ page' = [q EXCEPT !.starting = IF repoll /\ IsOwn(q) THEN IsActive(q) ELSE @]
     /\ calls' = (cs \ cleaned)
                   \cup {c \in {NewCall("poll", q.shown.job, q.branch)} : polls}

(* restoreRequestIdRef: a new request, a clear and a change of the branch   *)
(* make the answers of earlier ones void.                                   *)
AllRestores   == {}  \* mutant: the request id is not compared
VoidRestores  == {c \in calls : c.kind = "restore" /\ ~ c.gone}

Restores(b) ==
  {[NewCall("restore", stored[b].job, b) EXCEPT !.applied = stored[b].applied] :
     x \in {y \in {b} : stored[y].job # NoJob}}

Opened(b) ==
  [branch |-> b, shown |-> Nothing, applied |-> FALSE, starting |-> FALSE, applying |-> FALSE]

PageInit ==
  /\ status = [j \in Jobs |-> "none"]
  /\ stored = [b \in Branches |-> NothingSaved]
  /\ calls = {} /\ actions = 0 /\ reloads = 0 /\ failures = 0
  /\ \E b \in Branches : page = Opened(b)

-----------------------------------------------------------------------------
(* The user.                                                                *)

Act  == actions < MaxActions /\ actions' = actions + 1 /\ UNCHANGED <<reloads, failures>>
Busy == page.starting \/ page.applying

ChangeBranch(b) ==
  /\ b # page.branch /\ ~ Busy /\ Act
  /\ Render([page EXCEPT !.branch = b, !.shown = Nothing, !.applied = FALSE],
            (calls \ VoidRestores) \cup Restores(b))
  /\ UNCHANGED <<status, stored>>

(* The page is opened anew: by loading the application, which drops what it *)
(* waits for, or by coming back from another page, which does not drop what *)
(* no effect cleans up.                                                     *)
Outlasting == {[c EXCEPT !.gone = TRUE] : c \in {d \in calls : d.kind \in {"restore", "start", "apply"}}}

Mount(b) ==
  /\ Act
  /\ page' = Opened(b)
  /\ \E kept \in {{}, Outlasting} : calls' = kept \cup Restores(b)
  /\ UNCHANGED <<status, stored>>

StartOptimization ==
  /\ ~ Busy /\ Act
  /\ Render([page EXCEPT !.starting = TRUE, !.applied = FALSE],
            calls \cup {NewCall("start", NoJob, page.branch)})
  /\ UNCHANGED <<status, stored>>

ApplyOptimization ==
  /\ IsOwn(page) /\ page.shown.status = "ready" /\ ~ page.applied /\ ~ Busy /\ Act
  /\ Render([page EXCEPT !.applying = TRUE],
            calls \cup {NewCall("apply", page.shown.job, page.branch)})
  /\ UNCHANGED <<status, stored>>

(* The buttons that clear are there while a job runs, too.                  *)
ClearOptimization ==
  /\ page.applied \/ IsOwn(page)
  /\ ~ page.applying /\ Act
  /\ stored' = [b \in Branches |->
                  IF b = page.branch \/ page.shown.job \in JobsOf(b) THEN NothingSaved
                  ELSE stored[b]]
  /\ Render([page EXCEPT !.shown = Nothing, !.applied = FALSE], calls \ VoidRestores)
  /\ UNCHANGED status

(* The socket connects, or tells of the job.                                *)
Reload ==
  /\ page.shown.job # NoJob
  /\ reloads < MaxReloads /\ reloads' = reloads + 1
  /\ calls' = calls \cup {NewCall("reload", page.shown.job, page.branch)}
  /\ UNCHANGED <<status, page, stored, actions, failures>>

-----------------------------------------------------------------------------
(* The backend.                                                             *)

(* A job that was cancelled fails, unless it was finished before.           *)
Settle(j) ==
  /\ status[j] = "active"
  /\ \E s \in {"ready", "failed"} : status' = [status EXCEPT ![j] = s]
  /\ UNCHANGED <<page, stored, calls, budget>>

Answered(c, d) == calls' = (calls \ {c}) \cup {d} /\ UNCHANGED <<page, stored, budget>>

AnswerRead(c) ==
  /\ c.kind \in {"restore", "poll", "reload"} /\ c.seen = "waiting"
  /\ Answered(c, [c EXCEPT !.seen = status[c.job]])
  /\ UNCHANGED status

AnswerStart(c) ==
  /\ c.kind = "start" /\ c.seen = "waiting"
  /\ \E j \in JobsOf(c.branch) :
       /\ status[j] = "none"
       /\ status' = [status EXCEPT ![j] = "active"]
       /\ Answered(c, [c EXCEPT !.job = j, !.seen = "active"])

AnswerApply(c) ==
  /\ c.kind = "apply" /\ c.seen = "waiting" /\ status[c.job] = "ready"
  /\ status' = [status EXCEPT ![c.job] = "applied"]
  /\ Answered(c, [c EXCEPT !.seen = "applied"])

-----------------------------------------------------------------------------
(* The answers.                                                             *)

Comes(c, kind) == c.kind = kind /\ c.seen # "waiting" /\ UNCHANGED <<status, budget>>
Snapshot(c)    == [job |-> c.job, status |-> c.seen]

OfBranch(c)  == BranchOf[c.job] = c.branch

Here(c, q, cs) == IF c.gone THEN page' = page /\ calls' = cs ELSE Render(q, cs)

(* A stored job of another branch would be forgotten; PageTypeOK says that      *)
(* there is none.                                                           *)
Restored(c) ==
  /\ Comes(c, "restore")
  /\ Here(c, [page EXCEPT !.shown = Snapshot(c), !.applied = c.applied], calls \ {c})
  /\ UNCHANGED stored

PollAnswered(c) ==
  /\ Comes(c, "poll")
  /\ LET q == [page EXCEPT !.shown = Snapshot(c)] IN
     IF IsActive(q) THEN Render(q, (calls \ {c}) \cup {[c EXCEPT !.seen = "waiting"]})
     ELSE Render([q EXCEPT !.starting = FALSE], calls \ {c})
  /\ UNCHANGED stored

(* The effect lives on while a job of another branch is shown, if one is,   *)
(* but then it leaves what it reads aside.                                  *)
Reloaded(c) ==
  /\ Comes(c, "reload")
  /\ Render(IF OfBranch(c) THEN [page EXCEPT !.shown = Snapshot(c)] ELSE page, calls \ {c})
  /\ UNCHANGED stored

HereNow(c)   == page.branch  \* mutant: saved where the user is now
AskedFrom(c) == c.branch

Started(c) ==
  /\ Comes(c, "start")
  /\ stored' = [stored EXCEPT ![AskedFrom(c)] = [job |-> c.job, applied |-> FALSE]]
  /\ Here(c, [page EXCEPT !.shown = Snapshot(c), !.starting = FALSE], calls \ {c})

Applied(c) ==
  /\ Comes(c, "apply")
  /\ stored' = [stored EXCEPT ![AskedFrom(c)] = [job |-> c.job, applied |-> TRUE]]
  /\ Here(c, [page EXCEPT !.applied = TRUE, !.applying = FALSE], calls \ {c})

(* A call fails, at the backend or on its way.  A failed restore forgets    *)
(* the stored job; a failed poll is sent again.                             *)
Fails(c, kind) ==
  /\ c.kind = kind
  /\ failures < MaxFailures /\ failures' = failures + 1
  /\ UNCHANGED <<status, actions, reloads>>

RestoreFails(c) ==
  /\ Fails(c, "restore")
  /\ stored' = [stored EXCEPT ![c.branch] = NothingSaved]
  /\ Here(c, [page EXCEPT !.shown = Nothing, !.applied = FALSE], calls \ {c})

PollFails(c) ==
  /\ Fails(c, "poll")
  /\ Render(page, (calls \ {c}) \cup {[c EXCEPT !.seen = "waiting"]})
  /\ UNCHANGED stored

ReloadFails(c) == Fails(c, "reload") /\ Render(page, calls \ {c}) /\ UNCHANGED stored

StartFails(c) ==
  /\ Fails(c, "start")
  /\ Here(c, [page EXCEPT !.starting = FALSE], calls \ {c})
  /\ UNCHANGED stored

ApplyFails(c) ==
  /\ Fails(c, "apply")
  /\ Here(c, [page EXCEPT !.applying = FALSE], calls \ {c})
  /\ UNCHANGED stored

PageNext ==
  \/ \E b \in Branches : ChangeBranch(b) \/ Mount(b)
  \/ StartOptimization \/ ApplyOptimization \/ ClearOptimization \/ Reload
  \/ \E j \in Jobs : Settle(j)
  \/ \E c \in calls :
       \/ AnswerRead(c) \/ AnswerStart(c) \/ AnswerApply(c)
       \/ Restored(c) \/ PollAnswered(c) \/ Reloaded(c) \/ Started(c) \/ Applied(c)
       \/ RestoreFails(c) \/ PollFails(c) \/ ReloadFails(c) \/ StartFails(c) \/ ApplyFails(c)

(* The backend settles its jobs, and polls are sent and answered; nothing   *)
(* is assumed of the user, the socket and the other calls.                  *)
Fairness ==
  /\ \A j \in Jobs : WF_pageVars(Settle(j))
  /\ WF_pageVars(\E c \in calls : c.kind = "poll" /\ AnswerRead(c))
  /\ WF_pageVars(\E c \in calls : PollAnswered(c))

PageSpec == PageInit /\ [][PageNext]_pageVars /\ Fairness

-----------------------------------------------------------------------------
(* Properties.                                                              *)

(* However late its answers come, no read of a job, neither a restore nor a *)
(* poll nor a reload, brings a job of another branch onto the page.  Only a *)
(* start can, whose answer the page takes wherever the user has gone.       *)
ReadsShowOwnBranch ==
  [][page'.shown # page.shown /\ page'.shown.job # NoJob
       => IsOwn(page') \/ \E c \in calls : c.kind = "start" /\ c \notin calls']_pageVars

(* A job that is shown as running is shown as settled in the end, although  *)
(* old snapshots may come after newer ones and calls may fail, unless the   *)
(* page has gone on to something else.                                      *)
ShowsTheEnd ==
  \A j \in Jobs :
    page.shown.job = j /\ IsOwn(page) /\ IsActive(page)
      ~> page.shown.job # j \/ ~ IsActive(page)
=============================================================================
