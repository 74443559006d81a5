------------------------------ MODULE Projects -------------------------------
(***************************************************************************)
(* projects/projects.service.ts: the tasks (the projects themselves are    *)
(* rows of MasterData).  updateTask reads the task's status to decide      *)
(* whether this is the moment the task is done, and dates it then.         *)
(***************************************************************************)
EXTENDS MasterData

VARIABLES
  tasks,   \* the table tasks, by name
  job      \* per request: the task it is about, and what is asked

taskVars == <<tasks, job>>

\* The task there was is named 0, the others after their request.
TaskNames == {0} \cup Req

ASSUME ProjectsAssumption == 0 \notin Req

NoProject == <<"project", 0>>

TaskStatus == {"TODO", "DONE"}   \* DONE, and any other

\* A task created as DONE is not dated: `born` is the status it was created with.
\* The project of a task reads as null once it is gone.
Task == [status : TaskStatus, dated : BOOLEAN, born : TaskStatus,
         project : Ids \cup {NoProject}]

Unstated == "unstated"
Job == [task : TaskNames, status : TaskStatus \cup {Unstated},
        project : Ids \cup {NoProject}, dates : BOOLEAN]

NoJob == [task |-> 0, status |-> Unstated, project |-> NoProject, dates |-> FALSE]

ProjectsInit ==
  /\ tasks = [t \in {0} |-> [status |-> "TODO", dated |-> FALSE, born |-> "TODO",
                             project |-> NoProject]]
  /\ job = [r \in Req |-> NoJob]

-----------------------------------------------------------------------------
ProjectChoices == {NoProject} \cup Peers("project")

StartTask(r) ==
  \E project \in ProjectChoices, status \in TaskStatus :
    /\ Begin(r, <<"create", "task">>,
             IF project = NoProject THEN "insert task" ELSE "find project")
    /\ job' = [job EXCEPT ![r] = [NoJob EXCEPT !.task = r, !.status = status,
                                             !.project = project]]
    /\ UNCHANGED <<masterVars, tasks>>

StartChange(r) ==
  \E t \in DOMAIN tasks, act \in {"update", "remove"}, project \in ProjectChoices,
     status \in TaskStatus \cup {Unstated} :
    /\ act = "remove" => project = NoProject /\ status = Unstated
    /\ Begin(r, <<act, "task">>, "find task")
    /\ job' = [job EXCEPT ![r] = [NoJob EXCEPT !.task = t, !.status = status,
                                             !.project = project]]
    /\ UNCHANGED <<masterVars, tasks>>

ProjectsStart(r) == Idle(r) /\ (StartTask(r) \/ StartChange(r))

ProjectThere(r) == job[r].project \in DOMAIN rows \cup {NoProject}

FindProject(r) ==
  /\ pc[r] = "find project"
  /\ IF ProjectThere(r) THEN Goto(r, "insert task") ELSE Answer(r, FALSE)
  /\ UNCHANGED <<masterVars, taskVars>>

InsertTask(r) ==
  /\ pc[r] = "insert task"
  /\ IF ProjectThere(r)
       THEN tasks' = [t \in DOMAIN tasks \cup {r} |->
                        IF t = r THEN [status |-> job[r].status, dated |-> FALSE,
                                       born |-> job[r].status, project |-> job[r].project]
                                 ELSE tasks[t]]
       ELSE UNCHANGED tasks
  /\ Answer(r, ProjectThere(r))
  /\ UNCHANGED <<masterVars, job>>

\* Mutant: a task is dated when it leaves DONE.
CompletesWrong(r) == job[r].status # "DONE" /\ tasks[job[r].task].status = "DONE"

\* completedAt: the update sets DONE and the task, as read, is not.
Completes(r) == job[r].status = "DONE" /\ tasks[job[r].task].status # "DONE"

FindTask(r) ==
  /\ pc[r] = "find task"
  /\ IF job[r].task \in DOMAIN tasks
       THEN /\ job' = [job EXCEPT ![r].dates = Completes(r)]
            /\ Goto(r, IF Does(r, "update") THEN "write task" ELSE "delete task")
       ELSE Answer(r, FALSE) /\ UNCHANGED job
  /\ UNCHANGED <<masterVars, tasks>>

\* What is not stated stays; completedAt is never cleared.
WriteTask(r) ==
  /\ pc[r] = "write task"
  /\ LET t == job[r].task
         fine == t \in DOMAIN tasks /\ ProjectThere(r)
     IN /\ IF fine
             THEN tasks' = [tasks EXCEPT
                    ![t].status  = IF job[r].status = Unstated THEN @ ELSE job[r].status,
                    ![t].dated   = @ \/ job[r].dates,
                    ![t].project = IF job[r].project = NoProject THEN @ ELSE job[r].project]
             ELSE UNCHANGED tasks
        /\ Answer(r, fine)
  /\ UNCHANGED <<masterVars, job>>

DeleteTask(r) ==
  /\ pc[r] = "delete task"
  /\ tasks' = [t \in DOMAIN tasks \ {job[r].task} |-> tasks[t]]
  /\ Answer(r, job[r].task \in DOMAIN tasks)
  /\ UNCHANGED <<masterVars, job>>

ProjectsWork(r) ==
  \/ FindProject(r) \/ InsertTask(r) \/ FindTask(r) \/ WriteTask(r) \/ DeleteTask(r)

-----------------------------------------------------------------------------
ProjectsTypeOK ==
  /\ DOMAIN tasks \subseteq TaskNames
  /\ \A t \in DOMAIN tasks : tasks[t] \in Task
  /\ job \in [Req -> Job]

\* A task that is done says when, though the status an update decides by may be stale
\* when it writes; but for a task created as DONE, which was never dated.
DoneIsDated ==
  \A t \in DOMAIN tasks :
    tasks[t].status = "DONE" /\ ~tasks[t].dated => tasks[t].born = "DONE"
=============================================================================
