------------------------------ MODULE TaskBoards -----------------------------
(* Which task the dashboard shows where (domain/rules.go, domain/workspaces.go and the part of  *)
(* service.Dashboard that feeds them): the project a task belongs to, the list of those without *)
(* one, the ordinary workspaces, and the counts beside them. They are computed from readings of *)
(* different age: what Desktop observes, the threads Codex lists, the kept copy of the KSF      *)
(* projects and bindings, and the links to Feishu. The Swift builder of the project part keeps  *)
(* to the same contract (KSFProjectModels.swift).                                               *)
(*                                                                                              *)
(* Codex, Desktop, KSF and the links are external. Bounds: one engineering root, of project     *)
(* "p"; a thread is updated later than those of smaller numbers; the root of KSF is configured  *)
(* and its catalogue and bindings can be read; the parts of a dashboard are read in one step.   *)
EXTENDS Integers, FiniteSets

CONSTANTS
  Threads,  \* Numbers of threads.
  Hosts,    \* "local" is the host of the threads that Codex lists.
  Limit,    \* How many tasks of a workspace are shown, if no more are active.
  Budgets   \* How much happens: one record of numbers per behaviour, and the places in it.

\* Where a thread works: an engineering root, a directory of KSF, a root of a Codex project, a
\* directory of nobody's, or none.
Places == {"engineering", "ksf", "codex", "somewhere", "none"}
Projects == {"p", "q"}
NoProject == "none"
Keys == Hosts \X Threads

VARIABLES
  threads,  \* What Codex lists, per thread: a record, or there is none.
  listed,   \* The Core's copy.
  desktop,  \* What Desktop observes of a task.
  ksf,      \* KSF's projects and the project each thread is bound to.
  source,   \* The Core's copy, with the threads it was read for; due: its interval is over.
  links,    \* Per thread: no link, one that is "active" or "ended", and "projectless" ones.
  left

vars == <<threads, listed, desktop, ksf, source, links, left>>

Spend(what) == left[what] > 0 /\ left' = [left EXCEPT ![what] = @ - 1]

NoThread == [there |-> FALSE]
Observation == [seen : BOOLEAN, active : BOOLEAN, waits : BOOLEAN, agent : BOOLEAN]
Running == [seen |-> TRUE, active |-> TRUE, waits |-> FALSE, agent |-> FALSE]
NotSeen == [seen |-> FALSE, active |-> FALSE, waits |-> FALSE, agent |-> FALSE]

------------------------------------------------------------------------------
(* What is read.                                                                                *)

Known == {t \in Threads : listed[t].there}

\* service.applyThreadLaunchScopes, of a link whatever its state.
Projectless(t) == t \in Known /\ links[t].projectless

\* codex.Observations.
StatusOf(t) == listed[t].status

\* Desktop's observation is taken before Codex's.
Observed(key) ==
  IF desktop[key].seen THEN desktop[key]
  ELSE IF key[1] = "local" /\ key[2] \in Known THEN StatusOf(key[2]) ELSE NotSeen

ClassifyTask(o) ==
  CASE ~o.seen \/ o.agent -> "ignored"
    [] o.seen /\ ~o.agent /\ o.waits -> "waiting"
    [] OTHER -> IF o.active THEN "running" ELSE "ignored"

\* TaskActivityClassifier.classify.
SwiftClass(o) ==
  IF ~o.seen \/ o.agent \/ ~(o.waits \/ o.active) THEN "ignored"
  ELSE IF o.waits THEN "waiting" ELSE "running"

Classified == {key \in Keys : ClassifyTask(Observed(key)) # "ignored"}

\* SummarizeActivity.
CountOf(class) == Cardinality({key \in Classified : ClassifyTask(Observed(key)) = class})

Spawned(t) == t \in Known /\ listed[t].spawned

Active == {key \in Classified : ~Spawned(key[2])}

\* The threads of which nothing is observed to go on.
Resting == {t \in Known : /\ ~listed[t].spawned /\ listed[t].saved
                          /\ \A host \in Hosts : <<host, t>> \notin Classified}

\* readProjects: the kept copy serves for its interval and for the threads it was read for.
Source ==
  IF source.known /\ ~source.due /\ source.for = Known THEN source
  ELSE [known |-> TRUE, due |-> FALSE, for |-> Known, projects |-> ksf.projects,
        bound |-> [t \in Threads |-> IF t \in Known THEN ksf.bound[t] ELSE NoProject]]

\* assignedProject, where it is in the catalogue: bound to it, or in its engineering root.
ProjectOf(t, s) ==
  LET by == IF t \notin Known THEN NoProject
            ELSE IF s.bound[t] # NoProject THEN s.bound[t]
            ELSE IF listed[t].place = "engineering" THEN "p" ELSE NoProject
  IN  IF by \in s.projects THEN by ELSE NoProject

Task(key, class, where) == [key |-> key, class |-> class, in |-> where]

ActiveTask(key, where) == Task(key, ClassifyTask(Observed(key)), where)

Connected(t) == links[t].state = "active"

\* BuildProjectDashboard.
ProjectTasks(s) ==
  {ActiveTask(key, ProjectOf(key[2], s)) : key \in Active}
  \cup {Task(<<"local", t>>, "completed", ProjectOf(t, s)) :
          t \in {u \in Resting : ProjectOf(u, s) # NoProject \/ Connected(u)}}

\* KSFProjectDashboardBuilder.build, for the tasks of projects in the catalogue: it looks a binding
\* up whether or not the thread is listed, and knows nothing of links.
SwiftTasks(s) ==
  LET match(t) == IF t \in Known /\ listed[t].place = "engineering" THEN "p" ELSE NoProject
      in(t) == IF s.bound[t] # NoProject THEN s.bound[t] ELSE match(t)
      seen == {key \in Keys : SwiftClass(Observed(key)) # "ignored"}
      tops == {t \in Threads : ~(t \in Known /\ listed[t].spawned)}
      rest == {t \in Known \cap tops : listed[t].saved /\ \A key \in seen : key[2] # t}
  IN  {x \in {Task(key, SwiftClass(Observed(key)), in(key[2])) :
                 key \in {k \in seen : k[2] \in tops}}
             \cup {Task(<<"local", t>>, "completed", in(t)) : t \in rest} :
         x.in \in s.projects}

Owned(s) == {task.key[2] : task \in {x \in ProjectTasks(s) : x.in # NoProject}}

PlaceOf(t) == IF t \notin Known \/ Projectless(t) THEN "none" ELSE listed[t].place

WorkspaceActive(s) ==
  LET owned == Owned(s)
  IN  {key \in Active : PlaceOf(key[2]) # "ksf" /\ key[2] \notin owned}

\* A thread without a name, or in a directory that Codex does not keep, is left out.
WorkspaceResting(s) ==
  {t \in Resting \ Owned(s) : listed[t].named /\ (Projectless(t) \/ listed[t].place = "codex")}

\* BuildCodexWorkspaceDashboard, before any is hidden.
WorkspaceTasks(s) ==
  {ActiveTask(key, PlaceOf(key[2])) : key \in WorkspaceActive(s)}
  \cup {Task(<<"local", t>>, "completed", PlaceOf(t)) : t \in WorkspaceResting(s)}

\* selectWorkspaceTasks: those that are active or connected, and the newest others up to Limit.
Selected(tasks) ==
  LET first == {x \in tasks : x.class # "completed" \/ Connected(x.key[2])}
      newer(x) == {y \in tasks \ first : y.key[2] > x.key[2]}
  IN  first \cup {x \in tasks \ first : Cardinality(newer(x)) < Limit - Cardinality(first)}

WorkspacesShown(s) ==
  LET tasks == WorkspaceTasks(s)
  IN  UNION {Selected({x \in tasks : x.in = place}) : place \in {x.in : x \in tasks}}

\* RemoveWorkspaceTasksFromUnassignedProjects.
ProjectsShown(s) ==
  LET elsewhere == {y.key : y \in WorkspacesShown(s)}
  IN  {x \in ProjectTasks(s) : x.in = NoProject => x.key \notin elsewhere}

\* SelectHomeProjects, of those that are not pinned.
Home(s) ==
  {x.in : x \in {y \in ProjectsShown(s) : y.class # "completed" \/ Connected(y.key[2])}}

------------------------------------------------------------------------------
(* What changes.                                                                                *)

Appears(t) ==
  /\ ~threads[t].there /\ \A u \in Threads : u < t => threads[u].there
  /\ Spend("threads")
  /\ \E place \in left.places, kind \in {"named", "unnamed", "spawned"} :
       threads' = [threads EXCEPT ![t] =
                     [there |-> TRUE, place |-> place, spawned |-> kind = "spawned",
                      named |-> kind # "unnamed", saved |-> TRUE,
                      status |-> [Running EXCEPT !.agent = kind = "spawned"]]]
  /\ UNCHANGED <<listed, desktop, ksf, source, links>>

\* A thread rests or waits, its file is gone, or it is archived.
Changes(t) ==
  /\ threads[t].there /\ Spend("changes")
  /\ \/ \E waits \in BOOLEAN :
          threads' = [threads EXCEPT ![t].status.active = FALSE, ![t].status.waits = waits]
     \/ threads' = [threads EXCEPT ![t].saved = FALSE, ![t].status.active = FALSE]
     \/ threads' = [threads EXCEPT ![t] = NoThread]
  /\ UNCHANGED <<listed, desktop, ksf, source, links>>

Observes(key) ==
  /\ Spend("observed")
  /\ \E o \in {Running, [Running EXCEPT !.active = FALSE], [Running EXCEPT !.waits = TRUE],
             [Running EXCEPT !.agent = TRUE], NotSeen} :
       desktop' = [desktop EXCEPT ![key] = o]
  /\ UNCHANGED <<threads, listed, ksf, source, links>>

Binds(t) ==
  /\ threads[t].there /\ Spend("binds")
  /\ \E p \in Projects : ksf' = [ksf EXCEPT !.bound[t] = p]
  /\ UNCHANGED <<threads, listed, desktop, source, links>>

Removes(p) ==
  /\ p \in ksf.projects /\ Spend("binds")
  /\ ksf' = [ksf EXCEPT !.projects = @ \ {p}]
  /\ UNCHANGED <<threads, listed, desktop, source, links>>

Connects(t) ==
  /\ threads[t].there /\ Spend("links")
  /\ \E state \in {"active", "ended"}, projectless \in BOOLEAN :
       links' = [links EXCEPT ![t] = [state |-> state, projectless |-> projectless]]
  /\ UNCHANGED <<threads, listed, desktop, ksf, source>>

\* readCodexState.
Lists ==
  /\ listed # threads /\ listed' = threads
  /\ UNCHANGED <<threads, desktop, ksf, source, links, left>>

IntervalEnds ==
  /\ source.known /\ ~source.due /\ source' = [source EXCEPT !.due = TRUE]
  /\ UNCHANGED <<threads, listed, desktop, ksf, links, left>>

\* Dashboard: of what it keeps, only this changes.
ReadsProjects ==
  /\ source # Source /\ source' = Source
  /\ UNCHANGED <<threads, listed, desktop, ksf, links, left>>

Init ==
  /\ threads = [t \in Threads |-> NoThread]
  /\ listed = threads
  /\ desktop = [key \in Keys |-> NotSeen]
  /\ ksf = [projects |-> Projects, bound |-> [t \in Threads |-> NoProject]]
  /\ source = [known |-> FALSE, due |-> FALSE, for |-> {}, projects |-> {},
               bound |-> [t \in Threads |-> NoProject]]
  /\ links = [t \in Threads |-> [state |-> "none", projectless |-> FALSE]]
  /\ left \in Budgets

Next ==
  \/ \E t \in Threads : Appears(t) \/ Changes(t) \/ Binds(t) \/ Connects(t)
  \/ \E key \in Keys : Observes(key)
  \/ \E p \in Projects : Removes(p)
  \/ Lists \/ IntervalEnds \/ ReadsProjects

Spec == Init /\ [][Next]_vars

------------------------------------------------------------------------------
(* The promises, of the dashboard that would be read now.                                       *)

TypeOK ==
  /\ \A key \in Keys : desktop[key] \in Observation
  /\ ksf.projects \subseteq Projects /\ source.projects \subseteq Projects
  /\ ksf.bound \in [Threads -> Projects \cup {NoProject}]
  /\ source.bound \in [Threads -> Projects \cup {NoProject}]

\* A task that runs or waits and was not spawned is shown, in one place, however old the parts of
\* the picture are; and what rests is shown once at most (docs/prd/v0.2.md:19, :22).
ShownOnce ==
  LET shown == {[key |-> x.key, in |-> <<"project", x.in>>] : x \in ProjectsShown(Source)}
               \cup {[key |-> x.key, in |-> <<"workspace", x.in>>] : x \in WorkspacesShown(Source)}
      times(key) == Cardinality({x \in shown : x.key = key})
  IN  /\ \A key \in Keys : times(key) <= 1 /\ (key \in Active => times(key) = 1)
      /\ \A key \in Active : <<"local", key[2]>> \notin Active => times(<<"local", key[2]>>) = 0

\* A task in a directory of KSF is never in a workspace, and one without a project is in none
\* that is in the catalogue (docs/prd/v0.2.md:19).
KeptApart ==
  LET owned == Owned(Source) IN
  /\ \A x \in WorkspacesShown(Source) : x.in # "ksf" /\ x.key[2] \notin owned
  /\ \A x \in ProjectsShown(Source) : x.in \in Source.projects \cup {NoProject}
  /\ Home(Source) \subseteq {x.in : x \in ProjectsShown(Source)}

\* What is counted is shown with the same class, but for spawned threads that Desktop observes.
CountsAgree ==
  LET shown == ProjectsShown(Source) \cup WorkspacesShown(Source)
      spawned == {key \in Classified : Spawned(key[2])}
  IN  \A class \in {"running", "waiting"} :
        Cardinality({x \in shown : x.class = class})
          + Cardinality({key \in spawned : ClassifyTask(Observed(key)) = class})
          = CountOf(class)

\* Nothing that is connected is hidden, and of the others only the older are.
HiddenAreOld ==
  LET shown == WorkspacesShown(Source)
  IN  \A x \in WorkspaceTasks(Source) \ shown :
        /\ x.class = "completed" /\ ~Connected(x.key[2])
        /\ \A y \in shown :
             (y.in = x.in /\ y.class = "completed" /\ ~Connected(y.key[2]))
               => y.key[2] > x.key[2]

\* The Swift builder finds the tasks of projects that the Core finds.
SwiftAgrees == SwiftTasks(Source) = {x \in ProjectTasks(Source) : x.in # NoProject}
==============================================================================
