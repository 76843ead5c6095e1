---------------------------- MODULE MCQueryTasks ----------------------------
EXTENDS QueryTasks

\* Every task reads one byte and prints nothing; both workers and the
\* producer start.
Plain == [count |-> MaxTasks, indexed |-> TRUE, live |-> FALSE, permits |-> 3,
          size |-> [t \in Task |-> 1], weight |-> [t \in Task |-> 0],
          streamed |-> {}, dependent |-> {}, stuck |-> {},
          panics |-> {}, breaks |-> {FALSE}, cancels |-> FALSE,
          started |-> Worker, fed |-> TRUE]

MCModes == {
  \* An indexed run whose second task blocks until the run stops, which it
  \* does if publishing fails.
  [Plain EXCEPT !.stuck = {2}, !.breaks = BOOLEAN],
  \* Indexed, with a large second file and a large second group.
  [Plain EXCEPT !.size = [t \in Task |-> IF t = 2 THEN 3 ELSE 1],
                !.weight = [t \in Task |-> IF t = 2 THEN 2 ELSE 1]],
  \* The same files, cancelled at any time.
  [Plain EXCEPT !.count = 2, !.size = [t \in Task |-> IF t = 2 THEN 3 ELSE 1],
                !.cancels = TRUE],
  \* A streaming source that waits for each task's work.
  [Plain EXCEPT !.indexed = FALSE, !.dependent = Task],
  \* A live walk with one descriptor admission and a streamed first file,
  \* whose worker may panic.
  [Plain EXCEPT !.count = 2, !.indexed = FALSE, !.live = TRUE, !.permits = 1,
                !.streamed = {1}, !.size = [t \in Task |-> 2], !.panics = {1}],
  \* Two streams that do not fit the input budget together.
  [Plain EXCEPT !.count = 2, !.indexed = FALSE, !.live = TRUE, !.streamed = {1, 2},
                !.size = [t \in Task |-> 2]],
  \* One worker of two started; and no producer.
  [Plain EXCEPT !.started = {1}, !.breaks = BOOLEAN],
  [Plain EXCEPT !.started = {1}, !.fed = FALSE, !.streamed = {1}, !.cancels = TRUE,
                !.breaks = BOOLEAN] }
============================================================================
