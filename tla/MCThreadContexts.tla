-------------------------- MODULE MCThreadContexts --------------------------
(* The programs that TLC lets run: one for each concern, so that it can be    *)
(* followed deep enough.                                                      *)
EXTENDS ThreadContexts

Bridge == {"sync_to_async", "async_to_sync"}
Inheriting == {"thread", "thread_inherit_context"}

MCPrograms == {
    \* a Local, with threads that inherit contexts and are given old idents
    [codes |-> 4, uses |-> Bridge \cup Inheriting \cup {"local", "recycled"}],
    \* a Local, across the bridge and between tasks
    [codes |-> 4, uses |-> Bridge \cup {"local", "enter"}],
    [codes |-> 3, uses |-> {"local", "task", "enter", "sync_to_async"}],
    \* a thread_critical Local
    [codes |-> 4, uses |-> Bridge \cup {"critical", "thread", "enter"}],
    \* ThreadSensitiveContext: tasks that share it, exits under way
    [codes |-> 5, uses |-> Bridge \cup {"task", "enter", "cancel"}],
    \* AsyncSingleThreadContext: threads that share it, loops within loops
    [codes |-> 5, uses |-> Bridge \cup Inheriting \cup {"enter", "force_new_loop"}]}
=============================================================================
