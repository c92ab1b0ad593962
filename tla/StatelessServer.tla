---------------------------- MODULE StatelessServer ----------------------------
(***************************************************************************)
(* asgiref/server.py: StatelessServer, which keeps one application         *)
(* instance (a task with an input queue) per scope_id, reclaims the least  *)
(* recently used one when there are too many, and has a checker task that  *)
(* removes the instances whose task has ended.                             *)
(*                                                                         *)
(* Everything runs on one event loop: an action is what happens between    *)
(* two awaits.  The server's handle(), the applications and an overridden  *)
(* application_exception() are user code.                                  *)
(***************************************************************************)
EXTENDS Naturals, FiniteSets

CONSTANTS
    ScopeId,
    Instance,           \* application instances, one task each
    MaxApplications,    \* max_applications
    MaxTime,            \* bound on the clock
    Suspends            \* subset of BOOLEAN: may application_exception() await?

ASSUME ServerAssumption ==
    /\ MaxApplications \in Nat
    /\ MaxTime \in Nat
    /\ Suspends \subseteq BOOLEAN

VARIABLES
    instances,  \* the instances in application_instances
    added,      \* per instance: when it was added; a dict iterates in this order
    made,       \* instances made so far
    scope,      \* per instance: its scope_id
    future,     \* per instance: the state of its task
    last_used,  \* per instance
    now,        \* time.time()
    checker,    \* where application_checker is
    todo,       \* the rest of the list it iterates over, in that order too
    server      \* "run", "returned" (handle() returned) or "failed"

vars == <<instances, added, made, scope, future, last_used, now, checker, todo, server>>

\* "new": not made.  "cancelling": Task.cancel was called, the task has yet to
\* see it.
FutureState == {"new", "pending", "cancelling", "cancelled", "ok", "error"}

Finished(i) == future[i] \in {"cancelled", "ok", "error"}

\* The loop is free for other code: the checker does not await while it scans,
\* except in application_exception().
Free == server = "run" /\ checker # "scan"

\* The dictionary without key id.
Without(id) == {i \in instances : scope[i] # id}

\* The next one of the list.
First(i) == i \in todo /\ \A j \in todo : added[i] <= added[j]

Init ==
    /\ instances = {}
    /\ added = [i \in Instance |-> 0]
    /\ made = 0
    /\ scope \in [Instance -> ScopeId]
    /\ future = [i \in Instance |-> "new"]
    /\ last_used = [i \in Instance |-> 0]
    /\ now = 0
    /\ checker = "sleep"
    /\ todo = {}
    /\ server = "run"

-----------------------------------------------------------------------------
(* get_or_create_application_instance, called by handle(). *)

\* There is an instance: it is used again.
Reuse(id) ==
    /\ Free
    /\ \E i \in instances :
          /\ scope[i] = id
          /\ last_used' = [last_used EXCEPT ![i] = now]
    /\ UNCHANGED <<instances, added, made, scope, future, now, checker, todo, server>>

\* Faulty: the newest one is taken.
Newer(i, j) ==
    last_used[i] > last_used[j] \/ (last_used[i] = last_used[j] /\ added[i] < added[j])

\* Instance i is before j for delete_oldest_application_instance: it takes the
\* smallest last_used and, among equals, the first one inserted.
Older(i, j) ==
    last_used[i] < last_used[j] \/ (last_used[i] = last_used[j] /\ added[i] < added[j])

\* How many are deleted before i.
Rank(i) == Cardinality({j \in instances : Older(j, i)})

\* Faulty: the limit is not looked at.
NobodyReclaimed == {}

\* "while len(...) > max_applications: delete the oldest" takes as many as are
\* over the limit before the new instance is added.
Reclaimed == {i \in instances : Rank(i) + MaxApplications < Cardinality(instances)}

\* Faulty: the entry is removed and the task left alone.
LeftRunning(D) == future

\* delete_application_instance: cancel the task unless it is done.
Stopped(D) ==
    [i \in Instance |->
        IF i \in D /\ future[i] = "pending" THEN "cancelling" ELSE future[i]]

\* The dictionary and the task of a new instance i.
Added(i) ==
    /\ instances' = (instances \ Reclaimed) \cup {i}
    /\ added' = [added EXCEPT ![i] = made]
    /\ made' = made + 1
    /\ future' = [Stopped(Reclaimed) EXCEPT ![i] = "pending"]
    /\ last_used' = [last_used EXCEPT ![i] = now]
    /\ UNCHANGED <<scope, now, checker, todo, server>>

\* Faulty: nobody looks whether the scope_id has an instance.
CreateAnyway(i) == Free /\ future[i] = "new" /\ Added(i)

\* There is none: make room, start a task and add it.
Create(i) ==
    /\ Free
    /\ future[i] = "new"
    /\ \A j \in instances : scope[j] # scope[i]
    /\ Added(i)

\* delete_application_instance, called by the server's own code.
Delete(i) ==
    /\ Free
    /\ i \in instances
    /\ instances' = Without(scope[i])
    /\ future' = Stopped({i})
    /\ UNCHANGED <<added, made, scope, last_used, now, checker, todo, server>>

-----------------------------------------------------------------------------
(* The applications, and time. *)

\* The application returns, raises, or ends cancelled; it may also suppress a
\* cancellation that was requested.
AppEnds(i, r) ==
    /\ Free
    /\ future[i] \in {"pending", "cancelling"}
    /\ r \in {"ok", "error", "cancelled"}
    /\ future' = [future EXCEPT ![i] = r]
    /\ UNCHANGED <<instances, added, made, scope, last_used, now, checker, todo, server>>

Tick ==
    /\ Free
    /\ now < MaxTime
    /\ now' = now + 1
    /\ UNCHANGED <<instances, added, made, scope, future, last_used, checker, todo, server>>

-----------------------------------------------------------------------------
(* application_checker *)

\* The interval is over: iterate over a copy of the dictionary.
CheckerWakes ==
    /\ server = "run"
    /\ checker = "sleep"
    /\ checker' = "scan"
    /\ todo' = instances
    /\ UNCHANGED <<instances, added, made, scope, future, last_used, now, server>>

CheckerSleeps ==
    /\ server = "run"
    /\ checker = "scan"
    /\ todo = {}
    /\ checker' = "sleep"
    /\ UNCHANGED <<instances, added, made, scope, future, last_used, now, todo, server>>

\* An application that is still running.
SkipRunning(i) ==
    /\ server = "run"
    /\ checker = "scan"
    /\ First(i)
    /\ ~Finished(i)
    /\ todo' = todo \ {i}
    /\ UNCHANGED <<instances, added, made, scope, future, last_used, now, checker, server>>

\* Faulty: the entry is never deleted.
RemovedNot(i) == instances

\* The entry of the scope_id is deleted, whichever instance it holds by now.
Removed(i) == Without(scope[i])

\* One that returned, or that raised when application_exception() does not
\* await: report and delete the entry.
RemoveFinished(i) ==
    /\ server = "run"
    /\ checker = "scan"
    /\ First(i)
    /\ future[i] = "ok" \/ (future[i] = "error" /\ FALSE \in Suspends)
    /\ instances' = Removed(i)
    /\ todo' = todo \ {i}
    /\ UNCHANGED <<added, made, scope, future, last_used, now, checker, server>>

\* One that raised: application_exception() is awaited ...
AwaitException(i) ==
    /\ server = "run"
    /\ checker = "scan"
    /\ First(i)
    /\ future[i] = "error"
    /\ TRUE \in Suspends
    /\ checker' = "exception"
    /\ UNCHANGED <<instances, added, made, scope, future, last_used, now, todo, server>>

\* ... and then the entry is deleted.
RemoveErrored(i) ==
    /\ server = "run"
    /\ checker = "exception"
    /\ First(i)
    /\ checker' = "scan"
    /\ instances' = Removed(i)
    /\ todo' = todo \ {i}
    /\ UNCHANGED <<added, made, scope, future, last_used, now, server>>

\* Future.exception() of a cancelled task raises CancelledError, which ends the
\* checker and, through gather(), arun().
CheckerDies(i) ==
    /\ server = "run"
    /\ checker = "scan"
    /\ First(i)
    /\ future[i] = "cancelled"
    /\ checker' = "dead"
    /\ server' = "failed"
    /\ UNCHANGED <<instances, added, made, scope, future, last_used, now, todo>>

\* handle() returns: Done ends gather() and arun() returns; asyncio.run cancels
\* what is left.
HandleReturns ==
    /\ Free
    /\ server' = "returned"
    /\ future' = Stopped(Instance)
    /\ UNCHANGED <<instances, added, made, scope, last_used, now, checker, todo>>

-----------------------------------------------------------------------------

CheckerStep ==
    \/ CheckerWakes \/ CheckerSleeps
    \/ \E i \in Instance : \/ SkipRunning(i) \/ RemoveFinished(i)
                           \/ AwaitException(i) \/ RemoveErrored(i) \/ CheckerDies(i)

Next ==
    \/ \E id \in ScopeId : Reuse(id)
    \/ \E i \in Instance : Create(i) \/ Delete(i)
    \/ \E i \in Instance, r \in FutureState : AppEnds(i, r)
    \/ Tick
    \/ CheckerStep
    \/ HandleReturns

Spec == Init /\ [][Next]_vars

\* The loop runs the checker, whose sleep and application_exception() end.
FairSpec == Spec /\ WF_vars(CheckerStep)

-----------------------------------------------------------------------------
(* Properties. *)

\* Types; the dictionary has one entry per scope_id.
TypeOK ==
    /\ instances \subseteq Instance
    /\ made \in Nat
    /\ added \in [Instance -> Nat]
    /\ scope \in [Instance -> ScopeId]
    /\ future \in [Instance -> FutureState]
    /\ last_used \in [Instance -> 0..MaxTime]
    /\ now \in 0..MaxTime
    /\ checker \in {"sleep", "scan", "exception", "dead"}
    /\ todo \subseteq Instance
    /\ server \in {"run", "returned", "failed"}
    /\ \A i, j \in instances : scope[i] = scope[j] => i = j

\* The limit that get_or_create_application_instance does keep: instances are
\* reclaimed only when there are more than max_applications, and one is added after
\* that, so that however many are made, and however many have the same last_used,
\* there is never more than one over the limit.
AtMostMaxPlusOne == Cardinality(instances) <= MaxApplications + 1

\* The limit as documented: "there are already max_application instances, the
\* oldest/least recently used one will be reclaimed and shut down to make space".
AtMostMax == Cardinality(instances) <= MaxApplications

\* A running application that nobody asked to stop stays in the dictionary, where
\* handle() and the checker find it.  The one way to lose it needs an
\* application_exception() that awaits: during the await its scope_id is deleted
\* and created again, and the checker, whose copy is older, deletes the new
\* instance on behalf of the old one.
LostOnlyByStaleCopy ==
    [][\A i \in instances \ instances' :
          future'[i] = "pending" =>
              /\ TRUE \in Suspends
              /\ i \notin todo
              /\ \E h \in todo : First(h) /\ scope[h] = scope[i]]_vars

\* When room is made, no instance that stays was used longer ago than one that
\* is stopped.
LeastRecentlyUsed ==
    [][\A i \in Instance : Create(i) =>
          \A j \in instances \ instances' :
              \A k \in instances \cap instances' :
                  last_used[j] <= last_used[k]]_vars

\* "Application coroutines that error will be found periodically": nothing an
\* application does ends the checker.
CheckerSurvives == checker # "dead"

\* An application that has ended is removed from the dictionary.
EventuallyRemoved ==
    \A i \in Instance :
        i \in instances /\ future[i] \in {"ok", "error"}
            ~> i \notin instances \/ server # "run"
=============================================================================
