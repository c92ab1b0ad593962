---------------------------- MODULE LocalStorage ----------------------------
(***************************************************************************)
(* asgiref/local.py, and _restore_context of asgiref/sync.py.              *)
(*                                                                         *)
(* A context is a function from the context variables that are set to      *)
(* their values.  The variable of a Local holds the ident of the thread    *)
(* that owns the data, and the data: a function from the keys that are     *)
(* set.  The operations are operators; ThreadContexts applies them to      *)
(* AsyncToSync.executors and to a Local of the user's, each a variable.    *)
(* An AttributeError is the guard Has.                                     *)
(***************************************************************************)

\* Context variables named asgiref.local; the others are of other kinds.
Locals == {<<"executors", 0>>, <<"local", 0>>}

Set(ctx, var, value) ==
    [v \in DOMAIN ctx \cup {var} |-> IF v = var THEN value ELSE ctx[v]]

\* Faulty: the data is visible to whoever has the context.
DataOfAny(ctx, var, ident) == IF var \in DOMAIN ctx THEN ctx[var].data ELSE <<>>

\* The data that the thread may see; none, if another owns it.
Data(ctx, var, ident) ==
    IF var \in DOMAIN ctx /\ ctx[var].ident = ident THEN ctx[var].data ELSE <<>>

\* __getattr__, where it does not raise.
Has(ctx, var, ident, key) == key \in DOMAIN Data(ctx, var, ident)
GetAttr(ctx, var, ident, key) == Data(ctx, var, ident)[key]

\* __setattr__ and __delattr__.
SetAttr(ctx, var, ident, key, value) ==
    Set(ctx, var, [ident |-> ident, data |-> Set(Data(ctx, var, ident), key, value)])

DelAttr(ctx, var, ident, key) ==
    LET data == Data(ctx, var, ident)
    IN  Set(ctx, var, [ident |-> ident, data |-> [k \in DOMAIN data \ {key} |-> data[k]]])

Rehome(storage, ident) == [ident |-> ident, data |-> storage.data]

\* Faulty: storage is copied as it is.
RestoreUntagged(into, context, ident) ==
    [var \in DOMAIN context \cup DOMAIN into |->
        IF var \in DOMAIN context THEN context[var] ELSE into[var]]

\* _restore_context(context) on the thread with that ident, when into is the
\* context it is in.  Storage is re-homed whoever owns it.
Restore(into, context, ident) ==
    [var \in DOMAIN context \cup DOMAIN into |->
        IF var \notin DOMAIN context THEN into[var]
        ELSE IF var \in Locals THEN Rehome(context[var], ident) ELSE context[var]]
-----------------------------------------------------------------------------
(* thread_critical Locals *)

\* Faulty: one context variable for the threads of all loops.
CVarShared(thread) == <<"thread_critical", 0>>

\* The context variable a thread with a loop makes for itself.
CVar(thread) == <<"thread_critical", thread>>

\* Its one attribute: a set of at most one value.
CVarGet(ctx, thread) == IF CVar(thread) \in DOMAIN ctx THEN ctx[CVar(thread)] ELSE {}
CVarSet(ctx, thread, value) == Set(ctx, CVar(thread), value)
=============================================================================
