------------------------ MODULE ThreadContextsProofs ------------------------
(***************************************************************************)
(* Proofs about thread contexts and Locals, for any program: any number of *)
(* tasks, threads and calls, nested to any depth.                          *)
(***************************************************************************)
EXTENDS ThreadContexts, FiniteSetTheorems, WellFoundedInduction, TLAPS

-----------------------------------------------------------------------------
(* The inductive invariant. *)

Tokens == {"none", "outer", "inner", "left"}

\* Functions whose domain is a subset of S.
Partial(S, T) == UNION {[D -> T] : D \in SUBSET S}

Storage == [ident : Nat, data : Partial(Keys \cup {"current"}, Nat)]
ContextVars == {Executors, Value, TSC, STC} \cup {CVar(t) : t \in Nat}
Contexts == Partial(ContextVars, Storage \cup Nat \cup SUBSET Nat)

Codes == [pc : Pcs, caller : Nat, thread : Nat, loop : Nat, ctx : Contexts, root : Nat,
          sees : SUBSET Nat, token : Tokens, on : Nat, executor : Nat, old : Nat, via : Nat]
Threads == [ident : Nat, main_event_loop : Nat, base : Contexts, shut : BOOLEAN,
            ended : BOOLEAN, critical : SUBSET Nat]

Looking == {c \in DOMAIN code : code[c].pc = "look"}

TypeInv ==
    /\ code \in Seq(Codes) /\ thr \in Seq(Threads)
    /\ Len(code) >= 1 /\ Len(thr) = Len(code)
    /\ program \in Programs /\ writes \in 0..MaxWrites
    /\ leaked \subseteq DOMAIN code /\ raced \subseteq DOMAIN code

\* Code that looks up an executor has room for the code it will make.
RoomInv == Len(code) + Cardinality(Looking) <= program.codes

\* executors.current, whichever thread it is for.
RawCurrent(ctx) ==
    IF Executors \in DOMAIN ctx /\ "current" \in DOMAIN ctx[Executors].data
    THEN ctx[Executors].data["current"] ELSE 0

\* A context among k pieces of code.  What a thread_critical Local keeps in it was
\* written on the thread that the variable is for.
ContextOK(ctx, k) ==
    /\ ctx \in Contexts
    /\ \A var \in {Executors, Value} \cap DOMAIN ctx : ctx[var] \in Storage
    /\ \A var \in {TSC, STC} \cap DOMAIN ctx : ctx[var] \in 1..k
    /\ \A t \in Nat : CVar(t) \in DOMAIN ctx => t \in 1..k /\ ctx[CVar(t)] \subseteq {t}
    /\ RawCurrent(ctx) \in 0..k

\* A thread of the program's own.
Own(t) == code[t].caller = 0 /\ code[t].loop = 0

\* Where a piece of code comes from and where it runs, which never changes: a call on
\* behalf of the same task or thread; on the thread of its loop; on that of the sync
\* code further up; else on an executor's.
PlaceOf(c) ==
    /\ code[c].caller < c
    /\ code[c].loop <= Len(code) /\ code[c].via <= Len(code)
    /\ code[c].thread \in DOMAIN code /\ code[c].root \in code[c].sees
    /\ code[c].sees \subseteq DOMAIN code
    /\ code[c].caller # 0 =>
          /\ code[c].root = code[code[c].caller].root
          /\ code[c].sees = code[code[c].caller].sees
          /\ code[c].loop = 0 <=> code[code[c].caller].loop # 0
    /\ code[c].loop # 0 =>
          /\ code[code[c].loop].loop # 0
          /\ code[c].thread = code[code[c].loop].thread
          /\ ~Own(code[c].thread)
    /\ Own(c) => code[c].thread = c
    /\ code[c].loop = 0 /\ code[c].caller # 0 =>
          LET outer == code[code[c].caller].caller
          IN  IF outer = 0 THEN ~Own(code[c].thread)
              ELSE code[c].thread = code[outer].thread

PlaceInv == code[1].thread = 1 /\ \A c \in DOMAIN code : PlaceOf(c)

CodeOK(c) ==
    /\ {code[c].on, code[c].executor, code[c].old} \subseteq 0..Len(code)
    /\ ContextOK(code[c].ctx, Len(code))
    /\ code[c].pc = "look" =>
          /\ code[c].loop = 0
          /\ STC \in DOMAIN code[c].ctx /\ RawCurrent(code[c].ctx) = c
    /\ code[c].pc = "exit" => code[c].loop # 0
    /\ ~Started(c) => code[c].caller # 0 \/ code[c].loop # 0

ThreadOK(t) ==
    /\ thr[t].ident <= Len(code)
    /\ thr[t].main_event_loop <= Len(code)
    /\ thr[t].main_event_loop # 0 => code[thr[t].main_event_loop].loop # 0
    /\ ContextOK(thr[t].base, Len(code))
    /\ thr[t].critical \subseteq {t}

StateInv == (\A c \in DOMAIN code : CodeOK(c)) /\ (\A t \in DOMAIN thr : ThreadOK(t))

\* Who waits waits for one piece of code, which has not returned.
WaitInv ==
    /\ \A c \in DOMAIN code : code[c].caller # 0 /\ code[c].pc # "done"
          => code[code[c].caller].pc = "wait"
    /\ \A c \in DOMAIN code : code[c].pc = "wait"
          => \E d \in DOMAIN code : code[d].caller = c /\ code[d].pc # "done"
    /\ \A c, d \in DOMAIN code :
          /\ code[c].caller = code[d].caller /\ code[c].caller # 0
          /\ code[c].pc # "done" /\ code[d].pc # "done"
          => c = d

\* Has its context been brought to its thread?
Settled(c) == Started(c) \/ code[c].caller = 0

\* Async code finds the sync code that waits for it as executors.current, and sync
\* code that of the async code that waits for it, or will put it back.
CurrentOf(c) ==
    /\ code[c].loop # 0 => RawCurrent(code[c].ctx) = code[c].caller
    /\ code[c].loop = 0 /\ code[c].caller # 0 =>
          code[code[c].caller].caller =
              IF code[c].pc \in {"look", "wait"} THEN code[c].old ELSE RawCurrent(code[c].ctx)
    /\ Settled(c) /\ ~Own(c) /\ Executors \in DOMAIN code[c].ctx
          => code[c].ctx[Executors].ident = Ident(c)

CurrentInv == \A c \in DOMAIN code : code[c].pc # "done" => CurrentOf(c)

\* An executor that is kept takes work, and is kept for one context.
ExecutorInv ==
    /\ \A x \in DOMAIN code : code[x].executor # 0 =>
          /\ ~Own(code[x].executor)
          /\ ~thr[code[x].executor].shut
          /\ ~thr[code[x].executor].ended
    /\ \A x, y \in DOMAIN code :
          code[x].executor = code[y].executor /\ code[x].executor # 0 => x = y

EndedInv ==
    \A t \in DOMAIN thr : thr[t].ended =>
        /\ Own(t) \/ thr[t].shut
        /\ \A c \in DOMAIN code : code[c].thread = t => code[c].pc = "done"

\* The context managers that a context names have been entered.
Entered(ctx) ==
    \A var \in {TSC, STC} \cap DOMAIN ctx : code[ctx[var]].token \in {"outer", "left"}

ManagerInv ==
    /\ \A c \in DOMAIN code : Entered(code[c].ctx)
    /\ \A t \in DOMAIN thr : Entered(thr[t].base)

\* What a context that is open has sent somewhere went to its executor, and so will
\* what has looked that up.
HasExecutor(x, t) == code[x].token = "outer" /\ x \notin raced => code[x].executor = t

ViaOf(c) ==
    code[c].via # 0 => /\ code[code[c].via].token \in {"outer", "left"}
                       /\ HasExecutor(code[c].via, code[c].thread)

LookOf(c) ==
    code[c].pc = "look" /\ code[c].on # 0 =>
        ~Own(code[c].on) /\ HasExecutor(code[c].ctx[STC], code[c].on)

ViaInv == \A c \in DOMAIN code : ViaOf(c) /\ LookOf(c)

\* What is not done after a context was left is on the thread that the exit joins,
\* or the exit was cancelled.
Awaited(c, t) ==
    \/ code[c].pc \in {"exit", "block"} /\ t = code[c].on
    \/ code[c].loop # 0 /\ code[c].on = 0

Left(c, d) ==
    /\ code[c].token = "left" /\ c \notin raced
    /\ code[d].via = c /\ code[d].pc # "done"
    => Awaited(c, code[d].thread)

ExitInv == \A c, d \in DOMAIN code : Left(c, d)

\* The thread whose data the code will see of its context.
Home(c) == IF Settled(c) THEN Ident(c) ELSE Ident(code[c].caller)

\* Is the data that it will see its own, or its task's creators'?
ViewOf(c) ==
    Value \in DOMAIN code[c].ctx /\ code[c].ctx[Value].ident = Home(c) =>
        \A key \in DOMAIN code[c].ctx[Value].data :
            code[c].ctx[Value].data[key] \in code[c].sees \/ code[c].root \in leaked

ViewInv == \A c \in DOMAIN code : ViewOf(c)

\* A call has at least the data of the Local that its caller has, and before it
\* starts just that.
SharedWith(c, p) ==
    /\ Value \in DOMAIN code[p].ctx => Value \in DOMAIN code[c].ctx
    /\ ~Started(c) /\ Value \in DOMAIN code[c].ctx
          => Value \in DOMAIN code[p].ctx /\ code[c].ctx[Value] = code[p].ctx[Value]

SharedOf(c) == code[c].caller # 0 /\ code[c].pc # "done" => SharedWith(c, code[c].caller)

SharedInv == \A c \in DOMAIN code : SharedOf(c)

Inv ==
    /\ TypeInv /\ RoomInv /\ PlaceInv /\ StateInv /\ WaitInv /\ CurrentInv
    /\ ExecutorInv /\ EndedInv /\ ManagerInv /\ ViaInv /\ OneThread /\ ExitInv
    /\ ViewInv /\ SharedInv

-----------------------------------------------------------------------------
(* Partial functions and Locals. *)

\* What is in Partial(S, T).
LEMMA PartialFacts ==
    ASSUME NEW S, NEW T, NEW f \in Partial(S, T)
    PROVE  /\ DOMAIN f \subseteq S
           /\ f = [x \in DOMAIN f |-> f[x]]
           /\ \A x \in DOMAIN f : f[x] \in T
  BY DEF Partial

LEMMA PartialIntro ==
    ASSUME NEW S, NEW T, NEW D \in SUBSET S, NEW f \in [D -> T]
    PROVE  f \in Partial(S, T)
  BY DEF Partial

\* The empty context.
LEMMA EmptyPartial ==
    ASSUME NEW S, NEW T
    PROVE  <<>> \in Partial(S, T) /\ DOMAIN <<>> = {}
  <1>1. DOMAIN <<>> = {} /\ <<>> \in [{} -> T]
    OBVIOUS
  <1> QED  BY <1>1, PartialIntro

\* Set adds or changes one variable.
LEMMA SetType ==
    ASSUME NEW S, NEW T, NEW ctx \in Partial(S, T), NEW var \in S, NEW value \in T
    PROVE  Set(ctx, var, value) \in Partial(S, T)
  <1>1. DOMAIN ctx \cup {var} \in SUBSET S
    BY PartialFacts
  <1>2. Set(ctx, var, value) \in [DOMAIN ctx \cup {var} -> T]
    BY PartialFacts DEF Set
  <1> QED  BY <1>1, <1>2, PartialIntro

\* Leaving out a part of the domain.
LEMMA WithoutType ==
    ASSUME NEW S, NEW T, NEW ctx \in Partial(S, T), NEW D
    PROVE  /\ [v \in DOMAIN ctx \ D |-> ctx[v]] \in Partial(S, T)
           /\ DOMAIN [v \in DOMAIN ctx \ D |-> ctx[v]] = DOMAIN ctx \ D
           /\ \A v \in DOMAIN ctx \ D : [w \in DOMAIN ctx \ D |-> ctx[w]][v] = ctx[v]
  <1>1. DOMAIN ctx \ D \in SUBSET S
    BY PartialFacts
  <1>2. [v \in DOMAIN ctx \ D |-> ctx[v]] \in [DOMAIN ctx \ D -> T]
    BY PartialFacts
  <1>3. [v \in DOMAIN ctx \ D |-> ctx[v]] \in Partial(S, T)
    BY <1>1, <1>2, PartialIntro
  <1> QED  BY <1>3

\* The variables differ.
LEMMA VarFacts ==
    /\ Executors # Value /\ Executors # TSC /\ Executors # STC
    /\ Value # TSC /\ Value # STC /\ TSC # STC
    /\ {Executors, Value, TSC, STC} \subseteq ContextVars
    /\ Locals = {Executors, Value}
    /\ \A t : CVar(t) \notin {Executors, Value, TSC, STC}
    /\ \A t \in Nat : CVar(t) \in ContextVars
    /\ \A t, u : CVar(t) = CVar(u) => t = u
    /\ \A v \in ContextVars : v \in {Executors, Value, TSC, STC} \/ \E t \in Nat : v = CVar(t)
  BY DEF Executors, Value, TSC, STC, ContextVars, CVar, Locals

\* _restore_context takes every variable of the context over, and re-homes the Locals.
LEMMA RestoreFacts ==
    ASSUME NEW into, NEW ctx, NEW ident, NEW new, new = Restore(into, ctx, ident)
    PROVE  /\ \A v : v \in DOMAIN new <=> v \in DOMAIN ctx \/ v \in DOMAIN into
           /\ \A v \in DOMAIN ctx \cap {Executors, Value} :
                 new[v].ident = ident /\ new[v].data = ctx[v].data
           /\ \A v \in DOMAIN ctx : v \notin {Executors, Value} => new[v] = ctx[v]
           /\ \A v \in DOMAIN into \ DOMAIN ctx : new[v] = into[v]
  BY VarFacts DEF Restore, Rehome

Stored == Storage \cup Nat \cup SUBSET Nat
Datas == Partial(Keys \cup {"current"}, Nat)

\* The data that a thread sees.
LEMMA DataFacts ==
    ASSUME NEW k, NEW ctx, ContextOK(ctx, k), NEW var \in {Executors, Value}, NEW ident
    PROVE  /\ Data(ctx, var, ident) \in Datas
           /\ \A key \in DOMAIN Data(ctx, var, ident) :
                 /\ var \in DOMAIN ctx /\ ctx[var].ident = ident
                 /\ key \in DOMAIN ctx[var].data
                 /\ Data(ctx, var, ident)[key] = ctx[var].data[key]
  <1>1. CASE var \in DOMAIN ctx /\ ctx[var].ident = ident
    <2>1. Data(ctx, var, ident) = ctx[var].data
      BY <1>1 DEF Data
    <2>2. ctx[var].data \in Datas
      BY <1>1 DEF ContextOK, Storage, Datas
    <2> QED  BY <1>1, <2>1, <2>2
  <1>2. CASE ~(var \in DOMAIN ctx /\ ctx[var].ident = ident)
    <2>1. Data(ctx, var, ident) = <<>>
      BY <1>2 DEF Data
    <2> QED  BY <2>1, EmptyPartial DEF Datas
  <1> QED  BY <1>1, <1>2

\* A context stays well formed when more code comes to be.
LEMMA ContextGrows ==
    ASSUME NEW k \in Nat, NEW ctx, ContextOK(ctx, k)
    PROVE  ContextOK(ctx, k + 1)
  <1>1. /\ 1..k \subseteq 1..(k + 1)
        /\ 0..k \subseteq 0..(k + 1)
    OBVIOUS
  <1> QED  BY <1>1, Zenon DEF ContextOK

LEMMA EmptyContext ==
    ASSUME NEW k \in Nat
    PROVE  ContextOK(<<>>, k) /\ DOMAIN <<>> = {} /\ RawCurrent(<<>>) = 0
  <1>1. <<>> \in Contexts /\ DOMAIN <<>> = {}
    BY EmptyPartial DEF Contexts
  <1> QED  BY <1>1 DEF ContextOK, RawCurrent

\* Storing data for a Local.
LEMMA StorageType ==
    ASSUME NEW ident \in Nat, NEW data \in Datas
    PROVE  [ident |-> ident, data |-> data] \in Storage
  BY DEF Storage, Datas

\* An assignment to the Local.
LEMMA StoreValue ==
    ASSUME NEW k \in Nat, NEW ctx, ContextOK(ctx, k), NEW storage \in Storage,
           NEW new, new = Set(ctx, Value, storage)
    PROVE  /\ ContextOK(new, k)
           /\ RawCurrent(new) = RawCurrent(ctx)
           /\ \A var \in {Executors, TSC, STC} :
                 var \in DOMAIN new => var \in DOMAIN ctx /\ new[var] = ctx[var]
           /\ Value \in DOMAIN new /\ new[Value] = storage
  <1>1. new \in Contexts
    BY SetType, VarFacts DEF ContextOK, Contexts
  <1>2. /\ DOMAIN new = DOMAIN ctx \cup {Value}
        /\ new[Value] = storage
        /\ \A v \in DOMAIN ctx : v # Value => new[v] = ctx[v]
    BY DEF Set
  <1>3. \A var \in {Executors, Value} \cap DOMAIN new : new[var] \in Storage
    BY <1>2, Zenon DEF ContextOK
  <1>4. \A var \in {TSC, STC} \cap DOMAIN new : new[var] \in 1..k
    BY <1>2, VarFacts, Zenon DEF ContextOK
  <1>5. \A t \in Nat : CVar(t) \in DOMAIN new => t \in 1..k /\ new[CVar(t)] \subseteq {t}
    <2> TAKE t \in Nat
    <2>1. CVar(t) # Value
      BY VarFacts, Zenon
    <2> QED  BY <2>1, <1>2 DEF ContextOK
  <1>6. RawCurrent(new) = RawCurrent(ctx)
    <2>1. (Executors \in DOMAIN new <=> Executors \in DOMAIN ctx)
          /\ (Executors \in DOMAIN ctx => new[Executors] = ctx[Executors])
      BY <1>2, VarFacts
    <2> QED  BY <2>1, Zenon DEF RawCurrent
  <1>7. ContextOK(new, k)
    BY <1>1, <1>3, <1>4, <1>5, <1>6 DEF ContextOK
  <1>8. /\ \A var \in {Executors, TSC, STC} :
              var \in DOMAIN new => var \in DOMAIN ctx /\ new[var] = ctx[var]
        /\ Value \in DOMAIN new /\ new[Value] = storage
    BY <1>2, VarFacts
  <1> QED  BY <1>6, <1>7, <1>8

\* An assignment to executors.current.
CurrentSet(new, ctx, ident, value, k) ==
    /\ ContextOK(new, k)
    /\ RawCurrent(new) = value
    /\ \A v : v \in DOMAIN new <=> v \in DOMAIN ctx \/ v = Executors
    /\ new[Executors].ident = ident
    /\ \A v \in DOMAIN ctx : v # Executors => new[v] = ctx[v]

LEMMA SetCurrent ==
    ASSUME NEW k \in Nat, NEW ctx, ContextOK(ctx, k), NEW ident \in Nat, NEW value \in 0..k,
           NEW new, new = SetAttr(ctx, Executors, ident, "current", value)
    PROVE  CurrentSet(new, ctx, ident, value, k)
  <1> DEFINE data == Set(Data(ctx, Executors, ident), "current", value)
  <1> DEFINE storage == [ident |-> ident, data |-> data]
  <1>0. value \in Nat
    OBVIOUS
  <1>1. data \in Datas /\ "current" \in DOMAIN data /\ data["current"] = value
    <2>1. Data(ctx, Executors, ident) \in Datas
      BY DataFacts
    <2>2. "current" \in Keys \cup {"current"}
      OBVIOUS
    <2>3. data \in Datas
      BY <1>0, <2>1, <2>2, SetType DEF Datas
    <2>4. "current" \in DOMAIN data /\ data["current"] = value
      BY DEF Set
    <2> QED  BY <2>3, <2>4
  <1>2. storage \in Storage /\ storage.ident = ident /\ storage.data = data
    BY <1>1, StorageType
  <1>3. new = Set(ctx, Executors, storage)
    BY DEF SetAttr
  <1> HIDE DEF storage, data
  <1>4. new \in Contexts
    BY <1>2, <1>3, SetType, VarFacts DEF ContextOK, Contexts
  <1>5. /\ DOMAIN new = DOMAIN ctx \cup {Executors}
        /\ new[Executors] = storage
        /\ \A v \in DOMAIN ctx : v # Executors => new[v] = ctx[v]
    BY <1>3 DEF Set
  <1>6. \A var \in {Executors, Value} \cap DOMAIN new : new[var] \in Storage
    BY <1>2, <1>5, Zenon DEF ContextOK
  <1>7. \A var \in {TSC, STC} \cap DOMAIN new : new[var] \in 1..k
    BY <1>5, VarFacts, Zenon DEF ContextOK
  <1>8. \A t \in Nat : CVar(t) \in DOMAIN new => t \in 1..k /\ new[CVar(t)] \subseteq {t}
    <2> TAKE t \in Nat
    <2>1. CVar(t) # Executors
      BY VarFacts, Zenon
    <2> QED  BY <2>1, <1>5 DEF ContextOK
  <1>9. RawCurrent(new) = value
    BY <1>1, <1>2, <1>5 DEF RawCurrent
  <1>10. ContextOK(new, k)
    BY <1>4, <1>6, <1>7, <1>8, <1>9 DEF ContextOK
  <1>11. new[Executors].ident = ident
    BY <1>2, <1>5
  <1> QED  BY <1>5, <1>9, <1>10, <1>11 DEF CurrentSet

\* Entering a context manager, and a thread_critical Local in async code.
LEMMA SetOther ==
    ASSUME NEW k \in Nat, NEW ctx, ContextOK(ctx, k),
           NEW var \in ContextVars, var \notin {Executors, Value}, NEW value \in Stored,
           var \in {TSC, STC} => value \in 1..k,
           \A t \in Nat : var = CVar(t) => t \in 1..k /\ value \subseteq {t},
           NEW new, new = Set(ctx, var, value)
    PROVE  /\ ContextOK(new, k)
           /\ RawCurrent(new) = RawCurrent(ctx)
           /\ \A v : v \in DOMAIN new <=> v \in DOMAIN ctx \/ v = var
           /\ \A v \in DOMAIN ctx : v # var => new[v] = ctx[v]
  <1>1. new \in Contexts
    BY SetType DEF ContextOK, Contexts, Stored
  <1>2. /\ DOMAIN new = DOMAIN ctx \cup {var}
        /\ new[var] = value
        /\ \A v \in DOMAIN ctx : v # var => new[v] = ctx[v]
    BY DEF Set
  <1>3. \A v \in {Executors, Value} \cap DOMAIN new : new[v] \in Storage
    BY <1>2, Zenon DEF ContextOK
  <1>4. \A v \in {TSC, STC} \cap DOMAIN new : new[v] \in 1..k
    <2> TAKE v \in {TSC, STC} \cap DOMAIN new
    <2>1. CASE v # var
      BY <2>1, <1>2 DEF ContextOK
    <2>2. CASE v = var
      BY <2>2, <1>2
    <2> QED  BY <2>1, <2>2
  <1>5. \A t \in Nat : CVar(t) \in DOMAIN new => t \in 1..k /\ new[CVar(t)] \subseteq {t}
    <2> SUFFICES ASSUME NEW t \in Nat, CVar(t) \in DOMAIN new
                 PROVE  t \in 1..k /\ new[CVar(t)] \subseteq {t}
      OBVIOUS
    <2>1. CASE CVar(t) # var
      BY <2>1, <1>2 DEF ContextOK
    <2>2. CASE CVar(t) = var
      BY <2>2, <1>2
    <2> QED  BY <2>1, <2>2
  <1>6. RawCurrent(new) = RawCurrent(ctx)
    <2>1. (Executors \in DOMAIN new <=> Executors \in DOMAIN ctx)
          /\ (Executors \in DOMAIN ctx => new[Executors] = ctx[Executors])
      BY <1>2
    <2> QED  BY <2>1, Zenon DEF RawCurrent
  <1>7. ContextOK(new, k)
    BY <1>1, <1>3, <1>4, <1>5, <1>6 DEF ContextOK
  <1> QED  BY <1>2, <1>6, <1>7

\* Leaving a context manager.
Without(ctx, var) == [v \in DOMAIN ctx \ {var} |-> ctx[v]]

LEMMA Unset ==
    ASSUME NEW k \in Nat, NEW ctx, ContextOK(ctx, k), NEW var \in {TSC, STC},
           NEW new, new = Without(ctx, var)
    PROVE  /\ ContextOK(new, k)
           /\ RawCurrent(new) = RawCurrent(ctx)
           /\ \A v : v \in DOMAIN new <=> v \in DOMAIN ctx /\ v # var
           /\ \A v \in DOMAIN new : new[v] = ctx[v]
           /\ var \notin {Executors, Value}
  <1>1. new \in Contexts
    BY WithoutType DEF ContextOK, Contexts, Without
  <1>2. /\ DOMAIN new = DOMAIN ctx \ {var}
        /\ \A v \in DOMAIN new : v \in DOMAIN ctx /\ new[v] = ctx[v]
    BY DEF Without
  <1>3. \A v \in {Executors, Value} \cap DOMAIN new : new[v] \in Storage
    BY <1>2, Zenon DEF ContextOK
  <1>4. \A v \in {TSC, STC} \cap DOMAIN new : new[v] \in 1..k
    BY <1>2 DEF ContextOK
  <1>5. \A t \in Nat : CVar(t) \in DOMAIN new => t \in 1..k /\ new[CVar(t)] \subseteq {t}
    BY <1>2 DEF ContextOK
  <1>6. RawCurrent(new) = RawCurrent(ctx)
    <2>1. (Executors \in DOMAIN new <=> Executors \in DOMAIN ctx)
          /\ (Executors \in DOMAIN ctx => new[Executors] = ctx[Executors])
      BY <1>2, VarFacts
    <2> QED  BY <2>1, Zenon DEF RawCurrent
  <1>7. ContextOK(new, k)
    BY <1>1, <1>3, <1>4, <1>5, <1>6 DEF ContextOK
  <1> QED  BY <1>2, <1>6, <1>7, VarFacts

\* Bringing a context over.
Restored(new, into, ctx, ident, k) ==
    /\ ContextOK(new, k)
    /\ RawCurrent(new) = IF Executors \in DOMAIN ctx THEN RawCurrent(ctx) ELSE RawCurrent(into)
    /\ \A v : v \in DOMAIN new <=> v \in DOMAIN ctx \/ v \in DOMAIN into
    /\ \A v \in DOMAIN ctx \cap {Executors, Value} :
          new[v].ident = ident /\ new[v].data = ctx[v].data
    /\ \A v \in DOMAIN ctx : v \notin {Executors, Value} => new[v] = ctx[v]
    /\ \A v \in DOMAIN into \ DOMAIN ctx : new[v] = into[v]

LEMMA RestoreTo ==
    ASSUME NEW k \in Nat, NEW into, ContextOK(into, k), NEW ctx, ContextOK(ctx, k),
           NEW ident \in Nat, NEW new, new = Restore(into, ctx, ident)
    PROVE  Restored(new, into, ctx, ident, k)
  <1>1. \A v \in DOMAIN ctx \cap {Executors, Value} : new[v] \in Storage
    <2> TAKE v \in DOMAIN ctx \cap {Executors, Value}
    <2>1. ctx[v].data \in Datas
      BY DEF ContextOK, Storage, Datas
    <2>2. new[v] = [ident |-> ident, data |-> ctx[v].data]
      BY VarFacts DEF Restore, Rehome
    <2>3. [ident |-> ident, data |-> ctx[v].data] \in Storage
      BY <2>1, StorageType
    <2> QED  BY <2>2, <2>3, Zenon
  <1>2. DOMAIN ctx \subseteq ContextVars /\ DOMAIN into \subseteq ContextVars
    BY PartialFacts DEF ContextOK, Contexts
  <1>3. \A v \in DOMAIN ctx \cup DOMAIN into : new[v] \in Stored
    <2> TAKE v \in DOMAIN ctx \cup DOMAIN into
    <2>1. CASE v \in DOMAIN ctx \cap {Executors, Value}
      BY <1>1, <2>1, Zenon DEF Stored
    <2>2. CASE v \in DOMAIN ctx /\ v \notin {Executors, Value}
      <3>1. new[v] = ctx[v]
        BY <2>2, RestoreFacts
      <3> QED  BY <2>2, <3>1, PartialFacts DEF ContextOK, Contexts, Stored
    <2>3. CASE v \in DOMAIN into \ DOMAIN ctx
      <3>1. new[v] = into[v]
        BY <2>3, RestoreFacts
      <3> QED  BY <2>3, <3>1, PartialFacts DEF ContextOK, Contexts, Stored
    <2> QED  BY <2>1, <2>2, <2>3
  <1>4. DOMAIN new = DOMAIN ctx \cup DOMAIN into
    BY DEF Restore
  <1>5. new \in Contexts
    <2>1. new = [v \in DOMAIN new |-> new[v]]
      BY DEF Restore
    <2>2. new \in [DOMAIN new -> Stored]
      BY <1>3, <1>4, <2>1
    <2> QED  BY <1>2, <1>4, <2>2, PartialIntro DEF Contexts, Stored
  <1>6. \A v \in DOMAIN ctx : v \notin {Executors, Value} => new[v] = ctx[v]
    BY RestoreFacts
  <1>7. \A v \in DOMAIN into \ DOMAIN ctx : new[v] = into[v]
    BY RestoreFacts
  <1>8. \A v \in DOMAIN ctx \cap {Executors, Value} : new[v].data = ctx[v].data
    BY RestoreFacts
  <1>9. \A v \in {Executors, Value} \cap DOMAIN new : new[v] \in Storage
    BY <1>1, <1>4, <1>7, Zenon DEF ContextOK
  <1>10. \A v \in {TSC, STC} \cap DOMAIN new : new[v] \in 1..k
    BY <1>4, <1>6, <1>7, VarFacts DEF ContextOK
  <1>11. \A t \in Nat : CVar(t) \in DOMAIN new => t \in 1..k /\ new[CVar(t)] \subseteq {t}
    <2> SUFFICES ASSUME NEW t \in Nat, CVar(t) \in DOMAIN new
                 PROVE  t \in 1..k /\ new[CVar(t)] \subseteq {t}
      OBVIOUS
    <2>1. CVar(t) \notin {Executors, Value}
      BY VarFacts
    <2> QED  BY <2>1, <1>4, <1>6, <1>7 DEF ContextOK
  <1>12. RawCurrent(new) = IF Executors \in DOMAIN ctx THEN RawCurrent(ctx) ELSE RawCurrent(into)
    BY <1>4, <1>7, <1>8 DEF RawCurrent
  <1>13. RawCurrent(new) \in 0..k
    BY <1>12 DEF ContextOK
  <1>14. ContextOK(new, k)
    BY <1>5, <1>9, <1>10, <1>11, <1>13 DEF ContextOK
  <1>15. \A v \in DOMAIN ctx \cap {Executors, Value} : new[v].ident = ident
    BY RestoreFacts
  <1> QED  BY <1>4, <1>6, <1>7, <1>8, <1>12, <1>14, <1>15 DEF Restored

-----------------------------------------------------------------------------
(* What steps have in common. *)

\* What a piece of code keeps for ever.
SameCode(q, r) ==
    /\ q.caller = r.caller /\ q.thread = r.thread /\ q.loop = r.loop
    /\ q.root = r.root /\ q.sees = r.sees /\ q.via = r.via

Keeps(k) ==
    /\ code' \in Seq(Codes) /\ thr' \in Seq(Threads)
    /\ Len(code') = k /\ Len(thr') = k
    /\ \A c \in DOMAIN code : SameCode(code'[c], code[c])
    /\ \A t \in DOMAIN thr : thr'[t].ident = thr[t].ident /\ thr'[t].base = thr[t].base

LEMMA Domains ==
    ASSUME TypeInv
    PROVE  /\ Len(code) \in Nat /\ DOMAIN code = 1..Len(code)
           /\ Len(thr) = Len(code) /\ DOMAIN thr = 1..Len(code)
           /\ \A c \in 1..Len(code) : code[c] \in Codes
           /\ \A t \in 1..Len(code) : thr[t] \in Threads
  BY DEF TypeInv

LEMMA NextDomains ==
    ASSUME NEW k, Keeps(k)
    PROVE  /\ k \in Nat /\ DOMAIN code' = 1..k /\ DOMAIN thr' = 1..k
           /\ \A c \in 1..k : code'[c] \in Codes
           /\ \A t \in 1..k : thr'[t] \in Threads
  BY DEF Keeps

LEMMA CodeFields ==
    ASSUME NEW r \in Codes
    PROVE  /\ r.pc \in Pcs /\ r.caller \in Nat /\ r.thread \in Nat /\ r.loop \in Nat
           /\ r.ctx \in Contexts /\ r.root \in Nat /\ r.sees \in SUBSET Nat /\ r.token \in Tokens
           /\ r.on \in Nat /\ r.executor \in Nat /\ r.old \in Nat /\ r.via \in Nat
  BY DEF Codes

LEMMA ThreadFields ==
    ASSUME NEW r \in Threads
    PROVE  /\ r.ident \in Nat /\ r.main_event_loop \in Nat /\ r.base \in Contexts
           /\ r.shut \in BOOLEAN /\ r.ended \in BOOLEAN /\ r.critical \in SUBSET Nat
  BY DEF Threads

\* The pieces of code and the threads that a piece of code refers to.
LEMMA References ==
    ASSUME Inv, NEW c \in 1..Len(code)
    PROVE  /\ code[c].caller \in 0..Len(code) /\ code[c].caller < c
           /\ code[c].loop \in 0..Len(code)
           /\ code[c].thread \in 1..Len(code)
           /\ code[c].via \in 0..Len(code) /\ code[c].on \in 0..Len(code)
           /\ code[c].executor \in 0..Len(code) /\ code[c].old \in 0..Len(code)
           /\ Ident(c) \in Nat
  <1>1. code[c] \in Codes /\ DOMAIN code = 1..Len(code) /\ Len(code) \in Nat
    BY Domains DEF Inv
  <1>2. /\ code[c].caller \in Nat /\ code[c].loop \in Nat /\ code[c].via \in Nat
    BY <1>1, CodeFields
  <1>3. /\ code[c].caller < c /\ code[c].loop <= Len(code) /\ code[c].via <= Len(code)
        /\ code[c].thread \in DOMAIN code
    BY <1>1 DEF Inv, PlaceInv, PlaceOf
  <1>4. {code[c].on, code[c].executor, code[c].old} \subseteq 0..Len(code)
    BY <1>1 DEF Inv, StateInv, CodeOK
  <1>5. thr[code[c].thread] \in Threads
    BY <1>1, <1>3, Domains DEF Inv
  <1> QED  BY <1>1, <1>2, <1>3, <1>4, <1>5, ThreadFields DEF Ident

\* Where code comes from and runs stays as it is, if it is right for the new code.
LEMMA PlaceKept ==
    ASSUME Inv, NEW k, Keeps(k), 
           k = Len(code) \/ (k = Len(code) + 1 /\ PlaceOf(k)')
    PROVE  PlaceInv'
  <1>1. /\ Len(code) \in Nat /\ DOMAIN code = 1..Len(code) /\ DOMAIN code' = 1..k /\ Len(code') = k
        /\ Len(code) >= 1
    BY Domains, NextDomains DEF Inv, TypeInv, Keeps
  <1>2. \A c \in 1..Len(code) :
           /\ code'[c].caller = code[c].caller /\ code'[c].thread = code[c].thread
           /\ code'[c].loop = code[c].loop /\ code'[c].root = code[c].root
           /\ code'[c].sees = code[c].sees /\ code'[c].via = code[c].via
    BY <1>1 DEF Keeps, SameCode
  <1>3. \A t \in 1..Len(code) : Own(t)' <=> Own(t)
    BY <1>2 DEF Own
  <1>4. ASSUME NEW c \in 1..Len(code)
        PROVE  PlaceOf(c)'
    <2>1. PlaceOf(c)
      BY <1>1 DEF Inv, PlaceInv
    <2>2. /\ code[c].caller \in 0..Len(code) /\ code[c].loop \in 0..Len(code)
          /\ code[c].thread \in 1..Len(code) /\ code[c].via \in Nat
      BY References, CodeFields, Domains DEF Inv
    <2>3. /\ code[c].loop # 0 => code[c].loop \in 1..Len(code)
          /\ code[c].caller # 0 => code[c].caller \in 1..Len(code)
          /\ code[c].caller # 0 /\ code[code[c].caller].caller # 0
                => code[code[c].caller].caller \in 1..Len(code)
      BY <2>2, References
    <2>4. /\ code'[c].caller < c
          /\ code'[c].loop <= Len(code') /\ code'[c].via <= Len(code')
          /\ code'[c].thread \in DOMAIN code' /\ code'[c].root \in code'[c].sees
          /\ code'[c].sees \subseteq DOMAIN code'
      BY <1>1, <1>2, <2>1, <2>2 DEF PlaceOf
    <2>5. code'[c].caller # 0 =>
          /\ code'[c].root = code'[code'[c].caller].root
          /\ code'[c].sees = code'[code'[c].caller].sees
          /\ code'[c].loop = 0 <=> code'[code'[c].caller].loop # 0
      BY <1>2, <2>1, <2>3, Zenon DEF PlaceOf
    <2>6. code'[c].loop # 0 =>
          /\ code'[code'[c].loop].loop # 0
          /\ code'[c].thread = code'[code'[c].loop].thread
          /\ ~Own(code[c].thread)'
      BY <1>2, <1>3, <2>1, <2>2, <2>3, Zenon DEF PlaceOf
    <2>7. Own(c)' => code'[c].thread = c
      BY <1>2, <1>3, <2>1 DEF PlaceOf
    <2>8. code'[c].loop = 0 /\ code'[c].caller # 0 =>
            LET outer == code'[code'[c].caller].caller
            IN  IF outer = 0 THEN ~Own(code[c].thread)'
                ELSE code'[c].thread = code'[outer].thread
      <3> SUFFICES ASSUME code'[c].loop = 0, code'[c].caller # 0
                   PROVE  IF code'[code'[c].caller].caller = 0 THEN ~Own(code[c].thread)'
                          ELSE code'[c].thread = code'[code'[code'[c].caller].caller].thread
        OBVIOUS
      <3>1. PICK p : p = code[c].caller
        OBVIOUS
      <3>2. PICK o : o = code[p].caller
        OBVIOUS
      <3>3. code[c].loop = 0 /\ p # 0 /\ p \in 1..Len(code) /\ code'[c].caller = p /\ code'[p].caller = o
        BY <1>2, <2>3, <3>1, <3>2
      <3>4. IF o = 0 THEN ~Own(code[c].thread) ELSE code[c].thread = code[o].thread
        BY <2>1, <3>1, <3>2, <3>3 DEF PlaceOf
      <3>5. o # 0 => o \in 1..Len(code)
        BY <2>3, <3>1, <3>2, <3>3
      <3>6. Own(code[c].thread)' <=> Own(code[c].thread)
        BY <1>2, <1>3, <2>2, Zenon
      <3> QED  BY <1>2, <3>3, <3>4, <3>5, <3>6, Zenon
    <2> QED  BY <2>4, <2>5, <2>6, <2>7, <2>8, <1>2 DEF PlaceOf
  <1>5. code'[1].thread = 1
    BY <1>1, <1>2 DEF Inv, PlaceInv
  <1> QED  BY <1>1, <1>4, <1>5 DEF PlaceInv


\* One more piece of code leaves the indices there were.
LEMMA IndexKept ==
    ASSUME NEW m \in Nat, NEW k, k = m \/ k = m + 1, NEW c \in 1..m
    PROVE  c \in 1..k
  OBVIOUS

\* What is kept, in the terms of the invariant.
LEMMA KeptFacts ==
    ASSUME Inv, NEW k, Keeps(k), k = Len(code) \/ k = Len(code) + 1
    PROVE  /\ Len(code) \in Nat /\ DOMAIN code = 1..Len(code) /\ DOMAIN code' = 1..k
           /\ DOMAIN thr = 1..Len(code) /\ DOMAIN thr' = 1..k /\ k \in Nat
           /\ \A c \in 1..Len(code) :
                 /\ c \in 1..k
                 /\ code'[c].caller = code[c].caller /\ code'[c].thread = code[c].thread
                 /\ code'[c].loop = code[c].loop /\ code'[c].root = code[c].root
                 /\ code'[c].sees = code[c].sees /\ code'[c].via = code[c].via
                 /\ Own(c)' <=> Own(c)
                 /\ Ident(c)' = Ident(c)
  <1>1. /\ Len(code) \in Nat /\ DOMAIN code = 1..Len(code) /\ DOMAIN code' = 1..k
        /\ DOMAIN thr = 1..Len(code) /\ DOMAIN thr' = 1..k /\ k \in Nat
    BY Domains, NextDomains DEF Inv
  <1>2. ASSUME NEW c \in 1..Len(code)
        PROVE  /\ c \in 1..k
               /\ code'[c].caller = code[c].caller /\ code'[c].thread = code[c].thread
               /\ code'[c].loop = code[c].loop /\ code'[c].root = code[c].root
               /\ code'[c].sees = code[c].sees /\ code'[c].via = code[c].via
    <2>1. c \in 1..k
      <3>1. Len(code) \in Nat
        BY <1>1, Zenon
      <3> QED  BY <3>1, IndexKept, Zenon
    <2>2. SameCode(code'[c], code[c])
      BY <1>1, <1>2 DEF Keeps
    <2> QED  BY <2>1, <2>2 DEF SameCode
  <1>3. ASSUME NEW c \in 1..Len(code)
        PROVE  (Own(c)' <=> Own(c)) /\ Ident(c)' = Ident(c)
    <2>1. code[c].thread \in 1..Len(code)
      BY References
    <2>2. thr'[code[c].thread].ident = thr[code[c].thread].ident
      BY <1>1, <2>1 DEF Keeps
    <2> QED  BY <1>2, <2>2 DEF Own, Ident
  <1> QED  BY <1>1, <1>2, <1>3

\* Code that keeps its state too, apart from the executor of its context.
Same(d) ==
    /\ d \in DOMAIN code
    /\ code'[d].pc = code[d].pc /\ code'[d].ctx = code[d].ctx /\ code'[d].token = code[d].token
    /\ code'[d].on = code[d].on /\ code'[d].old = code[d].old

SameThread(t) ==
    /\ t \in DOMAIN thr
    /\ thr'[t].main_event_loop = thr[t].main_event_loop
    /\ thr'[t].critical = thr[t].critical

\* What all steps have in common.
Changes(k) ==
    /\ Keeps(k) /\ k \in {Len(code), Len(code) + 1}
    /\ leaked \subseteq leaked' /\ raced \subseteq raced'
    /\ \A d \in DOMAIN code :
          /\ code[d].token \in {"outer", "left"} => code'[d].token \in {"outer", "left"}
          /\ code'[d].token = "outer" => code[d].token \in {"outer", "none"}
          /\ code[d].pc = "done" => code'[d].pc = "done"
          /\ code'[d].executor \in 0..k
    /\ \A t \in DOMAIN thr : thr[t].shut => thr'[t].shut

LEMMA ChangeFacts ==
    ASSUME Inv, NEW k, Changes(k)
    PROVE  /\ Keeps(k) /\ (k = Len(code) \/ k = Len(code) + 1)
           /\ Len(code) \in Nat /\ DOMAIN code = 1..Len(code) /\ DOMAIN code' = 1..k
           /\ DOMAIN thr = 1..Len(code) /\ DOMAIN thr' = 1..k /\ k \in Nat
           /\ Len(code') = k /\ Len(thr') = k
           /\ \A d \in 1..k : d \in 1..Len(code) \/ (d = k /\ k = Len(code) + 1)
  <1>1. Keeps(k) /\ (k = Len(code) \/ k = Len(code) + 1)
    BY DEF Changes
  <1>2. /\ Len(code) \in Nat /\ DOMAIN code = 1..Len(code) /\ DOMAIN code' = 1..k
        /\ DOMAIN thr = 1..Len(code) /\ DOMAIN thr' = 1..k /\ k \in Nat
    BY <1>1, KeptFacts
  <1>3. Len(code') = k /\ Len(thr') = k
    BY <1>1 DEF Keeps
  <1>4. \A d \in 1..k : d \in 1..Len(code) \/ (d = k /\ k = Len(code) + 1)
    <2>1. Len(code) \in Nat /\ (k = Len(code) \/ k = Len(code) + 1)
      BY <1>1, <1>2
    <2> QED  BY <2>1
  <1> QED  BY <1>1, <1>2, <1>3, <1>4

LEMMA CurrentKept ==
    ASSUME Inv, NEW k, Changes(k),
           \A d \in 1..k : Same(d) \/ code'[d].pc = "done" \/ CurrentOf(d)'
    PROVE  CurrentInv'
  <1>1. /\ DOMAIN code = 1..Len(code) /\ DOMAIN code' = 1..k /\ Keeps(k)
        /\ k = Len(code) \/ k = Len(code) + 1
    BY ChangeFacts
  <1>2. ASSUME NEW d \in 1..k, Same(d), code'[d].pc # "done"
        PROVE  CurrentOf(d)'
    <2>1. d \in 1..Len(code) /\ code'[d].pc = code[d].pc /\ code'[d].ctx = code[d].ctx
          /\ code'[d].old = code[d].old
      BY <1>1, <1>2 DEF Same
    <2>2. CurrentOf(d)
      BY <1>1, <1>2, <2>1 DEF Inv, CurrentInv
    <2>3. code'[d].loop = code[d].loop /\ code'[d].caller = code[d].caller
      BY <1>1, <2>1, KeptFacts
    <2>4. code[d].caller # 0 => code'[code[d].caller].caller = code[code[d].caller].caller
      BY <1>1, <2>1, References, KeptFacts
    <2>5. (Own(d)' <=> Own(d)) /\ Ident(d)' = Ident(d)
      BY <1>1, <2>1, KeptFacts
    <2>6. Settled(d)' <=> Settled(d)
      BY <2>1, <2>3 DEF Settled, Started
    <2> QED  BY <2>1, <2>2, <2>3, <2>4, <2>5, <2>6, Zenon DEF CurrentOf
  <1> QED  BY <1>1, <1>2 DEF CurrentInv

LEMMA ViewKept ==
    ASSUME Inv, NEW k, Changes(k), \A d \in 1..k : Same(d) \/ ViewOf(d)'
    PROVE  ViewInv'
  <1>1. /\ DOMAIN code = 1..Len(code) /\ DOMAIN code' = 1..k /\ Keeps(k)
        /\ k = Len(code) \/ k = Len(code) + 1
    BY ChangeFacts
  <1>2. ASSUME NEW d \in 1..k, Same(d)
        PROVE  ViewOf(d)'
    <2>1. d \in 1..Len(code) /\ code'[d].pc = code[d].pc /\ code'[d].ctx = code[d].ctx
      BY <1>1, <1>2 DEF Same
    <2>2. ViewOf(d)
      BY <1>1, <2>1 DEF Inv, ViewInv
    <2>3. /\ code'[d].caller = code[d].caller /\ code'[d].sees = code[d].sees
          /\ code'[d].root = code[d].root
      BY <1>1, <2>1, KeptFacts
    <2>4. Settled(d)' <=> Settled(d)
      BY <2>1, <2>3 DEF Settled, Started
    <2>5. ~Settled(d) => code[d].caller \in 1..Len(code)
      BY <2>1, References DEF Settled
    <2>6. Home(d)' = Home(d)
      <3>1. \A e \in 1..Len(code) : Ident(e)' = Ident(e)
        BY <1>1, KeptFacts
      <3> QED  BY <3>1, <2>1, <2>3, <2>4, <2>5, Zenon DEF Home
    <2>7. leaked \subseteq leaked'
      BY DEF Changes
    <2> QED  BY <2>1, <2>2, <2>3, <2>6, <2>7, Zenon DEF ViewOf
  <1> QED  BY <1>1, <1>2 DEF ViewInv

LEMMA SharedKept ==
    ASSUME Inv, NEW k, Changes(k),
           \A d \in 1..k :
              \/ SharedOf(d)'
              \/ /\ Same(d)
                 /\ code[d].caller # 0 /\ code[d].pc # "done" =>
                       code'[code[d].caller].ctx = code[code[d].caller].ctx
    PROVE  SharedInv'
  <1>1. /\ DOMAIN code = 1..Len(code) /\ DOMAIN code' = 1..k /\ Keeps(k)
        /\ k = Len(code) \/ k = Len(code) + 1
    BY ChangeFacts
  <1>2. ASSUME NEW d \in 1..k, Same(d),
               code[d].caller # 0 /\ code[d].pc # "done" =>
                   code'[code[d].caller].ctx = code[code[d].caller].ctx
        PROVE  SharedOf(d)'
    <2>1. d \in 1..Len(code) /\ code'[d].pc = code[d].pc /\ code'[d].ctx = code[d].ctx
      BY <1>1, <1>2 DEF Same
    <2>2. PICK e : e = code[d].caller
      OBVIOUS
    <2>3. code'[d].caller = e
      BY <1>1, <2>1, <2>2, KeptFacts
    <2>4. SharedOf(d)
      BY <1>1, <2>1 DEF Inv, SharedInv
    <2>5. Started(d)' <=> Started(d)
      BY <2>1 DEF Started
    <2> QED  BY <1>2, <2>1, <2>2, <2>3, <2>4, <2>5, Zenon DEF SharedOf, SharedWith
  <1> QED  BY <1>1, <1>2 DEF SharedInv

LEMMA StateKept ==
    ASSUME Inv, NEW k, Changes(k),
           \A d \in 1..k : Same(d) \/ CodeOK(d)',
           \A t \in 1..k : SameThread(t) \/ ThreadOK(t)'
    PROVE  StateInv'
  <1>1. /\ DOMAIN code = 1..Len(code) /\ DOMAIN code' = 1..k /\ Keeps(k)
        /\ k = Len(code) \/ k = Len(code) + 1
        /\ DOMAIN thr = 1..Len(code) /\ DOMAIN thr' = 1..k
        /\ Len(code) \in Nat /\ Len(code') = k
    BY ChangeFacts
  <1>2. ASSUME NEW ctx, ContextOK(ctx, Len(code))
        PROVE  ContextOK(ctx, k)
    BY <1>1, <1>2, ContextGrows
  <1>3. ASSUME NEW d \in 1..k, Same(d)
        PROVE  CodeOK(d)'
    <2>1. d \in 1..Len(code) /\ code'[d].pc = code[d].pc /\ code'[d].ctx = code[d].ctx
          /\ code'[d].on = code[d].on /\ code'[d].old = code[d].old
      BY <1>1, <1>3 DEF Same
    <2>2. CodeOK(d)
      BY <1>1, <2>1 DEF Inv, StateInv
    <2>3. code'[d].caller = code[d].caller /\ code'[d].loop = code[d].loop
      BY <1>1, <2>1, KeptFacts
    <2>4. {code'[d].on, code'[d].executor, code'[d].old} \subseteq 0..k
      <3>1. code'[d].executor \in 0..k
        BY <1>1, <2>1 DEF Changes
      <3>2. code[d].on \in 0..Len(code) /\ code[d].old \in 0..Len(code)
        BY <2>2 DEF CodeOK
      <3> QED  BY <1>1, <2>1, <3>1, <3>2
    <2>5. ContextOK(code[d].ctx, k)
      BY <1>2, <2>2 DEF CodeOK
    <2> QED  BY <1>1, <2>1, <2>2, <2>3, <2>4, <2>5, Zenon DEF CodeOK, Started
  <1>4. ASSUME NEW t \in 1..k, SameThread(t)
        PROVE  ThreadOK(t)'
    <2>1. /\ t \in 1..Len(code) /\ thr'[t].main_event_loop = thr[t].main_event_loop
          /\ thr'[t].critical = thr[t].critical
      BY <1>1, <1>4 DEF SameThread
    <2>2. thr'[t].ident = thr[t].ident /\ thr'[t].base = thr[t].base
      BY <1>1, <2>1 DEF Keeps
    <2>3. ThreadOK(t)
      BY <1>1, <2>1 DEF Inv, StateInv
    <2>4. thr[t].main_event_loop \in Nat /\ thr[t].ident \in Nat
      BY <2>1, Domains, ThreadFields DEF Inv
    <2>5. thr[t].main_event_loop # 0 => thr[t].main_event_loop \in 1..Len(code)
      BY <1>1, <2>3, <2>4 DEF ThreadOK
    <2>6. thr[t].main_event_loop # 0 => code'[thr[t].main_event_loop].loop # 0
      BY <1>1, <2>3, <2>5, KeptFacts DEF ThreadOK
    <2>7. thr[t].main_event_loop <= k /\ thr[t].ident <= k
      BY <1>1, <2>3, <2>4 DEF ThreadOK
    <2>8. ContextOK(thr[t].base, k)
      BY <1>2, <2>3 DEF ThreadOK
    <2> QED  BY <1>1, <2>1, <2>2, <2>3, <2>6, <2>7, <2>8, Zenon DEF ThreadOK
  <1> QED  BY <1>1, <1>3, <1>4 DEF StateInv

\* Who was a manager is one.
LEMMA StillEntered ==
    ASSUME Inv, NEW k, Changes(k), NEW ctx, ContextOK(ctx, Len(code)), Entered(ctx)
    PROVE  \A var \in {TSC, STC} \cap DOMAIN ctx : code'[ctx[var]].token \in {"outer", "left"}
  <1> TAKE var \in {TSC, STC} \cap DOMAIN ctx
  <1>1. DOMAIN code = 1..Len(code)
    BY ChangeFacts
  <1>2. ctx[var] \in DOMAIN code /\ code[ctx[var]].token \in {"outer", "left"}
    BY <1>1 DEF ContextOK, Entered
  <1> QED  BY <1>2 DEF Changes

LEMMA ManagerKept ==
    ASSUME Inv, NEW k, Changes(k),
           \A d \in 1..k : Same(d) \/ Entered(code[d].ctx)',
           k = Len(code) \/ Entered(thr[k].base)'
    PROVE  ManagerInv'
  <1>1. /\ DOMAIN code = 1..Len(code) /\ DOMAIN code' = 1..k /\ Keeps(k)
        /\ DOMAIN thr = 1..Len(code) /\ DOMAIN thr' = 1..k
        /\ \A d \in 1..k : d \in 1..Len(code) \/ (d = k /\ k = Len(code) + 1)
        /\ Len(code) \in Nat
    BY ChangeFacts
  <1>2. ManagerInv /\ StateInv
    BY DEF Inv
  <1>3. ASSUME NEW d \in 1..k, Same(d)
        PROVE  Entered(code[d].ctx)'
    <2>1. d \in 1..Len(code) /\ code'[d].ctx = code[d].ctx
      BY <1>1, <1>3 DEF Same
    <2>2. PICK ctx : ctx = code[d].ctx
      OBVIOUS
    <2>3. ContextOK(ctx, Len(code)) /\ Entered(ctx)
      BY <1>1, <1>2, <2>1, <2>2 DEF ManagerInv, StateInv, CodeOK
    <2>4. \A var \in {TSC, STC} \cap DOMAIN ctx : code'[ctx[var]].token \in {"outer", "left"}
      BY <2>3, StillEntered
    <2> QED  BY <2>1, <2>2, <2>4, Zenon DEF Entered
  <1>4. ASSUME NEW t \in 1..k
        PROVE  Entered(thr[t].base)'
    <2>0. CASE t \notin 1..Len(code)
      <3>1. t = k /\ k # Len(code)
        BY <1>1, <2>0
      <3> QED  BY <3>1
    <2>1. CASE t \in 1..Len(code)
      <3>1. thr'[t].base = thr[t].base
        BY <1>1, <2>1 DEF Keeps
      <3>2. PICK ctx : ctx = thr[t].base
        OBVIOUS
      <3>3. ContextOK(ctx, Len(code)) /\ Entered(ctx)
        BY <1>1, <1>2, <2>1, <3>2 DEF ManagerInv, StateInv, ThreadOK
      <3>4. \A var \in {TSC, STC} \cap DOMAIN ctx : code'[ctx[var]].token \in {"outer", "left"}
        BY <3>3, StillEntered
      <3> QED  BY <3>1, <3>2, <3>4, Zenon DEF Entered
    <2> QED  BY <2>0, <2>1
  <1> QED  BY <1>1, <1>3, <1>4, Zenon DEF ManagerInv

\* No thread ends.
LEMMA EndedKept ==
    ASSUME Inv, NEW k, Changes(k),
           \A t \in 1..Len(code) : thr'[t].ended = thr[t].ended,
           k = Len(code) \/ (~thr'[k].ended /\ code'[k].thread \in 1..k /\ ~thr'[code'[k].thread].ended)
    PROVE  EndedInv'
  <1>1. /\ DOMAIN code = 1..Len(code) /\ DOMAIN code' = 1..k /\ Keeps(k)
        /\ DOMAIN thr = 1..Len(code) /\ DOMAIN thr' = 1..k
        /\ \A d \in 1..k : d \in 1..Len(code) \/ (d = k /\ k = Len(code) + 1)
        /\ Len(code) \in Nat /\ (k = Len(code) \/ k = Len(code) + 1)
    BY ChangeFacts
  <1>2. EndedInv
    BY DEF Inv
  <1>3. ASSUME NEW t \in 1..k, thr'[t].ended
        PROVE  /\ Own(t)' \/ thr'[t].shut
               /\ \A c \in 1..k : code'[c].thread = t => code'[c].pc = "done"
    <2>1. t \in 1..Len(code)
      BY <1>1, <1>3
    <2>2. thr[t].ended
      BY <1>3, <2>1
    <2>3. /\ Own(t) \/ thr[t].shut
          /\ \A c \in 1..Len(code) : code[c].thread = t => code[c].pc = "done"
      BY <1>1, <1>2, <2>1, <2>2 DEF EndedInv
    <2>4. Own(t)' \/ thr'[t].shut
      <3>1. Own(t)' <=> Own(t)
        BY <1>1, <2>1, KeptFacts
      <3>2. thr[t].shut => thr'[t].shut
        BY <1>1, <2>1 DEF Changes
      <3> QED  BY <2>3, <3>1, <3>2
    <2>5. ASSUME NEW c \in 1..k, code'[c].thread = t
          PROVE  code'[c].pc = "done"
      <3>1. c \in 1..Len(code)
        BY <1>1, <1>3, <2>5
      <3>2. code[c].thread = t
        BY <1>1, <2>5, <3>1, KeptFacts
      <3>3. code[c].pc = "done"
        BY <2>3, <3>1, <3>2
      <3> QED  BY <1>1, <3>1, <3>3 DEF Changes
    <2> QED  BY <2>4, <2>5
  <1> QED  BY <1>1, <1>3 DEF EndedInv

\* At most one context manager, y, is given a new executor.
ExecutorsKept(y, k) ==
    \A x \in 1..k :
       \/ code'[x].executor = 0
       \/ /\ x \in 1..Len(code) /\ code'[x].executor = code[x].executor
          /\ code[x].executor # 0 =>
                /\ thr'[code[x].executor].shut = thr[code[x].executor].shut
                /\ thr'[code[x].executor].ended = thr[code[x].executor].ended
       \/ /\ x = y /\ k = Len(code) + 1 /\ code'[x].executor = k
          /\ ~Own(k)' /\ ~thr'[k].shut /\ ~thr'[k].ended

LEMMA ExecutorKept ==
    ASSUME Inv, NEW k, Changes(k), NEW y, ExecutorsKept(y, k)
    PROVE  ExecutorInv'
  <1>1. /\ DOMAIN code = 1..Len(code) /\ DOMAIN code' = 1..k /\ Keeps(k)
        /\ Len(code) \in Nat /\ (k = Len(code) \/ k = Len(code) + 1)
    BY ChangeFacts
  <1>2. ExecutorInv
    BY DEF Inv
  <1>3. ASSUME NEW x \in 1..k, code'[x].executor # 0
        PROVE  /\ ~Own(code[x].executor)'
               /\ ~thr'[code'[x].executor].shut
               /\ ~thr'[code'[x].executor].ended
    <2>1. CASE code'[x].executor = k /\ ~Own(k)' /\ ~thr'[k].shut /\ ~thr'[k].ended
      BY <2>1, Zenon DEF Own
    <2>2. CASE /\ x \in 1..Len(code) /\ code'[x].executor = code[x].executor
               /\ code[x].executor # 0 =>
                     /\ thr'[code[x].executor].shut = thr[code[x].executor].shut
                     /\ thr'[code[x].executor].ended = thr[code[x].executor].ended
      <3>1. PICK t : t = code[x].executor
        OBVIOUS
      <3>2. t \in 1..Len(code) /\ t # 0 /\ code'[x].executor = t
        BY <1>3, <2>2, <3>1, References
      <3>3. ~Own(t) /\ ~thr[t].shut /\ ~thr[t].ended
        BY <1>1, <1>2, <2>2, <3>1, <3>2 DEF ExecutorInv
      <3>4. Own(t)' <=> Own(t)
        BY <1>1, <3>2, KeptFacts
      <3> QED  BY <2>2, <3>1, <3>2, <3>3, <3>4, Zenon DEF Own
    <2> QED  BY <1>3, <2>1, <2>2 DEF ExecutorsKept
  <1>4. ASSUME NEW x \in 1..k, NEW z \in 1..k,
               code'[x].executor = code'[z].executor, code'[x].executor # 0
        PROVE  x = z
    <2>1. \A u \in 1..Len(code) : code[u].executor \in 0..Len(code)
      BY References
    <2> QED  BY <1>1, <1>2, <1>4, <2>1 DEF ExecutorInv, ExecutorsKept
  <1> QED  BY <1>1, <1>3, <1>4, Zenon DEF ExecutorInv

LEMMA ExecutorSame ==
    ASSUME Inv, NEW k, Changes(k),
           \A x \in 1..k :
              \/ code'[x].executor = 0
              \/ /\ x \in 1..Len(code) /\ code'[x].executor = code[x].executor
                 /\ code[x].executor # 0 =>
                       /\ thr'[code[x].executor].shut = thr[code[x].executor].shut
                       /\ thr'[code[x].executor].ended = thr[code[x].executor].ended
    PROVE  ExecutorInv'
  <1>1. ExecutorsKept(0, k)
    BY Zenon DEF ExecutorsKept
  <1> QED  BY <1>1, ExecutorKept

\* An executor is replaced only by one made at the same time.
LEMMA ExecutorStays ==
    ASSUME Inv, NEW k, Changes(k),
           \A x \in 1..Len(code) : code'[x].token = "outer" /\ x \notin raced' =>
               code'[x].executor = code[x].executor \/ code[x].executor = 0,
           NEW x \in 1..Len(code), code[x].token \in {"outer", "left"},
           NEW t, t # 0, HasExecutor(x, t)
    PROVE  HasExecutor(x, t)'
  <1>1. DOMAIN code = 1..Len(code)
    BY ChangeFacts
  <1>2. code'[x].token = "outer" => code[x].token = "outer"
    BY <1>1 DEF Changes
  <1>3. x \notin raced' => x \notin raced
    BY DEF Changes
  <1> QED  BY <1>2, <1>3 DEF HasExecutor

LEMMA ViaKept ==
    ASSUME Inv, NEW k, Changes(k),
           \A x \in 1..Len(code) : code'[x].token = "outer" /\ x \notin raced' =>
               code'[x].executor = code[x].executor \/ code[x].executor = 0,
           \A d \in 1..k : Same(d) \/ LookOf(d)',
           k = Len(code) \/ ViaOf(k)'
    PROVE  ViaInv'
  <1>1. /\ DOMAIN code = 1..Len(code) /\ DOMAIN code' = 1..k /\ Keeps(k)
        /\ \A d \in 1..k : d \in 1..Len(code) \/ (d = k /\ k = Len(code) + 1)
        /\ Len(code) \in Nat /\ (k = Len(code) \/ k = Len(code) + 1)
    BY ChangeFacts
  <1>2. ViaInv /\ StateInv /\ ManagerInv
    BY DEF Inv
  <1>3. ASSUME NEW d \in 1..Len(code)
        PROVE  ViaOf(d)'
    <2> SUFFICES ASSUME code'[d].via # 0
                 PROVE  /\ code'[code'[d].via].token \in {"outer", "left"}
                        /\ HasExecutor(code[d].via, code[d].thread)'
      BY DEF ViaOf
    <2>1. PICK x : x = code[d].via
      OBVIOUS
    <2>2. PICK t : t = code[d].thread
      OBVIOUS
    <2>3. code'[d].via = x /\ code'[d].thread = t /\ x \in 1..Len(code) /\ t # 0
      BY <1>1, <2>1, <2>2, KeptFacts, References
    <2>4. code[x].token \in {"outer", "left"} /\ HasExecutor(x, t)
      BY <1>1, <1>2, <2>1, <2>2, <2>3 DEF ViaInv, ViaOf
    <2>5. code'[x].token \in {"outer", "left"}
      BY <1>1, <2>3, <2>4 DEF Changes
    <2>6. HasExecutor(x, t)'
      BY <2>3, <2>4, ExecutorStays
    <2> QED  BY <2>3, <2>5, <2>6, Zenon DEF HasExecutor
  <1>4. ASSUME NEW d \in 1..k, Same(d)
        PROVE  LookOf(d)'
    <2>1. d \in 1..Len(code) /\ code'[d].pc = code[d].pc /\ code'[d].ctx = code[d].ctx
          /\ code'[d].on = code[d].on
      BY <1>1, <1>4 DEF Same
    <2> SUFFICES ASSUME code[d].pc = "look", code[d].on # 0
                 PROVE  ~Own(code[d].on)' /\ HasExecutor(code[d].ctx[STC], code[d].on)'
      BY <2>1 DEF LookOf
    <2>2. PICK t : t = code[d].on
      OBVIOUS
    <2>3. PICK x : x = code[d].ctx[STC]
      OBVIOUS
    <2>4. CodeOK(d) /\ Entered(code[d].ctx)
      BY <1>1, <1>2, <2>1 DEF StateInv, ManagerInv
    <2>5. t \in 1..Len(code) /\ t # 0
      BY <2>1, <2>2, References
    <2>6. x \in 1..Len(code) /\ code[x].token \in {"outer", "left"}
      BY <2>3, <2>4 DEF CodeOK, ContextOK, Entered
    <2>7. ~Own(t) /\ HasExecutor(x, t)
      BY <1>1, <1>2, <2>1, <2>2, <2>3, <2>5 DEF ViaInv, LookOf
    <2>8. HasExecutor(x, t)'
      BY <2>5, <2>6, <2>7, ExecutorStays
    <2>9. ~Own(t)'
      BY <1>1, <2>5, <2>7, KeptFacts
    <2> QED  BY <2>1, <2>2, <2>3, <2>8, <2>9, Zenon DEF HasExecutor, Own
  <1> QED  BY <1>1, <1>3, <1>4 DEF ViaInv

\* Threads and the contexts that chose them never change.
LEMMA OneThreadKept ==
    ASSUME Inv, NEW k, Changes(k),
           k = Len(code) \/ \A d \in 1..Len(code) :
               code[d].via = code'[k].via /\ code'[k].via \notin {0} \cup raced'
                   => code[d].thread = code'[k].thread
    PROVE  OneThread'
  <1>1. /\ DOMAIN code = 1..Len(code) /\ DOMAIN code' = 1..k
        /\ \A d \in 1..k : d \in 1..Len(code) \/ (d = k /\ k = Len(code) + 1)
        /\ Len(code) \in Nat
    BY ChangeFacts
  <1>2. \A c \in 1..Len(code) : code'[c].via = code[c].via /\ code'[c].thread = code[c].thread
    BY ChangeFacts, KeptFacts
  <1>3. OneThread /\ raced \subseteq raced'
    BY DEF Inv, Changes
  <1>4. ASSUME NEW c \in 1..k, NEW d \in 1..k, code'[c].via = code'[d].via,
               code'[c].via \notin {0} \cup raced'
        PROVE  code'[c].thread = code'[d].thread
    <2>1. CASE c \in 1..Len(code) /\ d \in 1..Len(code)
      BY <1>1, <1>2, <1>3, <1>4, <2>1 DEF OneThread
    <2>2. CASE ~(c \in 1..Len(code) /\ d \in 1..Len(code))
      <3>1. k # Len(code)
        BY <1>1, <2>2
      <3> QED  BY <1>1, <1>2, <1>4, <2>2, <3>1
    <2> QED  BY <2>1, <2>2
  <1> QED  BY <1>1, <1>4 DEF OneThread

\* Code that had left its context and was not in the exit.
StillLeft(c) ==
    /\ c \in DOMAIN code
    /\ code'[c].token = "left" =>
          /\ code[c].token = "left" /\ code[c].pc \notin {"exit", "block"}
          /\ code[c].loop = 0 \/ code'[c].on = code[c].on

LEMMA ExitKept ==
    ASSUME Inv, NEW k, Changes(k),
           \A c \in 1..k : Same(c) \/ StillLeft(c) \/ \A d \in 1..k : Left(c, d)',
           k = Len(code) \/ \A c \in 1..k : Left(c, k)'
    PROVE  ExitInv'
  <1>1. /\ DOMAIN code = 1..Len(code) /\ DOMAIN code' = 1..k /\ Keeps(k)
        /\ \A d \in 1..k : d \in 1..Len(code) \/ (d = k /\ k = Len(code) + 1)
        /\ Len(code) \in Nat /\ (k = Len(code) \/ k = Len(code) + 1)
    BY ChangeFacts
  <1>2. ExitInv /\ raced \subseteq raced'
    BY DEF Inv, Changes
  <1>3. ASSUME NEW c \in 1..k, NEW d \in 1..Len(code), Same(c) \/ StillLeft(c)
        PROVE  Left(c, d)'
    <2>1. c \in 1..Len(code)
      BY <1>1, <1>3 DEF Same, StillLeft
    <2>2. Left(c, d)
      BY <1>1, <1>2, <2>1 DEF ExitInv
    <2>3. /\ code'[d].via = code[d].via /\ code'[d].thread = code[d].thread
          /\ code'[c].loop = code[c].loop
      BY <1>1, <2>1, KeptFacts
    <2>4. code[d].pc = "done" => code'[d].pc = "done"
      BY <1>1 DEF Changes
    <2>5. CASE Same(c)
      BY <1>2, <2>2, <2>3, <2>4, <2>5, Zenon DEF Same, Left, Awaited
    <2>6. CASE StillLeft(c)
      BY <1>2, <2>2, <2>3, <2>4, <2>6, Zenon DEF StillLeft, Left, Awaited
    <2> QED  BY <1>3, <2>5, <2>6
  <1>4. ASSUME NEW c \in 1..k, NEW d \in 1..k
        PROVE  Left(c, d)'
    <2>1. CASE d \in 1..Len(code)
      BY <1>3, <2>1
    <2>2. CASE d \notin 1..Len(code)
      <3>1. d = k /\ k # Len(code)
        BY <1>1, <2>2
      <3> QED  BY <3>1
    <2> QED  BY <2>1, <2>2
  <1> QED  BY <1>1, <1>4 DEF ExitInv

\* Nobody calls or returns.
LEMMA WaitKept ==
    ASSUME Inv, NEW k, Changes(k),
           \A d \in 1..Len(code) : /\ code'[d].pc = "done" <=> code[d].pc = "done"
                                   /\ code'[d].pc = "wait" <=> code[d].pc = "wait",
           k = Len(code) \/ (code'[k].caller = 0 /\ code'[k].pc # "wait")
    PROVE  WaitInv'
  <1>1. /\ DOMAIN code = 1..Len(code) /\ DOMAIN code' = 1..k /\ Keeps(k)
        /\ \A d \in 1..k : d \in 1..Len(code) \/ (d = k /\ k = Len(code) + 1)
        /\ \A d \in 1..Len(code) : d \in 1..k
        /\ Len(code) \in Nat
    BY ChangeFacts, KeptFacts
  <1>2. \A d \in 1..Len(code) : code'[d].caller = code[d].caller
    BY ChangeFacts, KeptFacts
  <1>3. \A d \in 1..Len(code) : code[d].caller # 0 => code[d].caller \in 1..Len(code)
    BY References
  <1>4. WaitInv
    BY DEF Inv
  <1>5. \A d \in 1..k : d \in 1..Len(code) \/ (code'[d].caller = 0 /\ code'[d].pc # "wait")
    <2> TAKE d \in 1..k
    <2>1. CASE d \notin 1..Len(code)
      <3>1. d = k /\ k # Len(code)
        BY <1>1, <2>1
      <3> QED  BY <3>1
    <2> QED  BY <2>1
  <1>6. \A c \in 1..k : code'[c].caller # 0 /\ code'[c].pc # "done"
           => code'[code'[c].caller].pc = "wait"
    BY <1>1, <1>2, <1>3, <1>4, <1>5 DEF WaitInv
  <1>7. \A c \in 1..k : code'[c].pc = "wait"
           => \E d \in 1..k : code'[d].caller = c /\ code'[d].pc # "done"
    BY <1>1, <1>2, <1>4, <1>5 DEF WaitInv
  <1>8. \A c, d \in 1..k :
          /\ code'[c].caller = code'[d].caller /\ code'[c].caller # 0
          /\ code'[c].pc # "done" /\ code'[d].pc # "done"
          => c = d
    BY <1>1, <1>2, <1>4, <1>5 DEF WaitInv
  <1> QED  BY <1>1, <1>6, <1>7, <1>8 DEF WaitInv

\* Code that does not wait waits for nothing.
LEMMA NoCallee ==
    ASSUME Inv, NEW c \in 1..Len(code), code[c].pc # "wait", NEW d \in 1..Len(code),
           code[d].caller = c
    PROVE  code[d].pc = "done"
  <1>1. DOMAIN code = 1..Len(code) /\ WaitInv /\ Len(code) \in Nat
    BY Domains DEF Inv
  <1> QED  BY <1>1 DEF WaitInv

\* c calls the new piece of code.
LEMMA WaitCall ==
    ASSUME Inv, NEW k, Changes(k), k = Len(code) + 1, NEW c \in 1..Len(code),
           code[c].pc \notin {"wait", "done"}, code'[c].pc = "wait",
           \A d \in 1..Len(code) : d # c => code'[d].pc = code[d].pc,
           code'[k].caller = c, code'[k].pc \notin {"wait", "done"}
    PROVE  WaitInv'
  <1>1. /\ DOMAIN code = 1..Len(code) /\ DOMAIN code' = 1..k
        /\ \A d \in 1..k : d \in 1..Len(code) \/ d = k
        /\ \A d \in 1..Len(code) : d \in 1..k /\ d # k
        /\ k \in 1..k /\ Len(code) \in Nat
    BY ChangeFacts
  <1>2. \A d \in 1..Len(code) : code'[d].caller = code[d].caller
    BY ChangeFacts, KeptFacts
  <1>3. \A d \in 1..Len(code) : code[d].caller # 0 => code[d].caller \in 1..Len(code)
    BY References
  <1>4. WaitInv
    BY DEF Inv
  <1>5. \A d \in 1..Len(code) : code[d].caller = c => code[d].pc = "done" /\ d # c
    BY <1>1, NoCallee
  <1>6. ASSUME NEW d \in 1..k, code'[d].caller # 0, code'[d].pc # "done"
        PROVE  code'[code'[d].caller].pc = "wait"
    <2>1. CASE d = k
      BY <2>1
    <2>2. CASE d \in 1..Len(code)
      <3>1. PICK p : p = code[d].caller
        OBVIOUS
      <3>2. code'[d].caller = p /\ p \in 1..Len(code) /\ code[d].pc # "done"
        BY <1>2, <1>3, <1>6, <2>2, <3>1
      <3>3. code[p].pc = "wait"
        BY <1>1, <1>4, <1>6, <2>2, <3>1, <3>2 DEF WaitInv
      <3> QED  BY <3>2, <3>3
    <2> QED  BY <1>1, <2>1, <2>2
  <1>7. ASSUME NEW d \in 1..k, code'[d].pc = "wait"
        PROVE  \E e \in 1..k : code'[e].caller = d /\ code'[e].pc # "done"
    <2>1. CASE d = c
      BY <1>1, <2>1
    <2>2. CASE d # c
      <3>1. d \in 1..Len(code) /\ code[d].pc = "wait"
        BY <1>1, <1>7, <2>2
      <3>2. PICK e \in 1..Len(code) : code[e].caller = d /\ code[e].pc # "done"
        BY <1>1, <1>4, <3>1 DEF WaitInv
      <3>3. code'[e].caller = d /\ code'[e].pc # "done" /\ e \in 1..k
        BY <1>1, <1>2, <3>2
      <3> QED  BY <3>3
    <2> QED  BY <2>1, <2>2
  <1>8. ASSUME NEW d \in 1..k, NEW e \in 1..k, code'[d].caller = code'[e].caller,
               code'[d].caller # 0, code'[d].pc # "done", code'[e].pc # "done"
        PROVE  d = e
    <2>1. CASE d \in 1..Len(code) /\ e \in 1..Len(code)
      BY <1>1, <1>2, <1>4, <1>8, <2>1 DEF WaitInv
    <2>2. CASE ~(d \in 1..Len(code) /\ e \in 1..Len(code))
      BY <1>1, <1>2, <1>5, <1>8, <2>2
    <2> QED  BY <2>1, <2>2
  <1> QED  BY <1>1, <1>6, <1>7, <1>8 DEF WaitInv

\* c returns.
LEMMA WaitReturn ==
    ASSUME Inv, Changes(Len(code)), NEW c \in 1..Len(code), NEW p, p = code[c].caller,
           code[c].pc = "run", code'[c].pc = "done",
           \A d \in 1..Len(code) : d \notin {c, p} => code'[d].pc = code[d].pc,
           p # 0 => code'[p].pc = "run"
    PROVE  WaitInv'
  <1>1. DOMAIN code = 1..Len(code) /\ DOMAIN code' = 1..Len(code) /\ Len(code) \in Nat
    BY ChangeFacts
  <1>2. \A d \in 1..Len(code) : code'[d].caller = code[d].caller
    BY ChangeFacts, KeptFacts
  <1>3. \A d \in 1..Len(code) : code[d].caller # 0 => code[d].caller \in 1..Len(code)
    BY References
  <1>4. WaitInv
    BY DEF Inv
  <1>5. p # 0 => p \in 1..Len(code) /\ code[p].pc = "wait" /\ p # c
    BY <1>1, <1>3, <1>4 DEF WaitInv
  <1>6. \A d \in 1..Len(code) : code'[d].pc # "done" => code[d].pc # "done" /\ d # c
    BY <1>5
  <1>7. ASSUME NEW d \in 1..Len(code), code'[d].caller # 0, code'[d].pc # "done"
        PROVE  code'[code'[d].caller].pc = "wait"
    <2>1. PICK q : q = code[d].caller
      OBVIOUS
    <2>2. code'[d].caller = q /\ q \in 1..Len(code) /\ code[d].pc # "done" /\ d # c
      BY <1>2, <1>3, <1>6, <1>7, <2>1
    <2>3. code[q].pc = "wait" /\ q # c
      BY <1>1, <1>4, <1>7, <2>1, <2>2 DEF WaitInv
    <2>4. q # p
      BY <1>1, <1>4, <1>7, <2>1, <2>2 DEF WaitInv
    <2> QED  BY <2>2, <2>3, <2>4
  <1>8. ASSUME NEW d \in 1..Len(code), code'[d].pc = "wait"
        PROVE  \E e \in 1..Len(code) : code'[e].caller = d /\ code'[e].pc # "done"
    <2>1. d # c /\ d # p /\ code[d].pc = "wait"
      BY <1>5, <1>8
    <2>2. PICK e \in 1..Len(code) : code[e].caller = d /\ code[e].pc # "done"
      BY <1>1, <1>4, <2>1 DEF WaitInv
    <2>3. e # c
      BY <2>1, <2>2
    <2>4. code'[e].pc # "done"
      BY <1>5, <2>2, <2>3
    <2> QED  BY <1>2, <2>2, <2>4
  <1>9. ASSUME NEW d \in 1..Len(code), NEW e \in 1..Len(code), code'[d].caller = code'[e].caller,
               code'[d].caller # 0, code'[d].pc # "done", code'[e].pc # "done"
        PROVE  d = e
    BY <1>1, <1>2, <1>4, <1>6, <1>9 DEF WaitInv
  <1> QED  BY <1>1, <1>7, <1>8, <1>9 DEF WaitInv

LEMMA LookingFinite ==
    ASSUME TypeInv
    PROVE  IsFiniteSet(Looking) /\ Cardinality(Looking) \in Nat
  <1>1. IsFiniteSet(1..Len(code)) /\ Looking \subseteq 1..Len(code)
    BY FS_Interval, Domains DEF Looking
  <1>2. IsFiniteSet(Looking)
    BY <1>1, FS_Subset
  <1> QED  BY <1>2, FS_CardinalityType

LEMMA RoomKept ==
    ASSUME Inv, NEW k, Changes(k), program' = program,
           \A d \in 1..Len(code) : code'[d].pc = "look" <=> code[d].pc = "look",
           k = Len(code) \/ (Room /\ code'[k].pc # "look")
    PROVE  RoomInv'
  <1>1. /\ DOMAIN code = 1..Len(code) /\ DOMAIN code' = 1..k /\ Len(code') = k
        /\ \A d \in 1..k : d \in 1..Len(code) \/ (d = k /\ k = Len(code) + 1)
        /\ \A d \in 1..Len(code) : d \in 1..k
        /\ Len(code) \in Nat /\ (k = Len(code) \/ k = Len(code) + 1)
    BY ChangeFacts, KeptFacts
  <1>2. Looking' = Looking
    <2>1. \A d \in 1..k : code'[d].pc = "look" => d \in 1..Len(code)
      BY <1>1
    <2> QED  BY <1>1, <2>1 DEF Looking
  <1>3. Cardinality(Looking) \in Nat /\ program.codes \in Nat
    BY LookingFinite, ContextsAssumption DEF Inv, TypeInv, Program
  <1>4. Room => Len(code) + Cardinality(Looking) < program.codes
    BY DEF Room, Looking
  <1>5. k = Len(code) \/ Room
    OBVIOUS
  <1> QED  BY <1>1, <1>2, <1>3, <1>4, <1>5 DEF Inv, RoomInv

\* c has looked, and makes a call or none.
LEMMA RoomLess ==
    ASSUME Inv, NEW k, Changes(k), program' = program, NEW c \in 1..Len(code),
           code[c].pc = "look", code'[c].pc # "look",
           \A d \in 1..Len(code) : d # c => code'[d].pc = code[d].pc,
           k = Len(code) \/ code'[k].pc # "look"
    PROVE  RoomInv'
  <1>1. /\ DOMAIN code = 1..Len(code) /\ DOMAIN code' = 1..k /\ Len(code') = k
        /\ \A d \in 1..k : d \in 1..Len(code) \/ (d = k /\ k = Len(code) + 1)
        /\ \A d \in 1..Len(code) : d \in 1..k
        /\ Len(code) \in Nat /\ (k = Len(code) \/ k = Len(code) + 1)
    BY ChangeFacts, KeptFacts
  <1>2. Looking' = Looking \ {c} /\ c \in Looking
    <2>1. \A d \in 1..k : code'[d].pc = "look" => d \in 1..Len(code)
      BY <1>1
    <2> QED  BY <1>1, <2>1 DEF Looking
  <1>3. IsFiniteSet(Looking) /\ Cardinality(Looking) \in Nat /\ program.codes \in Nat
    BY LookingFinite, ContextsAssumption DEF Inv, TypeInv, Program
  <1>4. Cardinality(Looking') = Cardinality(Looking) - 1
    BY <1>2, <1>3, FS_RemoveElement
  <1> QED  BY <1>1, <1>3, <1>4 DEF Inv, RoomInv

\* c looks an executor up.
LEMMA RoomMore ==
    ASSUME Inv, Changes(Len(code)), program' = program, NEW c \in 1..Len(code), Room,
           code[c].pc # "look", code'[c].pc = "look",
           \A d \in 1..Len(code) : d # c => code'[d].pc = code[d].pc
    PROVE  RoomInv'
  <1>1. /\ DOMAIN code = 1..Len(code) /\ DOMAIN code' = 1..Len(code) /\ Len(code') = Len(code)
        /\ Len(code) \in Nat
    BY ChangeFacts
  <1>2. Looking' = Looking \cup {c} /\ c \notin Looking
    BY <1>1 DEF Looking
  <1>3. IsFiniteSet(Looking) /\ Cardinality(Looking) \in Nat /\ program.codes \in Nat
    BY LookingFinite, ContextsAssumption DEF Inv, TypeInv, Program
  <1>4. Cardinality(Looking') = Cardinality(Looking) + 1
    BY <1>2, <1>3, FS_AddElement
  <1> QED  BY <1>1, <1>3, <1>4 DEF RoomInv, Room, Looking

\* All that is to be shown of a step.
GoodCode(c) ==
    /\ CodeOK(c) /\ (code[c].pc = "done" \/ CurrentOf(c))
    /\ ViewOf(c) /\ Entered(code[c].ctx) /\ LookOf(c)

LEMMA StepKeeps ==
    ASSUME Inv, NEW k, Changes(k),
           program' = program, writes' \in 0..MaxWrites,
           leaked' \subseteq 1..k, raced' \subseteq 1..k,
           \A d \in 1..k : Same(d) \/ GoodCode(d)',
           \A t \in 1..k : SameThread(t) \/ ThreadOK(t)',
           k = Len(code) \/ (PlaceOf(k)' /\ ViaOf(k)' /\ Entered(thr[k].base)'),
           \A x \in 1..Len(code) : code'[x].token = "outer" /\ x \notin raced' =>
               code'[x].executor = code[x].executor \/ code[x].executor = 0,
           RoomInv', WaitInv', EndedInv', ExecutorInv', OneThread', ExitInv', SharedInv'
    PROVE  Inv'
  <1>1. /\ Keeps(k) /\ (k = Len(code) \/ k = Len(code) + 1) /\ DOMAIN code' = 1..k
        /\ Len(code) \in Nat
    BY ChangeFacts
  <1>2. TypeInv'
    <2>1. Len(code) >= 1
      BY DEF Inv, TypeInv
    <2> QED  BY <1>1, <2>1 DEF Inv, TypeInv, Keeps
  <1>3. PlaceInv'
    BY <1>1, PlaceKept
  <1>4. \A d \in 1..k : /\ Same(d) \/ CodeOK(d)'
                        /\ Same(d) \/ code'[d].pc = "done" \/ CurrentOf(d)'
                        /\ Same(d) \/ ViewOf(d)'
                        /\ Same(d) \/ Entered(code[d].ctx)'
                        /\ Same(d) \/ LookOf(d)'
    BY Zenon DEF GoodCode
  <1>5. StateInv'
    BY <1>4, StateKept, Zenon
  <1>6. CurrentInv'
    BY <1>4, CurrentKept, Zenon
  <1>7. ViewInv'
    BY <1>4, ViewKept, Zenon
  <1>8. ManagerInv'
    BY <1>4, ManagerKept, Zenon
  <1>9. ViaInv'
    BY <1>4, ViaKept, Zenon
  <1> QED  BY <1>2, <1>3, <1>5, <1>6, <1>7, <1>8, <1>9 DEF Inv

-----------------------------------------------------------------------------
(* What changes of one piece of code. *)

\* executors.current that it has, or will have put back.
Effective(c) == IF code[c].pc \in {"look", "wait"} THEN code[c].old ELSE RawCurrent(code[c].ctx)

LEMMA CurrentOfKept ==
    ASSUME Inv, NEW k, Changes(k), NEW c \in 1..Len(code), code[c].pc # "done",
           code[c].loop # 0 => RawCurrent(code'[c].ctx) = RawCurrent(code[c].ctx),
           code[c].loop = 0 /\ code[c].caller # 0 => Effective(c)' = Effective(c),
           Settled(c)' /\ ~Own(c) /\ Executors \in DOMAIN code'[c].ctx =>
               \/ code'[c].ctx[Executors].ident = Ident(c)
               \/ /\ Settled(c) /\ Executors \in DOMAIN code[c].ctx
                  /\ code'[c].ctx[Executors] = code[c].ctx[Executors]
    PROVE  CurrentOf(c)'
  <1>1. DOMAIN code = 1..Len(code) /\ Keeps(k) /\ (k = Len(code) \/ k = Len(code) + 1)
    BY ChangeFacts
  <1>2. CurrentOf(c)
    BY <1>1 DEF Inv, CurrentInv
  <1>3. /\ code'[c].loop = code[c].loop /\ code'[c].caller = code[c].caller
        /\ (Own(c)' <=> Own(c)) /\ Ident(c)' = Ident(c)
    BY <1>1, KeptFacts
  <1>4. code[c].caller # 0 => code'[code[c].caller].caller = code[code[c].caller].caller
    BY <1>1, References, KeptFacts
  <1>5. code[c].loop # 0 => RawCurrent(code[c].ctx) = code[c].caller
    BY <1>2 DEF CurrentOf
  <1>6. code[c].loop = 0 /\ code[c].caller # 0 => code[code[c].caller].caller = Effective(c)
    BY <1>2 DEF CurrentOf, Effective
  <1>7. Settled(c) /\ ~Own(c) /\ Executors \in DOMAIN code[c].ctx
            => code[c].ctx[Executors].ident = Ident(c)
    BY <1>2 DEF CurrentOf
  <1>8. code'[c].loop # 0 => RawCurrent(code'[c].ctx) = code'[c].caller
    BY <1>3, <1>5
  <1>9. code'[c].loop = 0 /\ code'[c].caller # 0 => code'[code'[c].caller].caller = Effective(c)'
    BY <1>3, <1>4, <1>6, Zenon
  <1>10. Settled(c)' /\ ~Own(c)' /\ Executors \in DOMAIN code'[c].ctx
            => code'[c].ctx[Executors].ident = Ident(c)'
    BY <1>3, <1>7, Zenon
  <1> QED  BY <1>8, <1>9, <1>10, Zenon DEF CurrentOf, Effective

LEMMA ViewOfKept ==
    ASSUME Inv, NEW k, Changes(k), NEW c \in 1..Len(code), Started(c), Started(c)',
           Value \in DOMAIN code'[c].ctx =>
               \/ code[c].root \in leaked'
               \/ Value \in DOMAIN code[c].ctx /\ code'[c].ctx[Value] = code[c].ctx[Value]
               \/ /\ Value \in DOMAIN code[c].ctx
                  /\ code[c].ctx[Value].ident = Ident(c)
                  /\ code'[c].ctx[Value].data = code[c].ctx[Value].data
    PROVE  ViewOf(c)'
  <1>1. DOMAIN code = 1..Len(code) /\ Keeps(k) /\ (k = Len(code) \/ k = Len(code) + 1)
    BY ChangeFacts
  <1>2. ViewOf(c)
    BY <1>1 DEF Inv, ViewInv
  <1>3. /\ code'[c].sees = code[c].sees /\ code'[c].root = code[c].root
        /\ Ident(c)' = Ident(c)
    BY <1>1, KeptFacts
  <1>4. Home(c) = Ident(c) /\ Home(c)' = Ident(c)
    BY <1>3 DEF Home, Settled
  <1>5. leaked \subseteq leaked'
    BY DEF Changes
  <1> QED  BY <1>2, <1>3, <1>4, <1>5, Zenon DEF ViewOf

\* Callers wait, and who waits does not change: so what one has of the other stays.
LEMMA SharedMove ==
    ASSUME Inv, Changes(Len(code)), NEW c \in 1..Len(code),
           code[c].pc \notin {"wait", "done"}, Started(c)',
           Value \in DOMAIN code[c].ctx => Value \in DOMAIN code'[c].ctx,
           \A d \in 1..Len(code) : d # c => Same(d)
    PROVE  SharedInv'
  <1>1. DOMAIN code = 1..Len(code) /\ Keeps(Len(code)) /\ Len(code) \in Nat
    BY ChangeFacts
  <1>2. WaitInv /\ SharedInv
    BY DEF Inv
  <1>3. ASSUME NEW d \in 1..Len(code), code[d].caller # 0, code[d].pc # "done"
        PROVE  code[d].caller # c /\ code'[code[d].caller].ctx = code[code[d].caller].ctx
    <2>1. code[code[d].caller].pc = "wait"
      BY <1>1, <1>2, <1>3 DEF WaitInv
    <2>2. code[d].caller \in 1..Len(code) /\ code[d].caller # c
      BY <1>3, <2>1, References
    <2>3. Same(code[d].caller)
      BY <2>2
    <2> QED  BY <2>2, <2>3 DEF Same
  <1>4. SharedOf(c)'
    <2>1. PICK p : p = code[c].caller
      OBVIOUS
    <2>2. code'[c].caller = p
      BY <1>1, <2>1, KeptFacts
    <2>3. p # 0 => code'[p].ctx = code[p].ctx
      BY <1>3, <2>1
    <2>4. p # 0 => SharedWith(c, p)
      BY <1>1, <1>2, <2>1 DEF SharedInv, SharedOf
    <2> QED  BY <2>2, <2>3, <2>4, Zenon DEF SharedOf, SharedWith
  <1> QED  BY <1>3, <1>4, SharedKept, Zenon

\* Threads as they were, but for what steps may change.
ThreadsKept ==
    /\ thr' \in Seq(Threads) /\ Len(thr') = Len(code)
    /\ \A t \in 1..Len(code) :
          /\ thr'[t].ident = thr[t].ident /\ thr'[t].base = thr[t].base
          /\ thr[t].shut => thr'[t].shut

LEMMA ThreadsStay ==
    ASSUME Inv, thr' = thr
    PROVE  /\ ThreadsKept
           /\ \A t \in 1..Len(code) :
                 SameThread(t) /\ thr'[t].ended = thr[t].ended /\ thr'[t].shut = thr[t].shut
  BY Domains DEF Inv, TypeInv, ThreadsKept, SameThread

LEMMA MoveFacts ==
    ASSUME Inv, NEW c \in 1..Len(code), NEW q \in Codes, SameCode(q, code[c]),
           code' = [code EXCEPT ![c] = q], ThreadsKept,
           code[c].token \in {"outer", "left"} => q.token \in {"outer", "left"},
           q.token = "outer" => code[c].token \in {"outer", "none"},
           code[c].pc # "done", q.executor \in 0..Len(code),
           leaked \subseteq leaked', raced \subseteq raced'
    PROVE  /\ Changes(Len(code)) /\ code'[c] = q
           /\ \A d \in 1..Len(code) : d # c => Same(d) /\ code'[d] = code[d]
  <1>1. /\ Len(code) \in Nat /\ DOMAIN code = 1..Len(code) /\ DOMAIN thr = 1..Len(code)
        /\ code[c] \in Codes /\ code \in Seq(Codes)
    BY Domains DEF Inv, TypeInv
  <1>2. /\ code' \in Seq(Codes) /\ Len(code') = Len(code) /\ code'[c] = q
        /\ \A d \in 1..Len(code) : d # c => code'[d] = code[d]
    BY <1>1
  <1>3. \A d \in 1..Len(code) : d # c => Same(d)
    BY <1>1, <1>2 DEF Same
  <1>4. Keeps(Len(code))
    BY <1>1, <1>2 DEF Keeps, SameCode, ThreadsKept
  <1>5. \A d \in 1..Len(code) : code[d].executor \in 0..Len(code)
    BY References
  <1>6. Changes(Len(code))
    BY <1>1, <1>2, <1>4, <1>5 DEF Changes, ThreadsKept
  <1> QED  BY <1>2, <1>3, <1>6

\* What is to be shown when one piece of code changes, and none waits or returns.
LEMMA MoveKeeps ==
    ASSUME Inv, NEW c \in 1..Len(code), Changes(Len(code)),
           \A d \in 1..Len(code) : d # c => Same(d) /\ code'[d] = code[d],
           program' = program, writes' \in 0..MaxWrites,
           leaked' \subseteq 1..Len(code), raced' = raced,
           code[c].pc \notin {"wait", "done"}, code'[c].pc \notin {"wait", "done"}, Started(c)',
           Value \in DOMAIN code[c].ctx => Value \in DOMAIN code'[c].ctx,
           GoodCode(c)',
           \A t \in 1..Len(code) :
              /\ SameThread(t) \/ ThreadOK(t)'
              /\ thr'[t].ended = thr[t].ended
              /\ thr'[t].shut = thr[t].shut \/ (t = code[c].executor /\ code'[c].executor = 0),
           code'[c].executor = code[c].executor \/ (code'[c].executor = 0 /\ code'[c].token # "outer"),
           StillLeft(c) \/ \A d \in 1..Len(code) : Left(c, d)',
           RoomInv'
    PROVE  Inv'
  <1>1. /\ DOMAIN code = 1..Len(code) /\ DOMAIN code' = 1..Len(code) /\ Len(code) \in Nat
        /\ Keeps(Len(code))
    BY ChangeFacts
  <1>2. WaitInv'
    <2>1. \A d \in 1..Len(code) : /\ code'[d].pc = "done" <=> code[d].pc = "done"
                                  /\ code'[d].pc = "wait" <=> code[d].pc = "wait"
      BY DEF Same
    <2> QED  BY <2>1, WaitKept
  <1>3. EndedInv'
    BY EndedKept
  <1>4. ExecutorInv'
    <2>1. \A x, y \in 1..Len(code) :
             code[x].executor = code[y].executor /\ code[x].executor # 0 => x = y
      BY <1>1 DEF Inv, ExecutorInv
    <2>2. ASSUME NEW x \in 1..Len(code), code'[x].executor # 0
          PROVE  /\ code'[x].executor = code[x].executor
                 /\ code[x].executor # 0 =>
                       /\ thr'[code[x].executor].shut = thr[code[x].executor].shut
                       /\ thr'[code[x].executor].ended = thr[code[x].executor].ended
      <3>1. code'[x].executor = code[x].executor
        BY <2>2
      <3>2. PICK t : t = code[x].executor
        OBVIOUS
      <3>3. t # 0 /\ t \in 1..Len(code)
        BY <2>2, <3>1, <3>2, References
      <3>4. ~(t = code[c].executor /\ code'[c].executor = 0)
        BY <2>1, <2>2, <3>2, <3>3
      <3>5. thr'[t].shut = thr[t].shut /\ thr'[t].ended = thr[t].ended
        BY <3>3, <3>4
      <3> QED  BY <3>1, <3>2, <3>5
    <2> QED  BY <2>2, ExecutorSame
  <1>5. OneThread'
    BY OneThreadKept
  <1>6. ExitInv'
    BY ExitKept
  <1>7. SharedInv'
    BY SharedMove
  <1>8. \A x \in 1..Len(code) : code'[x].token = "outer" /\ x \notin raced' =>
           code'[x].executor = code[x].executor \/ code[x].executor = 0
    OBVIOUS
  <1>9. raced' \subseteq 1..Len(code)
    BY <1>1 DEF Inv, TypeInv
  <1>10. \A d \in 1..Len(code) : Same(d) \/ GoodCode(d)'
    OBVIOUS
  <1>11. \A t \in 1..Len(code) : SameThread(t) \/ ThreadOK(t)'
    OBVIOUS
  <1> QED  BY <1>2, <1>3, <1>4, <1>5, <1>6, <1>7, <1>8, <1>9, <1>10, <1>11, StepKeeps

\* A context manager that a context still names.
LEMMA EnteredMove ==
    ASSUME Inv, NEW k, Changes(k), NEW ctx, ContextOK(ctx, Len(code)), Entered(ctx),
           NEW d, NEW new, code'[d].ctx = new,
           \A var \in {TSC, STC} : var \in DOMAIN new => var \in DOMAIN ctx /\ new[var] = ctx[var]
    PROVE  Entered(code[d].ctx)'
  <1>1. \A var \in {TSC, STC} \cap DOMAIN ctx : code'[ctx[var]].token \in {"outer", "left"}
    BY StillEntered
  <1> QED  BY <1>1, Zenon DEF Entered

-----------------------------------------------------------------------------
(* The Local. *)

\* A change of data in the context of c.
LEMMA ContextMove ==
    ASSUME Inv, NEW c \in 1..Len(code), code[c].pc = "run", NEW new,
           ContextOK(new, Len(code)),
           RawCurrent(new) = RawCurrent(code[c].ctx),
           \A var \in {Executors, TSC, STC} :
               var \in DOMAIN new => var \in DOMAIN code[c].ctx /\ new[var] = code[c].ctx[var],
           Value \in DOMAIN code[c].ctx => Value \in DOMAIN new,
           Value \in DOMAIN new /\ new[Value].ident = Ident(c) =>
               \A key \in DOMAIN new[Value].data :
                   new[Value].data[key] \in code[c].sees \/ code[c].root \in leaked,
           code' = [code EXCEPT ![c].ctx = new],
           UNCHANGED <<thr, program, leaked, raced>>, writes' \in 0..MaxWrites
    PROVE  Inv'
  <1>1. /\ Len(code) \in Nat /\ DOMAIN code = 1..Len(code) /\ code[c] \in Codes
        /\ leaked \subseteq 1..Len(code)
    BY Domains DEF Inv, TypeInv
  <1>2. PICK q : q = [code[c] EXCEPT !.ctx = new]
    OBVIOUS
  <1>3. /\ q \in Codes /\ SameCode(q, code[c])
        /\ q.pc = code[c].pc /\ q.token = code[c].token /\ q.on = code[c].on
        /\ q.executor = code[c].executor /\ q.old = code[c].old
        /\ q.ctx = new
    <2>1. new \in Contexts
      BY DEF ContextOK
    <2> QED  BY <1>1, <1>2, <2>1 DEF Codes, SameCode
  <1>4. code' = [code EXCEPT ![c] = q]
    BY <1>2
  <1>5. /\ Changes(Len(code)) /\ code'[c] = q
        /\ \A d \in 1..Len(code) : d # c => Same(d) /\ code'[d] = code[d]
    <2>1. q.executor \in 0..Len(code)
      BY <1>3, References
    <2> QED  BY <1>3, <1>4, <2>1, ThreadsStay, MoveFacts
  <1>6. /\ code'[c].ctx = new /\ code'[c].pc = "run" /\ code'[c].token = code[c].token
        /\ code'[c].on = code[c].on /\ code'[c].executor = code[c].executor
        /\ code'[c].old = code[c].old
    BY <1>3, <1>5
  <1>7. Started(c) /\ Started(c)' /\ Settled(c) /\ Settled(c)'
    BY <1>6 DEF Settled, Started
  <1>8. CodeOK(c) /\ Entered(code[c].ctx)
    BY <1>1 DEF Inv, StateInv, ManagerInv
  <1>9. CodeOK(c)'
    <2>1. Len(code') = Len(code)
      BY <1>5, ChangeFacts
    <2> QED  BY <1>6, <1>7, <1>8, <2>1 DEF CodeOK
  <1>10. CurrentOf(c)'
    <2>1. Effective(c)' = Effective(c)
      BY <1>6 DEF Effective
    <2> QED  BY <1>5, <1>6, <1>7, <2>1, CurrentOfKept
  <1>11. ViewOf(c)'
    <2>1. Home(c)' = Ident(c) /\ code'[c].sees = code[c].sees /\ code'[c].root = code[c].root
      BY <1>5, <1>7, ChangeFacts, KeptFacts DEF Home
    <2>2. leaked' = leaked
      OBVIOUS
    <2> QED  BY <1>6, <2>1, <2>2, Zenon DEF ViewOf
  <1>12. Entered(code[c].ctx)'
    <2>1. PICK ctx : ctx = code[c].ctx
      OBVIOUS
    <2>2. ContextOK(ctx, Len(code)) /\ Entered(ctx)
      BY <1>8, <2>1 DEF CodeOK
    <2>3. \A var \in {TSC, STC} : var \in DOMAIN new => var \in DOMAIN ctx /\ new[var] = ctx[var]
      BY <2>1
    <2> QED  BY <1>5, <1>6, <2>2, <2>3, EnteredMove
  <1>13. LookOf(c)'
    BY <1>6 DEF LookOf
  <1>14. GoodCode(c)'
    BY <1>9, <1>10, <1>11, <1>12, <1>13 DEF GoodCode
  <1>15. RoomInv'
    <2>1. \A d \in 1..Len(code) : code'[d].pc = "look" <=> code[d].pc = "look"
      BY <1>5, <1>6 DEF Same
    <2> QED  BY <1>5, <2>1, RoomKept
  <1>16. StillLeft(c)
    BY <1>1, <1>6 DEF StillLeft
  <1>17. Value \in DOMAIN code[c].ctx => Value \in DOMAIN code'[c].ctx
    BY <1>6
  <1> QED  BY <1>1, <1>5, <1>6, <1>7, <1>14, <1>15, <1>16, <1>17, ThreadsStay, MoveKeeps

\* local.key = value, by code of its task or thread.
LEMMA SetValueKeeps ==
    ASSUME Inv, NEW c \in DOMAIN code, NEW key \in Keys, SetValue(c, key)
    PROVE  Inv'
  <1>1. c \in 1..Len(code) /\ Len(code) \in Nat /\ code[c].pc = "run" /\ writes' \in 0..MaxWrites
    BY Domains, ContextsAssumption DEF Inv, TypeInv, SetValue, Writes, Does, Runs
  <1>2. ContextOK(code[c].ctx, Len(code)) /\ Ident(c) \in Nat
    BY <1>1, References DEF Inv, StateInv, CodeOK
  <1>3. PICK data : data = Set(Data(code[c].ctx, Value, Ident(c)), key, code[c].root)
    OBVIOUS
  <1>4. Data(code[c].ctx, Value, Ident(c)) \in Datas
    BY <1>2, DataFacts
  <1>5. code[c].root \in Nat /\ key \in Keys \cup {"current"}
    BY <1>1, Domains, CodeFields DEF Inv
  <1>6. data \in Datas
    BY <1>3, <1>4, <1>5, SetType DEF Datas
  <1>7. \A k \in DOMAIN data : data[k] \in code[c].sees \/ code[c].root \in leaked
    <2> TAKE k \in DOMAIN data
    <2>1. CASE k = key
      BY <1>1, <1>3, <2>1 DEF Set, Inv, PlaceInv, PlaceOf
    <2>2. CASE k # key
      <3>1. /\ k \in DOMAIN Data(code[c].ctx, Value, Ident(c))
            /\ data[k] = Data(code[c].ctx, Value, Ident(c))[k]
        BY <1>3, <2>2 DEF Set
      <3>2. /\ Value \in DOMAIN code[c].ctx /\ code[c].ctx[Value].ident = Ident(c)
            /\ k \in DOMAIN code[c].ctx[Value].data
            /\ data[k] = code[c].ctx[Value].data[k]
        BY <1>2, <3>1, DataFacts
      <3>3. Home(c) = Ident(c)
        BY <1>1 DEF Home, Settled, Started
      <3> QED  BY <3>2, <3>3, Zenon DEF Inv, ViewInv, ViewOf
    <2> QED  BY <2>1, <2>2
  <1>8. PICK storage : storage = [ident |-> Ident(c), data |-> data]
    OBVIOUS
  <1>9. storage \in Storage /\ storage.data = data
    BY <1>2, <1>6, <1>8, StorageType
  <1>10. PICK new : new = Set(code[c].ctx, Value, storage)
    OBVIOUS
  <1>11. code' = [code EXCEPT ![c].ctx = new]
    BY <1>3, <1>8, <1>10 DEF SetValue, SetAttr
  <1>12. /\ ContextOK(new, Len(code))
         /\ RawCurrent(new) = RawCurrent(code[c].ctx)
         /\ \A var \in {Executors, TSC, STC} :
               var \in DOMAIN new => var \in DOMAIN code[c].ctx /\ new[var] = code[c].ctx[var]
         /\ Value \in DOMAIN new /\ new[Value] = storage
    BY <1>1, <1>2, <1>9, <1>10, StoreValue
  <1>13. UNCHANGED <<thr, program, leaked, raced>>
    BY DEF SetValue, Writes
  <1>14. \A k \in DOMAIN new[Value].data :
            new[Value].data[k] \in code[c].sees \/ code[c].root \in leaked
    BY <1>7, <1>9, <1>12, Zenon
  <1> QED  BY <1>1, <1>11, <1>12, <1>13, <1>14, ContextMove


\* del local.key.
LEMMA DelValueKeeps ==
    ASSUME Inv, NEW c \in DOMAIN code, NEW key \in Keys, DelValue(c, key)
    PROVE  Inv'
  <1>1. c \in 1..Len(code) /\ Len(code) \in Nat /\ code[c].pc = "run" /\ writes' \in 0..MaxWrites
    BY Domains, ContextsAssumption DEF Inv, TypeInv, DelValue, Writes, Does, Runs
  <1>2. ContextOK(code[c].ctx, Len(code)) /\ Ident(c) \in Nat
    BY <1>1, References DEF Inv, StateInv, CodeOK
  <1>3. PICK seen : seen = Data(code[c].ctx, Value, Ident(c))
    OBVIOUS
  <1>4. seen \in Datas
    BY <1>2, <1>3, DataFacts
  <1>5. PICK data : data = [k \in DOMAIN seen \ {key} |-> seen[k]]
    OBVIOUS
  <1>6. data \in Datas /\ \A k \in DOMAIN data : k \in DOMAIN seen /\ data[k] = seen[k]
    BY <1>4, <1>5, WithoutType DEF Datas
  <1>7. \A k \in DOMAIN data : data[k] \in code[c].sees \/ code[c].root \in leaked
    <2> TAKE k \in DOMAIN data
    <2>1. k \in DOMAIN seen /\ data[k] = seen[k]
      BY <1>6
    <2>2. /\ Value \in DOMAIN code[c].ctx /\ code[c].ctx[Value].ident = Ident(c)
          /\ k \in DOMAIN code[c].ctx[Value].data
          /\ data[k] = code[c].ctx[Value].data[k]
      BY <1>2, <1>3, <2>1, DataFacts
    <2>3. Home(c) = Ident(c)
      BY <1>1 DEF Home, Settled, Started
    <2> QED  BY <2>2, <2>3, Zenon DEF Inv, ViewInv, ViewOf
  <1>8. PICK storage : storage = [ident |-> Ident(c), data |-> data]
    OBVIOUS
  <1>9. storage \in Storage /\ storage.data = data
    BY <1>2, <1>6, <1>8, StorageType
  <1>10. PICK new : new = Set(code[c].ctx, Value, storage)
    OBVIOUS
  <1>11. code' = [code EXCEPT ![c].ctx = new]
    BY <1>3, <1>5, <1>8, <1>10 DEF DelValue, DelAttr
  <1>12. /\ ContextOK(new, Len(code))
         /\ RawCurrent(new) = RawCurrent(code[c].ctx)
         /\ \A var \in {Executors, TSC, STC} :
               var \in DOMAIN new => var \in DOMAIN code[c].ctx /\ new[var] = code[c].ctx[var]
         /\ Value \in DOMAIN new /\ new[Value] = storage
    BY <1>1, <1>2, <1>9, <1>10, StoreValue
  <1>13. UNCHANGED <<thr, program, leaked, raced>>
    BY DEF DelValue, Writes
  <1>14. \A k \in DOMAIN new[Value].data :
            new[Value].data[k] \in code[c].sees \/ code[c].root \in leaked
    BY <1>7, <1>9, <1>12, Zenon
  <1> QED  BY <1>1, <1>11, <1>12, <1>13, <1>14, ContextMove

\* The thread_critical Local.
LEMMA WriteCriticalKeeps ==
    ASSUME Inv, NEW c \in DOMAIN code, WriteCritical(c)
    PROVE  Inv'
  <1>1. c \in 1..Len(code) /\ Len(code) \in Nat /\ code[c].pc = "run" /\ writes' \in 0..MaxWrites
    BY Domains, ContextsAssumption DEF Inv, TypeInv, WriteCritical, Writes, Does, Runs
  <1>2. ContextOK(code[c].ctx, Len(code)) /\ Ident(c) \in Nat
    BY <1>1, References DEF Inv, StateInv, CodeOK
  <1>3. UNCHANGED <<program, leaked, raced>>
    BY DEF WriteCritical, Writes
  <1>4. PICK t : t = code[c].thread
    OBVIOUS
  <1>5. t \in 1..Len(code) /\ t \in Nat
    BY <1>1, <1>4, References
  <1>6. PICK value \in SUBSET {t} :
           IF Async(c)
           THEN code' = [code EXCEPT ![c].ctx = CVarSet(@, t, value)] /\ thr' = thr
           ELSE thr' = [thr EXCEPT ![t].critical = value] /\ code' = code
    BY <1>4, Zenon DEF WriteCritical
  <1>7. CASE Async(c)
    <2>1. PICK new : new = Set(code[c].ctx, CVar(t), value)
      OBVIOUS
    <2>2. code' = [code EXCEPT ![c].ctx = new] /\ thr' = thr
      BY <1>6, <1>7, <2>1 DEF CVarSet
    <2>3. /\ ContextOK(new, Len(code))
          /\ RawCurrent(new) = RawCurrent(code[c].ctx)
          /\ \A v : v \in DOMAIN new <=> v \in DOMAIN code[c].ctx \/ v = CVar(t)
          /\ \A v \in DOMAIN code[c].ctx : v # CVar(t) => new[v] = code[c].ctx[v]
      <3>1. PICK var : var = CVar(t)
        OBVIOUS
      <3>2. /\ var \in ContextVars /\ var \notin {Executors, Value} /\ var \notin {TSC, STC}
            /\ \A u \in Nat : var = CVar(u) => u = t
        BY <1>5, <3>1, VarFacts
      <3>3. new = Set(code[c].ctx, var, value) /\ value \in Stored
        BY <1>5, <2>1, <3>1 DEF Stored
      <3>4. /\ ContextOK(new, Len(code))
            /\ RawCurrent(new) = RawCurrent(code[c].ctx)
            /\ \A v : v \in DOMAIN new <=> v \in DOMAIN code[c].ctx \/ v = var
            /\ \A v \in DOMAIN code[c].ctx : v # var => new[v] = code[c].ctx[v]
        BY <1>1, <1>2, <1>5, <3>2, <3>3, SetOther
      <3> QED  BY <3>1, <3>4
    <2>4. CVar(t) \notin {Executors, Value, TSC, STC}
      BY VarFacts, Zenon
    <2>5. /\ \A var \in {Executors, TSC, STC} :
                var \in DOMAIN new => var \in DOMAIN code[c].ctx /\ new[var] = code[c].ctx[var]
          /\ Value \in DOMAIN code[c].ctx => Value \in DOMAIN new
          /\ Value \in DOMAIN new =>
               Value \in DOMAIN code[c].ctx /\ new[Value] = code[c].ctx[Value]
      BY <2>3, <2>4, Zenon
    <2>6. Value \in DOMAIN new /\ new[Value].ident = Ident(c) =>
            \A key \in DOMAIN new[Value].data :
               new[Value].data[key] \in code[c].sees \/ code[c].root \in leaked
      <3>1. Home(c) = Ident(c)
        BY <1>1 DEF Home, Settled, Started
      <3> QED  BY <2>5, <3>1, Zenon DEF Inv, ViewInv, ViewOf
    <2> QED  BY <1>1, <1>3, <2>2, <2>3, <2>5, <2>6, ContextMove
  <1>8. CASE ~Async(c)
    <2>1. thr' = [thr EXCEPT ![t].critical = value] /\ code' = code
      BY <1>6, <1>8
    <2>2. /\ DOMAIN code = 1..Len(code) /\ DOMAIN thr = 1..Len(code) /\ thr \in Seq(Threads)
          /\ Len(thr) = Len(code) /\ thr[t] \in Threads /\ code \in Seq(Codes)
          /\ code[c] \in Codes /\ leaked \subseteq 1..Len(code)
      BY <1>1, <1>5, Domains DEF Inv, TypeInv
    <2>3. PICK q : q = [thr[t] EXCEPT !.critical = value]
      OBVIOUS
    <2>4. /\ q \in Threads /\ q.ident = thr[t].ident /\ q.main_event_loop = thr[t].main_event_loop
          /\ q.base = thr[t].base /\ q.shut = thr[t].shut /\ q.ended = thr[t].ended
          /\ q.critical = value
      BY <1>5, <2>2, <2>3 DEF Threads
    <2>5. thr' = [thr EXCEPT ![t] = q]
      BY <2>1, <2>3
    <2>6. /\ thr' \in Seq(Threads) /\ Len(thr') = Len(code) /\ thr'[t] = q
          /\ \A u \in 1..Len(code) : u # t => thr'[u] = thr[u]
      BY <1>5, <2>2, <2>4, <2>5
    <2>7. \A u \in 1..Len(code) :
             /\ thr'[u].ident = thr[u].ident /\ thr'[u].base = thr[u].base
             /\ thr'[u].main_event_loop = thr[u].main_event_loop
             /\ thr'[u].ended = thr[u].ended
             /\ thr'[u].shut = thr[u].shut
             /\ SameThread(u) \/ thr'[u].critical \subseteq {u}
      <3> TAKE u \in 1..Len(code)
      <3>1. CASE u = t
        BY <2>4, <2>6, <3>1
      <3>2. CASE u # t
        BY <2>2, <2>6, <3>2 DEF SameThread
      <3> QED  BY <3>1, <3>2
    <2>8. ThreadsKept
      BY <2>6, <2>7 DEF ThreadsKept
    <2>9. /\ Changes(Len(code))
          /\ \A d \in 1..Len(code) : d # c => Same(d) /\ code'[d] = code[d]
      <3>1. PICK r : r = code[c]
        OBVIOUS
      <3>2. code' = [code EXCEPT ![c] = r] /\ r \in Codes /\ SameCode(r, code[c])
        BY <1>1, <2>1, <2>2, <3>1 DEF SameCode
      <3>3. code[c].executor \in 0..Len(code)
        BY <1>1, References
      <3>4. r.token = code[c].token /\ r.executor = code[c].executor
        BY <3>1
      <3>5. code[c].token = "outer" => code[c].token \in {"outer", "none"}
        OBVIOUS
      <3> QED  BY <1>1, <1>3, <2>8, <3>2, <3>3, <3>4, <3>5, MoveFacts
    <2>10. \A u \in 1..Len(code) : SameThread(u) \/ ThreadOK(u)'
      <3> TAKE u \in 1..Len(code)
      <3>1. ThreadOK(u)
        BY <2>2 DEF Inv, StateInv
      <3>2. SameThread(u) \/ thr'[u].critical \subseteq {u}
        BY <2>7
      <3> QED  BY <2>1, <2>7, <3>1, <3>2, Zenon DEF ThreadOK
    <2>11. GoodCode(c)'
      <3>1. /\ CodeOK(c) /\ Entered(code[c].ctx) /\ LookOf(c)
        BY <1>1, <2>2 DEF Inv, StateInv, ManagerInv, ViaInv
      <3>2. CodeOK(c)' /\ LookOf(c)' /\ Entered(code[c].ctx)'
        BY <1>3, <2>1, <3>1, Zenon DEF CodeOK, LookOf, Entered, Own, HasExecutor, Started
      <3>3. CurrentOf(c)'
        <4>1. Effective(c)' = Effective(c) /\ Settled(c) /\ Settled(c)'
          BY <1>1, <2>1 DEF Effective, Settled, Started
        <4> QED  BY <1>1, <2>1, <2>9, <4>1, CurrentOfKept
      <3>4. ViewOf(c)'
        <4>1. Started(c) /\ Started(c)'
          BY <1>1, <2>1 DEF Started
        <4> QED  BY <1>1, <2>1, <2>9, <4>1, ViewOfKept
      <3> QED  BY <3>2, <3>3, <3>4 DEF GoodCode
    <2>12. RoomInv'
      BY <1>3, <2>1, <2>9, RoomKept
    <2>13. StillLeft(c) /\ Started(c)'
      BY <1>1, <2>1, <2>2 DEF StillLeft, Started
    <2> QED  BY <1>1, <1>3, <2>1, <2>2, <2>7, <2>9, <2>10, <2>11, <2>12, <2>13, MoveKeeps
  <1> QED  BY <1>7, <1>8

-----------------------------------------------------------------------------
(* The context managers. *)

LEMMA EntersKeeps ==
    ASSUME Inv, NEW c \in DOMAIN code, Enters(c)
    PROVE  Inv'
  <1>1. /\ Len(code) \in Nat /\ DOMAIN code = 1..Len(code) /\ code[c] \in Codes
        /\ leaked \subseteq 1..Len(code) /\ c \in 1..Len(code) /\ c \in Nat
    BY Domains DEF Inv, TypeInv
  <1>2. /\ code[c].pc = "run" /\ code[c].token = "none"
        /\ UNCHANGED <<thr, program, writes, leaked, raced>>
    BY DEF Enters, Does, Runs
  <1>3. writes' \in 0..MaxWrites
    BY <1>2 DEF Inv, TypeInv
  <1>4. CodeOK(c) /\ Entered(code[c].ctx) /\ ContextOK(code[c].ctx, Len(code))
    BY <1>1 DEF Inv, StateInv, ManagerInv, CodeOK
  <1>5. PICK m : m = Manager(c)
    OBVIOUS
  <1>6. m \in {TSC, STC} /\ m \in ContextVars /\ m \notin {Executors, Value}
        /\ \A t \in Nat : m # CVar(t)
    BY <1>5, VarFacts DEF Manager
  <1>7. ASSUME NEW new, NEW q, q \in Codes, SameCode(q, code[c]), code' = [code EXCEPT ![c] = q],
               q.pc = "run", q.token \in {"inner", "outer"}, q.on = code[c].on,
               q.executor = code[c].executor, q.old = code[c].old, q.ctx = new,
               ContextOK(new, Len(code)), RawCurrent(new) = RawCurrent(code[c].ctx),
               \A var \in {Executors, Value} :
                   /\ var \in DOMAIN new <=> var \in DOMAIN code[c].ctx
                   /\ var \in DOMAIN code[c].ctx => new[var] = code[c].ctx[var],
               \A var \in {TSC, STC} : var \in DOMAIN new =>
                   \/ var \in DOMAIN code[c].ctx /\ new[var] = code[c].ctx[var]
                   \/ new[var] = c /\ q.token = "outer"
        PROVE  Inv'
    <2>1. /\ Changes(Len(code)) /\ code'[c] = q
          /\ \A d \in 1..Len(code) : d # c => Same(d) /\ code'[d] = code[d]
      <3>1. q.executor \in 0..Len(code)
        BY <1>1, <1>7, References
      <3> QED  BY <1>1, <1>2, <1>7, <3>1, ThreadsStay, MoveFacts
    <2>2. /\ code'[c].ctx = new /\ code'[c].pc = "run" /\ code'[c].token \in {"inner", "outer"}
          /\ code'[c].on = code[c].on /\ code'[c].executor = code[c].executor
          /\ code'[c].old = code[c].old
      BY <1>7, <2>1
    <2>3. Started(c) /\ Started(c)' /\ Settled(c) /\ Settled(c)'
      BY <1>2, <2>2 DEF Settled, Started
    <2>4. CodeOK(c)'
      <3>1. Len(code') = Len(code)
        BY <2>1, ChangeFacts
      <3> QED  BY <1>4, <1>7, <2>2, <2>3, <3>1 DEF CodeOK
    <2>5. CurrentOf(c)'
      <3>1. Effective(c)' = Effective(c)
        BY <1>2, <1>7, <2>2 DEF Effective
      <3> QED  BY <1>1, <1>2, <1>7, <2>1, <2>2, <2>3, <3>1, CurrentOfKept
    <2>6. ViewOf(c)'
      BY <1>1, <1>7, <2>1, <2>2, <2>3, ViewOfKept
    <2>7. Entered(code[c].ctx)'
      <3>1. \A var \in {TSC, STC} \cap DOMAIN code[c].ctx :
               code'[code[c].ctx[var]].token \in {"outer", "left"}
        BY <1>4, <2>1, StillEntered
      <3>2. q.token = "outer" => code'[c].token = "outer"
        BY <2>1
      <3>3. ASSUME NEW var \in {TSC, STC} \cap DOMAIN new
            PROVE  code'[new[var]].token \in {"outer", "left"}
        <4>1. CASE var \in DOMAIN code[c].ctx /\ new[var] = code[c].ctx[var]
          BY <3>1, <3>3, <4>1
        <4>2. CASE new[var] = c /\ q.token = "outer"
          BY <3>2, <4>2
        <4> QED  BY <1>7, <3>3, <4>1, <4>2
      <3> QED  BY <2>2, <3>3, Zenon DEF Entered
    <2>8. LookOf(c)'
      BY <2>2 DEF LookOf
    <2>9. GoodCode(c)'
      BY <2>4, <2>5, <2>6, <2>7, <2>8 DEF GoodCode
    <2>10. RoomInv'
      <3>1. \A d \in 1..Len(code) : code'[d].pc = "look" <=> code[d].pc = "look"
        BY <1>2, <2>1, <2>2 DEF Same
      <3> QED  BY <1>2, <2>1, <3>1, RoomKept
    <2>11. StillLeft(c)
      BY <1>1, <2>2 DEF StillLeft
    <2>12. Value \in DOMAIN code[c].ctx => Value \in DOMAIN code'[c].ctx
      BY <1>7, <2>2
    <2> QED  BY <1>1, <1>2, <1>3, <2>1, <2>2, <2>3, <2>9, <2>10, <2>11, <2>12, ThreadsStay, MoveKeeps
  <1>8. CASE m \in DOMAIN code[c].ctx
    <2>1. PICK q : q = [code[c] EXCEPT !.token = "inner"]
      OBVIOUS
    <2>2. /\ q \in Codes /\ SameCode(q, code[c]) /\ q.pc = "run" /\ q.token \in {"inner", "outer"}
          /\ q.on = code[c].on
          /\ q.executor = code[c].executor /\ q.old = code[c].old /\ q.ctx = code[c].ctx
      BY <1>1, <1>2, <2>1 DEF Codes, SameCode, Tokens
    <2>3. code' = [code EXCEPT ![c].token = "inner"]
      BY <1>5, <1>8 DEF Enters
    <2>4. code' = [code EXCEPT ![c] = q]
      BY <2>1, <2>3
    <2> QED  BY <1>4, <1>7, <2>2, <2>4
  <1>9. CASE m \notin DOMAIN code[c].ctx
    <2>1. PICK new : new = Set(code[c].ctx, m, c)
      OBVIOUS
    <2>2. /\ ContextOK(new, Len(code)) /\ RawCurrent(new) = RawCurrent(code[c].ctx)
          /\ \A v : v \in DOMAIN new <=> v \in DOMAIN code[c].ctx \/ v = m
          /\ \A v \in DOMAIN code[c].ctx : v # m => new[v] = code[c].ctx[v]
      <3>1. c \in Stored
        BY <1>1 DEF Stored
      <3> QED  BY <1>1, <1>4, <1>6, <2>1, <3>1, SetOther
    <2>3. new[m] = c
      BY <2>1 DEF Set
    <2>4. PICK q : q = [code[c] EXCEPT !.token = "outer", !.ctx = new]
      OBVIOUS
    <2>5. /\ q \in Codes /\ SameCode(q, code[c]) /\ q.pc = "run" /\ q.token = "outer"
          /\ q.on = code[c].on
          /\ q.executor = code[c].executor /\ q.old = code[c].old /\ q.ctx = new
      <3>1. new \in Contexts
        BY <2>2 DEF ContextOK
      <3> QED  BY <1>1, <1>2, <2>4, <3>1 DEF Codes, SameCode, Tokens
    <2>6. code' = [code EXCEPT ![c].token = "outer", ![c].ctx = new]
      BY <1>5, <1>9, <2>1 DEF Enters
    <2>7. code' = [code EXCEPT ![c] = q]
      BY <2>4, <2>6
    <2>8. \A var \in {Executors, Value} :
             /\ var \in DOMAIN new <=> var \in DOMAIN code[c].ctx
             /\ var \in DOMAIN code[c].ctx => new[var] = code[c].ctx[var]
      BY <1>6, <2>2
    <2>9. \A var \in {TSC, STC} : var \in DOMAIN new =>
             \/ var \in DOMAIN code[c].ctx /\ new[var] = code[c].ctx[var]
             \/ new[var] = c /\ q.token = "outer"
      BY <2>2, <2>3, <2>5
    <2> QED  BY <1>7, <2>2, <2>5, <2>7, <2>8, <2>9
  <1> QED  BY <1>8, <1>9

\* The pop, the reset and the shutdown, when c was the outermost.
LEMMA OuterExit ==
    ASSUME Inv, NEW c \in DOMAIN code, code[c].pc = "run", code[c].token = "outer",
           NEW t, t = code[c].executor,
           NEW m \in {TSC, STC}, NEW new, new = Without(code[c].ctx, m),
           NEW q \in Codes, SameCode(q, code[c]), code' = [code EXCEPT ![c] = q],
           q.token = "left", q.executor = 0, q.ctx = new, q.old = code[c].old,
           t = 0 => q.pc = "run" /\ q.on = code[c].on /\ thr' = thr,
           t # 0 => q.pc = JoinPc(c) /\ q.on = t /\ thr' = [thr EXCEPT ![t].shut = TRUE],
           UNCHANGED <<program, writes, leaked, raced>>
    PROVE  Inv'
  <1>1. /\ Len(code) \in Nat /\ DOMAIN code = 1..Len(code) /\ code[c] \in Codes
        /\ leaked \subseteq 1..Len(code) /\ c \in 1..Len(code)
        /\ DOMAIN thr = 1..Len(code) /\ thr \in Seq(Threads) /\ Len(thr) = Len(code)
        /\ writes \in 0..MaxWrites
    BY Domains DEF Inv, TypeInv
  <1>2. CodeOK(c) /\ Entered(code[c].ctx) /\ ContextOK(code[c].ctx, Len(code))
    BY <1>1 DEF Inv, StateInv, ManagerInv, CodeOK
  <1>3. /\ ContextOK(new, Len(code))
        /\ RawCurrent(new) = RawCurrent(code[c].ctx)
        /\ \A v : v \in DOMAIN new <=> v \in DOMAIN code[c].ctx /\ v # m
        /\ \A v \in DOMAIN new : new[v] = code[c].ctx[v]
        /\ m \notin {Executors, Value}
    <2>1. PICK ctx : ctx = code[c].ctx
      OBVIOUS
    <2>2. ContextOK(ctx, Len(code)) /\ new = Without(ctx, m)
      BY <1>2, <2>1
    <2>3. /\ ContextOK(new, Len(code))
          /\ RawCurrent(new) = RawCurrent(ctx)
          /\ \A v : v \in DOMAIN new <=> v \in DOMAIN ctx /\ v # m
          /\ \A v \in DOMAIN new : new[v] = ctx[v]
          /\ m \notin {Executors, Value}
      BY <1>1, <2>2, Unset
    <2> QED  BY <2>1, <2>3
  <1>4. /\ ThreadsKept
        /\ \A u \in 1..Len(code) : SameThread(u) /\ thr'[u].ended = thr[u].ended
                                   /\ (thr'[u].shut = thr[u].shut \/ (u = t /\ t # 0))
    <2>1. CASE t = 0
      BY <2>1, ThreadsStay
    <2>2. CASE t # 0
      <3>1. t \in 1..Len(code) /\ thr[t] \in Threads
        BY <1>1, <2>2, References, Domains DEF Inv
      <3>2. PICK r : r = [thr[t] EXCEPT !.shut = TRUE]
        OBVIOUS
      <3>3. /\ r \in Threads /\ r.ident = thr[t].ident /\ r.base = thr[t].base
            /\ r.main_event_loop = thr[t].main_event_loop /\ r.ended = thr[t].ended
            /\ r.critical = thr[t].critical /\ r.shut
        BY <3>1, <3>2 DEF Threads
      <3>4. thr' = [thr EXCEPT ![t] = r]
        BY <2>2, <3>2
      <3>5. /\ thr' \in Seq(Threads) /\ Len(thr') = Len(code) /\ thr'[t] = r
            /\ \A u \in 1..Len(code) : u # t => thr'[u] = thr[u]
        BY <1>1, <3>1, <3>3, <3>4
      <3>6. \A u \in 1..Len(code) : SameThread(u)
        BY <1>1, <3>3, <3>5 DEF SameThread
      <3> QED  BY <2>2, <3>3, <3>5, <3>6 DEF ThreadsKept
    <2> QED  BY <2>1, <2>2
  <1>5. /\ Changes(Len(code)) /\ code'[c] = q
        /\ \A d \in 1..Len(code) : d # c => Same(d) /\ code'[d] = code[d]
    <2>1. /\ q.executor \in 0..Len(code) /\ q.token \in {"outer", "left"} /\ q.token # "outer"
          /\ leaked \subseteq leaked' /\ raced \subseteq raced' /\ code[c].pc # "done"
      BY <1>1
    <2> QED  BY <1>1, <1>4, <2>1, MoveFacts
  <1>6. /\ code'[c].ctx = new /\ code'[c].token = "left" /\ code'[c].executor = 0
        /\ code'[c].old = code[c].old /\ code'[c].pc \in {"run", "exit", "block"}
        /\ code'[c].pc = "exit" => code[c].loop # 0
        /\ code'[c].on \in 0..Len(code) /\ code'[c].loop = code[c].loop
    <2>1. code[c].on \in 0..Len(code) /\ t \in 0..Len(code)
      BY <1>1, References
    <2> QED  BY <1>5, <2>1 DEF JoinPc, Async, SameCode
  <1>7. Started(c) /\ Started(c)' /\ Settled(c) /\ Settled(c)'
    BY <1>6 DEF Settled, Started
  <1>8. CodeOK(c)'
    <2>1. Len(code') = Len(code)
      BY <1>5, ChangeFacts
    <2>2. code[c].old \in 0..Len(code)
      BY <1>1, References
    <2> QED  BY <1>1, <1>3, <1>6, <1>7, <2>1, <2>2 DEF CodeOK
  <1>9. CurrentOf(c)'
    <2>1. Effective(c)' = Effective(c)
      BY <1>3, <1>6 DEF Effective
    <2> QED  BY <1>1, <1>3, <1>5, <1>6, <1>7, <2>1, CurrentOfKept
  <1>10. ViewOf(c)'
    BY <1>1, <1>3, <1>5, <1>6, <1>7, ViewOfKept
  <1>11. Entered(code[c].ctx)'
    <2>1. PICK ctx : ctx = code[c].ctx
      OBVIOUS
    <2> QED  BY <1>2, <1>3, <1>5, <1>6, <2>1, EnteredMove
  <1>12. LookOf(c)'
    BY <1>6 DEF LookOf
  <1>13. GoodCode(c)'
    BY <1>8, <1>9, <1>10, <1>11, <1>12 DEF GoodCode
  <1>14. RoomInv'
    <2>1. \A d \in 1..Len(code) : code'[d].pc = "look" <=> code[d].pc = "look"
      BY <1>5, <1>6 DEF Same
    <2> QED  BY <1>5, <2>1, RoomKept
  <1>15. ASSUME NEW d \in 1..Len(code)
         PROVE  Left(c, d)'
    <2> SUFFICES ASSUME c \notin raced, code'[d].via = c
                 PROVE  Awaited(c, code[d].thread)'
      BY DEF Left
    <2>1. /\ code'[d].via = code[d].via /\ code'[d].thread = code[d].thread
          /\ code[d].thread \in 1..Len(code)
      BY <1>5, ChangeFacts, KeptFacts, References
    <2>2. ViaOf(d) /\ c # 0
      BY <1>1 DEF Inv, ViaInv
    <2>3. t = code[d].thread
      BY <2>1, <2>2 DEF ViaOf, HasExecutor
    <2>4. code'[c].on = t /\ code'[c].pc \in {"exit", "block"}
      BY <1>5, <2>1, <2>3 DEF JoinPc
    <2> QED  BY <2>1, <2>3, <2>4, Zenon DEF Awaited
  <1>16. Value \in DOMAIN code[c].ctx => Value \in DOMAIN code'[c].ctx
    BY <1>3, <1>6
  <1> QED  BY <1>1, <1>4, <1>5, <1>6, <1>7, <1>13, <1>14, <1>15, <1>16, MoveKeeps

\* c goes on, its context as it was.
LEMMA ControlMove ==
    ASSUME Inv, NEW c \in DOMAIN code, code[c].pc \in {"run", "exit", "block"},
           NEW q \in Codes, SameCode(q, code[c]), code' = [code EXCEPT ![c] = q],
           q.pc = "run", q.ctx = code[c].ctx, q.executor = code[c].executor,
           q.old = code[c].old, q.on \in {0, code[c].on},
           q.token = code[c].token \/ (code[c].token = "inner" /\ q.token = "left"),
           \A d \in DOMAIN code :
               q.token = "left" /\ c \notin raced /\ code[d].via = c /\ code[d].pc # "done"
                   => code[c].loop # 0 /\ q.on = 0,
           UNCHANGED <<thr, program, writes, leaked, raced>>
    PROVE  Inv'
  <1>1. /\ Len(code) \in Nat /\ DOMAIN code = 1..Len(code) /\ code[c] \in Codes
        /\ leaked \subseteq 1..Len(code) /\ c \in 1..Len(code)
        /\ writes' \in 0..MaxWrites
    BY Domains DEF Inv, TypeInv
  <1>2. CodeOK(c) /\ Entered(code[c].ctx) /\ ContextOK(code[c].ctx, Len(code))
    BY <1>1 DEF Inv, StateInv, ManagerInv, CodeOK
  <1>3. code[c].on \in 0..Len(code) /\ code[c].executor \in 0..Len(code)
    BY <1>1, References
  <1>4. /\ Changes(Len(code)) /\ code'[c] = q
        /\ \A d \in 1..Len(code) : d # c => Same(d) /\ code'[d] = code[d]
    <2>1. /\ q.executor \in 0..Len(code) /\ code[c].pc # "done"
          /\ code[c].token \in {"outer", "left"} => q.token \in {"outer", "left"}
          /\ q.token = "outer" => code[c].token \in {"outer", "none"}
          /\ leaked \subseteq leaked' /\ raced \subseteq raced'
      BY <1>3
    <2> QED  BY <1>1, <2>1, ThreadsStay, MoveFacts
  <1>5. /\ code'[c].ctx = code[c].ctx /\ code'[c].pc = "run" /\ code'[c].token = q.token
        /\ code'[c].on = q.on /\ code'[c].executor = code[c].executor
        /\ code'[c].old = code[c].old
    BY <1>4
  <1>6. Started(c) /\ Started(c)' /\ Settled(c) /\ Settled(c)'
    BY <1>5 DEF Settled, Started
  <1>7. CodeOK(c)'
    <2>1. Len(code') = Len(code)
      BY <1>4, ChangeFacts
    <2>2. q.on \in 0..Len(code)
      BY <1>3
    <2> QED  BY <1>2, <1>5, <1>6, <2>1, <2>2 DEF CodeOK
  <1>8. CurrentOf(c)'
    <2>1. Effective(c)' = Effective(c)
      BY <1>5 DEF Effective
    <2> QED  BY <1>1, <1>4, <1>5, <1>6, <2>1, CurrentOfKept
  <1>9. ViewOf(c)'
    BY <1>1, <1>4, <1>5, <1>6, ViewOfKept
  <1>10. Entered(code[c].ctx)'
    <2>1. PICK ctx : ctx = code[c].ctx
      OBVIOUS
    <2> QED  BY <1>2, <1>4, <1>5, <2>1, EnteredMove
  <1>11. LookOf(c)'
    BY <1>5 DEF LookOf
  <1>12. GoodCode(c)'
    BY <1>7, <1>8, <1>9, <1>10, <1>11 DEF GoodCode
  <1>13. RoomInv'
    <2>1. \A d \in 1..Len(code) : code'[d].pc = "look" <=> code[d].pc = "look"
      BY <1>4, <1>5 DEF Same
    <2> QED  BY <1>4, <2>1, RoomKept
  <1>14. ASSUME NEW d \in 1..Len(code)
         PROVE  Left(c, d)'
    <2>1. /\ code'[d].via = code[d].via /\ code'[c].loop = code[c].loop
          /\ code[d].pc = "done" => code'[d].pc = "done"
      BY <1>1, <1>4, ChangeFacts, KeptFacts DEF Changes
    <2> QED  BY <1>1, <1>5, <2>1 DEF Left, Awaited
  <1> QED  BY <1>1, <1>4, <1>5, <1>6, <1>12, <1>13, <1>14, ThreadsStay, MoveKeeps

LEMMA ExitsKeeps ==
    ASSUME Inv, NEW c \in DOMAIN code, Exits(c)
    PROVE  Inv'
  <1>1. /\ DOMAIN code = 1..Len(code) /\ code[c] \in Codes /\ code[c].pc = "run"
        /\ UNCHANGED <<program, writes, leaked, raced>>
    BY Domains DEF Inv, Exits, Runs
  <1>2. CASE code[c].token = "inner"
    <2>1. PICK q : q = [code[c] EXCEPT !.token = "left"]
      OBVIOUS
    <2>2. /\ q \in Codes /\ SameCode(q, code[c]) /\ q.pc = "run" /\ q.token = "left"
          /\ q.on = code[c].on /\ q.executor = code[c].executor /\ q.old = code[c].old
          /\ q.ctx = code[c].ctx
      BY <1>1, <2>1 DEF Codes, SameCode, Tokens
    <2>3. code' = [code EXCEPT ![c].token = "left"] /\ thr' = thr
      BY <1>2 DEF Exits
    <2>4. code' = [code EXCEPT ![c] = q]
      BY <2>1, <2>3
    <2>5. \A d \in DOMAIN code : code[d].via # c
      BY <1>1, <1>2 DEF Inv, ViaInv, ViaOf
    <2>6. \A d \in DOMAIN code :
             q.token = "left" /\ c \notin raced /\ code[d].via = c /\ code[d].pc # "done"
                 => code[c].loop # 0 /\ q.on = 0
      BY <2>5
    <2>7. code[c].pc \in {"run", "exit", "block"} /\ q.on \in {0, code[c].on}
      BY <1>1, <2>2
    <2>8. UNCHANGED <<thr, program, writes, leaked, raced>>
      BY <1>1, <2>3
    <2>9. q.token = code[c].token \/ (code[c].token = "inner" /\ q.token = "left")
      BY <1>2, <2>2
    <2> QED  BY <2>2, <2>4, <2>6, <2>7, <2>8, <2>9, ControlMove
  <1>3. CASE code[c].token = "outer"
    <2>1. PICK m : m = Manager(c)
      OBVIOUS
    <2>2. PICK t : t = code[c].executor
      OBVIOUS
    <2>3. PICK new : new = Without(code[c].ctx, m)
      OBVIOUS
    <2>4. PICK ctx : ctx = code[c].ctx
      OBVIOUS
    <2>5. m \in {TSC, STC} /\ new \in Contexts
      <3>1. ContextOK(ctx, Len(code)) /\ m \in {TSC, STC} /\ Len(code) \in Nat
        BY <1>1, <2>1, <2>4, Domains DEF Inv, StateInv, CodeOK, Manager
      <3>2. ContextOK(new, Len(code))
        BY <2>3, <2>4, <3>1, Unset
      <3> QED  BY <3>1, <3>2 DEF ContextOK
    <2>6. new = [var \in DOMAIN code[c].ctx \ {Manager(c)} |-> code[c].ctx[var]]
      BY <2>1, <2>3 DEF Without
    <2>7. CASE t = 0
      <3>1. /\ code' = [code EXCEPT ![c].token = "left", ![c].ctx = new, ![c].executor = 0]
            /\ thr' = thr
        BY <1>3, <2>2, <2>6, <2>7 DEF Exits
      <3>2. PICK q : q = [code[c] EXCEPT !.token = "left", !.ctx = new, !.executor = 0]
        OBVIOUS
      <3>3. /\ q \in Codes /\ SameCode(q, code[c]) /\ q.pc = "run" /\ q.token = "left"
            /\ q.on = code[c].on /\ q.executor = 0 /\ q.old = code[c].old /\ q.ctx = new
        BY <1>1, <2>5, <3>2 DEF Codes, SameCode, Tokens
      <3>4. code' = [code EXCEPT ![c] = q]
        BY <3>1, <3>2
      <3>5. /\ t = 0 => q.pc = "run" /\ q.on = code[c].on /\ thr' = thr
            /\ t # 0 => q.pc = JoinPc(c) /\ q.on = t /\ thr' = [thr EXCEPT ![t].shut = TRUE]
        BY <2>7, <3>1, <3>3
      <3> QED  BY <1>1, <1>3, <2>2, <2>3, <2>5, <3>3, <3>4, <3>5, OuterExit
    <2>8. CASE t # 0
      <3>1. /\ code' = [code EXCEPT ![c].token = "left", ![c].ctx = new, ![c].executor = 0,
                                    ![c].pc = JoinPc(c), ![c].on = t]
            /\ thr' = [thr EXCEPT ![t].shut = TRUE]
        BY <1>3, <2>2, <2>6, <2>8 DEF Exits
      <3>2. PICK q : q = [code[c] EXCEPT !.token = "left", !.ctx = new, !.executor = 0,
                                         !.pc = JoinPc(c), !.on = t]
        OBVIOUS
      <3>3. t \in Nat /\ JoinPc(c) \in Pcs
        BY <1>1, <2>2, CodeFields DEF JoinPc, Pcs
      <3>4. /\ q \in Codes /\ SameCode(q, code[c]) /\ q.pc = JoinPc(c) /\ q.token = "left"
            /\ q.on = t /\ q.executor = 0 /\ q.old = code[c].old /\ q.ctx = new
        BY <1>1, <2>5, <3>2, <3>3 DEF Codes, SameCode, Tokens
      <3>5. code' = [code EXCEPT ![c] = q]
        BY <3>1, <3>2
      <3>6. /\ t = 0 => q.pc = "run" /\ q.on = code[c].on /\ thr' = thr
            /\ t # 0 => q.pc = JoinPc(c) /\ q.on = t /\ thr' = [thr EXCEPT ![t].shut = TRUE]
        BY <2>8, <3>1, <3>4
      <3> QED  BY <1>1, <1>3, <2>2, <2>3, <2>5, <3>4, <3>5, <3>6, OuterExit
    <2> QED  BY <2>7, <2>8
  <1> QED  BY <1>2, <1>3 DEF Exits

\* When the join returns nothing is left on the thread.
LEMMA ExitReturnsKeeps ==
    ASSUME Inv, NEW c \in DOMAIN code, ExitReturns(c)
    PROVE  Inv'
  <1>1. /\ DOMAIN code = 1..Len(code) /\ code[c] \in Codes /\ code[c].pc \in {"exit", "block"}
        /\ thr[code[c].on].ended /\ code' = [code EXCEPT ![c].pc = "run"]
        /\ UNCHANGED <<thr, program, writes, leaked, raced>>
    BY Domains DEF Inv, ExitReturns, Joined
  <1>2. PICK q : q = [code[c] EXCEPT !.pc = "run"]
    OBVIOUS
  <1>3. /\ q \in Codes /\ SameCode(q, code[c]) /\ q.pc = "run" /\ q.token = code[c].token
        /\ q.on = code[c].on /\ q.executor = code[c].executor /\ q.old = code[c].old
        /\ q.ctx = code[c].ctx
    BY <1>1, <1>2 DEF Codes, SameCode, Pcs
  <1>4. code' = [code EXCEPT ![c] = q]
    BY <1>1, <1>2
  <1>5. ASSUME NEW d \in DOMAIN code, code[c].token = "left", c \notin raced, code[d].via = c,
               code[d].pc # "done"
        PROVE  code[c].loop # 0 /\ code[c].on = 0
    <2>1. Awaited(c, code[d].thread)
      BY <1>5 DEF Inv, ExitInv, Left
    <2>2. code[d].thread # code[c].on
      <3>1. code[d].thread \in DOMAIN thr
        BY <1>1, References, Domains DEF Inv
      <3>2. thr[code[d].thread].ended => code[d].pc = "done"
        BY <3>1 DEF Inv, EndedInv
      <3> QED  BY <1>1, <1>5, <3>2
    <2> QED  BY <2>1, <2>2 DEF Awaited
  <1>6. \A d \in DOMAIN code :
           q.token = "left" /\ c \notin raced /\ code[d].via = c /\ code[d].pc # "done"
               => code[c].loop # 0 /\ q.on = 0
    BY <1>3, <1>5
  <1>7. code[c].pc \in {"run", "exit", "block"} /\ q.on \in {0, code[c].on}
    BY <1>1, <1>3
  <1> QED  BY <1>1, <1>3, <1>4, <1>6, <1>7, ControlMove

LEMMA ExitCancelledKeeps ==
    ASSUME Inv, NEW c \in DOMAIN code, ExitCancelled(c)
    PROVE  Inv'
  <1>1. /\ DOMAIN code = 1..Len(code) /\ code[c] \in Codes /\ code[c].pc = "exit"
        /\ code' = [code EXCEPT ![c].pc = "run", ![c].on = 0]
        /\ UNCHANGED <<thr, program, writes, leaked, raced>>
    BY Domains DEF Inv, ExitCancelled
  <1>2. PICK q : q = [code[c] EXCEPT !.pc = "run", !.on = 0]
    OBVIOUS
  <1>3. /\ q \in Codes /\ SameCode(q, code[c]) /\ q.pc = "run" /\ q.token = code[c].token
        /\ q.on = 0 /\ q.executor = code[c].executor /\ q.old = code[c].old
        /\ q.ctx = code[c].ctx
    BY <1>1, <1>2 DEF Codes, SameCode, Pcs
  <1>4. code' = [code EXCEPT ![c] = q]
    BY <1>1, <1>2
  <1>5. code[c].loop # 0
    BY <1>1 DEF Inv, StateInv, CodeOK
  <1> QED  BY <1>1, <1>3, <1>4, <1>5, ControlMove

-----------------------------------------------------------------------------
(* executors.current. *)

LEMMA CurrentValue ==
    ASSUME NEW k \in Nat, NEW ctx, ContextOK(ctx, k), NEW ident
    PROVE  /\ Current(ctx, ident) \in {0, RawCurrent(ctx)}
           /\ Current(ctx, ident) \in 0..k
           /\ (Executors \in DOMAIN ctx => ctx[Executors].ident = ident)
                 => Current(ctx, ident) = RawCurrent(ctx)
  <1>1. DOMAIN <<>> = {}
    OBVIOUS
  <1>2. CASE Executors \in DOMAIN ctx /\ ctx[Executors].ident = ident
    <2>1. Data(ctx, Executors, ident) = ctx[Executors].data
      BY <1>2 DEF Data
    <2>2. Current(ctx, ident) = RawCurrent(ctx)
      BY <1>2, <2>1 DEF Current, RawCurrent, Has, GetAttr
    <2> QED  BY <2>2 DEF ContextOK
  <1>3. CASE ~(Executors \in DOMAIN ctx /\ ctx[Executors].ident = ident)
    <2>1. Data(ctx, Executors, ident) = <<>>
      BY <1>3 DEF Data
    <2>2. Current(ctx, ident) = 0
      BY <1>1, <2>1 DEF Current, Has
    <2>3. Executors \notin DOMAIN ctx => RawCurrent(ctx) = 0
      BY DEF RawCurrent
    <2> QED  BY <1>3, <2>2, <2>3
  <1> QED  BY <1>2, <1>3

\* Code that runs finds its own, unless it is a thread of the program's.
LEMMA OwnCurrent ==
    ASSUME Inv, NEW c \in 1..Len(code), code[c].pc = "run"
    PROVE  /\ ContextOK(code[c].ctx, Len(code)) /\ Len(code) \in Nat
           /\ Current(code[c].ctx, Ident(c)) \in 0..Len(code)
           /\ ~Own(c) => Current(code[c].ctx, Ident(c)) = RawCurrent(code[c].ctx)
  <1>1. DOMAIN code = 1..Len(code) /\ Len(code) \in Nat
    BY Domains DEF Inv
  <1>2. CurrentOf(c) /\ ContextOK(code[c].ctx, Len(code)) /\ Settled(c)
    BY <1>1 DEF Inv, CurrentInv, StateInv, CodeOK, Settled, Started
  <1>3. PICK ctx : ctx = code[c].ctx
    OBVIOUS
  <1>4. PICK ident : ident = Ident(c)
    OBVIOUS
  <1>5. ~Own(c) => (Executors \in DOMAIN ctx => ctx[Executors].ident = ident)
    BY <1>2, <1>3, <1>4 DEF CurrentOf
  <1>6. /\ Current(ctx, ident) \in 0..Len(code)
        /\ (Executors \in DOMAIN ctx => ctx[Executors].ident = ident)
                 => Current(ctx, ident) = RawCurrent(ctx)
    BY <1>1, <1>2, <1>3, CurrentValue
  <1> QED  BY <1>1, <1>2, <1>3, <1>4, <1>5, <1>6, Zenon

\* What async_to_sync does first.
Registers(c, new, old) ==
    /\ ContextOK(new, Len(code)) /\ RawCurrent(new) = c
    /\ \A v : v \in DOMAIN new <=> v \in DOMAIN code[c].ctx \/ v = Executors
    /\ new[Executors].ident = Ident(c)
    /\ \A v \in DOMAIN code[c].ctx : v # Executors => new[v] = code[c].ctx[v]
    /\ old \in 0..Len(code)
    /\ code[c].caller # 0 => old = RawCurrent(code[c].ctx)

LEMMA SyncCaller ==
    ASSUME Inv, NEW c \in 1..Len(code), code[c].pc = "run", code[c].loop = 0,
           NEW new, new = SetAttr(code[c].ctx, Executors, Ident(c), "current", c),
           NEW old, old = Current(code[c].ctx, Ident(c))
    PROVE  Registers(c, new, old)
  <1>1. ContextOK(code[c].ctx, Len(code)) /\ Len(code) \in Nat /\ old \in 0..Len(code)
    BY OwnCurrent
  <1>2. code[c].caller # 0 => old = RawCurrent(code[c].ctx)
    BY OwnCurrent DEF Own
  <1>3. Ident(c) \in Nat /\ c \in 0..Len(code)
    BY <1>1, References
  <1>4. CurrentSet(new, code[c].ctx, Ident(c), c, Len(code))
    BY <1>1, <1>3, SetCurrent
  <1> QED  BY <1>1, <1>2, <1>4 DEF CurrentSet, Registers

\* The executor of the AsyncSingleThreadContext is looked up.
Looks(r, new, old, t) == [r EXCEPT !.pc = "look", !.ctx = new, !.old = old, !.on = t]

LEMMA LookKeeps ==
    ASSUME Inv, NEW c \in DOMAIN code, code[c].pc = "run", code[c].loop = 0, Room,
           NEW new, new = SetAttr(code[c].ctx, Executors, Ident(c), "current", c),
           NEW old, old = Current(code[c].ctx, Ident(c)),
           STC \in DOMAIN new, NEW t, t = code[new[STC]].executor,
           NEW q, q = Looks(code[c], new, old, t), code' = [code EXCEPT ![c] = q],
           UNCHANGED <<thr, program, writes, leaked, raced>>
    PROVE  Inv'
  <1>1. /\ Len(code) \in Nat /\ DOMAIN code = 1..Len(code) /\ code[c] \in Codes
        /\ leaked \subseteq 1..Len(code) /\ c \in 1..Len(code)
        /\ writes' \in 0..MaxWrites
    BY Domains DEF Inv, TypeInv
  <1>2. CodeOK(c) /\ Entered(code[c].ctx) /\ ContextOK(code[c].ctx, Len(code))
    BY <1>1 DEF Inv, StateInv, ManagerInv, CodeOK
  <1>3. /\ ContextOK(new, Len(code)) /\ RawCurrent(new) = c
        /\ \A v : v \in DOMAIN new <=> v \in DOMAIN code[c].ctx \/ v = Executors
        /\ new[Executors].ident = Ident(c)
        /\ \A v \in DOMAIN code[c].ctx : v # Executors => new[v] = code[c].ctx[v]
        /\ old \in 0..Len(code)
        /\ code[c].caller # 0 => old = RawCurrent(code[c].ctx)
    <2>1. Registers(c, new, old)
      BY <1>1, SyncCaller
    <2> QED  BY <2>1 DEF Registers
  <1>4. PICK x : x = new[STC]
    OBVIOUS
  <1>5. x \in 1..Len(code) /\ t = code[x].executor /\ t \in 0..Len(code)
    <2>1. x \in 1..Len(code)
      BY <1>3, <1>4 DEF ContextOK
    <2> QED  BY <1>4, <2>1, References
  <1>7. /\ q \in Codes /\ SameCode(q, code[c]) /\ q.pc = "look" /\ q.token = code[c].token
        /\ q.on = t /\ q.executor = code[c].executor /\ q.old = old /\ q.ctx = new
    <2>1. new \in Contexts /\ old \in Nat /\ t \in Nat
      BY <1>3, <1>5 DEF ContextOK
    <2> QED  BY <1>1, <2>1 DEF Codes, SameCode, Pcs, Looks
  <1>8. code' = [code EXCEPT ![c] = q]
    OBVIOUS
  <1>9. /\ Changes(Len(code)) /\ code'[c] = q
        /\ \A d \in 1..Len(code) : d # c => Same(d) /\ code'[d] = code[d]
    <2>1. /\ q.executor \in 0..Len(code) /\ code[c].pc # "done"
          /\ code[c].token \in {"outer", "left"} => q.token \in {"outer", "left"}
          /\ q.token = "outer" => code[c].token \in {"outer", "none"}
          /\ leaked \subseteq leaked' /\ raced \subseteq raced'
      BY <1>1, <1>7, References
    <2> QED  BY <1>1, <1>7, <1>8, <2>1, ThreadsStay, MoveFacts
  <1>10. /\ code'[c].ctx = new /\ code'[c].pc = "look" /\ code'[c].token = code[c].token
         /\ code'[c].on = t /\ code'[c].executor = code[c].executor
         /\ code'[c].old = old /\ code'[c].loop = 0
    BY <1>7, <1>9 DEF SameCode
  <1>11. Started(c) /\ Started(c)' /\ Settled(c) /\ Settled(c)'
    BY <1>10 DEF Settled, Started
  <1>12. CodeOK(c)'
    <2>1. Len(code') = Len(code)
      BY <1>9, ChangeFacts
    <2>2. code[c].executor \in 0..Len(code)
      BY <1>1, References
    <2> QED  BY <1>3, <1>5, <1>10, <1>11, <2>1, <2>2 DEF CodeOK
  <1>13. CurrentOf(c)'
    <2>1. code[c].caller # 0 => Effective(c)' = Effective(c)
      BY <1>3, <1>10 DEF Effective
    <2> QED  BY <1>1, <1>3, <1>9, <1>10, <1>11, <2>1, CurrentOfKept
  <1>14. ViewOf(c)'
    <2>1. Value \in DOMAIN code'[c].ctx =>
             Value \in DOMAIN code[c].ctx /\ code'[c].ctx[Value] = code[c].ctx[Value]
      BY <1>3, <1>10, VarFacts
    <2> QED  BY <1>1, <1>9, <1>11, <2>1, ViewOfKept
  <1>15. Entered(code[c].ctx)'
    <2>1. PICK ctx : ctx = code[c].ctx
      OBVIOUS
    <2>2. \A var \in {TSC, STC} : var \in DOMAIN new => var \in DOMAIN ctx /\ new[var] = ctx[var]
      BY <1>3, <2>1, VarFacts
    <2> QED  BY <1>2, <1>9, <1>10, <2>1, <2>2, EnteredMove
  <1>16. LookOf(c)'
    <2>1. code'[x].executor = t
      BY <1>5, <1>9, <1>10
    <2>2. t # 0 => ~Own(t)
      BY <1>1, <1>5 DEF Inv, ExecutorInv
    <2>3. t # 0 => ~Own(t)'
      BY <1>5, <1>9, <2>2, ChangeFacts, KeptFacts
    <2> QED  BY <1>4, <1>10, <2>1, <2>3 DEF LookOf, HasExecutor, Own
  <1>17. GoodCode(c)'
    BY <1>12, <1>13, <1>14, <1>15, <1>16 DEF GoodCode
  <1>18. RoomInv'
    <2>1. \A d \in 1..Len(code) : d # c => code'[d].pc = code[d].pc
      BY <1>9
    <2> QED  BY <1>1, <1>9, <1>10, <2>1, RoomMore
  <1>19. StillLeft(c)
    BY <1>1, <1>10 DEF StillLeft
  <1>20. Value \in DOMAIN code[c].ctx => Value \in DOMAIN code'[c].ctx
    BY <1>3, <1>10
  <1> QED  BY <1>1, <1>9, <1>10, <1>11, <1>17, <1>18, <1>19, <1>20, ThreadsStay, MoveKeeps

\* submit() raises, and the call is over: the context comes back to the caller.
LEMMA LookFails ==
    ASSUME Inv, NEW c \in DOMAIN code, code[c].pc = "look",
           NEW mid, mid = Restore(code[c].ctx, code[c].ctx, Ident(c)),
           NEW new, new = SetAttr(mid, Executors, Ident(c), "current", code[c].old),
           code' = [code EXCEPT ![c].pc = "run", ![c].on = 0, ![c].ctx = new],
           Leak(c, Foreign(code[c].ctx, Ident(c))),
           UNCHANGED <<thr, program, writes, raced>>
    PROVE  Inv'
  <1>1. /\ Len(code) \in Nat /\ DOMAIN code = 1..Len(code) /\ code[c] \in Codes
        /\ c \in 1..Len(code) /\ writes' \in 0..MaxWrites /\ leaked \subseteq 1..Len(code)
    BY Domains DEF Inv, TypeInv
  <1>2. /\ CodeOK(c) /\ Entered(code[c].ctx) /\ ContextOK(code[c].ctx, Len(code))
        /\ code[c].root \in 1..Len(code) /\ code[c].loop = 0
    BY <1>1 DEF Inv, StateInv, ManagerInv, CodeOK, PlaceInv, PlaceOf
  <1>3. code[c].old \in 0..Len(code) /\ code[c].executor \in 0..Len(code) /\ Ident(c) \in Nat
    BY <1>1, References
  <1>4. Restored(mid, code[c].ctx, code[c].ctx, Ident(c), Len(code))
    BY <1>1, <1>2, <1>3, RestoreTo
  <1>5. CurrentSet(new, mid, Ident(c), code[c].old, Len(code))
    <2>1. ContextOK(mid, Len(code))
      BY <1>4 DEF Restored
    <2> QED  BY <1>1, <1>3, <2>1, SetCurrent
  <1>6. /\ ContextOK(new, Len(code)) /\ RawCurrent(new) = code[c].old
        /\ new[Executors].ident = Ident(c)
    BY <1>5 DEF CurrentSet
  <1>7. \A var \in {TSC, STC} :
           var \in DOMAIN new => var \in DOMAIN code[c].ctx /\ new[var] = code[c].ctx[var]
    <2>1. \A var \in {TSC, STC} : var \in DOMAIN new => var \in DOMAIN mid /\ new[var] = mid[var]
      BY <1>5, VarFacts DEF CurrentSet
    <2>2. \A var \in {TSC, STC} :
             var \in DOMAIN mid => var \in DOMAIN code[c].ctx /\ mid[var] = code[c].ctx[var]
      BY <1>4, VarFacts DEF Restored
    <2> QED  BY <2>1, <2>2
  <1>8. /\ Value \in DOMAIN new <=> Value \in DOMAIN code[c].ctx
        /\ Value \in DOMAIN new => new[Value].data = code[c].ctx[Value].data
    <2>1. /\ Value \in DOMAIN new <=> Value \in DOMAIN mid
          /\ Value \in DOMAIN new => new[Value] = mid[Value]
      BY <1>5, VarFacts DEF CurrentSet
    <2>2. /\ Value \in DOMAIN mid <=> Value \in DOMAIN code[c].ctx
          /\ Value \in DOMAIN mid => mid[Value].data = code[c].ctx[Value].data
      BY <1>4 DEF Restored
    <2> QED  BY <2>1, <2>2
  <1>9. PICK q : q = [code[c] EXCEPT !.pc = "run", !.on = 0, !.ctx = new]
    OBVIOUS
  <1>10. /\ q \in Codes /\ SameCode(q, code[c]) /\ q.pc = "run" /\ q.token = code[c].token
         /\ q.on = 0 /\ q.executor = code[c].executor /\ q.old = code[c].old /\ q.ctx = new
    <2>1. new \in Contexts
      BY <1>6 DEF ContextOK
    <2> QED  BY <1>1, <1>9, <2>1 DEF Codes, SameCode, Pcs
  <1>11. code' = [code EXCEPT ![c] = q]
    BY <1>9
  <1>12. /\ leaked \subseteq leaked' /\ leaked' \subseteq 1..Len(code)
         /\ Foreign(code[c].ctx, Ident(c)) => code[c].root \in leaked'
    BY <1>1, <1>2 DEF Leak
  <1>13. /\ Changes(Len(code)) /\ code'[c] = q
         /\ \A d \in 1..Len(code) : d # c => Same(d) /\ code'[d] = code[d]
    <2>1. /\ q.executor \in 0..Len(code) /\ code[c].pc # "done"
          /\ code[c].token \in {"outer", "left"} => q.token \in {"outer", "left"}
          /\ q.token = "outer" => code[c].token \in {"outer", "none"}
          /\ raced \subseteq raced' /\ thr' = thr
      BY <1>3, <1>10
    <2> QED  BY <1>1, <1>10, <1>11, <1>12, <2>1, ThreadsStay, MoveFacts
  <1>14. /\ code'[c].ctx = new /\ code'[c].pc = "run" /\ code'[c].token = code[c].token
         /\ code'[c].on = 0 /\ code'[c].executor = code[c].executor
         /\ code'[c].old = code[c].old
    BY <1>10, <1>13
  <1>15. Started(c) /\ Started(c)' /\ Settled(c) /\ Settled(c)'
    BY <1>14 DEF Settled, Started
  <1>16. CodeOK(c)'
    <2>1. Len(code') = Len(code)
      BY <1>13, ChangeFacts
    <2> QED  BY <1>1, <1>3, <1>6, <1>14, <1>15, <2>1 DEF CodeOK
  <1>17. CurrentOf(c)'
    <2>1. Effective(c)' = Effective(c)
      BY <1>6, <1>14 DEF Effective
    <2> QED  BY <1>1, <1>2, <1>6, <1>13, <1>14, <1>15, <2>1, CurrentOfKept
  <1>18. ViewOf(c)'
    <2>1. Value \in DOMAIN code'[c].ctx => code[c].root \in leaked'
             \/ /\ Value \in DOMAIN code[c].ctx
                /\ code[c].ctx[Value].ident = Ident(c)
                /\ code'[c].ctx[Value].data = code[c].ctx[Value].data
      BY <1>8, <1>12, <1>14 DEF Foreign
    <2> QED  BY <1>1, <1>13, <1>15, <2>1, ViewOfKept
  <1>19. Entered(code[c].ctx)'
    BY <1>2, <1>7, <1>13, <1>14, EnteredMove
  <1>20. LookOf(c)'
    BY <1>14 DEF LookOf
  <1>21. GoodCode(c)'
    BY <1>16, <1>17, <1>18, <1>19, <1>20 DEF GoodCode
  <1>22. RoomInv'
    <2>1. \A d \in 1..Len(code) : d # c => code'[d].pc = code[d].pc
      BY <1>13
    <2> QED  BY <1>1, <1>13, <1>14, <2>1, RoomLess
  <1>23. StillLeft(c)
    BY <1>1, <1>2, <1>14 DEF StillLeft
  <1>24. Value \in DOMAIN code[c].ctx => Value \in DOMAIN code'[c].ctx
    BY <1>8, <1>14
  <1>25. thr' = thr /\ raced' = raced /\ program' = program
    OBVIOUS
  <1> QED  BY <1>1, <1>12, <1>13, <1>14, <1>15, <1>21, <1>22, <1>23, <1>24, <1>25, ThreadsStay,
              MoveKeeps

-----------------------------------------------------------------------------
(* Code starts. *)

\* The context that code starts with, and what is in it.
LEMMA StartContext ==
    ASSUME Inv, NEW c \in 1..Len(code), ~Started(c), code[c].caller # 0,
           NEW base, base = IF Async(c) THEN thr[code[c].thread].base ELSE <<>>,
           NEW new, new = Restore(base, code[c].ctx, Ident(c))
    PROVE  /\ ContextOK(new, Len(code))
           /\ RawCurrent(new) = RawCurrent(code[c].ctx)
           /\ Executors \in DOMAIN new => new[Executors].ident = Ident(c)
           /\ Value \in DOMAIN code[c].ctx =>
                 Value \in DOMAIN new /\ new[Value].data = code[c].ctx[Value].data
           /\ Value \in DOMAIN new /\ Value \notin DOMAIN code[c].ctx =>
                 Value \in DOMAIN base /\ new[Value] = base[Value]
           /\ \A var \in {TSC, STC} : var \in DOMAIN new =>
                 \/ var \in DOMAIN code[c].ctx /\ new[var] = code[c].ctx[var]
                 \/ var \in DOMAIN base /\ new[var] = base[var]
           /\ ContextOK(base, Len(code)) /\ Entered(base)
  <1>1. /\ DOMAIN code = 1..Len(code) /\ DOMAIN thr = 1..Len(code) /\ Len(code) \in Nat
        /\ CodeOK(c) /\ ContextOK(code[c].ctx, Len(code))
    BY Domains DEF Inv, StateInv, CodeOK
  <1>2. code[c].thread \in 1..Len(code) /\ Ident(c) \in Nat
    BY References
  <1>3. CurrentOf(c) /\ code[c].pc # "done"
    BY <1>1 DEF Inv, CurrentInv, Started
  <1>4. ContextOK(base, Len(code)) /\ Entered(base)
    <2>1. CASE Async(c)
      BY <1>1, <1>2, <2>1 DEF Inv, StateInv, ThreadOK, ManagerInv
    <2>2. CASE ~Async(c)
      <3>1. ContextOK(<<>>, Len(code)) /\ DOMAIN <<>> = {}
        BY <1>1, EmptyContext
      <3>2. base = <<>>
        BY <2>2
      <3> QED  BY <3>1, <3>2 DEF Entered
    <2> QED  BY <2>1, <2>2
  <1>5. Restored(new, base, code[c].ctx, Ident(c), Len(code))
    BY <1>1, <1>2, <1>4, RestoreTo
  <1>6. Async(c) => Executors \in DOMAIN code[c].ctx
    <2>1. Async(c) => RawCurrent(code[c].ctx) # 0
      BY <1>3 DEF CurrentOf, Async
    <2> QED  BY <2>1 DEF RawCurrent
  <1>7. ~Async(c) => base = <<>> /\ DOMAIN base = {} /\ RawCurrent(base) = 0
    BY <1>1, EmptyContext
  <1>8. Executors \notin DOMAIN code[c].ctx => RawCurrent(code[c].ctx) = 0
    BY DEF RawCurrent
  <1>9. RawCurrent(new) = RawCurrent(code[c].ctx)
    BY <1>5, <1>6, <1>7, <1>8 DEF Restored
  <1>10. Executors \in DOMAIN new => new[Executors].ident = Ident(c)
    <2>1. Executors \in DOMAIN new => Executors \in DOMAIN code[c].ctx
      BY <1>5, <1>6, <1>7 DEF Restored
    <2> QED  BY <1>5, <2>1 DEF Restored
  <1>11. /\ ContextOK(new, Len(code))
         /\ Value \in DOMAIN code[c].ctx =>
               Value \in DOMAIN new /\ new[Value].data = code[c].ctx[Value].data
         /\ Value \in DOMAIN new /\ Value \notin DOMAIN code[c].ctx =>
               Value \in DOMAIN base /\ new[Value] = base[Value]
    BY <1>5 DEF Restored
  <1>12. \A var \in {TSC, STC} : var \in DOMAIN new =>
            \/ var \in DOMAIN code[c].ctx /\ new[var] = code[c].ctx[var]
            \/ var \in DOMAIN base /\ new[var] = base[var]
    <2>1. TSC \notin {Executors, Value} /\ STC \notin {Executors, Value}
      BY VarFacts
    <2> QED  BY <1>5, <2>1 DEF Restored
  <1> QED  BY <1>4, <1>9, <1>10, <1>11, <1>12

LEMMA StartKeeps ==
    ASSUME Inv, NEW c \in DOMAIN code, Start(c)
    PROVE  Inv'
  <1>1. /\ Len(code) \in Nat /\ DOMAIN code = 1..Len(code) /\ code[c] \in Codes
        /\ c \in 1..Len(code) /\ leaked \subseteq 1..Len(code) /\ writes \in 0..MaxWrites
        /\ DOMAIN thr = 1..Len(code) /\ thr \in Seq(Threads) /\ Len(thr) = Len(code)
    BY Domains DEF Inv, TypeInv
  <1>2. /\ code[c].pc \in {"posted", "queued"} /\ ~Started(c)
        /\ UNCHANGED <<program, writes, raced>>
    BY DEF Start, Started
  <1>3. /\ CodeOK(c) /\ Entered(code[c].ctx) /\ ContextOK(code[c].ctx, Len(code))
        /\ code[c].root \in 1..Len(code) /\ PlaceOf(c) /\ CurrentOf(c)
    BY <1>1, <1>2 DEF Inv, StateInv, ManagerInv, CodeOK, PlaceInv, PlaceOf, CurrentInv
  <1>4. PICK t : t = code[c].thread
    OBVIOUS
  <1>5. /\ t \in 1..Len(code) /\ code[c].executor \in 0..Len(code) /\ Ident(c) \in Nat
        /\ thr[t] \in Threads
        /\ code[c].caller # 0 => code[c].caller \in 1..Len(code)
    BY <1>1, <1>4, References, Domains DEF Inv
  <1>6. PICK base : base = IF Async(c) THEN thr[t].base ELSE <<>>
    OBVIOUS
  <1>7. PICK ctx : ctx = Restore(base, code[c].ctx, Ident(c))
    OBVIOUS
  <1>8. PICK new : new = IF code[c].caller = 0 THEN code[c].ctx ELSE ctx
    OBVIOUS
  <1>9. /\ code' = [code EXCEPT ![c].pc = "run", ![c].ctx = new]
        /\ thr' = IF Async(c) THEN thr
                  ELSE [thr EXCEPT ![t].main_event_loop = code[code[c].caller].loop]
        /\ Leak(c, /\ code[c].caller # 0
                   /\ \/ Foreign(code[c].ctx, Ident(code[c].caller))
                      \/ /\ Value \in DOMAIN base \ DOMAIN code[c].ctx
                         /\ base[Value].ident = Ident(c))
    BY <1>4, <1>6, <1>7, <1>8 DEF Start
  <1>10. code[c].caller = 0 => new = code[c].ctx
    BY <1>8
  <1>11. code[c].caller # 0 =>
            /\ ContextOK(new, Len(code))
            /\ RawCurrent(new) = RawCurrent(code[c].ctx)
            /\ Executors \in DOMAIN new => new[Executors].ident = Ident(c)
            /\ Value \in DOMAIN code[c].ctx =>
                  Value \in DOMAIN new /\ new[Value].data = code[c].ctx[Value].data
            /\ Value \in DOMAIN new /\ Value \notin DOMAIN code[c].ctx =>
                  Value \in DOMAIN base /\ new[Value] = base[Value]
            /\ \A var \in {TSC, STC} : var \in DOMAIN new =>
                  \/ var \in DOMAIN code[c].ctx /\ new[var] = code[c].ctx[var]
                  \/ var \in DOMAIN base /\ new[var] = base[var]
            /\ ContextOK(base, Len(code)) /\ Entered(base)
    BY <1>1, <1>2, <1>4, <1>6, <1>7, <1>8, StartContext
  <1>12. ContextOK(new, Len(code)) /\ RawCurrent(new) = RawCurrent(code[c].ctx)
    BY <1>3, <1>10, <1>11
  <1>13. PICK q : q = [code[c] EXCEPT !.pc = "run", !.ctx = new]
    OBVIOUS
  <1>14. /\ q \in Codes /\ SameCode(q, code[c]) /\ q.pc = "run" /\ q.token = code[c].token
         /\ q.on = code[c].on /\ q.executor = code[c].executor /\ q.old = code[c].old
         /\ q.ctx = new
    <2>1. new \in Contexts
      BY <1>12 DEF ContextOK
    <2> QED  BY <1>1, <1>13, <2>1 DEF Codes, SameCode, Pcs
  <1>15. code' = [code EXCEPT ![c] = q]
    BY <1>9, <1>13
  <1>16. leaked \subseteq leaked' /\ leaked' \subseteq 1..Len(code)
    BY <1>1, <1>3, <1>9 DEF Leak
  <1>17. /\ ThreadsKept
         /\ \A u \in 1..Len(code) : /\ thr'[u].ended = thr[u].ended /\ thr'[u].shut = thr[u].shut
                                    /\ thr'[u].critical = thr[u].critical
         /\ \A u \in 1..Len(code) :
               \/ SameThread(u)
               \/ /\ code[c].loop = 0 /\ code[c].caller # 0
                  /\ thr'[u].main_event_loop = code[code[c].caller].loop
    <2>1. CASE Async(c)
      BY <1>9, <2>1, ThreadsStay DEF SameThread
    <2>2. CASE ~Async(c)
      <3>1. code[c].loop = 0 /\ code[c].caller # 0
        BY <1>2, <1>3, <2>2 DEF CodeOK, Async
      <3>2. PICK l : l = code[code[c].caller].loop
        OBVIOUS
      <3>3. l \in Nat
        BY <1>5, <3>1, <3>2, Domains, CodeFields DEF Inv
      <3>4. PICK r : r = [thr[t] EXCEPT !.main_event_loop = l]
        OBVIOUS
      <3>5. /\ r \in Threads /\ r.ident = thr[t].ident /\ r.base = thr[t].base
            /\ r.main_event_loop = l /\ r.ended = thr[t].ended
            /\ r.critical = thr[t].critical /\ r.shut = thr[t].shut
        BY <1>5, <3>3, <3>4 DEF Threads
      <3>6. thr' = [thr EXCEPT ![t] = r]
        BY <1>9, <2>2, <3>2, <3>4
      <3>7. /\ thr' \in Seq(Threads) /\ Len(thr') = Len(code) /\ thr'[t] = r
            /\ \A u \in 1..Len(code) : u # t => thr'[u] = thr[u]
        BY <1>1, <1>5, <3>5, <3>6
      <3>8. \A u \in 1..Len(code) : u # t => SameThread(u)
        BY <1>1, <3>7 DEF SameThread
      <3> QED  BY <3>1, <3>2, <3>5, <3>7, <3>8 DEF ThreadsKept
    <2> QED  BY <2>1, <2>2
  <1>18. /\ Changes(Len(code)) /\ code'[c] = q
         /\ \A d \in 1..Len(code) : d # c => Same(d) /\ code'[d] = code[d]
    <2>1. /\ q.executor \in 0..Len(code) /\ code[c].pc # "done"
          /\ code[c].token \in {"outer", "left"} => q.token \in {"outer", "left"}
          /\ q.token = "outer" => code[c].token \in {"outer", "none"}
          /\ raced \subseteq raced'
      BY <1>2, <1>5, <1>14
    <2> QED  BY <1>1, <1>14, <1>15, <1>16, <1>17, <2>1, MoveFacts
  <1>19. /\ code'[c].ctx = new /\ code'[c].pc = "run" /\ code'[c].token = code[c].token
         /\ code'[c].on = code[c].on /\ code'[c].executor = code[c].executor
         /\ code'[c].old = code[c].old
    BY <1>14, <1>18
  <1>20. Started(c)' /\ Settled(c)' /\ (Settled(c) <=> code[c].caller = 0)
    BY <1>2, <1>19 DEF Settled, Started
  <1>21. CodeOK(c)'
    <2>1. Len(code') = Len(code)
      BY <1>18, ChangeFacts
    <2> QED  BY <1>3, <1>12, <1>19, <1>20, <2>1 DEF CodeOK
  <1>22. CurrentOf(c)'
    <2>1. Effective(c)' = Effective(c)
      BY <1>2, <1>12, <1>19 DEF Effective
    <2>2. Executors \in DOMAIN code'[c].ctx =>
               \/ code'[c].ctx[Executors].ident = Ident(c)
               \/ /\ Settled(c) /\ Executors \in DOMAIN code[c].ctx
                  /\ code'[c].ctx[Executors] = code[c].ctx[Executors]
      BY <1>10, <1>11, <1>19, <1>20
    <2> QED  BY <1>1, <1>2, <1>12, <1>18, <1>19, <2>1, <2>2, CurrentOfKept
  <1>23. ViewOf(c)'
    <2>1. /\ code'[c].sees = code[c].sees /\ code'[c].root = code[c].root
          /\ Ident(c)' = Ident(c)
      BY <1>1, <1>18, ChangeFacts, KeptFacts
    <2>2. Home(c)' = Ident(c)
      BY <1>20, <2>1 DEF Home
    <2>3. ViewOf(c)
      BY <1>1 DEF Inv, ViewInv
    <2>4. CASE code[c].caller = 0
      <3>1. Home(c) = Ident(c)
        BY <1>20, <2>4 DEF Home
      <3> QED  BY <1>10, <1>16, <1>19, <2>1, <2>2, <2>3, <2>4, <3>1 DEF ViewOf
    <2>5. CASE code[c].caller # 0
      <3>1. Home(c) = Ident(code[c].caller)
        BY <1>20, <2>5 DEF Home
      <3>2. CASE Value \in DOMAIN code[c].ctx
        <4>1. CASE Foreign(code[c].ctx, Ident(code[c].caller))
          BY <1>9, <2>1, <2>5, <4>1 DEF Leak, ViewOf
        <4>2. CASE ~Foreign(code[c].ctx, Ident(code[c].caller))
          <5>1. code[c].ctx[Value].ident = Home(c)
            BY <3>1, <3>2, <4>2 DEF Foreign
          <5>2. new[Value].data = code[c].ctx[Value].data
            BY <1>11, <2>5, <3>2
          <5> QED  BY <1>16, <1>19, <2>1, <2>3, <3>2, <5>1, <5>2 DEF ViewOf
        <4> QED  BY <4>1, <4>2
      <3>3. CASE Value \in DOMAIN new /\ Value \notin DOMAIN code[c].ctx
        <4>1. Value \in DOMAIN base /\ new[Value] = base[Value]
          BY <1>11, <2>5, <3>3
        <4>2. base[Value].ident = Ident(c) => code[c].root \in leaked'
          BY <1>9, <2>5, <3>3, <4>1 DEF Leak
        <4> QED  BY <1>19, <2>1, <2>2, <4>1, <4>2 DEF ViewOf
      <3> QED  BY <1>19, <3>2, <3>3 DEF ViewOf
    <2> QED  BY <2>4, <2>5
  <1>24. Entered(code[c].ctx)'
    <2>1. \A var \in {TSC, STC} \cap DOMAIN code[c].ctx :
             code'[code[c].ctx[var]].token \in {"outer", "left"}
      BY <1>3, <1>18, StillEntered
    <2>2. code[c].caller # 0 => \A var \in {TSC, STC} \cap DOMAIN base :
             code'[base[var]].token \in {"outer", "left"}
      BY <1>11, <1>18, StillEntered
    <2>3. CASE code[c].caller = 0
      BY <1>10, <1>19, <2>1, <2>3 DEF Entered
    <2>4. CASE code[c].caller # 0
      <3>1. \A var \in {TSC, STC} : var \in DOMAIN new =>
              \/ var \in DOMAIN code[c].ctx /\ new[var] = code[c].ctx[var]
              \/ var \in DOMAIN base /\ new[var] = base[var]
        BY <1>11, <2>4
      <3> QED  BY <1>19, <2>1, <2>2, <2>4, <3>1, Zenon DEF Entered
    <2> QED  BY <2>3, <2>4
  <1>25. LookOf(c)'
    BY <1>19 DEF LookOf
  <1>26. GoodCode(c)'
    BY <1>21, <1>22, <1>23, <1>24, <1>25 DEF GoodCode
  <1>27. RoomInv'
    <2>1. \A d \in 1..Len(code) : code'[d].pc = "look" <=> code[d].pc = "look"
      BY <1>2, <1>18, <1>19 DEF Same
    <2> QED  BY <1>2, <1>18, <2>1, RoomKept
  <1>28. StillLeft(c)
    BY <1>1, <1>2, <1>19 DEF StillLeft
  <1>29. Value \in DOMAIN code[c].ctx => Value \in DOMAIN code'[c].ctx
    BY <1>10, <1>11, <1>19
  <1>30. \A u \in 1..Len(code) : SameThread(u) \/ ThreadOK(u)'
    <2> SUFFICES ASSUME NEW u \in 1..Len(code), ~SameThread(u)
                 PROVE  ThreadOK(u)'
      OBVIOUS
    <2>1. ThreadOK(u)
      BY <1>1 DEF Inv, StateInv
    <2>2. PICK l : l = code[code[c].caller].loop
      OBVIOUS
    <2>3. code[c].loop = 0 /\ code[c].caller \in 1..Len(code) /\ thr'[u].main_event_loop = l
          /\ code[c].caller # 0
      BY <1>5, <1>17, <2>2
    <2>4. l # 0
      BY <1>3, <2>2, <2>3 DEF PlaceOf
    <2>5. l \in 1..Len(code)
      BY <2>2, <2>3, <2>4, References
    <2>6. code[l].loop # 0
      BY <1>1, <2>2, <2>3, <2>4 DEF Inv, PlaceInv, PlaceOf
    <2>7. code'[l].loop # 0 /\ Len(code') = Len(code)
      BY <1>18, <2>5, <2>6, ChangeFacts, KeptFacts
    <2>8. /\ thr'[u].ident = thr[u].ident /\ thr'[u].base = thr[u].base
          /\ thr'[u].critical = thr[u].critical
      BY <1>17 DEF ThreadsKept
    <2> QED  BY <1>1, <2>1, <2>3, <2>5, <2>7, <2>8 DEF ThreadOK
  <1>31. writes' \in 0..MaxWrites /\ program' = program /\ raced' = raced
         /\ code[c].pc \notin {"wait", "done"}
    BY <1>1, <1>2
  <1> QED  BY <1>1, <1>16, <1>17, <1>18, <1>19, <1>20, <1>26, <1>27, <1>28, <1>29, <1>30, <1>31,
              MoveKeeps

-----------------------------------------------------------------------------
(* Code returns, and threads end. *)

\* The smallest of a set of numbers.
LEMMA Smallest ==
    ASSUME NEW S, S \subseteq Nat, S # {}
    PROVE  \E x \in S : \A y \in S : ~(y < x)
  <1>1. PICK x \in S : \A y \in S : ~(<<y, x>> \in OpToRel(<, Nat))
    BY NatLessThanWellFounded, WFMin, Zenon
  <1>2. \A y \in S : y < x => <<y, x>> \in OpToRel(<, Nat)
    BY DEF OpToRel
  <1> QED  BY <1>1, <1>2

\* All that runs on a thread of the program's own is called, with sync code in
\* between that waits, by the code of that thread.
LEMMA OwnThread ==
    ASSUME Inv, NEW c \in 1..Len(code), Own(c), code[c].pc # "wait",
           NEW d \in 1..Len(code), code[d].thread = c, d # c
    PROVE  code[d].pc = "done"
  <1>1. /\ Len(code) \in Nat /\ DOMAIN code = 1..Len(code)
    BY Domains DEF Inv
  <1> DEFINE S == {b \in 1..Len(code) : code[b].thread = c /\ b # c /\ code[b].pc # "done"}
  <1>2. SUFFICES ASSUME code[d].pc # "done"
                 PROVE  FALSE
    OBVIOUS
  <1>3. PICK b \in S : \A a \in S : ~(a < b)
    <2>1. S \subseteq Nat /\ S # {}
      BY <1>1, <1>2
    <2> HIDE DEF S
    <2> QED  BY <2>1, Smallest
  <1>4. b \in 1..Len(code) /\ code[b].thread = c /\ b # c /\ code[b].pc # "done"
    BY <1>3
  <1>5. PlaceOf(b)
    BY <1>1, <1>4 DEF Inv, PlaceInv
  <1>6. code[b].loop = 0 /\ code[b].caller # 0
    <2>1. code[b].loop = 0
      BY <1>4, <1>5 DEF PlaceOf
    <2>2. ~Own(b)
      BY <1>4, <1>5 DEF PlaceOf
    <2> QED  BY <2>1, <2>2 DEF Own
  <1>7. PICK p : p = code[b].caller
    OBVIOUS
  <1>8. p \in 1..Len(code) /\ p < b /\ code[p].pc = "wait"
    BY <1>1, <1>4, <1>6, <1>7, References DEF Inv, WaitInv
  <1>9. PICK o : o = code[p].caller
    OBVIOUS
  <1>10. o # 0 /\ code[b].thread = code[o].thread
    BY <1>4, <1>5, <1>6, <1>7, <1>9 DEF PlaceOf
  <1>11. o \in 1..Len(code) /\ o < p /\ code[o].pc = "wait"
    <2>1. o \in 1..Len(code) /\ o < p
      BY <1>1, <1>8, <1>9, <1>10, References
    <2>2. WaitInv /\ p \in DOMAIN code /\ code[p].pc # "done" /\ code[p].caller # 0
      BY <1>1, <1>8, <1>9, <1>10 DEF Inv
    <2>3. code[o].pc = "wait"
      BY <1>9, <2>2 DEF WaitInv
    <2> QED  BY <2>1, <2>3
  <1>12. o \in S
    BY <1>4, <1>10, <1>11
  <1> QED  BY <1>1, <1>3, <1>4, <1>8, <1>11, <1>12

\* A thread ends when all its code is done.
LEMMA EndedMore ==
    ASSUME Inv, Changes(Len(code)), NEW t \in 1..Len(code), Own(t) \/ thr[t].shut,
           \A u \in 1..Len(code) : u # t => thr'[u].ended = thr[u].ended,
           \A d \in 1..Len(code) : code[d].thread = t => code'[d].pc = "done"
    PROVE  EndedInv'
  <1>1. /\ DOMAIN code = 1..Len(code) /\ DOMAIN code' = 1..Len(code)
        /\ DOMAIN thr = 1..Len(code) /\ DOMAIN thr' = 1..Len(code)
        /\ Keeps(Len(code))
    BY ChangeFacts
  <1>2. \A d \in 1..Len(code) : (Own(d)' <=> Own(d)) /\ code'[d].thread = code[d].thread
    BY <1>1, KeptFacts
  <1>3. ASSUME NEW u \in 1..Len(code), thr'[u].ended
        PROVE  /\ Own(u)' \/ thr'[u].shut
               /\ \A d \in 1..Len(code) : code'[d].thread = u => code'[d].pc = "done"
    <2>1. thr[u].shut => thr'[u].shut
      BY <1>1 DEF Changes
    <2>2. CASE u = t
      BY <1>2, <2>1, <2>2
    <2>3. CASE u # t
      <3>1. thr[u].ended
        BY <1>3, <2>3
      <3>2. /\ Own(u) \/ thr[u].shut
            /\ \A d \in 1..Len(code) : code[d].thread = u => code[d].pc = "done"
        BY <1>1, <3>1 DEF Inv, EndedInv
      <3>3. \A d \in 1..Len(code) : code[d].pc = "done" => code'[d].pc = "done"
        BY <1>1 DEF Changes
      <3> QED  BY <1>2, <2>1, <3>2, <3>3
    <2> QED  BY <2>2, <2>3
  <1> QED  BY <1>1, <1>3 DEF EndedInv

\* The thread t ends.
LEMMA ThreadEnds ==
    ASSUME Inv, NEW t \in 1..Len(code), NEW q, q = [thr[t] EXCEPT !.ended = TRUE],
           thr' = [thr EXCEPT ![t] = q]
    PROVE  /\ ThreadsKept /\ \A u \in 1..Len(code) : SameThread(u) /\ thr'[u].shut = thr[u].shut
           /\ \A u \in 1..Len(code) : u # t => thr'[u].ended = thr[u].ended
  <1>1. /\ DOMAIN thr = 1..Len(code) /\ thr \in Seq(Threads) /\ Len(thr) = Len(code)
        /\ thr[t] \in Threads /\ Len(code) \in Nat
    BY Domains DEF Inv, TypeInv
  <1>3. /\ q \in Threads /\ q.ident = thr[t].ident /\ q.main_event_loop = thr[t].main_event_loop
        /\ q.base = thr[t].base /\ q.shut = thr[t].shut /\ q.critical = thr[t].critical
    BY <1>1 DEF Threads
  <1>5. /\ thr' \in Seq(Threads) /\ Len(thr') = Len(code) /\ thr'[t] = q
        /\ \A u \in 1..Len(code) : u # t => thr'[u] = thr[u]
    BY <1>1, <1>3
  <1> QED  BY <1>1, <1>3, <1>5 DEF ThreadsKept, SameThread

LEMMA WorkerEndsKeeps ==
    ASSUME Inv, NEW t \in DOMAIN thr, WorkerEnds(t)
    PROVE  Inv'
  <1>1. /\ Len(code) \in Nat /\ DOMAIN code = 1..Len(code) /\ DOMAIN thr = 1..Len(code)
        /\ t \in 1..Len(code) /\ leaked \subseteq 1..Len(code) /\ raced \subseteq 1..Len(code)
        /\ writes \in 0..MaxWrites /\ code \in Seq(Codes)
    BY Domains DEF Inv, TypeInv
  <1>2. /\ thr[t].shut /\ code' = code /\ program' = program /\ writes' = writes
        /\ leaked' = leaked /\ raced' = raced
        /\ \A d \in 1..Len(code) : code[d].thread = t => code[d].pc = "done"
    BY <1>1 DEF WorkerEnds, On
  <1>3. PICK q : q = [thr[t] EXCEPT !.ended = TRUE]
    OBVIOUS
  <1>4. thr' = [thr EXCEPT ![t] = q]
    BY <1>3 DEF WorkerEnds
  <1>5. /\ ThreadsKept /\ \A u \in 1..Len(code) : SameThread(u) /\ thr'[u].shut = thr[u].shut
        /\ \A u \in 1..Len(code) : u # t => thr'[u].ended = thr[u].ended
    BY <1>1, <1>3, <1>4, ThreadEnds
  <1>6. Changes(Len(code)) /\ \A d \in 1..Len(code) : Same(d)
    <2>1. Keeps(Len(code))
      BY <1>1, <1>2, <1>5 DEF Keeps, ThreadsKept, SameCode
    <2>2. \A d \in 1..Len(code) : code[d].executor \in 0..Len(code)
      BY References
    <2>3. \A d \in 1..Len(code) : code'[d] = code[d]
      BY <1>2
    <2> QED  BY <1>1, <1>2, <1>5, <2>1, <2>2, <2>3 DEF Changes, Same
  <1>7. RoomInv'
    BY <1>2, <1>6, RoomKept
  <1>8. WaitInv'
    BY <1>2, <1>6, WaitKept
  <1>9. EndedInv'
    BY <1>1, <1>2, <1>5, <1>6, EndedMore
  <1>10. ExecutorInv'
    <2>1. ASSUME NEW x \in 1..Len(code), code[x].executor # 0
          PROVE  /\ thr'[code[x].executor].shut = thr[code[x].executor].shut
                 /\ thr'[code[x].executor].ended = thr[code[x].executor].ended
      <3>1. PICK e : e = code[x].executor
        OBVIOUS
      <3>2. e \in 1..Len(code)
        BY <1>1, <2>1, <3>1, References
      <3>3. ~thr[e].shut
        BY <1>1, <2>1, <3>1 DEF Inv, ExecutorInv
      <3>4. e # t
        BY <1>2, <3>3
      <3> QED  BY <1>5, <3>1, <3>2, <3>4
    <2>2. \A x \in 1..Len(code) : code'[x].executor = code[x].executor
      BY <1>2
    <2> QED  BY <1>6, <2>1, <2>2, ExecutorSame
  <1>11. OneThread'
    BY <1>6, OneThreadKept
  <1>12. ExitInv'
    BY <1>6, ExitKept
  <1>13. SharedInv'
    BY <1>2, <1>6, SharedKept
  <1>14. \A x \in 1..Len(code) : code'[x].executor = code[x].executor
    BY <1>2
  <1> QED  BY <1>1, <1>2, <1>5, <1>6, <1>7, <1>8, <1>9, <1>10, <1>11, <1>12, <1>13, <1>14,
              StepKeeps

\* A task or a thread of the program's own ends.
LEMMA RootReturns ==
    ASSUME Inv, NEW c \in DOMAIN code, Return(c), code[c].caller = 0
    PROVE  Inv'
  <1>1. /\ Len(code) \in Nat /\ DOMAIN code = 1..Len(code) /\ DOMAIN thr = 1..Len(code)
        /\ c \in 1..Len(code) /\ leaked \subseteq 1..Len(code) /\ raced \subseteq 1..Len(code)
        /\ writes \in 0..MaxWrites /\ code \in Seq(Codes) /\ code[c] \in Codes
    BY Domains DEF Inv, TypeInv
  <1>2. /\ code[c].pc = "run" /\ program' = program /\ writes' = writes
        /\ leaked' = leaked /\ raced' = raced
    BY DEF Return, Runs
  <1>3. PICK q : q = [code[c] EXCEPT !.pc = "done", !.ctx = <<>>]
    OBVIOUS
  <1>4. ContextOK(<<>>, Len(code)) /\ DOMAIN <<>> = {}
    BY <1>1, EmptyContext
  <1>5. /\ q \in Codes /\ SameCode(q, code[c]) /\ q.pc = "done" /\ q.token = code[c].token
        /\ q.on = code[c].on /\ q.executor = code[c].executor /\ q.old = code[c].old
        /\ q.ctx = <<>>
    <2>1. <<>> \in Contexts
      BY <1>4 DEF ContextOK
    <2> QED  BY <1>1, <1>3, <2>1 DEF Codes, SameCode, Pcs
  <1>6. code' = [code EXCEPT ![c] = q]
    BY <1>3 DEF Return
  <1>7. /\ ThreadsKept /\ \A u \in 1..Len(code) : SameThread(u) /\ thr'[u].shut = thr[u].shut
        /\ \A u \in 1..Len(code) : u # c \/ ~Own(c) => thr'[u].ended = thr[u].ended
    <2>1. CASE Async(c)
      BY <2>1, ThreadsStay DEF Return
    <2>2. CASE ~Async(c)
      <3>1. PICK r : r = [thr[c] EXCEPT !.ended = TRUE]
        OBVIOUS
      <3>2. thr' = [thr EXCEPT ![c] = r]
        BY <2>2, <3>1 DEF Return
      <3>3. Own(c)
        BY <2>2 DEF Own, Async
      <3> QED  BY <1>1, <3>1, <3>2, <3>3, ThreadEnds
    <2> QED  BY <2>1, <2>2
  <1>8. /\ Changes(Len(code)) /\ code'[c] = q
        /\ \A d \in 1..Len(code) : d # c => Same(d) /\ code'[d] = code[d]
    <2>1. /\ q.executor \in 0..Len(code) /\ code[c].pc # "done"
          /\ code[c].token \in {"outer", "left"} => q.token \in {"outer", "left"}
          /\ q.token = "outer" => code[c].token \in {"outer", "none"}
          /\ leaked \subseteq leaked' /\ raced \subseteq raced'
      BY <1>1, <1>2, <1>5, References
    <2> QED  BY <1>1, <1>5, <1>6, <1>7, <2>1, MoveFacts
  <1>9. /\ code'[c].ctx = <<>> /\ code'[c].pc = "done" /\ code'[c].token = code[c].token
        /\ code'[c].on = code[c].on /\ code'[c].executor = code[c].executor
        /\ code'[c].old = code[c].old
    BY <1>5, <1>8
  <1>10. GoodCode(c)'
    <2>1. Len(code') = Len(code) /\ CodeOK(c) /\ DOMAIN code'[c].ctx = {} /\ Started(c)'
      BY <1>1, <1>4, <1>8, <1>9, ChangeFacts DEF Inv, StateInv, Started
    <2>2. CodeOK(c)'
      BY <1>4, <1>9, <2>1 DEF CodeOK
    <2>3. ViewOf(c)' /\ Entered(code[c].ctx)'
      BY <2>1, Zenon DEF ViewOf, Entered
    <2>4. LookOf(c)'
      BY <1>9 DEF LookOf
    <2> QED  BY <1>9, <2>2, <2>3, <2>4 DEF GoodCode
  <1>11. RoomInv'
    <2>1. \A d \in 1..Len(code) : code'[d].pc = "look" <=> code[d].pc = "look"
      BY <1>2, <1>8, <1>9
    <2> QED  BY <1>2, <1>8, <2>1, RoomKept
  <1>12. WaitInv'
    BY <1>2, <1>8, <1>9, WaitReturn
  <1>13. EndedInv'
    <2>1. CASE ~Own(c)
      BY <1>7, <1>8, <2>1, EndedKept
    <2>2. CASE Own(c)
      <3>1. \A d \in 1..Len(code) : code[d].thread = c => code'[d].pc = "done"
        BY <1>1, <1>2, <1>8, <1>9, <2>2, OwnThread
      <3> QED  BY <1>1, <1>7, <1>8, <2>2, <3>1, EndedMore
    <2> QED  BY <2>1, <2>2
  <1>14. \A x \in 1..Len(code) : code'[x].executor = code[x].executor
    BY <1>8, <1>9
  <1>15. ExecutorInv'
    <2>1. ASSUME NEW x \in 1..Len(code), code[x].executor # 0
          PROVE  /\ thr'[code[x].executor].shut = thr[code[x].executor].shut
                 /\ thr'[code[x].executor].ended = thr[code[x].executor].ended
      <3>1. PICK e : e = code[x].executor
        OBVIOUS
      <3>2. e \in 1..Len(code) /\ ~Own(e)
        BY <1>1, <2>1, <3>1, References DEF Inv, ExecutorInv
      <3> QED  BY <1>7, <3>1, <3>2
    <2> QED  BY <1>8, <1>14, <2>1, ExecutorSame
  <1>16. OneThread'
    BY <1>8, OneThreadKept
  <1>17. ExitInv'
    <2>1. StillLeft(c)
      BY <1>1, <1>2, <1>9 DEF StillLeft
    <2> QED  BY <1>8, <2>1, ExitKept
  <1>18. SharedInv'
    <2>1. SharedOf(c)'
      BY <1>9 DEF SharedOf
    <2>2. ASSUME NEW d \in 1..Len(code), d # c, code[d].caller # 0, code[d].pc # "done"
          PROVE  code'[code[d].caller].ctx = code[code[d].caller].ctx
      <3>1. PICK p : p = code[d].caller
        OBVIOUS
      <3>2. p \in 1..Len(code)
        BY <1>1, <2>2, <3>1, References
      <3>3. p # c
        BY <1>1, <1>2, <2>2, <3>1, NoCallee
      <3> QED  BY <1>8, <3>1, <3>2, <3>3
    <2> QED  BY <1>8, <2>1, <2>2, SharedKept
  <1>19. \A d \in 1..Len(code) : Same(d) \/ GoodCode(d)'
    BY <1>8, <1>10
  <1> QED  BY <1>1, <1>2, <1>7, <1>8, <1>11, <1>12, <1>13, <1>14, <1>15, <1>16, <1>17, <1>18,
              <1>19, StepKeeps

\* The context in which the caller goes on.
CameBack(c, p, new) ==
    /\ p \in 1..Len(code) /\ code[p].pc = "wait" /\ p # c
    /\ ContextOK(new, Len(code))
    /\ code[p].loop # 0 => RawCurrent(new) = RawCurrent(code[p].ctx)
    /\ code[p].loop = 0 => RawCurrent(new) = code[p].old
    /\ Executors \in DOMAIN new =>
          \/ new[Executors].ident = Ident(p)
          \/ Executors \in DOMAIN code[p].ctx /\ new[Executors] = code[p].ctx[Executors]
    /\ Value \in DOMAIN new <=> Value \in DOMAIN code[c].ctx
    /\ Value \in DOMAIN new => new[Value].data = code[c].ctx[Value].data
    /\ Value \in DOMAIN new => new[Value].ident = Ident(p)
    /\ Value \in DOMAIN code[p].ctx => Value \in DOMAIN code[c].ctx
    /\ \A var \in {TSC, STC} : var \in DOMAIN new =>
          \/ var \in DOMAIN code[c].ctx /\ new[var] = code[c].ctx[var]
          \/ var \in DOMAIN code[p].ctx /\ new[var] = code[p].ctx[var]

LEMMA ReturnContext ==
    ASSUME Inv, NEW c \in 1..Len(code), code[c].pc = "run", NEW p, p = code[c].caller, p # 0,
           NEW back, back = Restore(code[p].ctx, code[c].ctx, Ident(p)),
           NEW new, new = IF Async(c)
                          THEN SetAttr(back, Executors, Ident(p), "current", code[p].old)
                          ELSE back
    PROVE  CameBack(c, p, new)
  <1>1. /\ Len(code) \in Nat /\ DOMAIN code = 1..Len(code)
    BY Domains DEF Inv
  <1>2. p \in 1..Len(code) /\ p # c
    BY <1>1, References
  <1>3. code[p].pc = "wait"
    BY <1>1 DEF Inv, WaitInv
  <1>4. /\ ContextOK(code[c].ctx, Len(code)) /\ ContextOK(code[p].ctx, Len(code))
    BY <1>1, <1>2 DEF Inv, StateInv, CodeOK
  <1>5. Ident(p) \in Nat /\ code[p].old \in 0..Len(code)
    BY <1>2, References
  <1>6. Restored(back, code[p].ctx, code[c].ctx, Ident(p), Len(code))
    BY <1>1, <1>4, <1>5, RestoreTo
  <1>7. CurrentOf(c) /\ CurrentOf(p) /\ PlaceOf(c)
    BY <1>1, <1>2, <1>3 DEF Inv, CurrentInv, PlaceInv
  <1>8. code[c].loop = 0 <=> code[p].loop # 0
    BY <1>7 DEF PlaceOf
  <1>9. Value \in DOMAIN code[p].ctx => Value \in DOMAIN code[c].ctx
    <2>1. SharedOf(c)
      BY <1>1 DEF Inv, SharedInv
    <2> QED  BY <2>1 DEF SharedOf, SharedWith
  <1>10. /\ Value \in DOMAIN back <=> Value \in DOMAIN code[c].ctx
         /\ Value \in DOMAIN back => back[Value].data = code[c].ctx[Value].data
         /\ Value \in DOMAIN back => back[Value].ident = Ident(p)
    BY <1>6, <1>9 DEF Restored
  <1>11. \A var \in {TSC, STC} : var \in DOMAIN back =>
            \/ var \in DOMAIN code[c].ctx /\ back[var] = code[c].ctx[var]
            \/ var \in DOMAIN code[p].ctx /\ back[var] = code[p].ctx[var]
    <2>1. TSC \notin {Executors, Value} /\ STC \notin {Executors, Value}
      BY VarFacts
    <2> QED  BY <1>6, <2>1 DEF Restored
  <1>12. CASE code[p].loop # 0
    <2>1. new = back
      BY <1>8, <1>12 DEF Async
    <2>2. code[p].caller = RawCurrent(code[c].ctx) /\ RawCurrent(code[p].ctx) = code[p].caller
      BY <1>7, <1>8, <1>12 DEF CurrentOf
    <2>3. RawCurrent(new) = RawCurrent(code[p].ctx) /\ ContextOK(new, Len(code))
      BY <1>6, <2>1, <2>2 DEF Restored
    <2>4. Executors \in DOMAIN new =>
             \/ new[Executors].ident = Ident(p)
             \/ Executors \in DOMAIN code[p].ctx /\ new[Executors] = code[p].ctx[Executors]
      BY <1>6, <2>1 DEF Restored
    <2> QED  BY <1>2, <1>3, <1>9, <1>10, <1>11, <1>12, <2>1, <2>3, <2>4 DEF CameBack
  <1>13. CASE code[p].loop = 0
    <2>1. new = SetAttr(back, Executors, Ident(p), "current", code[p].old)
      BY <1>8, <1>13 DEF Async
    <2>2. ContextOK(back, Len(code))
      BY <1>6 DEF Restored
    <2>3. CurrentSet(new, back, Ident(p), code[p].old, Len(code))
      BY <1>1, <1>5, <2>1, <2>2, SetCurrent
    <2>4. /\ ContextOK(new, Len(code)) /\ RawCurrent(new) = code[p].old
          /\ new[Executors].ident = Ident(p)
      BY <2>3 DEF CurrentSet
    <2>5. /\ Value \in DOMAIN new <=> Value \in DOMAIN back
          /\ Value \in DOMAIN new => new[Value] = back[Value]
          /\ \A var \in {TSC, STC} : var \in DOMAIN new => var \in DOMAIN back /\ new[var] = back[var]
      BY <2>3, VarFacts DEF CurrentSet
    <2> QED  BY <1>2, <1>3, <1>9, <1>10, <1>11, <1>13, <2>4, <2>5 DEF CameBack
  <1> QED  BY <1>12, <1>13

\* Two pieces of code change.
LEMMA PairFacts ==
    ASSUME Inv, NEW c \in 1..Len(code), NEW p \in 1..Len(code), c # p,
           NEW q \in Codes, SameCode(q, code[c]), NEW r \in Codes, SameCode(r, code[p]),
           code' = [code EXCEPT ![c] = q, ![p] = r], thr' = thr,
           q.token = code[c].token, q.executor = code[c].executor,
           r.token = code[p].token, r.executor = code[p].executor,
           code[c].pc # "done", code[p].pc # "done",
           leaked \subseteq leaked', raced \subseteq raced'
    PROVE  /\ Changes(Len(code)) /\ code'[c] = q /\ code'[p] = r
           /\ \A d \in 1..Len(code) : d \notin {c, p} => Same(d) /\ code'[d] = code[d]
  <1>1. /\ Len(code) \in Nat /\ DOMAIN code = 1..Len(code) /\ DOMAIN thr = 1..Len(code)
        /\ code \in Seq(Codes)
    BY Domains DEF Inv, TypeInv
  <1>2. /\ code' \in Seq(Codes) /\ Len(code') = Len(code) /\ code'[c] = q /\ code'[p] = r
        /\ \A d \in 1..Len(code) : d \notin {c, p} => code'[d] = code[d]
    BY <1>1
  <1>3. \A d \in 1..Len(code) : d \notin {c, p} => Same(d)
    BY <1>1, <1>2 DEF Same
  <1>4. ThreadsKept
    BY ThreadsStay
  <1>5. \A d \in 1..Len(code) : SameCode(code'[d], code[d])
    <2>1. \A d \in 1..Len(code) : SameCode(code[d], code[d])
      BY DEF SameCode
    <2> QED  BY <1>2, <2>1
  <1>6. Keeps(Len(code))
    BY <1>1, <1>2, <1>4, <1>5 DEF Keeps, ThreadsKept
  <1>7. \A d \in 1..Len(code) : code[d].executor \in 0..Len(code)
    BY References
  <1>8. \A d \in 1..Len(code) : /\ code'[d].token = code[d].token
                                /\ code'[d].executor = code[d].executor
                                /\ code[d].pc = "done" => code'[d].pc = "done"
    BY <1>2
  <1>9. Changes(Len(code))
    BY <1>1, <1>4, <1>6, <1>7, <1>8 DEF Changes, ThreadsKept
  <1> QED  BY <1>2, <1>3, <1>9

\* A call returns.
LEMMA CallReturns ==
    ASSUME Inv, NEW c \in DOMAIN code, Return(c), code[c].caller # 0
    PROVE  Inv'
  <1>1. /\ Len(code) \in Nat /\ DOMAIN code = 1..Len(code) /\ DOMAIN thr = 1..Len(code)
        /\ c \in 1..Len(code) /\ leaked \subseteq 1..Len(code) /\ raced \subseteq 1..Len(code)
        /\ writes \in 0..MaxWrites /\ code \in Seq(Codes) /\ code[c] \in Codes
    BY Domains DEF Inv, TypeInv
  <1>2. /\ code[c].pc = "run" /\ program' = program /\ writes' = writes
        /\ raced' = raced /\ thr' = thr /\ Leak(c, Foreign(code[c].ctx, Ident(c)))
    BY DEF Return, Runs
  <1>3. PICK p : p = code[c].caller
    OBVIOUS
  <1>4. PICK back : back = Restore(code[p].ctx, code[c].ctx, Ident(p))
    OBVIOUS
  <1>5. PICK new : new = IF Async(c)
                         THEN SetAttr(back, Executors, Ident(p), "current", code[p].old)
                         ELSE back
    OBVIOUS
  <1>6. /\ p \in 1..Len(code) /\ code[p].pc = "wait" /\ p # c
        /\ ContextOK(new, Len(code))
        /\ code[p].loop # 0 => RawCurrent(new) = RawCurrent(code[p].ctx)
        /\ code[p].loop = 0 => RawCurrent(new) = code[p].old
        /\ Executors \in DOMAIN new =>
              \/ new[Executors].ident = Ident(p)
              \/ Executors \in DOMAIN code[p].ctx /\ new[Executors] = code[p].ctx[Executors]
        /\ Value \in DOMAIN new <=> Value \in DOMAIN code[c].ctx
        /\ Value \in DOMAIN new => new[Value].data = code[c].ctx[Value].data
        /\ Value \in DOMAIN new => new[Value].ident = Ident(p)
        /\ Value \in DOMAIN code[p].ctx => Value \in DOMAIN code[c].ctx
        /\ \A var \in {TSC, STC} : var \in DOMAIN new =>
              \/ var \in DOMAIN code[c].ctx /\ new[var] = code[c].ctx[var]
              \/ var \in DOMAIN code[p].ctx /\ new[var] = code[p].ctx[var]
    <2>1. CameBack(c, p, new)
      BY <1>1, <1>2, <1>3, <1>4, <1>5, ReturnContext
    <2> QED  BY <2>1 DEF CameBack
  <1>7. PICK q : q = [code[c] EXCEPT !.pc = "done", !.ctx = <<>>]
    OBVIOUS
  <1>8. PICK r : r = [code[p] EXCEPT !.pc = "run", !.ctx = new]
    OBVIOUS
  <1>9. ContextOK(<<>>, Len(code)) /\ DOMAIN <<>> = {}
    BY <1>1, EmptyContext
  <1>10. /\ q \in Codes /\ SameCode(q, code[c]) /\ q.pc = "done" /\ q.token = code[c].token
         /\ q.on = code[c].on /\ q.executor = code[c].executor /\ q.old = code[c].old
         /\ q.ctx = <<>>
    <2>1. <<>> \in Contexts
      BY <1>9 DEF ContextOK
    <2> QED  BY <1>1, <1>7, <2>1 DEF Codes, SameCode, Pcs
  <1>11. /\ r \in Codes /\ SameCode(r, code[p]) /\ r.pc = "run" /\ r.token = code[p].token
         /\ r.on = code[p].on /\ r.executor = code[p].executor /\ r.old = code[p].old
         /\ r.ctx = new
    <2>1. new \in Contexts /\ code[p] \in Codes
      BY <1>6, Domains DEF ContextOK, Inv
    <2> QED  BY <1>8, <2>1 DEF Codes, SameCode, Pcs
  <1>12. code' = [code EXCEPT ![c] = q, ![p] = r]
    <2>1. code' = [code EXCEPT ![c].pc = "done", ![c].ctx = <<>>,
                               ![p].pc = "run", ![p].ctx = new]
      BY <1>3, <1>4, <1>5 DEF Return
    <2> QED  BY <1>6, <1>7, <1>8, <2>1
  <1>13. /\ leaked \subseteq leaked' /\ leaked' \subseteq 1..Len(code)
         /\ Foreign(code[c].ctx, Ident(c)) => code[c].root \in leaked'
    <2>1. code[c].root \in 1..Len(code)
      BY <1>1 DEF Inv, PlaceInv, PlaceOf
    <2> QED  BY <1>1, <1>2, <2>1 DEF Leak
  <1>14. /\ Changes(Len(code)) /\ code'[c] = q /\ code'[p] = r
         /\ \A d \in 1..Len(code) : d \notin {c, p} => Same(d) /\ code'[d] = code[d]
    <2>1. code[c].pc # "done" /\ code[p].pc # "done" /\ raced \subseteq raced' /\ thr' = thr
      BY <1>2, <1>6
    <2> QED  BY <1>1, <1>6, <1>10, <1>11, <1>12, <1>13, <2>1, PairFacts
  <1>15. /\ code'[c].ctx = <<>> /\ code'[c].pc = "done" /\ code'[c].token = code[c].token
         /\ code'[c].on = code[c].on /\ code'[c].executor = code[c].executor
         /\ code'[c].old = code[c].old
    BY <1>10, <1>14
  <1>16. /\ code'[p].ctx = new /\ code'[p].pc = "run" /\ code'[p].token = code[p].token
         /\ code'[p].on = code[p].on /\ code'[p].executor = code[p].executor
         /\ code'[p].old = code[p].old
    BY <1>11, <1>14
  <1>17. GoodCode(c)'
    <2>1. Len(code') = Len(code) /\ CodeOK(c) /\ DOMAIN code'[c].ctx = {} /\ Started(c)'
      BY <1>1, <1>9, <1>14, <1>15, ChangeFacts DEF Inv, StateInv, Started
    <2>2. CodeOK(c)'
      BY <1>9, <1>15, <2>1 DEF CodeOK
    <2>3. ViewOf(c)' /\ Entered(code[c].ctx)'
      BY <2>1, Zenon DEF ViewOf, Entered
    <2>4. LookOf(c)'
      BY <1>15 DEF LookOf
    <2> QED  BY <1>15, <2>2, <2>3, <2>4 DEF GoodCode
  <1>18. Started(p) /\ Started(p)' /\ Settled(p) /\ Settled(p)'
    BY <1>6, <1>16 DEF Started, Settled
  <1>19. GoodCode(p)'
    <2>1. Len(code') = Len(code) /\ CodeOK(p)
      BY <1>1, <1>6, <1>14, ChangeFacts DEF Inv, StateInv
    <2>2. CodeOK(p)'
      BY <1>6, <1>16, <1>18, <2>1 DEF CodeOK
    <2>3. CurrentOf(p)'
      <3>1. code[p].loop = 0 => Effective(p)' = Effective(p)
        BY <1>6, <1>16 DEF Effective
      <3>2. code[p].loop # 0 => RawCurrent(code'[p].ctx) = RawCurrent(code[p].ctx)
        BY <1>6, <1>16
      <3>3. Executors \in DOMAIN code'[p].ctx =>
               \/ code'[p].ctx[Executors].ident = Ident(p)
               \/ /\ Settled(p) /\ Executors \in DOMAIN code[p].ctx
                  /\ code'[p].ctx[Executors] = code[p].ctx[Executors]
        BY <1>6, <1>16, <1>18
      <3>4. code[p].pc # "done"
        BY <1>6
      <3> QED  BY <1>6, <1>14, <3>1, <3>2, <3>3, <3>4, CurrentOfKept
    <2>4. ViewOf(p)'
      <3>1. /\ code'[p].sees = code[c].sees /\ code'[p].root = code[c].root
        <4>1. code[c].sees = code[p].sees /\ code[c].root = code[p].root
          BY <1>1, <1>3 DEF Inv, PlaceInv, PlaceOf
        <4> QED  BY <1>6, <1>14, <4>1, ChangeFacts, KeptFacts
      <3>2. CASE Foreign(code[c].ctx, Ident(c))
        BY <1>13, <3>1, <3>2 DEF ViewOf
      <3>3. CASE ~Foreign(code[c].ctx, Ident(c))
        <4>1. Home(c) = Ident(c) /\ ViewOf(c)
          BY <1>1, <1>2 DEF Home, Settled, Started, Inv, ViewInv
        <4>2. Value \in DOMAIN code[c].ctx =>
                 \A key \in DOMAIN code[c].ctx[Value].data :
                    code[c].ctx[Value].data[key] \in code[c].sees \/ code[c].root \in leaked'
          BY <1>13, <3>3, <4>1 DEF ViewOf, Foreign
        <4> QED  BY <1>6, <1>16, <3>1, <4>2, Zenon DEF ViewOf
      <3> QED  BY <3>2, <3>3
    <2>5. Entered(code[p].ctx)'
      <3>1. /\ ContextOK(code[c].ctx, Len(code)) /\ Entered(code[c].ctx)
            /\ ContextOK(code[p].ctx, Len(code)) /\ Entered(code[p].ctx)
        BY <1>1, <1>6 DEF Inv, StateInv, CodeOK, ManagerInv
      <3>2. \A var \in {TSC, STC} \cap DOMAIN code[c].ctx :
               code'[code[c].ctx[var]].token \in {"outer", "left"}
        BY <1>14, <3>1, StillEntered
      <3>3. \A var \in {TSC, STC} \cap DOMAIN code[p].ctx :
               code'[code[p].ctx[var]].token \in {"outer", "left"}
        BY <1>14, <3>1, StillEntered
      <3> QED  BY <1>6, <1>16, <3>2, <3>3, Zenon DEF Entered
    <2>6. LookOf(p)'
      BY <1>16 DEF LookOf
    <2> QED  BY <2>2, <2>3, <2>4, <2>5, <2>6 DEF GoodCode
  <1>20. RoomInv'
    <2>1. \A d \in 1..Len(code) : code'[d].pc = "look" <=> code[d].pc = "look"
      BY <1>2, <1>6, <1>14, <1>15, <1>16
    <2> QED  BY <1>2, <1>14, <2>1, RoomKept
  <1>21. WaitInv'
    BY <1>1, <1>2, <1>3, <1>14, <1>15, <1>16, WaitReturn
  <1>22. EndedInv'
    BY <1>2, <1>14, EndedKept
  <1>23. \A x \in 1..Len(code) : code'[x].executor = code[x].executor
    BY <1>14, <1>15, <1>16
  <1>24. ExecutorInv'
    BY <1>2, <1>14, <1>23, ExecutorSame
  <1>25. OneThread'
    BY <1>14, OneThreadKept
  <1>26. ExitInv'
    <2>1. StillLeft(c) /\ StillLeft(p)
      BY <1>1, <1>2, <1>6, <1>15, <1>16 DEF StillLeft
    <2>2. \A d \in 1..Len(code) : Same(d) \/ StillLeft(d)
      BY <1>14, <2>1
    <2> QED  BY <1>14, <2>2, ExitKept
  <1>27. SharedInv'
    <2>1. SharedOf(c)'
      BY <1>15 DEF SharedOf
    <2>2. SharedOf(p)'
      <3>1. PICK g : g = code[p].caller
        OBVIOUS
      <3>2. code'[p].caller = g
        BY <1>6, <1>14, <3>1, ChangeFacts, KeptFacts
      <3>3. CASE g = 0
        BY <3>2, <3>3 DEF SharedOf
      <3>4. CASE g # 0
        <4>1. g \in 1..Len(code) /\ g # p
          BY <1>1, <1>6, <3>1, <3>4, References
        <4>2. g # c
          BY <1>1, <1>2, <1>6, <3>1, NoCallee
        <4>3. code'[g].ctx = code[g].ctx
          BY <1>14, <4>1, <4>2
        <4>4. SharedOf(p) /\ code[p].pc # "done"
          BY <1>1, <1>6 DEF Inv, SharedInv
        <4>5. Value \in DOMAIN code[g].ctx => Value \in DOMAIN new
          BY <1>6, <3>1, <3>4, <4>4 DEF SharedOf, SharedWith
        <4> QED  BY <1>16, <1>18, <3>2, <4>3, <4>5 DEF SharedOf, SharedWith
      <3> QED  BY <3>3, <3>4
    <2>3. ASSUME NEW d \in 1..Len(code), d \notin {c, p}, code[d].caller # 0, code[d].pc # "done"
          PROVE  code'[code[d].caller].ctx = code[code[d].caller].ctx
      <3>1. PICK g : g = code[d].caller
        OBVIOUS
      <3>2. g \in 1..Len(code)
        BY <1>1, <2>3, <3>1, References
      <3>3. g # c
        BY <1>1, <1>2, <2>3, <3>1, NoCallee
      <3>4. g # p
        <4>1. WaitInv /\ code[c].pc # "done"
          BY <1>2 DEF Inv
        <4> QED  BY <1>1, <1>3, <2>3, <3>1, <4>1 DEF WaitInv
      <3> QED  BY <1>14, <3>1, <3>2, <3>3, <3>4
    <2> QED  BY <1>14, <2>1, <2>2, <2>3, SharedKept
  <1>28. \A d \in 1..Len(code) : Same(d) \/ GoodCode(d)'
    BY <1>14, <1>17, <1>19
  <1>29. \A u \in 1..Len(code) : SameThread(u)
    BY <1>2, ThreadsStay
  <1>30. raced' \subseteq 1..Len(code) /\ writes' \in 0..MaxWrites
    BY <1>1, <1>2
  <1> QED  BY <1>2, <1>13, <1>14, <1>20, <1>21, <1>22, <1>23, <1>24, <1>25, <1>26, <1>27, <1>28,
              <1>29, <1>30, StepKeeps

LEMMA ReturnKeeps ==
    ASSUME Inv, NEW c \in DOMAIN code, Return(c)
    PROVE  Inv'
  BY RootReturns, CallReturns

-----------------------------------------------------------------------------
(* New code. *)

\* A step that adds a piece of code, with a thread that may be for it.
Grows(k) ==
    /\ k = Len(code) + 1
    /\ code' \in Seq(Codes) /\ thr' \in Seq(Threads) /\ Len(code') = k /\ Len(thr') = k
    /\ \A d \in 1..Len(code) :
          /\ SameCode(code'[d], code[d]) /\ code'[d].token = code[d].token
          /\ code[d].pc = "done" => code'[d].pc = "done"
          /\ code'[d].executor \in 0..k
    /\ \A t \in 1..Len(code) : thr'[t] = thr[t]
    /\ ~thr'[k].ended /\ ThreadOK(k)' /\ Entered(thr[k].base)'
    /\ program' = program /\ writes' = writes
    /\ leaked \subseteq leaked' /\ leaked' \subseteq 1..k
    /\ raced \subseteq raced' /\ raced' \subseteq 1..k

LEMMA GrowFacts ==
    ASSUME Inv, NEW k, Grows(k)
    PROVE  /\ Changes(k) /\ k \in Nat /\ k \in 1..k /\ k \notin 1..Len(code) /\ k = Len(code) + 1
           /\ \A d \in 1..Len(code) : d \in 1..k
           /\ \A d \in 1..k : d \in 1..Len(code) \/ d = k
           /\ \A t \in 1..k : SameThread(t) \/ ThreadOK(t)'
  <1>1. /\ Len(code) \in Nat /\ DOMAIN code = 1..Len(code) /\ DOMAIN thr = 1..Len(code)
        /\ k = Len(code) + 1
    BY Domains DEF Inv, Grows
  <1>2. Keeps(k)
    BY <1>1 DEF Keeps, Grows
  <1>3. Changes(k)
    BY <1>1, <1>2 DEF Changes, Grows
  <1>4. \A t \in 1..Len(code) : SameThread(t)
    BY <1>1 DEF SameThread, Grows
  <1>5. \A d \in 1..k : d \in 1..Len(code) \/ d = k
    BY <1>1
  <1>6. ThreadOK(k)'
    BY DEF Grows
  <1> QED  BY <1>1, <1>3, <1>4, <1>5, <1>6

\* The idents that a new thread may have.
LEMMA FreeIdentsType ==
    ASSUME Inv, NEW k, k = Len(code) + 1, NEW ident \in FreeIdents
    PROVE  ident \in 0..k
  <1>1. /\ Len(code) \in Nat /\ DOMAIN thr = 1..Len(code)
    BY Domains DEF Inv
  <1>2. \A t \in 1..Len(code) : thr[t].ident \in 0..Len(code)
    <2> TAKE t \in 1..Len(code)
    <2>1. thr[t].ident \in Nat /\ ThreadOK(t)
      BY <1>1, Domains, ThreadFields DEF Inv, StateInv
    <2> QED  BY <1>1, <2>1 DEF ThreadOK
  <1>3. CASE ident = n
    BY <1>1, <1>3 DEF n
  <1>4. CASE \E t \in DOMAIN thr : ident = thr[t].ident
    BY <1>1, <1>2, <1>4
  <1> QED  BY <1>3, <1>4 DEF FreeIdents

\* The new thread, if any.
ThreadAdded(k, h) ==
    /\ thr' \in Seq(Threads) /\ Len(thr') = k
    /\ \A t \in 1..Len(code) : thr'[t] = thr[t]
    /\ thr'[k] = h
    /\ ~thr'[k].ended /\ ThreadOK(k)' /\ Entered(thr[k].base)'

LEMMA AddThread ==
    ASSUME Inv, NEW k, k = Len(code) + 1, NEW ident \in 0..k,
           NEW base, ContextOK(base, Len(code)), Entered(base), NEW shut \in BOOLEAN,
           NEW h, h = NewThread(ident, base, shut), thr' = Append(thr, h),
           Len(code') = k, \A d \in 1..Len(code) : code'[d].token = code[d].token
    PROVE  ThreadAdded(k, h) /\ h.ident = ident /\ h.shut = shut
  <1>1. /\ Len(code) \in Nat /\ DOMAIN thr = 1..Len(code) /\ thr \in Seq(Threads)
        /\ Len(thr) = Len(code)
    BY Domains DEF Inv, TypeInv
  <1>2. base \in Contexts /\ ident \in Nat
    BY <1>1 DEF ContextOK
  <1>3. /\ h \in Threads /\ h.ident = ident /\ h.main_event_loop = 0 /\ h.base = base
        /\ h.shut = shut /\ h.ended = FALSE /\ h.critical = {}
    BY <1>2 DEF NewThread, Threads
  <1>4. /\ thr' \in Seq(Threads) /\ Len(thr') = k /\ thr'[k] = h
        /\ \A t \in 1..Len(code) : thr'[t] = thr[t]
    BY <1>1, <1>3
  <1>5. ThreadOK(k)'
    <2>1. ContextOK(base, k)
      BY <1>1, ContextGrows
    <2> QED  BY <1>1, <1>3, <1>4, <2>1 DEF ThreadOK
  <1>6. Entered(thr[k].base)'
    <2>1. \A var \in {TSC, STC} \cap DOMAIN base : base[var] \in 1..Len(code)
      BY DEF ContextOK
    <2>2. \A var \in {TSC, STC} \cap DOMAIN base : code'[base[var]].token \in {"outer", "left"}
      BY <2>1 DEF Entered
    <2>3. thr'[k].base = base
      BY <1>3, <1>4
    <2> QED  BY <2>2, <2>3, Zenon DEF Entered
  <1> QED  BY <1>3, <1>4, <1>5, <1>6 DEF ThreadAdded

\* The code before the new piece is appended: the executor of x may have been stored.
Copies(s, x, k) ==
    /\ s \in Seq(Codes) /\ Len(s) = Len(code)
    /\ \A d \in 1..Len(code) :
          /\ SameCode(s[d], code[d]) /\ s[d].pc = code[d].pc /\ s[d].ctx = code[d].ctx
          /\ s[d].token = code[d].token /\ s[d].on = code[d].on /\ s[d].old = code[d].old
          /\ s[d].executor = IF d = x THEN k ELSE code[d].executor

LEMMA CopyCode ==
    ASSUME Inv, NEW k
    PROVE  Copies(code, 0, k)
  <1>1. Len(code) \in Nat /\ code \in Seq(Codes)
    BY Domains DEF Inv, TypeInv
  <1>2. \A d \in 1..Len(code) : d # 0
    BY <1>1
  <1> QED  BY <1>1, <1>2 DEF Copies, SameCode

LEMMA CopyStore ==
    ASSUME Inv, NEW x \in 1..Len(code), NEW s, s = Store(x, n)
    PROVE  Copies(s, x, Len(code) + 1)
  <1>1. Len(code) \in Nat /\ code \in Seq(Codes) /\ DOMAIN code = 1..Len(code) /\ code[x] \in Codes
    BY Domains DEF Inv, TypeInv
  <1>2. PICK k : k = Len(code) + 1
    OBVIOUS
  <1>3. PICK q : q = [code[x] EXCEPT !.executor = k]
    OBVIOUS
  <1>4. /\ q \in Codes /\ SameCode(q, code[x]) /\ q.pc = code[x].pc /\ q.ctx = code[x].ctx
        /\ q.token = code[x].token /\ q.on = code[x].on /\ q.old = code[x].old
        /\ q.executor = k
    <2>1. k \in Nat
      BY <1>1, <1>2
    <2> QED  BY <1>1, <1>3, <2>1 DEF Codes, SameCode
  <1>5. s = [code EXCEPT ![x] = q]
    BY <1>2, <1>3 DEF Store, n
  <1>6. /\ s \in Seq(Codes) /\ Len(s) = Len(code) /\ s[x] = q
        /\ \A d \in 1..Len(code) : d # x => s[d] = code[d]
    BY <1>1, <1>4, <1>5
  <1> QED  BY <1>2, <1>4, <1>6 DEF Copies, SameCode

\* A call, as it changes its caller c and appends the code r that it calls.
CallAdded(c, k, x, q, r) ==
    /\ code' \in Seq(Codes) /\ Len(code') = k /\ code'[k] = r
    /\ \A d \in 1..Len(code) :
          /\ SameCode(code'[d], code[d]) /\ code'[d].token = code[d].token
          /\ code[d].pc = "done" => code'[d].pc = "done"
          /\ code'[d].executor = IF d = x THEN k ELSE code[d].executor
          /\ code'[d].executor \in 0..k
    /\ \A d \in 1..Len(code) : d # c => Same(d)
    /\ code'[c].pc = q.pc /\ code'[c].ctx = q.ctx /\ code'[c].on = q.on
    /\ code'[c].old = q.old

LEMMA AddCall ==
    ASSUME Inv, NEW k, k = Len(code) + 1, NEW c \in 1..Len(code), code[c].pc # "done",
           NEW x, NEW s, Copies(s, x, k),
           NEW q \in Codes, SameCode(q, s[c]), q.token = s[c].token, q.executor = s[c].executor,
           NEW m, m = [s EXCEPT ![c] = q], NEW r \in Codes, code' = Append(m, r)
    PROVE  CallAdded(c, k, x, q, r)
  <1>1. Len(code) \in Nat /\ DOMAIN code = 1..Len(code)
    BY Domains DEF Inv
  <1>2. s \in Seq(Codes) /\ Len(s) = Len(code)
    BY DEF Copies
  <1>4. /\ m \in Seq(Codes) /\ Len(m) = Len(code) /\ m[c] = q
        /\ \A d \in 1..Len(code) : d # c => m[d] = s[d]
    BY <1>1, <1>2
  <1>5. /\ code' \in Seq(Codes) /\ Len(code') = k /\ code'[k] = r
        /\ \A d \in 1..Len(code) : code'[d] = m[d]
    BY <1>1, <1>4
  <1>6. code'[c] = q /\ \A d \in 1..Len(code) : d # c => code'[d] = s[d]
    BY <1>4, <1>5
  <1>7. \A d \in 1..Len(code) : d # c => Same(d)
    BY <1>1, <1>6 DEF Same, Copies
  <1>8. \A d \in 1..Len(code) : code[d].executor \in 0..Len(code)
    BY References
  <1>9. ASSUME NEW d \in 1..Len(code)
        PROVE  /\ SameCode(code'[d], code[d]) /\ code'[d].token = code[d].token
               /\ code[d].pc = "done" => code'[d].pc = "done"
               /\ code'[d].executor = IF d = x THEN k ELSE code[d].executor
               /\ code'[d].executor \in 0..k
    <2>1. code'[d].executor = IF d = x THEN k ELSE code[d].executor
      BY <1>6 DEF Copies
    <2>2. code'[d].executor \in 0..k
      <3>1. PICK e : e = code[d].executor
        OBVIOUS
      <3>2. e \in 0..k /\ k \in 0..k
        BY <1>1, <1>8, <3>1
      <3> QED  BY <2>1, <3>1, <3>2
    <2>3. SameCode(code'[d], code[d]) /\ code'[d].token = code[d].token
      BY <1>6 DEF Copies, SameCode
    <2>4. code[d].pc = "done" => code'[d].pc = "done"
      BY <1>6 DEF Copies
    <2> QED  BY <2>1, <2>2, <2>3, <2>4
  <1> QED  BY <1>5, <1>6, <1>7, <1>9 DEF CallAdded

\* c has called code k, on thread t, for loop l, because of context v; the executor
\* of x is new, if x is not 0.
CallStep(c, k, x, t, l, v) ==
    /\ Grows(k) /\ c \in 1..Len(code)
    /\ code'[k].caller = c /\ code'[k].thread = t /\ code'[k].loop = l /\ code'[k].via = v
    /\ code'[k].pc \in {"posted", "queued"} /\ code'[k].ctx = code'[c].ctx
    /\ code'[k].root = code[c].root /\ code'[k].sees = code[c].sees
    /\ code'[k].token = "none" /\ code'[k].on = 0 /\ code'[k].executor = 0 /\ code'[k].old = 0
    /\ \A d \in 1..Len(code) : d # c => Same(d)
    /\ \A d \in 1..Len(code) : code'[d].executor = IF d = x THEN k ELSE code[d].executor
    /\ code'[c].pc = "wait"

\* The code that is called.
IsCallee(r, c, pc, t, l, ctx, v) ==
    /\ r \in Codes
    /\ r.caller = c /\ r.thread = t /\ r.loop = l /\ r.via = v
    /\ r.pc = pc /\ r.ctx = ctx
    /\ r.root = code[c].root /\ r.sees = code[c].sees
    /\ r.token = "none" /\ r.on = 0 /\ r.executor = 0 /\ r.old = 0

LEMMA CalleeFacts ==
    ASSUME Inv, NEW c \in 1..Len(code), NEW pc \in {"posted", "queued"}, NEW t \in Nat,
           NEW l \in Nat, NEW ctx \in Contexts
    PROVE  /\ IsCallee(Callee(c, pc, t, l, ctx), c, pc, t, l, ctx, 0)
           /\ \A v \in Nat :
                 IsCallee([Callee(c, pc, t, l, ctx) EXCEPT !.via = v], c, pc, t, l, ctx, v)
  <1>1. code[c].root \in Nat /\ code[c].sees \in SUBSET Nat /\ c \in Nat
    BY Domains, CodeFields DEF Inv
  <1>2. pc \in Pcs /\ "none" \in Tokens
    BY DEF Pcs, Tokens
  <1>3. PICK r : r = Callee(c, pc, t, l, ctx)
    OBVIOUS
  <1>4. IsCallee(r, c, pc, t, l, ctx, 0)
    BY <1>1, <1>2, <1>3 DEF Callee, NewCode, Codes, IsCallee
  <1>5. \A v \in Nat : IsCallee([r EXCEPT !.via = v], c, pc, t, l, ctx, v)
    BY <1>4 DEF Codes, IsCallee
  <1> QED  BY <1>3, <1>4, <1>5

\* Where the new code runs.
LEMMA CallPlace ==
    ASSUME Inv, NEW c, NEW k, NEW x, NEW t \in 1..k, NEW l, NEW v \in 0..Len(code),
           CallStep(c, k, x, t, l, v), code[c].loop = 0 <=> l # 0,
           l # 0 => \/ l = k /\ (t = k \/ ~Own(t))
                    \/ l \in 1..Len(code) /\ code[l].loop # 0 /\ t = code[l].thread,
           l = 0 => IF code[c].caller = 0 THEN t = k \/ ~Own(t)
                                          ELSE t = code[code[c].caller].thread
    PROVE  PlaceOf(k)'
  <1>1. /\ Grows(k) /\ c \in 1..Len(code)
        /\ code'[k].caller = c /\ code'[k].thread = t /\ code'[k].loop = l /\ code'[k].via = v
        /\ code'[k].root = code[c].root /\ code'[k].sees = code[c].sees
    BY DEF CallStep
  <1>2. /\ Changes(k) /\ k \in Nat /\ k \notin 1..Len(code) /\ k = Len(code) + 1
        /\ \A d \in 1..k : d \in 1..Len(code) \/ d = k
    BY <1>1, GrowFacts
  <1>3. /\ DOMAIN code = 1..Len(code) /\ DOMAIN code' = 1..k /\ Len(code') = k /\ Len(code) \in Nat
        /\ Keeps(k)
    BY <1>2, ChangeFacts
  <1>4. \A d \in 1..Len(code) :
           /\ code'[d].caller = code[d].caller /\ code'[d].thread = code[d].thread
           /\ code'[d].loop = code[d].loop /\ code'[d].root = code[d].root
           /\ code'[d].sees = code[d].sees /\ (Own(d)' <=> Own(d))
    BY <1>2, <1>3, KeptFacts
  <1>5. ~Own(k)'
    BY <1>1, <1>3 DEF Own
  <1>6. PlaceOf(c)
    BY <1>1, <1>3 DEF Inv, PlaceInv
  <1>7. t = k \/ ~Own(t) => ~Own(t)'
    BY <1>2, <1>4, <1>5
  <1>8. l # 0 => code'[l].loop # 0 /\ t = code'[l].thread /\ ~Own(t)' /\ l <= k
    <2>1. CASE l = k
      BY <1>1, <1>2, <1>7, <2>1
    <2>2. CASE l \in 1..Len(code) /\ code[l].loop # 0 /\ t = code[l].thread
      <3>1. ~Own(t) /\ l <= k
        BY <1>2, <1>3, <2>2 DEF Inv, PlaceInv, PlaceOf
      <3> QED  BY <1>4, <1>7, <2>2, <3>1
    <2> QED  BY <1>2, <2>1, <2>2
  <1>9. l = 0 => IF code'[c].caller = 0 THEN ~Own(t)' ELSE t = code'[code'[c].caller].thread
    <2>1. PICK p : p = code[c].caller
      OBVIOUS
    <2>2. p \in 0..Len(code) /\ code'[c].caller = p
      BY <1>1, <1>4, <2>1, References
    <2>3. p # 0 => code'[p].thread = code[p].thread
      BY <1>4, <2>2
    <2> QED  BY <1>7, <2>1, <2>2, <2>3
  <1>10. /\ code'[k].root \in code'[k].sees /\ code'[k].sees \subseteq 1..k
         /\ code'[k].root = code'[c].root /\ code'[k].sees = code'[c].sees
    BY <1>1, <1>2, <1>3, <1>4, <1>6 DEF PlaceOf
  <1>11. code'[c].loop = 0 <=> l # 0
    BY <1>1, <1>4
  <1>12. c < k /\ v <= k /\ l <= k
    BY <1>1, <1>2, <1>3, <1>8
  <1>13. l = 0 <=> code'[c].loop # 0
    BY <1>11
  <1> QED  BY <1>1, <1>3, <1>5, <1>8, <1>9, <1>10, <1>12, <1>13 DEF PlaceOf

\* The context that chose the thread of the new code.
LEMMA CallVia ==
    ASSUME Inv, NEW c, NEW k, NEW x, NEW t \in 1..k, NEW l, NEW v \in 0..Len(code),
           CallStep(c, k, x, t, l, v), code[c].pc \in {"run", "look"},
           code[c].loop # 0 => code'[c].on = code[c].on,
           \A y \in 1..Len(code) :
               y = x /\ code[y].token = "outer" /\ y \notin raced' => code[y].executor = 0,
           \/ v = 0
           \/ code[v].token = "outer" /\ (v \in raced' \/ code'[v].executor = t)
           \/ \E p \in 1..Len(code) :
                 v = code[p].via /\ t = code[p].thread /\ code[p].pc # "done"
    PROVE  ViaOf(k)' /\ OneThread' /\ ExitInv'
  <1>1. /\ Grows(k) /\ c \in 1..Len(code) /\ code'[k].thread = t /\ code'[k].via = v
        /\ code'[k].token = "none" /\ code'[c].pc = "wait"
        /\ \A d \in 1..Len(code) : d # c => Same(d)
        /\ \A d \in 1..Len(code) : code'[d].executor = IF d = x THEN k ELSE code[d].executor
        /\ \A d \in 1..Len(code) : code'[d].token = code[d].token
    BY DEF CallStep, Grows
  <1>2. /\ Changes(k) /\ k \in Nat /\ k \notin 1..Len(code) /\ k = Len(code) + 1
        /\ \A d \in 1..k : d \in 1..Len(code) \/ d = k
    BY <1>1, GrowFacts
  <1>3. /\ DOMAIN code = 1..Len(code) /\ Len(code) \in Nat /\ Keeps(k) /\ raced \subseteq raced'
    BY <1>2, ChangeFacts DEF Changes
  <1>4. \A y \in 1..Len(code) : code'[y].token = "outer" /\ y \notin raced' =>
           code'[y].executor = code[y].executor \/ code[y].executor = 0
    BY <1>1
  <1>5. \A d \in 1..Len(code) : code[d].thread # 0 /\ code[d].thread \in 1..Len(code)
    BY <1>3, References
  <1>6. \A e \in 1..Len(code) : e = c => code[e].pc \notin {"exit", "block"} /\ e # k
    BY <1>2
  <1>7. CASE v = 0
    <2>1. ViaOf(k)'
      BY <1>1, <1>7 DEF ViaOf
    <2>2. OneThread'
      BY <1>1, <1>2, <1>7, OneThreadKept
    <2>3. \A e \in 1..k : e # 0
      BY <1>2
    <2>4. \A e \in 1..k : Left(e, k)'
      BY <1>1, <1>7, <2>3 DEF Left
    <2>5. \A d \in 1..k : Left(k, d)'
      BY <1>1 DEF Left
    <2>6. StillLeft(c)
      BY <1>1, <1>3, <1>6 DEF StillLeft
    <2>7. \A e \in 1..k : Same(e) \/ StillLeft(e) \/ \A d \in 1..k : Left(e, d)'
      BY <1>1, <1>2, <2>5, <2>6
    <2> QED  BY <1>2, <2>1, <2>2, <2>4, <2>7, ExitKept
  <1>8. \A d \in 1..k : Left(k, d)'
    BY <1>1 DEF Left
  <1>9. StillLeft(c)
    BY <1>1, <1>3, <1>6 DEF StillLeft
  <1>10. \A e \in 1..k : Same(e) \/ StillLeft(e) \/ \A d \in 1..k : Left(e, d)'
    BY <1>1, <1>2, <1>8, <1>9
  <1>11. CASE v # 0 /\ code[v].token = "outer" /\ (v \in raced' \/ code'[v].executor = t)
    <2>1. v \in 1..Len(code) /\ code'[v].token = "outer"
      BY <1>1, <1>11
    <2>2. ViaOf(k)'
      BY <1>1, <1>11, <2>1 DEF ViaOf, HasExecutor
    <2>3. ASSUME NEW d \in 1..Len(code), code[d].via = v, v \notin raced'
          PROVE  code[d].thread = t
      <3>1. ViaOf(d)
        BY <1>3 DEF Inv, ViaInv
      <3>2. code[v].executor = code[d].thread
        BY <1>3, <1>11, <2>3, <3>1 DEF ViaOf, HasExecutor
      <3>3. code[v].executor # 0
        BY <1>5, <3>2
      <3>4. code'[v].executor = code[v].executor
        BY <1>4, <2>1, <2>3, <3>3
      <3> QED  BY <1>11, <2>3, <3>2, <3>4
    <2>4. OneThread'
      BY <1>1, <1>2, <2>3, OneThreadKept
    <2>5. \A e \in 1..k : Left(e, k)'
      BY <1>1, <2>1 DEF Left
    <2> QED  BY <1>2, <1>10, <2>2, <2>4, <2>5, ExitKept
  <1>12. CASE v # 0 /\ \E p \in 1..Len(code) :
                 v = code[p].via /\ t = code[p].thread /\ code[p].pc # "done"
    <2>1. PICK p \in 1..Len(code) : v = code[p].via /\ t = code[p].thread /\ code[p].pc # "done"
      BY <1>12
    <2>2. v \in 1..Len(code) /\ t # 0
      BY <1>5, <1>12, <2>1
    <2>3. ViaOf(p)
      BY <1>3, <2>1 DEF Inv, ViaInv
    <2>4. code[v].token \in {"outer", "left"} /\ HasExecutor(v, t)
      BY <1>12, <2>1, <2>3 DEF ViaOf
    <2>5. HasExecutor(v, t)'
      BY <1>2, <1>4, <2>2, <2>4, ExecutorStays
    <2>6. ViaOf(k)'
      <3>1. code'[v].token \in {"outer", "left"}
        BY <1>1, <2>2, <2>4
      <3> QED  BY <1>1, <2>5, <3>1 DEF ViaOf
    <2>7. OneThread'
      <3>1. \A d \in 1..Len(code) : code[d].via = v /\ v \notin {0} \cup raced'
               => code[d].thread = t
        BY <1>3, <2>1 DEF Inv, OneThread
      <3> QED  BY <1>1, <1>2, <3>1, OneThreadKept
    <2>8. ASSUME NEW e \in 1..k
          PROVE  Left(e, k)'
      <3>1. CASE e # v
        BY <1>1, <3>1 DEF Left
      <3>2. CASE e = v
        <4>1. Left(e, p) /\ e \in 1..Len(code) /\ code'[e].token = code[e].token
          BY <1>1, <1>3, <2>1, <2>2, <3>2 DEF Inv, ExitInv
        <4>2. code'[e].token = "left" /\ e \notin raced' => Awaited(e, t)
          BY <1>3, <2>1, <3>2, <4>1 DEF Left
        <4>3. code'[e].loop = code[e].loop
          BY <1>2, <1>3, <4>1, KeptFacts
        <4>4. Awaited(e, t) => Awaited(e, t)'
          <5>1. CASE e # c
            BY <1>1, <4>1, <4>3, <5>1 DEF Awaited, Same
          <5>2. CASE e = c
            <6>1. Awaited(e, t) => code[e].loop # 0 /\ code[e].on = 0
              BY <1>6, <4>1, <5>2 DEF Awaited
            <6>2. code[e].loop # 0 /\ code[e].on = 0 => code'[e].loop # 0 /\ code'[e].on = 0
              BY <4>3, <5>2
            <6> QED  BY <6>1, <6>2 DEF Awaited
          <5> QED  BY <5>1, <5>2
        <4>5. code'[e].token = "left" /\ e \notin raced' => Awaited(e, t)'
          BY <4>2, <4>4
        <4> QED  BY <1>1, <4>5 DEF Left, Awaited
      <3> QED  BY <3>1, <3>2
    <2> QED  BY <1>2, <1>10, <2>6, <2>7, <2>8, ExitKept
  <1> QED  BY <1>7, <1>11, <1>12

\* What is to be shown of a call.
LEMMA CallKeeps ==
    ASSUME Inv, NEW c, NEW k, NEW x \in 0..Len(code), NEW t \in 1..k, NEW l, NEW v \in 0..Len(code),
           CallStep(c, k, x, t, l, v), code[c].pc \in {"run", "look"},
           Room \/ code[c].pc = "look",
           PlaceOf(k)', ViaOf(k)', OneThread', ExitInv',
           GoodCode(c)',
           code[c].loop # 0 => code'[c].ctx = code[c].ctx,
           code[c].loop = 0 => RawCurrent(code'[c].ctx) = c,
           Value \in DOMAIN code[c].ctx => Value \in DOMAIN code'[c].ctx,
           t = k \/ ~thr[t].ended,
           x # 0 => ~thr'[k].shut /\ (code[x].executor = 0 \/ x \in raced')
    PROVE  Inv'
  <1>1. /\ Grows(k) /\ c \in 1..Len(code) /\ code'[k].caller = c /\ code'[k].thread = t
        /\ code'[k].loop = l
        /\ code'[k].pc \in {"posted", "queued"} /\ code'[k].ctx = code'[c].ctx
        /\ code'[k].root = code[c].root /\ code'[k].sees = code[c].sees
        /\ code'[k].token = "none" /\ code'[k].on = 0 /\ code'[k].executor = 0
        /\ code'[k].old = 0
        /\ \A d \in 1..Len(code) : d # c => Same(d)
        /\ \A d \in 1..Len(code) : code'[d].executor = IF d = x THEN k ELSE code[d].executor
        /\ code'[c].pc = "wait"
    BY DEF CallStep
  <1>2. /\ Changes(k) /\ k \in Nat /\ k \in 1..k /\ k \notin 1..Len(code) /\ k = Len(code) + 1
        /\ \A d \in 1..k : d \in 1..Len(code) \/ d = k
        /\ \A u \in 1..k : SameThread(u) \/ ThreadOK(u)'
    BY <1>1, GrowFacts
  <1>3. /\ DOMAIN code = 1..Len(code) /\ Len(code) \in Nat /\ Keeps(k) /\ Len(code') = k
        /\ DOMAIN code' = 1..k
    BY <1>2, ChangeFacts
  <1>4. /\ code'[c].caller = code[c].caller /\ code'[c].loop = code[c].loop
        /\ code'[c].sees = code[c].sees /\ code'[c].root = code[c].root
        /\ Ident(c)' = Ident(c)
    BY <1>1, <1>2, <1>3, KeptFacts
  <1>5. /\ ~Started(k)' /\ ~Settled(k)' /\ Started(c)' /\ Settled(c)' /\ Started(c)
    BY <1>1, <1>3 DEF Started, Settled
  <1>6. /\ CodeOK(c)' /\ CurrentOf(c)' /\ ViewOf(c)' /\ Entered(code[c].ctx)'
    BY <1>1 DEF GoodCode
  <1>7. GoodCode(k)'
    <2>1. CodeOK(k)'
      <3>1. ContextOK(code'[k].ctx, k)
        BY <1>1, <1>3, <1>6 DEF CodeOK
      <3> QED  BY <1>1, <1>3, <3>1 DEF CodeOK
    <2>2. CurrentOf(k)'
      <3>1. code'[k].loop = 0 <=> code'[c].loop # 0
        BY <1>1, <1>3 DEF PlaceOf
      <3>2. code'[k].loop # 0 => RawCurrent(code'[k].ctx) = c
        BY <1>1, <1>4, <3>1
      <3>3. code'[k].loop = 0 => code'[c].caller = RawCurrent(code'[k].ctx)
        BY <1>1, <1>4, <1>6, <3>1 DEF CurrentOf
      <3> QED  BY <1>1, <1>5, <3>2, <3>3 DEF CurrentOf
    <2>3. ViewOf(k)'
      <3>1. Home(k)' = Ident(c)' /\ Home(c)' = Ident(c)'
        BY <1>1, <1>5 DEF Home
      <3> QED  BY <1>1, <1>4, <1>6, <3>1, Zenon DEF ViewOf
    <2>4. Entered(code[k].ctx)'
      BY <1>1, <1>6, Zenon DEF Entered
    <2>5. LookOf(k)'
      BY <1>1 DEF LookOf
    <2> QED  BY <2>1, <2>2, <2>3, <2>4, <2>5 DEF GoodCode
  <1>8. RoomInv'
    <2>1. \A d \in 1..Len(code) : d # c => code'[d].pc = code[d].pc
      BY <1>1 DEF Same
    <2>2. program' = program
      BY <1>1 DEF Grows
    <2>3. CASE code[c].pc = "look"
      BY <1>1, <1>2, <2>1, <2>2, <2>3, RoomLess
    <2>4. CASE code[c].pc = "run"
      <3>1. \A d \in 1..Len(code) : code'[d].pc = "look" <=> code[d].pc = "look"
        BY <1>1, <2>1, <2>4
      <3>2. Room /\ code'[k].pc # "look"
        BY <1>1, <2>4
      <3> QED  BY <1>2, <2>2, <3>1, <3>2, RoomKept
    <2> QED  BY <2>3, <2>4
  <1>9. WaitInv'
    <2>1. \A d \in 1..Len(code) : d # c => code'[d].pc = code[d].pc
      BY <1>1 DEF Same
    <2>2. code[c].pc \notin {"wait", "done"} /\ code'[k].pc \notin {"wait", "done"}
      BY <1>1
    <2> QED  BY <1>1, <1>2, <2>1, <2>2, WaitCall
  <1>10. EndedInv'
    <2>1. /\ \A u \in 1..Len(code) : thr'[u].ended = thr[u].ended
          /\ ~thr'[k].ended
      BY <1>1 DEF Grows
    <2>2. ~thr'[t].ended
      BY <1>2, <2>1
    <2>3. code'[k].thread \in 1..k /\ ~thr'[code'[k].thread].ended
      BY <1>1, <2>2
    <2> QED  BY <1>2, <2>1, <2>3, EndedKept
  <1>11. ExecutorInv'
    <2>1. ~Own(k)'
      BY <1>1, <1>3 DEF Own
    <2>2. \A u \in 1..Len(code) : thr'[u] = thr[u]
      BY <1>1 DEF Grows
    <2>3. ~thr'[k].ended
      BY <1>1 DEF Grows
    <2>4. ASSUME NEW y \in 1..k
          PROVE  \/ code'[y].executor = 0
                 \/ /\ y \in 1..Len(code) /\ code'[y].executor = code[y].executor
                    /\ code[y].executor # 0 =>
                          /\ thr'[code[y].executor].shut = thr[code[y].executor].shut
                          /\ thr'[code[y].executor].ended = thr[code[y].executor].ended
                 \/ /\ y = x /\ k = Len(code) + 1 /\ code'[y].executor = k
                    /\ ~Own(k)' /\ ~thr'[k].shut /\ ~thr'[k].ended
      <3>1. CASE y = k
        BY <1>1, <3>1
      <3>2. CASE y \in 1..Len(code) /\ y # x
        <4>1. PICK e : e = code[y].executor
          OBVIOUS
        <4>2. e # 0 => e \in 1..Len(code)
          BY <3>2, <4>1, References
        <4>3. e # 0 => thr'[e] = thr[e]
          BY <2>2, <4>2
        <4> QED  BY <1>1, <3>2, <4>1, <4>3
      <3>3. CASE y \in 1..Len(code) /\ y = x
        <4>1. x # 0
          BY <1>3, <3>3
        <4> QED  BY <1>1, <1>2, <2>1, <2>3, <3>3, <4>1
      <3> QED  BY <1>2, <3>1, <3>2, <3>3
    <2>5. ExecutorsKept(x, k)
      BY <2>4, Zenon DEF ExecutorsKept
    <2> QED  BY <1>2, <2>5, ExecutorKept
  <1>12. SharedInv'
    <2>1. SharedOf(k)'
      BY <1>1 DEF SharedOf, SharedWith
    <2>2. SharedOf(c)'
      <3>1. PICK p : p = code[c].caller
        OBVIOUS
      <3>2. CASE p = 0
        BY <1>4, <3>1, <3>2 DEF SharedOf
      <3>3. CASE p # 0
        <4>1. p \in 1..Len(code) /\ p # c
          BY <1>1, <1>3, <3>1, <3>3, References
        <4>2. code'[p].ctx = code[p].ctx
          BY <1>1, <4>1 DEF Same
        <4>3. SharedOf(c)
          BY <1>1, <1>3 DEF Inv, SharedInv
        <4>4. Value \in DOMAIN code[p].ctx => Value \in DOMAIN code'[c].ctx
          BY <3>1, <3>3, <4>3 DEF SharedOf, SharedWith
        <4> QED  BY <1>4, <1>5, <3>1, <4>2, <4>4 DEF SharedOf, SharedWith
      <3> QED  BY <3>2, <3>3
    <2>3. ASSUME NEW d \in 1..Len(code), d # c, code[d].caller # 0, code[d].pc # "done"
          PROVE  code'[code[d].caller].ctx = code[code[d].caller].ctx
      <3>1. PICK p : p = code[d].caller
        OBVIOUS
      <3>2. p \in 1..Len(code)
        BY <1>3, <2>3, <3>1, References
      <3>3. code[c].pc # "wait"
        OBVIOUS
      <3>4. p # c
        BY <1>1, <2>3, <3>1, <3>3, NoCallee
      <3> QED  BY <1>1, <3>1, <3>2, <3>4 DEF Same
    <2>4. \A d \in 1..k :
             \/ SharedOf(d)'
             \/ /\ Same(d)
                /\ code[d].caller # 0 /\ code[d].pc # "done" =>
                      code'[code[d].caller].ctx = code[code[d].caller].ctx
      BY <1>1, <1>2, <2>1, <2>2, <2>3
    <2> QED  BY <1>2, <2>4, SharedKept
  <1>13. \A d \in 1..k : Same(d) \/ GoodCode(d)'
    BY <1>1, <1>2, <1>7
  <1>14. \A y \in 1..Len(code) : code'[y].token = "outer" /\ y \notin raced' =>
            code'[y].executor = code[y].executor \/ code[y].executor = 0
    <2> TAKE y \in 1..Len(code)
    <2>1. y # 0
      BY <1>3
    <2> QED  BY <1>1, <2>1
  <1>15. /\ program' = program /\ writes' \in 0..MaxWrites
         /\ leaked' \subseteq 1..k /\ raced' \subseteq 1..k /\ Entered(thr[k].base)'
    BY <1>1 DEF Grows, Inv, TypeInv
  <1> QED  BY <1>2, <1>8, <1>9, <1>10, <1>11, <1>12, <1>13, <1>14, <1>15, StepKeeps

-----------------------------------------------------------------------------
(* Calls. *)

\* The caller c, when it waits: q.
CallerOK(c, q) ==
    /\ ContextOK(q.ctx, Len(code)) /\ q.on \in 0..Len(code) /\ q.old \in 0..Len(code)
    /\ code[c].loop # 0 => q.ctx = code[c].ctx /\ q.on = code[c].on
    /\ code[c].loop = 0 => RawCurrent(q.ctx) = c
    /\ code[c].loop = 0 /\ code[c].caller # 0 => q.old = Effective(c)
    /\ Executors \in DOMAIN q.ctx =>
          \/ q.ctx[Executors].ident = Ident(c)
          \/ Executors \in DOMAIN code[c].ctx /\ q.ctx[Executors] = code[c].ctx[Executors]
    /\ \A var \in {TSC, STC, Value} :
          /\ var \in DOMAIN q.ctx <=> var \in DOMAIN code[c].ctx
          /\ var \in DOMAIN q.ctx => q.ctx[var] = code[c].ctx[var]

LEMMA CallerGood ==
    ASSUME Inv, NEW c, NEW k, NEW x, NEW t, NEW l, NEW v, CallStep(c, k, x, t, l, v),
           code[c].pc \in {"run", "look"}, NEW q, CallerOK(c, q),
           code'[c].ctx = q.ctx, code'[c].on = q.on, code'[c].old = q.old
    PROVE  GoodCode(c)'
  <1>1. /\ Grows(k) /\ c \in 1..Len(code) /\ code'[c].pc = "wait" /\ code'[c].executor \in 0..k
    BY DEF CallStep, Grows
  <1>2. Changes(k) /\ k = Len(code) + 1 /\ k \in Nat
    BY <1>1, GrowFacts
  <1>3. DOMAIN code = 1..Len(code) /\ Len(code) \in Nat /\ Len(code') = k
    BY <1>2, ChangeFacts
  <1>4. Started(c) /\ Started(c)' /\ Settled(c) /\ Settled(c)' /\ code[c].pc # "done"
    BY <1>1 DEF Started, Settled
  <1>5. CodeOK(c)'
    <2>1. ContextOK(code'[c].ctx, k)
      BY <1>2, <1>3, ContextGrows DEF CallerOK
    <2>2. code'[c].on \in 0..k /\ code'[c].old \in 0..k
      BY <1>2, <1>3 DEF CallerOK
    <2> QED  BY <1>1, <1>3, <1>4, <2>1, <2>2 DEF CodeOK
  <1>6. CurrentOf(c)'
    <2>1. code[c].loop = 0 /\ code[c].caller # 0 => Effective(c)' = Effective(c)
      <3>1. Effective(c)' = code'[c].old
        BY <1>1 DEF Effective
      <3> QED  BY <3>1 DEF CallerOK
    <2>2. code[c].loop # 0 => RawCurrent(code'[c].ctx) = RawCurrent(code[c].ctx)
      BY DEF CallerOK
    <2>3. Executors \in DOMAIN code'[c].ctx =>
               \/ code'[c].ctx[Executors].ident = Ident(c)
               \/ /\ Settled(c) /\ Executors \in DOMAIN code[c].ctx
                  /\ code'[c].ctx[Executors] = code[c].ctx[Executors]
      BY <1>4 DEF CallerOK
    <2> QED  BY <1>1, <1>2, <1>4, <2>1, <2>2, <2>3, CurrentOfKept
  <1>7. ViewOf(c)'
    <2>1. Value \in DOMAIN code'[c].ctx =>
             Value \in DOMAIN code[c].ctx /\ code'[c].ctx[Value] = code[c].ctx[Value]
      BY DEF CallerOK
    <2> QED  BY <1>1, <1>2, <1>4, <2>1, ViewOfKept
  <1>8. Entered(code[c].ctx)'
    <2>1. PICK ctx : ctx = code[c].ctx
      OBVIOUS
    <2>2. ContextOK(ctx, Len(code)) /\ Entered(ctx)
      BY <1>1, <1>3, <2>1 DEF Inv, StateInv, CodeOK, ManagerInv
    <2>3. PICK new : new = q.ctx
      OBVIOUS
    <2>4. \A var \in {TSC, STC} : var \in DOMAIN new => var \in DOMAIN ctx /\ new[var] = ctx[var]
      BY <2>1, <2>3 DEF CallerOK
    <2>5. code'[c].ctx = new
      BY <2>3
    <2> QED  BY <1>2, <2>2, <2>4, <2>5, EnteredMove
  <1>9. LookOf(c)'
    BY <1>1 DEF LookOf
  <1> QED  BY <1>5, <1>6, <1>7, <1>8, <1>9 DEF GoodCode

\* The thread t and the loop l of the new code k.
TargetOK(c, k, t, l) ==
    /\ t \in 1..k /\ (code[c].loop = 0 <=> l # 0)
    /\ t = k \/ ~thr[t].ended
    /\ l # 0 => \/ l = k /\ (t = k \/ ~Own(t))
                \/ l \in 1..Len(code) /\ code[l].loop # 0 /\ t = code[l].thread
    /\ l = 0 => IF code[c].caller = 0 THEN t = k \/ ~Own(t)
                                      ELSE t = code[code[c].caller].thread

\* The context v that chose it.
ChoiceOK(k, x, t, v) ==
    /\ v \in 0..Len(code)
    /\ \/ v = 0
       \/ /\ code[v].token = "outer"
          /\ v \in raced' \/ IF v = x THEN t = k ELSE code[v].executor = t
       \/ \E p \in 1..Len(code) :
             v = code[p].via /\ t = code[p].thread /\ code[p].pc # "done"

\* The new executor of x.
ExecutorOK(x, shut) ==
    /\ x \in 0..Len(code) /\ shut \in BOOLEAN
    /\ x # 0 => ~shut /\ (code[x].executor = 0 \/ x \in raced')

\* A new thread, or none.
NewThreadOK(k, shut) ==
    \E ident \in 0..k, base \in Contexts :
        /\ ContextOK(base, Len(code)) /\ Entered(base)
        /\ thr' = Append(thr, NewThread(ident, base, shut))

\* The caller c becomes q, in s, and the new code r is appended.
CallOK(c, k, x, s, q, pc, t, l, v, r, shut) ==
    /\ k = Len(code) + 1 /\ c \in 1..Len(code)
    /\ code[c].pc \in {"run", "look"} /\ (Room \/ code[c].pc = "look")
    /\ Copies(s, x, k) /\ q \in Codes /\ SameCode(q, s[c]) /\ q.token = s[c].token
    /\ q.executor = s[c].executor /\ q.pc = "wait" /\ CallerOK(c, q)
    /\ pc \in {"posted", "queued"} /\ TargetOK(c, k, t, l) /\ ChoiceOK(k, x, t, v)
    /\ IsCallee(r, c, pc, t, l, q.ctx, v)
    /\ code' = Append([s EXCEPT ![c] = q], r)
    /\ NewThreadOK(k, shut) /\ ExecutorOK(x, shut)
    /\ program' = program /\ writes' = writes /\ leaked' = leaked
    /\ raced \subseteq raced' /\ raced' \subseteq 1..Len(code)

LEMMA CallMade ==
    ASSUME Inv, NEW k, NEW c, NEW x, NEW s, NEW q, NEW pc, NEW t, NEW l, NEW v, NEW r, NEW shut,
           CallOK(c, k, x, s, q, pc, t, l, v, r, shut)
    PROVE  Inv'
  <1>0. /\ k = Len(code) + 1 /\ c \in 1..Len(code)
        /\ code[c].pc \in {"run", "look"} /\ (Room \/ code[c].pc = "look")
        /\ Copies(s, x, k) /\ q \in Codes /\ SameCode(q, s[c]) /\ q.token = s[c].token
        /\ q.executor = s[c].executor /\ q.pc = "wait" /\ CallerOK(c, q)
        /\ pc \in {"posted", "queued"} /\ TargetOK(c, k, t, l) /\ ChoiceOK(k, x, t, v)
        /\ IsCallee(r, c, pc, t, l, q.ctx, v)
        /\ code' = Append([s EXCEPT ![c] = q], r)
        /\ NewThreadOK(k, shut) /\ ExecutorOK(x, shut)
        /\ program' = program /\ writes' = writes /\ leaked' = leaked
        /\ raced \subseteq raced' /\ raced' \subseteq 1..Len(code)
    BY DEF CallOK
  <1>1. Len(code) \in Nat /\ DOMAIN code = 1..Len(code) /\ k \in Nat
        /\ leaked \subseteq 1..Len(code)
    BY <1>0, Domains DEF Inv, TypeInv
  <1>2. /\ t \in 1..k /\ t \in Nat /\ l \in Nat /\ v \in Nat /\ v \in 0..Len(code)
        /\ shut \in BOOLEAN /\ x \in 0..Len(code)
    BY <1>0, <1>1 DEF TargetOK, ChoiceOK, ExecutorOK
  <1>3. /\ CallStep(c, k, x, t, l, v)
        /\ code'[c].ctx = q.ctx /\ code'[c].on = q.on /\ code'[c].old = q.old
        /\ thr'[k].shut = shut
    <2>1. /\ r \in Codes
          /\ r.caller = c /\ r.thread = t /\ r.loop = l /\ r.via = v
          /\ r.pc = pc /\ r.ctx = q.ctx
          /\ r.root = code[c].root /\ r.sees = code[c].sees
          /\ r.token = "none" /\ r.on = 0 /\ r.executor = 0 /\ r.old = 0
      BY <1>0 DEF IsCallee
    <2>2. CallAdded(c, k, x, q, r)
      <3>1. PICK m : m = [s EXCEPT ![c] = q]
        OBVIOUS
      <3>2. code' = Append(m, r) /\ code[c].pc # "done"
        BY <1>0, <3>1
      <3> QED  BY <1>0, <2>1, <3>1, <3>2, AddCall
    <2>3. PICK ident \in 0..k, base \in Contexts :
             /\ ContextOK(base, Len(code)) /\ Entered(base)
             /\ thr' = Append(thr, NewThread(ident, base, shut))
      BY <1>0 DEF NewThreadOK
    <2>4. PICK h : h = NewThread(ident, base, shut)
      OBVIOUS
    <2>5. ThreadAdded(k, h) /\ h.shut = shut
      <3>1. Len(code') = k /\ \A d \in 1..Len(code) : code'[d].token = code[d].token
        BY <2>2 DEF CallAdded
      <3>2. thr' = Append(thr, h)
        BY <2>3, <2>4
      <3> QED  BY <1>0, <1>2, <2>3, <2>4, <3>1, <3>2, AddThread
    <2>6. leaked' \subseteq 1..k /\ raced' \subseteq 1..k
      BY <1>0, <1>1
    <2>7. Grows(k)
      BY <1>0, <2>2, <2>5, <2>6 DEF Grows, CallAdded, ThreadAdded
    <2>8. CallStep(c, k, x, t, l, v)
      BY <1>0, <2>1, <2>2, <2>7 DEF CallStep, CallAdded
    <2> QED  BY <2>2, <2>5, <2>8 DEF CallAdded, ThreadAdded
  <1>4. GoodCode(c)'
    BY <1>0, <1>3, CallerGood
  <1>5. PlaceOf(k)'
    BY <1>0, <1>2, <1>3, CallPlace DEF TargetOK
  <1>6. \A d \in 1..Len(code) : code'[d].executor = IF d = x THEN k ELSE code[d].executor
    BY <1>3 DEF CallStep
  <1>7. ViaOf(k)' /\ OneThread' /\ ExitInv'
    <2>1. code[c].loop # 0 => code'[c].on = code[c].on
      BY <1>0, <1>3 DEF CallerOK
    <2>2. \A y \in 1..Len(code) :
             y = x /\ code[y].token = "outer" /\ y \notin raced' => code[y].executor = 0
      BY <1>0, <1>1 DEF ExecutorOK
    <2>3. \/ v = 0
          \/ code[v].token = "outer" /\ (v \in raced' \/ code'[v].executor = t)
          \/ \E p \in 1..Len(code) :
                v = code[p].via /\ t = code[p].thread /\ code[p].pc # "done"
      <3>1. v # 0 => v \in 1..Len(code)
        BY <1>2
      <3> QED  BY <1>0, <1>6, <3>1 DEF ChoiceOK
    <2> QED  BY <1>0, <1>2, <1>3, <2>1, <2>2, <2>3, CallVia
  <1>8. /\ code[c].loop # 0 => code'[c].ctx = code[c].ctx
        /\ code[c].loop = 0 => RawCurrent(code'[c].ctx) = c
        /\ Value \in DOMAIN code[c].ctx => Value \in DOMAIN code'[c].ctx
    BY <1>0, <1>3 DEF CallerOK
  <1>9. t = k \/ ~thr[t].ended
    BY <1>0 DEF TargetOK
  <1>10. x # 0 => ~thr'[k].shut /\ (code[x].executor = 0 \/ x \in raced')
    BY <1>0, <1>3 DEF ExecutorOK
  <1> QED  BY <1>0, <1>2, <1>3, <1>4, <1>5, <1>7, <1>8, <1>9, <1>10, CallKeeps

\* No thread is made, or one in an empty context.
LEMMA PlainThread ==
    ASSUME Inv, NEW k, k = Len(code) + 1, NEW shut,
           \/ thr' = Append(thr, NoThread) /\ shut = FALSE
           \/ \E ident \in FreeIdents : thr' = Append(thr, NewThread(ident, <<>>, shut))
    PROVE  NewThreadOK(k, shut)
  <1>1. Len(code) \in Nat
    BY Domains DEF Inv
  <1>2. PICK base : base = <<>>
    OBVIOUS
  <1>3. base \in Contexts /\ ContextOK(base, Len(code)) /\ Entered(base)
    <2>1. ContextOK(<<>>, Len(code)) /\ DOMAIN <<>> = {}
      BY <1>1, EmptyContext
    <2> QED  BY <1>2, <2>1 DEF ContextOK, Entered
  <1>4. CASE thr' = Append(thr, NoThread) /\ shut = FALSE
    <2>1. 0 \in 0..k
      BY <1>1
    <2>2. thr' = Append(thr, NewThread(0, base, shut))
      BY <1>2, <1>4 DEF NoThread
    <2> QED  BY <1>3, <2>1, <2>2, Zenon DEF NewThreadOK
  <1>5. CASE \E ident \in FreeIdents : thr' = Append(thr, NewThread(ident, <<>>, shut))
    <2>1. PICK ident \in FreeIdents : thr' = Append(thr, NewThread(ident, base, shut))
      BY <1>2, <1>5
    <2>2. ident \in 0..k
      BY FreeIdentsType
    <2> QED  BY <1>3, <2>1, <2>2, Zenon DEF NewThreadOK
  <1> QED  BY <1>4, <1>5

\* Async code that awaits a call.
Waiting(r) == [r EXCEPT !.pc = "wait"]

LEMMA AsyncWaits ==
    ASSUME Inv, NEW c \in 1..Len(code), code[c].pc = "run", code[c].loop # 0,
           NEW k, NEW x, NEW s, Copies(s, x, k), NEW q, q = Waiting(s[c])
    PROVE  /\ q \in Codes /\ SameCode(q, s[c]) /\ q.token = s[c].token
           /\ q.executor = s[c].executor /\ q.pc = "wait" /\ CallerOK(c, q)
           /\ q.ctx = code[c].ctx
  <1>1. /\ s[c] \in Codes /\ s[c].ctx = code[c].ctx /\ s[c].on = code[c].on
        /\ s[c].old = code[c].old
    BY Domains DEF Copies, Inv
  <1>2. /\ q \in Codes /\ SameCode(q, s[c]) /\ q.token = s[c].token
        /\ q.executor = s[c].executor /\ q.pc = "wait" /\ q.ctx = s[c].ctx
        /\ q.on = s[c].on /\ q.old = s[c].old
    BY <1>1 DEF Codes, SameCode, Pcs, Waiting
  <1>3. ContextOK(code[c].ctx, Len(code)) /\ DOMAIN code = 1..Len(code)
    BY Domains DEF Inv, StateInv, CodeOK
  <1>4. q.ctx = code[c].ctx /\ q.on = code[c].on /\ q.old = code[c].old
    BY <1>1, <1>2
  <1>5. q.on \in 0..Len(code) /\ q.old \in 0..Len(code)
    BY <1>4, References
  <1>6. CallerOK(c, q)
    BY <1>3, <1>4, <1>5 DEF CallerOK
  <1> QED  BY <1>2, <1>4, <1>6

\* Async code that calls a function.
LEMMA SyncToAsyncCallKeeps ==
    ASSUME Inv, NEW c \in DOMAIN code, SyncToAsyncCall(c)
    PROVE  Inv'
  <1>1. /\ Len(code) \in Nat /\ DOMAIN code = 1..Len(code) /\ c \in 1..Len(code)
        /\ raced \subseteq 1..Len(code)
    BY Domains DEF Inv, TypeInv
  <1>2. /\ code[c].pc = "run" /\ code[c].loop # 0 /\ Room
        /\ program' = program /\ writes' = writes /\ leaked' = leaked /\ raced' = raced
    BY DEF SyncToAsyncCall, Does, Runs, Async
  <1>3. PICK k : k = Len(code) + 1
    OBVIOUS
  <1>4. k \in Nat /\ k = n /\ Len(code) \in 0..k
    BY <1>1, <1>3 DEF n
  <1>5. PICK ctx : ctx = code[c].ctx
    OBVIOUS
  <1>6. PICK p : p = Current(ctx, Ident(c))
    OBVIOUS
  <1>7. PICK x : x = ctx[TSC]
    OBVIOUS
  <1>8. p = code[c].caller /\ ContextOK(ctx, Len(code)) /\ ctx \in Contexts
    <2>1. ~Own(c)
      BY <1>2 DEF Own
    <2>2. CurrentOf(c)
      BY <1>1, <1>2 DEF Inv, CurrentInv
    <2>3. ContextOK(code[c].ctx, Len(code)) /\ p = RawCurrent(code[c].ctx)
      BY <1>1, <1>2, <1>5, <1>6, <2>1, OwnCurrent
    <2> QED  BY <1>2, <1>5, <2>2, <2>3 DEF CurrentOf, ContextOK
  <1>9. TSC \in DOMAIN ctx => x \in 1..Len(code)
    BY <1>7, <1>8 DEF ContextOK
  <1>10. PICK v : v = IF Open(x) THEN x ELSE 0
    OBVIOUS
  <1>11. \/ /\ p # 0
            /\ code' = Append([code EXCEPT ![c].pc = "wait"],
                              [Callee(c, "posted", code[p].thread, 0, ctx) EXCEPT
                                  !.via = code[p].via])
            /\ thr' = Append(thr, NoThread)
         \/ /\ p = 0 /\ TSC \in DOMAIN ctx /\ code[x].executor # 0
            /\ code' = Append([code EXCEPT ![c].pc = "wait"],
                              [Callee(c, "queued", code[x].executor, 0, ctx) EXCEPT !.via = v])
            /\ thr' = Append(thr, NoThread)
         \/ /\ p = 0 /\ TSC \in DOMAIN ctx /\ code[x].executor = 0
            /\ code' = Append([Store(x, n) EXCEPT ![c].pc = "wait"],
                              [Callee(c, "queued", n, 0, ctx) EXCEPT !.via = v])
            /\ \E ident \in FreeIdents : thr' = Append(thr, NewThread(ident, <<>>, FALSE))
    BY <1>5, <1>6, <1>7, <1>10 DEF SyncToAsyncCall
  <1>12. /\ raced \subseteq raced' /\ raced' \subseteq 1..Len(code)
    BY <1>1, <1>2
  <1>13. ASSUME NEW s, NEW y, Copies(s, y, k), NEW pc \in {"posted", "queued"}, NEW t, NEW w,
                TargetOK(c, k, t, 0), ChoiceOK(k, y, t, w),
                NEW r, r = [Callee(c, pc, t, 0, ctx) EXCEPT !.via = w],
                NEW q, q = Waiting(s[c]),
                NEW m, m = [s EXCEPT ![c] = q], code' = Append(m, r),
                NewThreadOK(k, FALSE), ExecutorOK(y, FALSE)
         PROVE  Inv'
    <2>1. /\ q \in Codes /\ SameCode(q, s[c]) /\ q.token = s[c].token
          /\ q.executor = s[c].executor /\ q.pc = "wait" /\ CallerOK(c, q)
          /\ q.ctx = code[c].ctx
      BY <1>1, <1>2, <1>13, AsyncWaits
    <2>2. t \in Nat /\ w \in Nat /\ 0 \in Nat
      BY <1>1, <1>4, <1>13 DEF TargetOK, ChoiceOK
    <2>3. IsCallee(r, c, pc, t, 0, ctx, w)
      BY <1>1, <1>8, <1>13, <2>2, CalleeFacts
    <2>4. IsCallee(r, c, pc, t, 0, q.ctx, w)
      BY <1>5, <2>1, <2>3
    <2>5. code' = Append([s EXCEPT ![c] = q], r)
      BY <1>13
    <2>6. CallOK(c, k, y, s, q, pc, t, 0, w, r, FALSE)
      BY <1>1, <1>2, <1>3, <1>12, <1>13, <2>1, <2>4, <2>5 DEF CallOK
    <2> QED  BY <2>6, CallMade
  <1>14. CASE /\ p # 0
              /\ code' = Append([code EXCEPT ![c].pc = "wait"],
                                [Callee(c, "posted", code[p].thread, 0, ctx) EXCEPT
                                    !.via = code[p].via])
              /\ thr' = Append(thr, NoThread)
    <2>1. p \in 1..Len(code)
      BY <1>1, <1>8, <1>14, References
    <2>2. code[p].pc = "wait"
      BY <1>1, <1>2, <1>8, <1>14 DEF Inv, WaitInv
    <2>3. PICK t : t = code[p].thread
      OBVIOUS
    <2>4. PICK w : w = code[p].via
      OBVIOUS
    <2>5. t \in 1..Len(code) /\ w \in 0..Len(code)
      BY <2>1, <2>3, <2>4, References
    <2>6. ~thr[t].ended
      <3>1. DOMAIN thr = 1..Len(code) /\ EndedInv /\ code[p].pc # "done"
        BY <2>2, Domains DEF Inv
      <3> QED  BY <1>1, <2>1, <2>3, <2>5, <3>1 DEF EndedInv
    <2>7. TargetOK(c, k, t, 0)
      BY <1>1, <1>2, <1>3, <1>8, <1>14, <2>3, <2>5, <2>6 DEF TargetOK
    <2>8. ChoiceOK(k, 0, t, w)
      BY <2>1, <2>2, <2>3, <2>4, <2>5 DEF ChoiceOK
    <2>9. PICK q : q = Waiting(code[c])
      OBVIOUS
    <2>10. PICK r : r = [Callee(c, "posted", t, 0, ctx) EXCEPT !.via = w]
      OBVIOUS
    <2>11. PICK m : m = [code EXCEPT ![c] = q]
      OBVIOUS
    <2>12. code' = Append(m, r)
      BY <1>14, <2>3, <2>4, <2>9, <2>10, <2>11 DEF Waiting
    <2>13. Copies(code, 0, k) /\ ExecutorOK(0, FALSE)
      BY <1>1, CopyCode DEF ExecutorOK
    <2>14. NewThreadOK(k, FALSE)
      BY <1>3, <1>14, PlainThread
    <2> QED  BY <1>13, <2>7, <2>8, <2>9, <2>10, <2>11, <2>12, <2>13, <2>14
  <1>15. TSC \in DOMAIN ctx => v \in 0..Len(code) /\ (v # 0 => v = x /\ code[v].token = "outer")
    BY <1>1, <1>9, <1>10 DEF Open
  <1>16. CASE /\ p = 0 /\ TSC \in DOMAIN ctx /\ code[x].executor # 0
              /\ code' = Append([code EXCEPT ![c].pc = "wait"],
                                [Callee(c, "queued", code[x].executor, 0, ctx) EXCEPT !.via = v])
              /\ thr' = Append(thr, NoThread)
    <2>1. PICK t : t = code[x].executor
      OBVIOUS
    <2>2. t \in 1..Len(code) /\ x \in 1..Len(code)
      BY <1>9, <1>16, <2>1, References
    <2>3. ~Own(t) /\ ~thr[t].ended
      BY <1>1, <1>16, <2>1, <2>2 DEF Inv, ExecutorInv
    <2>4. TargetOK(c, k, t, 0)
      BY <1>1, <1>2, <1>3, <1>8, <1>16, <2>2, <2>3 DEF TargetOK
    <2>5. ChoiceOK(k, 0, t, v)
      BY <1>15, <1>16, <2>1 DEF ChoiceOK
    <2>6. PICK q : q = Waiting(code[c])
      OBVIOUS
    <2>7. PICK r : r = [Callee(c, "queued", t, 0, ctx) EXCEPT !.via = v]
      OBVIOUS
    <2>8. PICK m : m = [code EXCEPT ![c] = q]
      OBVIOUS
    <2>9. code' = Append(m, r)
      BY <1>16, <2>1, <2>6, <2>7, <2>8 DEF Waiting
    <2>10. Copies(code, 0, k) /\ ExecutorOK(0, FALSE)
      BY <1>1, CopyCode DEF ExecutorOK
    <2>11. NewThreadOK(k, FALSE)
      BY <1>3, <1>16, PlainThread
    <2> QED  BY <1>13, <2>4, <2>5, <2>6, <2>7, <2>8, <2>9, <2>10, <2>11
  <1>17. CASE /\ p = 0 /\ TSC \in DOMAIN ctx /\ code[x].executor = 0
              /\ code' = Append([Store(x, n) EXCEPT ![c].pc = "wait"],
                                [Callee(c, "queued", n, 0, ctx) EXCEPT !.via = v])
              /\ \E ident \in FreeIdents : thr' = Append(thr, NewThread(ident, <<>>, FALSE))
    <2>1. PICK s : s = Store(x, n)
      OBVIOUS
    <2>2. Copies(s, x, k) /\ x \in 1..Len(code)
      BY <1>3, <1>9, <1>17, <2>1, CopyStore
    <2>3. TargetOK(c, k, k, 0)
      BY <1>1, <1>2, <1>3, <1>8, <1>17 DEF TargetOK
    <2>4. ChoiceOK(k, x, k, v)
      BY <1>15, <1>17 DEF ChoiceOK
    <2>5. PICK q : q = Waiting(s[c])
      OBVIOUS
    <2>6. PICK r : r = [Callee(c, "queued", k, 0, ctx) EXCEPT !.via = v]
      OBVIOUS
    <2>7. PICK m : m = [s EXCEPT ![c] = q]
      OBVIOUS
    <2>8. code' = Append(m, r)
      BY <1>4, <1>17, <2>1, <2>5, <2>6, <2>7 DEF Waiting
    <2>9. ExecutorOK(x, FALSE)
      BY <1>17, <2>2 DEF ExecutorOK
    <2>10. NewThreadOK(k, FALSE)
      BY <1>3, <1>17, PlainThread
    <2> QED  BY <1>13, <2>2, <2>3, <2>4, <2>5, <2>6, <2>7, <2>8, <2>9, <2>10
  <1> QED  BY <1>11, <1>14, <1>16, <1>17

\* Sync code that waits for a coroutine.
Blocked(r, new, old) == [r EXCEPT !.pc = "wait", !.ctx = new, !.old = old]

LEMMA SyncWaits ==
    ASSUME Inv, NEW c \in 1..Len(code), code[c].pc = "run", code[c].loop = 0,
           NEW new, new = SetAttr(code[c].ctx, Executors, Ident(c), "current", c),
           NEW old, old = Current(code[c].ctx, Ident(c)), NEW q, q = Blocked(code[c], new, old)
    PROVE  /\ q \in Codes /\ SameCode(q, code[c]) /\ q.token = code[c].token
           /\ q.executor = code[c].executor /\ q.pc = "wait" /\ CallerOK(c, q)
           /\ q.ctx = new /\ ContextOK(new, Len(code))
  <1>1. /\ ContextOK(new, Len(code)) /\ RawCurrent(new) = c
        /\ \A v : v \in DOMAIN new <=> v \in DOMAIN code[c].ctx \/ v = Executors
        /\ new[Executors].ident = Ident(c)
        /\ \A v \in DOMAIN code[c].ctx : v # Executors => new[v] = code[c].ctx[v]
        /\ old \in 0..Len(code)
        /\ code[c].caller # 0 => old = RawCurrent(code[c].ctx)
    <2>1. Registers(c, new, old)
      BY SyncCaller
    <2> QED  BY <2>1 DEF Registers
  <1>2. code[c] \in Codes /\ new \in Contexts /\ old \in Nat
    BY <1>1, Domains DEF Inv, ContextOK
  <1>3. /\ q \in Codes /\ SameCode(q, code[c]) /\ q.token = code[c].token
        /\ q.executor = code[c].executor /\ q.pc = "wait" /\ q.ctx = new
        /\ q.on = code[c].on /\ q.old = old
    BY <1>2 DEF Codes, SameCode, Pcs, Blocked
  <1>4. q.on \in 0..Len(code)
    BY <1>3, References
  <1>5. code[c].caller # 0 => q.old = Effective(c)
    BY <1>1, <1>3 DEF Effective
  <1>6. \A var \in {TSC, STC, Value} :
          /\ var \in DOMAIN new <=> var \in DOMAIN code[c].ctx
          /\ var \in DOMAIN new => new[var] = code[c].ctx[var]
    BY <1>1, VarFacts
  <1>7. CallerOK(c, q)
    BY <1>1, <1>3, <1>4, <1>5, <1>6 DEF CallerOK
  <1> QED  BY <1>1, <1>3, <1>7

\* Sync code that calls a coroutine.
LEMMA AsyncToSyncCallKeeps ==
    ASSUME Inv, NEW c \in DOMAIN code, NEW force_new_loop \in BOOLEAN,
           AsyncToSyncCall(c, force_new_loop)
    PROVE  Inv'
  <1>1. /\ Len(code) \in Nat /\ DOMAIN code = 1..Len(code) /\ c \in 1..Len(code)
        /\ DOMAIN thr = 1..Len(code) /\ raced \subseteq 1..Len(code)
    BY Domains DEF Inv, TypeInv
  <1>2. /\ code[c].pc = "run" /\ code[c].loop = 0 /\ Room
        /\ program' = program /\ writes' = writes /\ leaked' = leaked /\ raced' = raced
    BY DEF AsyncToSyncCall, Does, Runs, Async
  <1>3. PICK k : k = Len(code) + 1
    OBVIOUS
  <1>4. k \in Nat /\ k = n
    BY <1>1, <1>3 DEF n
  <1>5. PICK new : new = SetAttr(code[c].ctx, Executors, Ident(c), "current", c)
    OBVIOUS
  <1>6. PICK old : old = Current(code[c].ctx, Ident(c))
    OBVIOUS
  <1>7. PICK parent : parent = IF force_new_loop THEN 0 ELSE thr[code[c].thread].main_event_loop
    OBVIOUS
  <1>8. PICK q : q = Blocked(code[c], new, old)
    OBVIOUS
  <1>9. /\ q \in Codes /\ SameCode(q, code[c]) /\ q.token = code[c].token
        /\ q.executor = code[c].executor /\ q.pc = "wait" /\ CallerOK(c, q)
        /\ q.ctx = new /\ ContextOK(new, Len(code))
    BY <1>1, <1>2, <1>5, <1>6, <1>8, SyncWaits
  <1>10. \/ /\ Running(parent)
            /\ code' = Append([code EXCEPT ![c].pc = "wait", ![c].ctx = new, ![c].old = old],
                              Callee(c, "posted", code[parent].thread, parent, new))
            /\ thr' = Append(thr, NoThread)
         \/ /\ code' = Append([code EXCEPT ![c].pc = "wait", ![c].ctx = new, ![c].old = old],
                              Callee(c, "queued", n, n, new))
            /\ \E ident \in FreeIdents : thr' = Append(thr, NewThread(ident, <<>>, TRUE))
         \/ /\ STC \in DOMAIN new
            /\ code' = [[code EXCEPT ![c].pc = "look", ![c].ctx = new, ![c].old = old]
                          EXCEPT ![c].on = code[new[STC]].executor]
            /\ thr' = thr
    BY <1>5, <1>6, <1>7 DEF AsyncToSyncCall
  <1>11. /\ raced \subseteq raced' /\ raced' \subseteq 1..Len(code)
    BY <1>1, <1>2
  <1>12. Copies(code, 0, k)
    BY CopyCode
  <1>13. new \in Contexts
    BY <1>9 DEF ContextOK
  <1>14. ASSUME NEW pc \in {"posted", "queued"}, NEW t, NEW l, TargetOK(c, k, t, l), l \in Nat,
                NEW r, r = Callee(c, pc, t, l, new), code' = Append([code EXCEPT ![c] = q], r),
                NEW shut \in BOOLEAN, NewThreadOK(k, shut)
         PROVE  Inv'
    <2>1. t \in Nat /\ 0 \in 0..Len(code)
      BY <1>1, <1>4, <1>14 DEF TargetOK
    <2>2. IsCallee(r, c, pc, t, l, new, 0)
      BY <1>1, <1>13, <1>14, <2>1, CalleeFacts
    <2>3. IsCallee(r, c, pc, t, l, q.ctx, 0)
      BY <1>9, <2>2
    <2>4. ChoiceOK(k, 0, t, 0) /\ ExecutorOK(0, shut)
      BY <1>14, <2>1 DEF ChoiceOK, ExecutorOK
    <2>5. CallOK(c, k, 0, code, q, pc, t, l, 0, r, shut)
      BY <1>1, <1>2, <1>3, <1>9, <1>11, <1>12, <1>14, <2>3, <2>4 DEF CallOK
    <2> QED  BY <2>5, CallMade
  <1>15. [code EXCEPT ![c].pc = "wait", ![c].ctx = new, ![c].old = old] = [code EXCEPT ![c] = q]
    BY <1>8 DEF Blocked
  <1>16. CASE /\ Running(parent)
              /\ code' = Append([code EXCEPT ![c].pc = "wait", ![c].ctx = new, ![c].old = old],
                                Callee(c, "posted", code[parent].thread, parent, new))
              /\ thr' = Append(thr, NoThread)
    <2>1. parent # 0 /\ code[parent].pc # "done"
      BY <1>16 DEF Running
    <2>2. PICK u : u = code[c].thread
      OBVIOUS
    <2>3. u \in 1..Len(code) /\ parent = thr[u].main_event_loop
      BY <1>1, <1>7, <2>1, <2>2, References
    <2>4. ThreadOK(u) /\ thr[u].main_event_loop \in Nat
      BY <1>1, <2>3, Domains, ThreadFields DEF Inv, StateInv
    <2>5. parent \in 1..Len(code) /\ code[parent].loop # 0
      BY <1>1, <2>1, <2>3, <2>4 DEF ThreadOK
    <2>6. PICK t : t = code[parent].thread
      OBVIOUS
    <2>7. t \in 1..Len(code)
      BY <2>5, <2>6, References
    <2>8. ~thr[t].ended
      BY <1>1, <2>1, <2>5, <2>6, <2>7 DEF Inv, EndedInv
    <2>9. TargetOK(c, k, t, parent)
      BY <1>1, <1>2, <1>3, <2>1, <2>5, <2>6, <2>7, <2>8 DEF TargetOK
    <2>10. PICK r : r = Callee(c, "posted", t, parent, new)
      OBVIOUS
    <2>11. code' = Append([code EXCEPT ![c] = q], r) /\ parent \in Nat
      BY <1>15, <1>16, <2>5, <2>6, <2>10
    <2>12. NewThreadOK(k, FALSE)
      BY <1>3, <1>16, PlainThread
    <2> QED  BY <1>14, <2>9, <2>10, <2>11, <2>12
  <1>17. CASE /\ code' = Append([code EXCEPT ![c].pc = "wait", ![c].ctx = new, ![c].old = old],
                                Callee(c, "queued", n, n, new))
              /\ \E ident \in FreeIdents : thr' = Append(thr, NewThread(ident, <<>>, TRUE))
    <2>1. TargetOK(c, k, k, k)
      BY <1>1, <1>2, <1>3 DEF TargetOK
    <2>2. PICK r : r = Callee(c, "queued", k, k, new)
      OBVIOUS
    <2>3. code' = Append([code EXCEPT ![c] = q], r)
      BY <1>4, <1>15, <1>17, <2>2
    <2>4. NewThreadOK(k, TRUE)
      BY <1>3, <1>17, PlainThread
    <2> QED  BY <1>4, <1>14, <2>1, <2>2, <2>3, <2>4
  <1>18. CASE /\ STC \in DOMAIN new
              /\ code' = [[code EXCEPT ![c].pc = "look", ![c].ctx = new, ![c].old = old]
                            EXCEPT ![c].on = code[new[STC]].executor]
              /\ thr' = thr
    <2>1. PICK t : t = code[new[STC]].executor
      OBVIOUS
    <2>2. PICK r : r = Looks(code[c], new, old, t)
      OBVIOUS
    <2>3. code' = [code EXCEPT ![c] = r]
      BY <1>1, <1>18, <2>1, <2>2 DEF Looks
    <2>4. UNCHANGED <<thr, program, writes, leaked, raced>> /\ STC \in DOMAIN new
      BY <1>2, <1>18
    <2> QED  BY <1>2, <1>5, <1>6, <2>1, <2>2, <2>3, <2>4, LookKeeps
  <1> QED  BY <1>10, <1>16, <1>17, <1>18

\* Sync code that has given a coroutine to the executor it has looked up.
Submits(r) == [r EXCEPT !.pc = "wait", !.on = 0]

LEMMA LookWaits ==
    ASSUME Inv, NEW c \in 1..Len(code), code[c].pc = "look",
           NEW k, NEW x, NEW s, Copies(s, x, k), NEW q, q = Submits(s[c])
    PROVE  /\ q \in Codes /\ SameCode(q, s[c]) /\ q.token = s[c].token
           /\ q.executor = s[c].executor /\ q.pc = "wait" /\ CallerOK(c, q)
           /\ q.ctx = code[c].ctx
  <1>1. /\ s[c] \in Codes /\ s[c].ctx = code[c].ctx /\ s[c].old = code[c].old
    BY Domains DEF Copies, Inv
  <1>2. /\ q \in Codes /\ SameCode(q, s[c]) /\ q.token = s[c].token
        /\ q.executor = s[c].executor /\ q.pc = "wait" /\ q.ctx = s[c].ctx
        /\ q.on = 0 /\ q.old = s[c].old
    BY <1>1 DEF Codes, SameCode, Pcs, Submits
  <1>3. CodeOK(c) /\ DOMAIN code = 1..Len(code) /\ Len(code) \in Nat
    BY Domains DEF Inv, StateInv
  <1>4. /\ ContextOK(code[c].ctx, Len(code)) /\ code[c].loop = 0
        /\ RawCurrent(code[c].ctx) = c
    BY <1>3 DEF CodeOK
  <1>5. q.ctx = code[c].ctx /\ q.on = 0 /\ q.old = code[c].old
    BY <1>1, <1>2
  <1>6. q.on \in 0..Len(code) /\ q.old \in 0..Len(code)
    BY <1>3, <1>5, References
  <1>7. q.old = Effective(c)
    BY <1>5 DEF Effective
  <1>8. CallerOK(c, q)
    BY <1>4, <1>5, <1>6, <1>7 DEF CallerOK
  <1> QED  BY <1>2, <1>5, <1>8

LEMMA OnSharedThreadKeeps ==
    ASSUME Inv, NEW c \in DOMAIN code, OnSharedThread(c)
    PROVE  Inv'
  <1>1. /\ Len(code) \in Nat /\ DOMAIN code = 1..Len(code) /\ c \in 1..Len(code)
        /\ DOMAIN thr = 1..Len(code) /\ raced \subseteq 1..Len(code)
    BY Domains DEF Inv, TypeInv
  <1>2. code[c].pc = "look" /\ program' = program /\ writes' = writes
    BY DEF OnSharedThread
  <1>3. PICK k : k = Len(code) + 1
    OBVIOUS
  <1>4. k \in Nat /\ k = n /\ k # 0
    BY <1>1, <1>3 DEF n
  <1>5. PICK ctx : ctx = code[c].ctx
    OBVIOUS
  <1>6. PICK x : x = ctx[STC]
    OBVIOUS
  <1>7. PICK o : o = code[c].on
    OBVIOUS
  <1>8. PICK v : v = IF Open(x) THEN x ELSE 0
    OBVIOUS
  <1>9. /\ code[c].loop = 0 /\ ContextOK(ctx, Len(code)) /\ ctx \in Contexts
        /\ Entered(ctx) /\ STC \in DOMAIN ctx
    BY <1>1, <1>2, <1>5 DEF Inv, StateInv, CodeOK, ContextOK, ManagerInv
  <1>10. x \in 1..Len(code) /\ o \in 0..Len(code)
    <2>1. x \in 1..Len(code)
      BY <1>6, <1>9 DEF ContextOK
    <2> QED  BY <1>1, <1>7, <2>1, References
  <1>11. \/ /\ o = 0
            /\ code' = Append([Store(x, n) EXCEPT ![c].pc = "wait", ![c].on = 0],
                              [Callee(c, "queued", n, n, ctx) EXCEPT !.via = v])
            /\ \E ident \in FreeIdents :
                  thr' = Append(thr, NewThread(ident, IF Inherit THEN ctx ELSE <<>>, FALSE))
            /\ leaked' = leaked
            /\ raced' = IF code[x].executor = 0 THEN raced ELSE raced \cup {x}
         \/ /\ o # 0 /\ ~thr[o].shut
            /\ code' = Append([code EXCEPT ![c].pc = "wait", ![c].on = 0],
                              [Callee(c, "queued", o, n, ctx) EXCEPT !.via = v])
            /\ thr' = Append(thr, NoThread)
            /\ leaked' = leaked /\ raced' = raced
         \/ /\ code' = [code EXCEPT ![c].pc = "run", ![c].on = 0,
                             ![c].ctx = SetAttr(Restore(ctx, ctx, Ident(c)), Executors,
                                                Ident(c), "current", code[c].old)]
            /\ Leak(c, Foreign(ctx, Ident(c)))
            /\ thr' = thr /\ raced' = raced
    BY <1>5, <1>6, <1>7, <1>8 DEF OnSharedThread
  <1>12. v = 0 \/ (v = x /\ code[v].token = "outer")
    BY <1>8 DEF Open
  <1>13. ASSUME NEW s, NEW y, Copies(s, y, k), NEW t, TargetOK(c, k, t, k), ChoiceOK(k, y, t, v),
                NEW r, r = [Callee(c, "queued", t, k, ctx) EXCEPT !.via = v],
                NEW q, q = Submits(s[c]),
                NEW m, m = [s EXCEPT ![c] = q], code' = Append(m, r),
                NewThreadOK(k, FALSE), ExecutorOK(y, FALSE), leaked' = leaked,
                raced \subseteq raced', raced' \subseteq 1..Len(code)
         PROVE  Inv'
    <2>1. /\ q \in Codes /\ SameCode(q, s[c]) /\ q.token = s[c].token
          /\ q.executor = s[c].executor /\ q.pc = "wait" /\ CallerOK(c, q)
          /\ q.ctx = code[c].ctx
      BY <1>1, <1>2, <1>13, LookWaits
    <2>2. t \in Nat /\ v \in Nat
      BY <1>1, <1>4, <1>13 DEF TargetOK, ChoiceOK
    <2>3. IsCallee(r, c, "queued", t, k, ctx, v)
      BY <1>1, <1>4, <1>9, <1>13, <2>2, CalleeFacts
    <2>4. IsCallee(r, c, "queued", t, k, q.ctx, v)
      BY <1>5, <2>1, <2>3
    <2>5. code' = Append([s EXCEPT ![c] = q], r)
      BY <1>13
    <2>6. CallOK(c, k, y, s, q, "queued", t, k, v, r, FALSE)
      BY <1>1, <1>2, <1>3, <1>13, <2>1, <2>4, <2>5 DEF CallOK
    <2> QED  BY <2>6, CallMade
  <1>14. CASE /\ o = 0
              /\ code' = Append([Store(x, n) EXCEPT ![c].pc = "wait", ![c].on = 0],
                                [Callee(c, "queued", n, n, ctx) EXCEPT !.via = v])
              /\ \E ident \in FreeIdents :
                    thr' = Append(thr, NewThread(ident, IF Inherit THEN ctx ELSE <<>>, FALSE))
              /\ leaked' = leaked
              /\ raced' = IF code[x].executor = 0 THEN raced ELSE raced \cup {x}
    <2>1. PICK s : s = Store(x, n)
      OBVIOUS
    <2>2. Copies(s, x, k)
      BY <1>3, <1>10, <2>1, CopyStore
    <2>3. /\ raced \subseteq raced' /\ raced' \subseteq 1..Len(code)
          /\ code[x].executor = 0 \/ x \in raced'
      BY <1>1, <1>10, <1>14
    <2>4. TargetOK(c, k, k, k)
      BY <1>1, <1>3, <1>4, <1>9 DEF TargetOK
    <2>5. ChoiceOK(k, x, k, v)
      BY <1>1, <1>10, <1>12 DEF ChoiceOK
    <2>6. PICK q : q = Submits(s[c])
      OBVIOUS
    <2>7. PICK r : r = [Callee(c, "queued", k, k, ctx) EXCEPT !.via = v]
      OBVIOUS
    <2>8. PICK m : m = [s EXCEPT ![c] = q]
      OBVIOUS
    <2>9. code' = Append(m, r)
      BY <1>4, <1>14, <2>1, <2>6, <2>7, <2>8 DEF Submits
    <2>10. ExecutorOK(x, FALSE)
      BY <1>1, <1>10, <2>3 DEF ExecutorOK
    <2>11. PICK base : base = IF Inherit THEN ctx ELSE <<>>
      OBVIOUS
    <2>12. base \in Contexts /\ ContextOK(base, Len(code)) /\ Entered(base)
      <3>1. CASE Inherit
        BY <1>9, <2>11, <3>1
      <3>2. CASE ~Inherit
        <4>1. ContextOK(<<>>, Len(code)) /\ DOMAIN <<>> = {}
          BY <1>1, EmptyContext
        <4> QED  BY <2>11, <3>2, <4>1 DEF ContextOK, Entered
      <3> QED  BY <3>1, <3>2
    <2>13. PICK ident \in FreeIdents : thr' = Append(thr, NewThread(ident, base, FALSE))
      BY <1>14, <2>11
    <2>14. ident \in 0..k
      BY <1>3, FreeIdentsType
    <2>15. NewThreadOK(k, FALSE)
      BY <2>12, <2>13, <2>14, Zenon DEF NewThreadOK
    <2>16. leaked' = leaked
      BY <1>14
    <2> QED  BY <1>13, <2>2, <2>3, <2>4, <2>5, <2>6, <2>7, <2>8, <2>9, <2>10, <2>15, <2>16
  <1>15. CASE /\ o # 0 /\ ~thr[o].shut
              /\ code' = Append([code EXCEPT ![c].pc = "wait", ![c].on = 0],
                                [Callee(c, "queued", o, n, ctx) EXCEPT !.via = v])
              /\ thr' = Append(thr, NoThread)
              /\ leaked' = leaked /\ raced' = raced
    <2>1. o \in 1..Len(code) /\ o # 0 /\ o \in 1..k
      BY <1>1, <1>3, <1>10, <1>15
    <2>2. LookOf(c)
      BY <1>1 DEF Inv, ViaInv
    <2>3. ~Own(o) /\ HasExecutor(x, o)
      BY <1>2, <1>5, <1>6, <1>7, <2>1, <2>2 DEF LookOf
    <2>4. ~thr[o].ended
      BY <1>1, <1>15, <2>1, <2>3 DEF Inv, EndedInv
    <2>5. TargetOK(c, k, o, k)
      BY <1>4, <1>9, <2>1, <2>3, <2>4 DEF TargetOK
    <2>6. ChoiceOK(k, 0, o, v)
      <3>1. code[x].token = "outer" => x \in raced' \/ code[x].executor = o
        BY <1>15, <2>3 DEF HasExecutor
      <3>2. x # 0 /\ x \in 0..Len(code) /\ 0 \in 0..Len(code)
        BY <1>1, <1>10
      <3> QED  BY <1>12, <3>1, <3>2 DEF ChoiceOK
    <2>7. PICK q : q = Submits(code[c])
      OBVIOUS
    <2>8. PICK r : r = [Callee(c, "queued", o, k, ctx) EXCEPT !.via = v]
      OBVIOUS
    <2>9. PICK m : m = [code EXCEPT ![c] = q]
      OBVIOUS
    <2>10. code' = Append(m, r)
      BY <1>4, <1>15, <2>7, <2>8, <2>9 DEF Submits
    <2>11. Copies(code, 0, k) /\ ExecutorOK(0, FALSE)
      BY <1>1, CopyCode DEF ExecutorOK
    <2>12. NewThreadOK(k, FALSE)
      BY <1>3, <1>15, PlainThread
    <2>13. leaked' = leaked /\ raced \subseteq raced' /\ raced' \subseteq 1..Len(code)
      BY <1>1, <1>15
    <2> QED  BY <1>13, <2>5, <2>6, <2>7, <2>8, <2>9, <2>10, <2>11, <2>12, <2>13
  <1>16. CASE /\ code' = [code EXCEPT ![c].pc = "run", ![c].on = 0,
                               ![c].ctx = SetAttr(Restore(ctx, ctx, Ident(c)), Executors,
                                                  Ident(c), "current", code[c].old)]
              /\ Leak(c, Foreign(ctx, Ident(c)))
              /\ thr' = thr /\ raced' = raced
    <2>1. PICK mid : mid = Restore(code[c].ctx, code[c].ctx, Ident(c))
      OBVIOUS
    <2>2. PICK new : new = SetAttr(mid, Executors, Ident(c), "current", code[c].old)
      OBVIOUS
    <2>3. code' = [code EXCEPT ![c].pc = "run", ![c].on = 0, ![c].ctx = new]
      BY <1>5, <1>16, <2>1, <2>2
    <2>4. Leak(c, Foreign(code[c].ctx, Ident(c)))
      BY <1>5, <1>16
    <2>5. UNCHANGED <<thr, program, writes, raced>>
      BY <1>2, <1>16
    <2> QED  BY <1>2, <2>1, <2>2, <2>3, <2>4, <2>5, LookFails
  <1> QED  BY <1>11, <1>14, <1>15, <1>16

-----------------------------------------------------------------------------
(* Tasks and threads of the program's own. *)

\* Code k is a task or a thread that nothing waits for, with context ctx.
RootAdded(k, r, ctx) ==
    /\ k = Len(code) + 1 /\ r \in Codes
    /\ r.caller = 0 /\ r.root = k /\ r.via = 0 /\ r.pc \in {"posted", "run"} /\ r.ctx = ctx
    /\ r.token = "none" /\ r.on = 0 /\ r.executor = 0 /\ r.old = 0
    /\ code' = Append(code, r)

RootStep(k) ==
    /\ Grows(k) /\ \A d \in 1..Len(code) : code'[d] = code[d]
    /\ code'[k].caller = 0 /\ code'[k].root = k /\ code'[k].via = 0
    /\ code'[k].pc \in {"posted", "run"}
    /\ code'[k].token = "none" /\ code'[k].on = 0 /\ code'[k].executor = 0 /\ code'[k].old = 0

LEMMA AddRoot ==
    ASSUME Inv, NEW k, NEW r, NEW ctx, RootAdded(k, r, ctx),
           NEW h, ThreadAdded(k, h), program' = program, writes' = writes, raced' = raced,
           leaked' = leaked \/ leaked' = leaked \cup {k}
    PROVE  RootStep(k) /\ code'[k] = r
  <1>1. /\ Len(code) \in Nat /\ code \in Seq(Codes) /\ DOMAIN code = 1..Len(code)
        /\ leaked \subseteq 1..Len(code) /\ raced \subseteq 1..Len(code)
    BY Domains DEF Inv, TypeInv
  <1>2. /\ k = Len(code) + 1 /\ r \in Codes /\ code' = Append(code, r)
        /\ r.caller = 0 /\ r.root = k /\ r.via = 0 /\ r.pc \in {"posted", "run"}
        /\ r.token = "none" /\ r.on = 0 /\ r.executor = 0 /\ r.old = 0
    BY DEF RootAdded
  <1>3. /\ code' \in Seq(Codes) /\ Len(code') = k /\ code'[k] = r
        /\ \A d \in 1..Len(code) : code'[d] = code[d]
    BY <1>1, <1>2
  <1>4. /\ leaked \subseteq leaked' /\ leaked' \subseteq 1..k
        /\ raced \subseteq raced' /\ raced' \subseteq 1..k
    <2>1. 1..Len(code) \subseteq 1..k /\ k \in 1..k
      BY <1>1, <1>2
    <2> QED  BY <1>1, <2>1
  <1>5. \A d \in 1..Len(code) : code'[d].executor \in 0..k
    <2> TAKE d \in 1..Len(code)
    <2>1. code[d].executor \in 0..Len(code)
      BY References
    <2> QED  BY <1>1, <1>2, <1>3, <2>1
  <1>6. \A d \in 1..Len(code) : SameCode(code'[d], code[d])
    BY <1>3 DEF SameCode
  <1>7. Grows(k)
    BY <1>2, <1>3, <1>4, <1>5, <1>6 DEF Grows, ThreadAdded
  <1> QED  BY <1>2, <1>3, <1>7 DEF RootStep

LEMMA RootKeeps ==
    ASSUME Inv, NEW k, RootStep(k), Room, PlaceOf(k)', GoodCode(k)',
           NEW t \in 1..k, code'[k].thread = t, t = k \/ ~thr[t].ended
    PROVE  Inv'
  <1>1. /\ Grows(k) /\ \A d \in 1..Len(code) : code'[d] = code[d]
        /\ code'[k].caller = 0 /\ code'[k].root = k /\ code'[k].via = 0
        /\ code'[k].pc \in {"posted", "run"}
        /\ code'[k].token = "none" /\ code'[k].on = 0 /\ code'[k].executor = 0
    BY DEF RootStep
  <1>2. /\ Changes(k) /\ k \in Nat /\ k \in 1..k /\ k \notin 1..Len(code) /\ k = Len(code) + 1
        /\ \A d \in 1..k : d \in 1..Len(code) \/ d = k
        /\ \A u \in 1..k : SameThread(u) \/ ThreadOK(u)'
    BY <1>1, GrowFacts
  <1>3. /\ DOMAIN code = 1..Len(code) /\ Len(code) \in Nat /\ DOMAIN code' = 1..k
    BY <1>2, ChangeFacts
  <1>4. \A d \in 1..Len(code) : Same(d)
    BY <1>1, <1>3 DEF Same
  <1>5. /\ program' = program /\ writes' \in 0..MaxWrites
        /\ leaked' \subseteq 1..k /\ raced' \subseteq 1..k /\ Entered(thr[k].base)'
        /\ \A u \in 1..Len(code) : thr'[u] = thr[u]
        /\ ~thr'[k].ended
    BY <1>1 DEF Grows, Inv, TypeInv
  <1>6. RoomInv'
    <2>1. \A d \in 1..Len(code) : code'[d].pc = "look" <=> code[d].pc = "look"
      BY <1>1
    <2>2. code'[k].pc # "look"
      BY <1>1
    <2> QED  BY <1>2, <1>5, <2>1, <2>2, RoomKept
  <1>7. WaitInv'
    <2>1. \A d \in 1..Len(code) : /\ code'[d].pc = "done" <=> code[d].pc = "done"
                                  /\ code'[d].pc = "wait" <=> code[d].pc = "wait"
      BY <1>1
    <2>2. code'[k].pc # "wait"
      BY <1>1
    <2> QED  BY <1>1, <1>2, <2>1, <2>2, WaitKept
  <1>8. EndedInv'
    <2>1. \A u \in 1..Len(code) : thr'[u].ended = thr[u].ended
      BY <1>5
    <2>2. ~thr'[t].ended
      BY <1>2, <1>5, <2>1
    <2>3. code'[k].thread \in 1..k /\ ~thr'[code'[k].thread].ended
      BY <2>2
    <2> QED  BY <1>2, <1>5, <2>1, <2>3, EndedKept
  <1>9. ExecutorInv'
    <2>1. ASSUME NEW y \in 1..k
          PROVE  \/ code'[y].executor = 0
                 \/ /\ y \in 1..Len(code) /\ code'[y].executor = code[y].executor
                    /\ code[y].executor # 0 =>
                          /\ thr'[code[y].executor].shut = thr[code[y].executor].shut
                          /\ thr'[code[y].executor].ended = thr[code[y].executor].ended
      <3>1. CASE y = k
        BY <1>1, <3>1
      <3>2. CASE y \in 1..Len(code)
        <4>1. PICK e : e = code[y].executor
          OBVIOUS
        <4>2. e # 0 => e \in 1..Len(code)
          BY <3>2, <4>1, References
        <4>3. e # 0 => thr'[e] = thr[e]
          BY <1>5, <4>2
        <4> QED  BY <1>1, <3>2, <4>1, <4>3
      <3> QED  BY <1>2, <3>1, <3>2
    <2> QED  BY <1>2, <2>1, ExecutorSame
  <1>10. OneThread'
    <2>1. \A d \in 1..Len(code) :
             code[d].via = code'[k].via /\ code'[k].via \notin {0} \cup raced'
                 => code[d].thread = code'[k].thread
      BY <1>1
    <2> QED  BY <1>2, <2>1, OneThreadKept
  <1>11. ExitInv'
    <2>1. \A d \in 1..k : Left(k, d)'
      BY <1>1 DEF Left
    <2>2. \A d \in 1..k : Left(d, k)'
      <3> TAKE d \in 1..k
      <3>1. d # 0
        BY <1>2
      <3> QED  BY <1>1, <3>1 DEF Left
    <2>3. \A c \in 1..k : Same(c) \/ StillLeft(c) \/ \A d \in 1..k : Left(c, d)'
      BY <1>2, <1>4, <2>1, Zenon
    <2> QED  BY <1>2, <2>2, <2>3, ExitKept
  <1>12. SharedInv'
    <2>1. SharedOf(k)'
      BY <1>1 DEF SharedOf
    <2>2. ASSUME NEW d \in 1..Len(code), code[d].caller # 0
          PROVE  code'[code[d].caller].ctx = code[code[d].caller].ctx
      <3>1. PICK p : p = code[d].caller
        OBVIOUS
      <3>2. p \in 1..Len(code)
        BY <1>3, <2>2, <3>1, References
      <3> QED  BY <1>1, <3>1, <3>2
    <2>3. \A d \in 1..k :
             \/ SharedOf(d)'
             \/ /\ Same(d)
                /\ code[d].caller # 0 /\ code[d].pc # "done" =>
                      code'[code[d].caller].ctx = code[code[d].caller].ctx
      BY <1>2, <1>4, <2>1, <2>2
    <2> QED  BY <1>2, <2>3, SharedKept
  <1>13. \A d \in 1..k : Same(d) \/ GoodCode(d)'
    BY <1>2, <1>4
  <1>14. \A y \in 1..Len(code) : code'[y].token = "outer" /\ y \notin raced' =>
            code'[y].executor = code[y].executor \/ code[y].executor = 0
    BY <1>1
  <1>15. ViaOf(k)'
    BY <1>1 DEF ViaOf
  <1> QED  BY <1>2, <1>5, <1>6, <1>7, <1>8, <1>9, <1>10, <1>11, <1>12, <1>13, <1>14, <1>15, StepKeeps

\* Its context is all right.
LEMMA RootContext ==
    ASSUME Inv, NEW k, RootStep(k), NEW ctx, ContextOK(ctx, Len(code)), Entered(ctx),
           code'[k].ctx = ctx, code'[k].pc = "posted" => code'[k].loop # 0
    PROVE  /\ CodeOK(k)' /\ Entered(code[k].ctx)' /\ LookOf(k)'
           /\ Settled(k)'
  <1>1. /\ Grows(k) /\ \A d \in 1..Len(code) : code'[d] = code[d]
        /\ code'[k].caller = 0 /\ code'[k].pc \in {"posted", "run"}
        /\ code'[k].on = 0 /\ code'[k].executor = 0 /\ code'[k].old = 0
    BY DEF RootStep
  <1>2. /\ k = Len(code) + 1 /\ k \in Nat /\ Len(code) \in Nat /\ Len(code') = k
    BY <1>1, GrowFacts, ChangeFacts
  <1>3. CodeOK(k)'
    <2>1. ContextOK(ctx, k)
      BY <1>2, ContextGrows
    <2> QED  BY <1>1, <1>2, <2>1 DEF CodeOK, Started
  <1>4. Entered(code[k].ctx)'
    <2>1. \A var \in {TSC, STC} \cap DOMAIN ctx : ctx[var] \in 1..Len(code)
      BY DEF ContextOK
    <2>2. \A var \in {TSC, STC} \cap DOMAIN ctx : code'[ctx[var]].token \in {"outer", "left"}
      BY <1>1, <2>1 DEF Entered
    <2> QED  BY <2>2, Zenon DEF Entered
  <1>5. LookOf(k)'
    BY <1>1 DEF LookOf
  <1>6. Settled(k)'
    BY <1>1 DEF Settled
  <1> QED  BY <1>3, <1>4, <1>5, <1>6

\* A task sees what its creator sees, and does not run for sync code that waits.
LEMMA CreateTaskKeeps ==
    ASSUME Inv, NEW c \in DOMAIN code, CreateTask(c)
    PROVE  Inv'
  <1>1. /\ Len(code) \in Nat /\ DOMAIN code = 1..Len(code) /\ c \in 1..Len(code)
        /\ DOMAIN thr = 1..Len(code) /\ 1 \in 1..Len(code)
    BY Domains DEF Inv, TypeInv
  <1>2. PICK k : k = Len(code) + 1
    OBVIOUS
  <1>3. k \in Nat /\ k = n /\ k \in 1..k /\ 1 \in 1..k /\ k # 0
    BY <1>1, <1>2 DEF n
  <1>4. PICK ctx : ctx = code[c].ctx
    OBVIOUS
  <1>5. PICK sees : sees = code[c].sees \cup {k}
    OBVIOUS
  <1>6. PICK r : r = [NewCode(0, "posted", 1, 1, ctx) EXCEPT !.root = k, !.sees = sees]
    OBVIOUS
  <1>7. /\ code[c].pc = "run" /\ code[c].loop = 1 /\ Room
        /\ Current(ctx, Ident(c)) = 0
        /\ code' = Append(code, r) /\ thr' = Append(thr, NoThread)
        /\ leaked' = (IF code[c].root \in leaked THEN leaked \cup {k} ELSE leaked)
        /\ program' = program /\ writes' = writes /\ raced' = raced
    BY <1>3, <1>4, <1>5, <1>6 DEF CreateTask, Does, Runs
  <1>8. /\ ContextOK(ctx, Len(code)) /\ Entered(ctx) /\ CurrentOf(c) /\ ViewOf(c)
        /\ PlaceOf(c) /\ code[1].thread = 1 /\ ctx \in Contexts
    <2>1. /\ ContextOK(ctx, Len(code)) /\ Entered(ctx)
      BY <1>1, <1>4 DEF Inv, StateInv, CodeOK, ManagerInv
    <2>2. /\ CurrentOf(c) /\ ViewOf(c) /\ PlaceOf(c) /\ code[1].thread = 1
      BY <1>1, <1>7 DEF Inv, CurrentInv, ViewInv, PlaceInv
    <2> QED  BY <2>1, <2>2 DEF ContextOK
  <1>9. ~Own(c) /\ Settled(c)
    BY <1>7 DEF Own, Settled, Started
  <1>10. RawCurrent(ctx) = 0
    BY <1>1, <1>4, <1>7, <1>9, OwnCurrent
  <1>11. /\ code[c].sees \subseteq 1..Len(code)
         /\ code[1].loop # 0 /\ code[c].thread = 1 /\ ~Own(1)
    <2>1. PICK l : l = code[c].loop
      OBVIOUS
    <2>2. /\ code[l].loop # 0 /\ code[c].thread = code[l].thread /\ ~Own(code[c].thread)
      BY <1>7, <1>8, <2>1 DEF PlaceOf
    <2> QED  BY <1>1, <1>7, <1>8, <2>1, <2>2 DEF PlaceOf
  <1>12. sees \subseteq 1..k /\ k \in sees /\ sees \in SUBSET Nat
    BY <1>1, <1>2, <1>3, <1>5, <1>11
  <1>13. /\ r \in Codes /\ r.caller = 0 /\ r.root = k /\ r.via = 0 /\ r.pc = "posted"
         /\ r.ctx = ctx /\ r.token = "none" /\ r.on = 0 /\ r.executor = 0 /\ r.old = 0
         /\ r.sees = sees /\ r.thread = 1 /\ r.loop = 1
    BY <1>3, <1>6, <1>8, <1>12 DEF NewCode, Codes, Pcs, Tokens
  <1>14. RootAdded(k, r, ctx)
    BY <1>2, <1>7, <1>13 DEF RootAdded
  <1>15. PICK h : ThreadAdded(k, h)
    <2>1. /\ Len(code') = k /\ \A d \in 1..Len(code) : code'[d].token = code[d].token
      BY <1>1, <1>2, <1>7, <1>13, Domains DEF Inv, TypeInv
    <2>2. ContextOK(<<>>, Len(code)) /\ DOMAIN <<>> = {}
      BY <1>1, EmptyContext
    <2>3. PICK base : base = <<>>
      OBVIOUS
    <2>4. ContextOK(base, Len(code)) /\ Entered(base)
      BY <2>2, <2>3 DEF Entered
    <2>5. PICK g : g = NewThread(0, base, FALSE)
      OBVIOUS
    <2>6. thr' = Append(thr, g) /\ 0 \in 0..k
      BY <1>3, <1>7, <2>3, <2>5 DEF NoThread
    <2>7. ThreadAdded(k, g)
      BY <1>2, <2>1, <2>4, <2>5, <2>6, AddThread
    <2> QED  BY <2>7
  <1>16. RootStep(k) /\ code'[k] = r
    <2>1. leaked' = leaked \/ leaked' = leaked \cup {k}
      BY <1>7
    <2> QED  BY <1>7, <1>14, <1>15, <2>1, AddRoot
  <1>17. /\ CodeOK(k)' /\ Entered(code[k].ctx)' /\ LookOf(k)' /\ Settled(k)'
    <2>1. code'[k].ctx = ctx /\ code'[k].loop # 0
      BY <1>13, <1>16
    <2> QED  BY <1>8, <1>16, <2>1, RootContext
  <1>18. /\ Grows(k) /\ \A d \in 1..Len(code) : code'[d] = code[d]
    BY <1>16 DEF RootStep
  <1>19. Ident(k)' = Ident(c)
    <2>1. thr'[1] = thr[1] /\ code'[k].thread = 1
      BY <1>1, <1>13, <1>16, <1>18 DEF Grows
    <2> QED  BY <1>11, <2>1 DEF Ident
  <1>20. CurrentOf(k)'
    <2>1. Executors \in DOMAIN ctx => ctx[Executors].ident = Ident(c)
      BY <1>4, <1>8, <1>9 DEF CurrentOf
    <2>2. code'[k].loop = 1 /\ code'[k].caller = 0 /\ code'[k].ctx = ctx
      BY <1>13, <1>16
    <2> QED  BY <1>10, <1>19, <2>1, <2>2 DEF CurrentOf
  <1>21. ViewOf(k)'
    <2>1. Home(k)' = Ident(c) /\ Home(c) = Ident(c)
      BY <1>9, <1>17, <1>19 DEF Home
    <2>2. Value \in DOMAIN ctx /\ ctx[Value].ident = Ident(c) =>
             \A key \in DOMAIN ctx[Value].data :
                ctx[Value].data[key] \in code[c].sees \/ code[c].root \in leaked
      BY <1>4, <1>8, <2>1 DEF ViewOf
    <2>3. code[c].root \in leaked => k \in leaked'
      BY <1>7
    <2>4. Value \in DOMAIN ctx /\ ctx[Value].ident = Ident(c) =>
             \A key \in DOMAIN ctx[Value].data :
                ctx[Value].data[key] \in sees \/ k \in leaked'
      BY <1>5, <2>2, <2>3
    <2>5. code'[k].ctx = ctx /\ code'[k].sees = sees /\ code'[k].root = k
      BY <1>13, <1>16
    <2> QED  BY <2>1, <2>4, <2>5, Zenon DEF ViewOf
  <1>22. GoodCode(k)'
    BY <1>17, <1>20, <1>21 DEF GoodCode
  <1>23. PlaceOf(k)'
    <2>1. code'[1] = code[1] /\ Len(code') = k /\ DOMAIN code' = 1..k
      BY <1>1, <1>18, GrowFacts, ChangeFacts
    <2>2. /\ code'[k].caller = 0 /\ code'[k].via = 0 /\ code'[k].thread = 1
          /\ code'[k].loop = 1 /\ code'[k].sees = sees /\ code'[k].root = k
      BY <1>13, <1>16
    <2>3. code'[1].loop # 0 /\ code'[1].thread = 1 /\ ~Own(1)'
      BY <1>8, <1>11, <2>1 DEF Own
    <2>4. ~Own(k)'
      BY <2>2 DEF Own
    <2>5. 0 < k /\ 1 <= k /\ 0 <= k
      BY <1>3
    <2> QED  BY <1>3, <1>12, <2>1, <2>2, <2>3, <2>4, <2>5 DEF PlaceOf
  <1>24. ~thr[1].ended
    BY <1>1, <1>7, <1>11 DEF Inv, EndedInv
  <1>25. code'[k].thread = 1
    BY <1>13, <1>16
  <1> QED  BY <1>3, <1>7, <1>16, <1>22, <1>23, <1>24, <1>25, RootKeeps

\* A thread may inherit the context, and see what is in it if it has got the ident of
\* the thread that owned it.
LEMMA StartThreadKeeps ==
    ASSUME Inv, NEW c \in DOMAIN code, StartThread(c)
    PROVE  Inv'
  <1>1. /\ Len(code) \in Nat /\ DOMAIN code = 1..Len(code) /\ c \in 1..Len(code)
    BY Domains DEF Inv, TypeInv
  <1>2. PICK k : k = Len(code) + 1
    OBVIOUS
  <1>3. k \in Nat /\ k = n /\ k \in 1..k /\ k # 0
    BY <1>1, <1>2 DEF n
  <1>4. PICK ctx : ctx = IF Inherit THEN code[c].ctx ELSE <<>>
    OBVIOUS
  <1>5. PICK r : r = [NewCode(0, "run", k, 0, ctx) EXCEPT !.root = k, !.sees = {k}]
    OBVIOUS
  <1>6. PICK ident \in FreeIdents :
           /\ code' = Append(code, r)
           /\ thr' = Append(thr, NewThread(ident, <<>>, FALSE))
           /\ leaked' = IF Value \in DOMAIN ctx /\ ctx[Value].ident = ident
                        THEN leaked \cup {k} ELSE leaked
    BY <1>3, <1>4, <1>5 DEF StartThread
  <1>7. Room /\ program' = program /\ writes' = writes /\ raced' = raced
    BY DEF StartThread
  <1>8. /\ ContextOK(ctx, Len(code)) /\ Entered(ctx) /\ ctx \in Contexts
    <2>1. CASE Inherit
      BY <1>1, <1>4, <2>1 DEF Inv, StateInv, CodeOK, ManagerInv, ContextOK
    <2>2. CASE ~Inherit
      <3>1. ContextOK(<<>>, Len(code)) /\ DOMAIN <<>> = {}
        BY <1>1, EmptyContext
      <3> QED  BY <1>4, <2>2, <3>1 DEF ContextOK, Entered
    <2> QED  BY <2>1, <2>2
  <1>9. /\ r \in Codes /\ r.caller = 0 /\ r.root = k /\ r.via = 0 /\ r.pc = "run"
        /\ r.ctx = ctx /\ r.token = "none" /\ r.on = 0 /\ r.executor = 0 /\ r.old = 0
        /\ r.sees = {k} /\ r.thread = k /\ r.loop = 0
    BY <1>3, <1>5, <1>8 DEF NewCode, Codes, Pcs, Tokens
  <1>10. RootAdded(k, r, ctx)
    BY <1>2, <1>6, <1>9 DEF RootAdded
  <1>11. PICK h : ThreadAdded(k, h) /\ h.ident = ident
    <2>1. /\ Len(code') = k /\ \A d \in 1..Len(code) : code'[d].token = code[d].token
      BY <1>1, <1>2, <1>6, <1>9, Domains DEF Inv, TypeInv
    <2>2. ContextOK(<<>>, Len(code)) /\ DOMAIN <<>> = {}
      BY <1>1, EmptyContext
    <2>3. PICK base : base = <<>>
      OBVIOUS
    <2>4. ContextOK(base, Len(code)) /\ Entered(base)
      BY <2>2, <2>3 DEF Entered
    <2>5. PICK g : g = NewThread(ident, base, FALSE)
      OBVIOUS
    <2>6. thr' = Append(thr, g)
      BY <1>6, <2>3, <2>5
    <2>7. ident \in 0..k
      BY <1>2, FreeIdentsType
    <2>8. ThreadAdded(k, g) /\ g.ident = ident
      BY <1>2, <2>1, <2>4, <2>5, <2>6, <2>7, AddThread
    <2> QED  BY <2>8
  <1>12. RootStep(k) /\ code'[k] = r
    <2>1. leaked' = leaked \/ leaked' = leaked \cup {k}
      BY <1>6
    <2> QED  BY <1>7, <1>10, <1>11, <2>1, AddRoot
  <1>13. /\ CodeOK(k)' /\ Entered(code[k].ctx)' /\ LookOf(k)' /\ Settled(k)'
    <2>1. code'[k].ctx = ctx /\ code'[k].pc = "run"
      BY <1>9, <1>12
    <2>2. code'[k].pc = "posted" => code'[k].loop # 0
      BY <2>1
    <2> QED  BY <1>8, <1>12, <2>1, <2>2, RootContext
  <1>14. Ident(k)' = ident
    <2>1. thr'[k] = h /\ code'[k].thread = k
      BY <1>9, <1>11, <1>12 DEF ThreadAdded
    <2> QED  BY <1>11, <2>1 DEF Ident
  <1>15. CurrentOf(k)'
    <2>1. code'[k].loop = 0 /\ code'[k].caller = 0
      BY <1>9, <1>12
    <2> QED  BY <2>1 DEF CurrentOf, Own
  <1>16. ViewOf(k)'
    <2>1. Home(k)' = ident
      BY <1>13, <1>14 DEF Home
    <2>2. Value \in DOMAIN ctx /\ ctx[Value].ident = ident => k \in leaked'
      BY <1>6
    <2>3. code'[k].ctx = ctx /\ code'[k].root = k
      BY <1>9, <1>12
    <2> QED  BY <2>1, <2>2, <2>3, Zenon DEF ViewOf
  <1>17. GoodCode(k)'
    BY <1>13, <1>15, <1>16 DEF GoodCode
  <1>18. PlaceOf(k)'
    <2>1. Grows(k)
      BY <1>12 DEF RootStep
    <2>2. Len(code') = k /\ DOMAIN code' = 1..k
      BY <2>1, GrowFacts, ChangeFacts
    <2>3. /\ code'[k].caller = 0 /\ code'[k].via = 0 /\ code'[k].thread = k
          /\ code'[k].loop = 0 /\ code'[k].sees = {k} /\ code'[k].root = k
      BY <1>9, <1>12
    <2>4. 0 < k /\ 0 <= k
      BY <1>3
    <2> QED  BY <1>3, <2>2, <2>3, <2>4 DEF PlaceOf
  <1>19. code'[k].thread = k
    BY <1>9, <1>12
  <1> QED  BY <1>3, <1>7, <1>12, <1>17, <1>18, <1>19, RootKeeps

-----------------------------------------------------------------------------
(* The invariant holds. *)

LEMMA InitKeeps ==
    ASSUME Init
    PROVE  Inv
  <1>1. PICK r : r = [NewCode(0, "run", 1, 1, <<>>) EXCEPT !.root = 1, !.sees = {1}]
    OBVIOUS
  <1>2. PICK h : h = NewThread(1, <<>>, FALSE)
    OBVIOUS
  <1>3. /\ program \in Programs /\ code = <<r>> /\ thr = <<h>> /\ writes = 0
        /\ leaked = {} /\ raced = {}
    BY <1>1, <1>2 DEF Init
  <1>4. program.codes \in Nat /\ program.codes >= 1 /\ MaxWrites \in Nat
    BY <1>3, ContextsAssumption DEF Program
  <1>5. ContextOK(<<>>, 1) /\ DOMAIN <<>> = {} /\ RawCurrent(<<>>) = 0
    BY EmptyContext
  <1>6. PICK ctx : ctx = <<>>
    OBVIOUS
  <1>7. ContextOK(ctx, 1) /\ DOMAIN ctx = {} /\ RawCurrent(ctx) = 0 /\ ctx \in Contexts
    BY <1>5, <1>6 DEF ContextOK
  <1>8. /\ r \in Codes /\ r.pc = "run" /\ r.caller = 0 /\ r.thread = 1 /\ r.loop = 1
        /\ r.ctx = ctx /\ r.root = 1 /\ r.sees = {1} /\ r.token = "none" /\ r.on = 0
        /\ r.executor = 0 /\ r.old = 0 /\ r.via = 0
    <2>1. r = [NewCode(0, "run", 1, 1, ctx) EXCEPT !.root = 1, !.sees = {1}]
      BY <1>1, <1>6
    <2>2. ctx \in Contexts /\ {1} \in SUBSET Nat
      BY <1>7
    <2> QED  BY <2>1, <2>2 DEF NewCode, Codes, Pcs, Tokens
  <1>9. /\ h \in Threads /\ h.ident = 1 /\ h.main_event_loop = 0 /\ h.base = ctx /\ h.shut = FALSE
        /\ h.ended = FALSE /\ h.critical = {}
    BY <1>2, <1>6, <1>7 DEF NewThread, Threads
  <1>10. /\ code \in Seq(Codes) /\ thr \in Seq(Threads) /\ Len(code) = 1 /\ Len(thr) = 1
         /\ DOMAIN code = 1..1 /\ DOMAIN thr = 1..1 /\ code[1] = r /\ thr[1] = h
    BY <1>3, <1>8, <1>9
  <1>11. \A c \in DOMAIN code : c = 1
    BY <1>10
  <1>12. \A t \in DOMAIN thr : t = 1
    BY <1>10
  <1>13. TypeInv
    BY <1>3, <1>4, <1>10 DEF TypeInv
  <1>14. RoomInv
    <2>1. Looking = {}
      BY <1>8, <1>10, <1>11 DEF Looking
    <2>2. Cardinality(Looking) = 0
      BY <2>1, FS_EmptySet
    <2> QED  BY <1>4, <1>10, <2>2 DEF RoomInv
  <1>15. ~Own(1) /\ Started(1) /\ Settled(1) /\ Ident(1) = 1
    BY <1>8, <1>9, <1>10 DEF Own, Started, Settled, Ident
  <1>16. PlaceOf(1)
    BY <1>8, <1>10, <1>15 DEF PlaceOf
  <1>17. PlaceInv
    BY <1>8, <1>10, <1>11, <1>16 DEF PlaceInv
  <1>18. CodeOK(1)
    BY <1>7, <1>8, <1>10, <1>15 DEF CodeOK
  <1>19. ThreadOK(1)
    BY <1>7, <1>9, <1>10 DEF ThreadOK
  <1>20. StateInv
    BY <1>11, <1>12, <1>18, <1>19 DEF StateInv
  <1>21. WaitInv
    BY <1>8, <1>10, <1>11 DEF WaitInv
  <1>22. CurrentInv
    <2>1. CurrentOf(1)
      BY <1>7, <1>8, <1>10 DEF CurrentOf
    <2> QED  BY <1>11, <2>1 DEF CurrentInv
  <1>23. ExecutorInv
    BY <1>8, <1>10, <1>11 DEF ExecutorInv
  <1>24. EndedInv
    BY <1>9, <1>10, <1>12 DEF EndedInv
  <1>25. ManagerInv
    <2>1. Entered(ctx)
      BY <1>7 DEF Entered
    <2>2. Entered(code[1].ctx) /\ Entered(thr[1].base)
      BY <1>8, <1>9, <1>10, <2>1
    <2> QED  BY <1>11, <1>12, <2>2 DEF ManagerInv
  <1>26. ViaInv
    <2>1. ViaOf(1) /\ LookOf(1)
      BY <1>8, <1>10 DEF ViaOf, LookOf
    <2> QED  BY <1>11, <2>1 DEF ViaInv
  <1>27. OneThread
    BY <1>11 DEF OneThread
  <1>28. ExitInv
    <2>1. Left(1, 1)
      BY <1>8, <1>10 DEF Left
    <2> QED  BY <1>11, <2>1 DEF ExitInv
  <1>29. ViewInv
    <2>1. ViewOf(1)
      BY <1>7, <1>8, <1>10 DEF ViewOf
    <2> QED  BY <1>11, <2>1 DEF ViewInv
  <1>30. SharedInv
    <2>1. SharedOf(1)
      BY <1>8, <1>10 DEF SharedOf
    <2> QED  BY <1>11, <2>1 DEF SharedInv
  <1> QED  BY <1>13, <1>14, <1>17, <1>20, <1>21, <1>22, <1>23, <1>24, <1>25, <1>26, <1>27, <1>28,
              <1>29, <1>30 DEF Inv

\* No step of code c breaks it.
CodeStep(c) ==
    \/ \E key \in Keys : SetValue(c, key) \/ DelValue(c, key)
    \/ WriteCritical(c)
    \/ CreateTask(c) \/ StartThread(c)
    \/ SyncToAsyncCall(c)
    \/ \E force_new_loop \in BOOLEAN : AsyncToSyncCall(c, force_new_loop)
    \/ OnSharedThread(c) \/ Start(c) \/ Return(c)
    \/ AEnter(c) \/ Enter(c) \/ AExit(c) \/ Exit(c)
    \/ ExitReturns(c) \/ ExitCancelled(c)

LEMMA CodeStepKeeps ==
    ASSUME Inv, NEW c \in DOMAIN code, CodeStep(c)
    PROVE  Inv'
  <1>1. CASE \E key \in Keys : SetValue(c, key) \/ DelValue(c, key)
    BY <1>1, SetValueKeeps, DelValueKeeps
  <1>2. CASE WriteCritical(c)
    BY <1>2, WriteCriticalKeeps
  <1>3. CASE CreateTask(c)
    BY <1>3, CreateTaskKeeps
  <1>4. CASE StartThread(c)
    BY <1>4, StartThreadKeeps
  <1>5. CASE SyncToAsyncCall(c)
    BY <1>5, SyncToAsyncCallKeeps
  <1>6. CASE \E force_new_loop \in BOOLEAN : AsyncToSyncCall(c, force_new_loop)
    BY <1>6, AsyncToSyncCallKeeps
  <1>7. CASE OnSharedThread(c)
    BY <1>7, OnSharedThreadKeeps
  <1>8. CASE Start(c)
    BY <1>8, StartKeeps
  <1>9. CASE Return(c)
    BY <1>9, ReturnKeeps
  <1>10. CASE AEnter(c) \/ Enter(c)
    BY <1>10, EntersKeeps DEF AEnter, Enter
  <1>11. CASE AExit(c) \/ Exit(c)
    BY <1>11, ExitsKeeps DEF AExit, Exit
  <1>12. CASE ExitReturns(c)
    BY <1>12, ExitReturnsKeeps
  <1>13. CASE ExitCancelled(c)
    BY <1>13, ExitCancelledKeeps
  <1> QED  BY <1>1, <1>2, <1>3, <1>4, <1>5, <1>6, <1>7, <1>8, <1>9, <1>10, <1>11, <1>12, <1>13
           DEF CodeStep

\* What is unchanged stays as it was.
LEMMA StutterKeeps ==
    ASSUME Inv, UNCHANGED vars
    PROVE  Inv'
  BY DEF Inv, vars, TypeInv, RoomInv, Looking, PlaceInv, PlaceOf, Own, StateInv, CodeOK, ThreadOK,
         Started, WaitInv, CurrentInv, CurrentOf, Settled, Ident, ExecutorInv, EndedInv, ManagerInv,
         Entered, ViaInv, ViaOf, LookOf, HasExecutor, OneThread, ExitInv, Left, Awaited, ViewInv,
         ViewOf, Home, SharedInv, SharedOf, SharedWith

LEMMA NextKeeps ==
    ASSUME Inv, [Next]_vars
    PROVE  Inv'
  <1>1. CASE \E c \in DOMAIN code : CodeStep(c)
    BY <1>1, CodeStepKeeps
  <1>2. CASE \E t \in DOMAIN thr : WorkerEnds(t)
    BY <1>2, WorkerEndsKeeps
  <1>3. CASE UNCHANGED vars
    BY <1>3, StutterKeeps
  <1> QED  BY <1>1, <1>2, <1>3, Zenon DEF Next, CodeStep

\* The inductive invariant holds in every state that can be reached: tasks, threads and
\* calls of the bridge, their contexts and their executors fit together as described above.
THEOREM InvHolds == Spec => []Inv
  <1>1. Init => Inv
    BY InitKeeps
  <1>2. Inv /\ [Next]_vars => Inv'
    BY NextKeeps
  <1> QED  BY <1>1, <1>2, PTL DEF Spec

-----------------------------------------------------------------------------
(* What follows from it. *)

LEMMA OneCallee ==
    ASSUME Inv, NEW c \in DOMAIN code
    PROVE  Cardinality({d \in DOMAIN code : code[d].caller = c /\ code[d].pc # "done"})
              = IF code[c].pc = "wait" THEN 1 ELSE 0
  <1>1. PICK S : S = {d \in DOMAIN code : code[d].caller = c /\ code[d].pc # "done"}
    OBVIOUS
  <1>2. WaitInv /\ c # 0
    BY Domains DEF Inv
  <1>3. CASE code[c].pc = "wait"
    <2>1. PICK d \in DOMAIN code : code[d].caller = c /\ code[d].pc # "done"
      BY <1>2, <1>3 DEF WaitInv
    <2>2. \A e \in S : e = d
      BY <1>1, <1>2, <2>1 DEF WaitInv
    <2>3. S = {d}
      BY <1>1, <2>1, <2>2
    <2> QED  BY <1>1, <1>3, <2>3, FS_Singleton
  <1>4. CASE code[c].pc # "wait"
    <2>1. S = {}
      BY <1>1, <1>2, <1>4 DEF WaitInv
    <2> QED  BY <1>1, <1>4, <2>1, FS_EmptySet
  <1> QED  BY <1>3, <1>4

LEMMA TypeFollows ==
    ASSUME Inv
    PROVE  TypeOK
  <1>1. /\ Len(code) \in Nat /\ DOMAIN code = 1..Len(code) /\ DOMAIN thr = 1..Len(code)
        /\ Len(thr) = Len(code) /\ Len(code) >= 1
        /\ program \in Programs /\ writes \in 0..MaxWrites
        /\ leaked \cup raced \subseteq DOMAIN code
    BY Domains DEF Inv, TypeInv
  <1>2. Len(code) <= program.codes /\ program.codes \in Nat
    <2>1. program.codes \in Nat
      BY <1>1, ContextsAssumption DEF Program
    <2>2. Cardinality(Looking) \in Nat
      BY LookingFinite DEF Inv
    <2>3. Len(code) + Cardinality(Looking) <= program.codes
      BY DEF Inv, RoomInv
    <2> QED  BY <1>1, <2>1, <2>2, <2>3
  <1>3. ASSUME NEW c \in DOMAIN code
        PROVE  /\ code[c].pc \in Pcs
               /\ {code[c].caller, code[c].loop, code[c].on, code[c].executor, code[c].old,
                   code[c].via} \subseteq 0..Len(code)
               /\ {code[c].thread, code[c].root} \cup code[c].sees \subseteq DOMAIN code
               /\ code[c].token \in Tokens
               /\ DOMAIN code[c].ctx \subseteq {Executors, Value, TSC, STC}
                                            \cup {CVar(t) : t \in DOMAIN thr}
    <2>1. code[c].pc \in Pcs /\ code[c].token \in Tokens
      BY <1>1, <1>3, Domains, CodeFields DEF Inv
    <2>2. {code[c].caller, code[c].loop, code[c].on, code[c].executor, code[c].old,
           code[c].via} \subseteq 0..Len(code)
      BY <1>1, <1>3, References
    <2>3. {code[c].thread, code[c].root} \cup code[c].sees \subseteq DOMAIN code
      BY <1>3 DEF Inv, PlaceInv, PlaceOf
    <2>4. PICK ctx : ctx = code[c].ctx
      OBVIOUS
    <2>5. ContextOK(ctx, Len(code))
      BY <1>3, <2>4 DEF Inv, StateInv, CodeOK
    <2>6. DOMAIN ctx \subseteq ContextVars
      BY <2>5, PartialFacts DEF ContextOK, Contexts
    <2>7. \A t \in Nat : CVar(t) \in DOMAIN ctx => t \in DOMAIN thr
      BY <1>1, <2>5 DEF ContextOK
    <2>8. DOMAIN ctx \subseteq {Executors, Value, TSC, STC} \cup {CVar(t) : t \in DOMAIN thr}
      BY <2>6, <2>7, VarFacts
    <2> QED  BY <2>1, <2>2, <2>3, <2>4, <2>8
  <1>4. ASSUME NEW t \in DOMAIN thr
        PROVE  /\ {thr[t].ident, thr[t].main_event_loop} \subseteq 0..program.codes
               /\ {thr[t].shut, thr[t].ended} \subseteq BOOLEAN
               /\ thr[t].ended => On(t) = {}
    <2>1. /\ thr[t].ident \in Nat /\ thr[t].main_event_loop \in Nat
          /\ thr[t].shut \in BOOLEAN /\ thr[t].ended \in BOOLEAN
      BY <1>1, <1>4, Domains, ThreadFields DEF Inv
    <2>2. thr[t].ident <= Len(code) /\ thr[t].main_event_loop <= Len(code)
      BY <1>4 DEF Inv, StateInv, ThreadOK
    <2>3. {thr[t].ident, thr[t].main_event_loop} \subseteq 0..program.codes
      BY <1>1, <1>2, <2>1, <2>2
    <2>4. thr[t].ended => On(t) = {}
      BY <1>4 DEF Inv, EndedInv, On
    <2> QED  BY <2>1, <2>3, <2>4
  <1>5. Len(code) \in 1..program.codes
    BY <1>1, <1>2
  <1> QED  BY <1>1, <1>3, <1>4, <1>5, OneCallee DEF TypeOK, Tokens

LEMMA ExitFollows ==
    ASSUME Inv
    PROVE  ExitWaits
  <1>1. \A c, d \in DOMAIN code : Left(c, d)
    BY DEF Inv, ExitInv
  <1> QED  BY <1>1 DEF ExitWaits, Left, Awaited

LEMMA IsolationFollows ==
    ASSUME Inv
    PROVE  Isolated
  <1>1. SUFFICES ASSUME NEW c \in DOMAIN code, Started(c)
                 PROVE  /\ \A key \in DOMAIN View(c) :
                              View(c)[key] \in code[c].sees \/ code[c].root \in leaked
                        /\ Critical(c) \subseteq {code[c].thread}
    BY DEF Isolated
  <1>2. PICK ctx : ctx = code[c].ctx
    OBVIOUS
  <1>3. DOMAIN code = 1..Len(code) /\ DOMAIN thr = 1..Len(code) /\ Len(code) \in Nat
    BY Domains DEF Inv
  <1>4. ContextOK(ctx, Len(code)) /\ ViewOf(c)
    BY <1>2 DEF Inv, StateInv, CodeOK, ViewInv
  <1>5. \A key \in DOMAIN View(c) : View(c)[key] \in code[c].sees \/ code[c].root \in leaked
    <2>1. PICK ident : ident = Ident(c)
      OBVIOUS
    <2>2. Home(c) = ident
      BY <1>1, <2>1 DEF Home, Settled
    <2>3. Value \in DOMAIN ctx /\ ctx[Value].ident = ident =>
             \A key \in DOMAIN ctx[Value].data :
                ctx[Value].data[key] \in code[c].sees \/ code[c].root \in leaked
      BY <1>2, <1>4, <2>2 DEF ViewOf
    <2>4. \A key \in DOMAIN Data(ctx, Value, ident) :
             /\ Value \in DOMAIN ctx /\ ctx[Value].ident = ident
             /\ key \in DOMAIN ctx[Value].data
             /\ Data(ctx, Value, ident)[key] = ctx[Value].data[key]
      BY <1>4, DataFacts
    <2>5. View(c) = Data(ctx, Value, ident)
      BY <1>2, <2>1 DEF View
    <2> QED  BY <2>3, <2>4, <2>5
  <1>6. Critical(c) \subseteq {code[c].thread}
    <2>1. PICK t : t = code[c].thread
      OBVIOUS
    <2>2. t \in 1..Len(code) /\ t \in Nat
      BY <1>3, <2>1, References
    <2>3. CVarGet(ctx, t) \subseteq {t}
      BY <1>4, <2>2 DEF ContextOK, CVarGet
    <2>4. thr[t].critical \subseteq {t}
      BY <1>3, <2>2 DEF Inv, StateInv, ThreadOK
    <2> QED  BY <1>2, <2>1, <2>3, <2>4 DEF Critical
  <1> QED  BY <1>5, <1>6

\* Types, and how code and threads refer to each other: a task, thread or call that waits
\* in sync_to_async or async_to_sync waits for exactly one call, and a worker that has
\* been joined has nothing left to do.
THEOREM TypeCorrect == Spec => []TypeOK
  BY InvHolds, TypeFollows, PTL

\* All that a ThreadSensitiveContext or an AsyncSingleThreadContext sends to a thread,
\* through the executor in context_to_thread_executor, goes to one thread: for any number
\* of tasks and any nesting of calls and contexts, unless two threads that share the
\* context made its executor at once.
THEOREM ContextHasOneThread == Spec => []OneThread
  <1>1. Inv => OneThread
    BY DEF Inv
  <1> QED  BY <1>1, InvHolds, PTL

\* When __aexit__ or __exit__ has returned and was not cancelled, shutdown() has waited
\* for all that the context had sent to its thread.
THEOREM ExitWaitsForAll == Spec => []ExitWaits
  BY InvHolds, ExitFollows, PTL

\* A Local shows only what the same task or thread has written, or the creators of the
\* task, across all calls of the bridge: inherited data stays invisible, unless it was
\* re-homed by _restore_context or the thread has got the owner's ident.  A
\* thread_critical Local shows what was written on the same thread.
THEOREM LocalIsIsolated == Spec => []Isolated
  BY InvHolds, IsolationFollows, PTL

-----------------------------------------------------------------------------
(* What a call shares with its caller. *)

\* Steps in which no call starts or returns.
Quiet ==
    \A d \in DOMAIN code :
        code'[d].pc = code[d].pc \/ (Started(d) /\ code'[d].pc # "done")

StartShares(c, p) ==
    ~Started(c) /\ Started(c)' /\ ~Foreign(code[p].ctx, Ident(p))
        => View(c)' = View(p) \/ Value \in DOMAIN thr[code[c].thread].base

ReturnShares(c, p) ==
    code[c].pc = "run" /\ code'[c].pc = "done" /\ ~Foreign(code[c].ctx, Ident(c))
        => code'[c].caller = p /\ View(p)' = View(c)

LEMMA QuietShares ==
    ASSUME Quiet, NEW c \in DOMAIN code, NEW p
    PROVE  StartShares(c, p) /\ ReturnShares(c, p)
  BY DEF Quiet, StartShares, ReturnShares, Started

LEMMA StartStep ==
    ASSUME Inv, NEW d \in DOMAIN code, Start(d), NEW c \in DOMAIN code,
           NEW p, p = code[c].caller, p # 0
    PROVE  StartShares(c, p) /\ ReturnShares(c, p)
  <1>1. /\ Len(code) \in Nat /\ DOMAIN code = 1..Len(code) /\ DOMAIN thr = 1..Len(code)
        /\ c \in 1..Len(code) /\ d \in 1..Len(code) /\ code[d] \in Codes
        /\ thr \in Seq(Threads) /\ Len(thr) = Len(code)
    BY Domains DEF Inv, TypeInv
  <1>2. PICK t : t = code[d].thread
    OBVIOUS
  <1>3. PICK base : base = IF Async(d) THEN thr[code[d].thread].base ELSE <<>>
    OBVIOUS
  <1>4. PICK new : new = Restore(base, code[d].ctx, Ident(d))
    OBVIOUS
  <1>5. PICK ctx : ctx = IF code[d].caller = 0 THEN code[d].ctx ELSE new
    OBVIOUS
  <1>6. /\ code[d].pc \in {"posted", "queued"}
        /\ code' = [code EXCEPT ![d].pc = "run", ![d].ctx = ctx]
        /\ thr' = IF Async(d) THEN thr
                  ELSE [thr EXCEPT ![t].main_event_loop = code[code[d].caller].loop]
    BY <1>2, <1>3, <1>4, <1>5 DEF Start
  <1>7. /\ code'[d].pc = "run" /\ code'[d].ctx = ctx /\ code'[d].thread = code[d].thread
        /\ \A e \in DOMAIN code : e # d => code'[e].pc = code[e].pc
    BY <1>1, <1>6 DEF Codes
  <1>8. CASE c # d
    BY <1>7, <1>8 DEF StartShares, ReturnShares, Started
  <1>9. CASE c = d
    <2>1. ReturnShares(c, p)
      BY <1>7, <1>9 DEF ReturnShares
    <2>2. SUFFICES ASSUME ~Foreign(code[p].ctx, Ident(p)), Value \notin DOMAIN thr[code[c].thread].base
                   PROVE  View(c)' = View(p)
      BY <2>1 DEF StartShares
    <2>3. ctx = new /\ code[c].thread \in 1..Len(code)
      BY <1>1, <1>5, <1>9, References
    <2>4. Ident(c)' = Ident(c)
      <3>1. t \in 1..Len(code) /\ thr[t] \in Threads
        BY <1>1, <1>2, <1>9, <2>3, Domains DEF Inv
      <3>2. thr'[t].ident = thr[t].ident
        BY <1>1, <1>6, <3>1 DEF Threads
      <3> QED  BY <1>2, <1>7, <1>9, <3>2 DEF Ident
    <2>5. PICK ident : ident = Ident(c)
      OBVIOUS
    <2>6. View(c)' = Data(new, Value, ident)
      BY <1>7, <1>9, <2>3, <2>4, <2>5 DEF View
    <2>7. Value \notin DOMAIN base
      <3>1. DOMAIN <<>> = {}
        OBVIOUS
      <3> QED  BY <1>3, <1>9, <2>2, <3>1
    <2>8. /\ \A v : v \in DOMAIN new <=> v \in DOMAIN code[c].ctx \/ v \in DOMAIN base
          /\ \A v \in DOMAIN code[c].ctx \cap {Executors, Value} :
                new[v].ident = ident /\ new[v].data = code[c].ctx[v].data
      <3>1. new = Restore(base, code[c].ctx, ident)
        BY <1>4, <1>9, <2>5
      <3> QED  BY <3>1, RestoreFacts
    <2>9. /\ Value \in DOMAIN code[p].ctx <=> Value \in DOMAIN code[c].ctx
          /\ Value \in DOMAIN code[c].ctx => code[c].ctx[Value] = code[p].ctx[Value]
      <3>1. SharedOf(c)
        BY DEF Inv, SharedInv
      <3>2. ~Started(c) /\ code[c].pc # "done"
        BY <1>6, <1>9 DEF Started
      <3> QED  BY <3>1, <3>2 DEF SharedOf, SharedWith
    <2>10. View(p) = Data(code[p].ctx, Value, Ident(p))
      BY DEF View
    <2>11. CASE Value \in DOMAIN code[c].ctx
      <3>1. code[p].ctx[Value].ident = Ident(p) /\ Value \in DOMAIN code[p].ctx
        BY <2>2, <2>9, <2>11 DEF Foreign
      <3>2. Data(code[p].ctx, Value, Ident(p)) = code[p].ctx[Value].data
        BY <3>1 DEF Data
      <3>3. Value \in DOMAIN new /\ new[Value].ident = ident /\ new[Value].data = code[c].ctx[Value].data
        BY <2>8, <2>11
      <3>4. Data(new, Value, ident) = new[Value].data
        BY <3>3 DEF Data
      <3>5. code[c].ctx[Value] = code[p].ctx[Value]
        BY <2>9, <2>11
      <3> QED  BY <2>6, <2>10, <3>2, <3>3, <3>4, <3>5
    <2>12. CASE Value \notin DOMAIN code[c].ctx
      <3>1. Data(new, Value, ident) = <<>>
        BY <2>7, <2>8, <2>12 DEF Data
      <3>2. Data(code[p].ctx, Value, Ident(p)) = <<>>
        BY <2>9, <2>12 DEF Data
      <3> QED  BY <2>6, <2>10, <3>1, <3>2
    <2> QED  BY <2>11, <2>12
  <1> QED  BY <1>8, <1>9

LEMMA ReturnStep ==
    ASSUME Inv, NEW d \in DOMAIN code, Return(d), NEW c \in DOMAIN code,
           NEW p, p = code[c].caller, p # 0
    PROVE  StartShares(c, p) /\ ReturnShares(c, p)
  <1>1. /\ Len(code) \in Nat /\ DOMAIN code = 1..Len(code) /\ c \in 1..Len(code)
        /\ d \in 1..Len(code) /\ code[d] \in Codes /\ code[d].pc = "run"
    BY Domains DEF Inv, TypeInv, Return, Runs
  <1>2. CASE code[d].caller = 0
    <2>1. code' = [code EXCEPT ![d].pc = "done", ![d].ctx = <<>>]
      BY <1>2 DEF Return
    <2>2. c # d
      BY <1>2
    <2>3. code'[c].pc = code[c].pc
      BY <1>1, <2>1, <2>2
    <2> QED  BY <2>3 DEF StartShares, ReturnShares, Started
  <1>3. CASE code[d].caller # 0
    <2>1. PICK e : e = code[d].caller
      OBVIOUS
    <2>2. PICK back : back = Restore(code[e].ctx, code[d].ctx, Ident(e))
      OBVIOUS
    <2>3. PICK new : new = IF Async(d)
                           THEN SetAttr(back, Executors, Ident(e), "current", code[e].old)
                           ELSE back
      OBVIOUS
    <2>4. /\ e \in 1..Len(code) /\ code[e].pc = "wait" /\ e # d
          /\ Value \in DOMAIN new <=> Value \in DOMAIN code[d].ctx
          /\ Value \in DOMAIN new => new[Value].data = code[d].ctx[Value].data
          /\ Value \in DOMAIN new => new[Value].ident = Ident(e)
      <3>1. CameBack(d, e, new)
        BY <1>1, <1>3, <2>1, <2>2, <2>3, ReturnContext
      <3> QED  BY <3>1 DEF CameBack
    <2>5. code' = [code EXCEPT ![d].pc = "done", ![d].ctx = <<>>,
                               ![e].pc = "run", ![e].ctx = new]
      BY <1>3, <2>1, <2>2, <2>3 DEF Return
    <2>6. thr' = thr
      BY <1>3 DEF Return
    <2>7. code[e] \in Codes
      BY <2>4, Domains DEF Inv
    <2>8. /\ code'[d].pc = "done" /\ code'[d].caller = code[d].caller
          /\ code'[e].pc = "run" /\ code'[e].ctx = new /\ code'[e].thread = code[e].thread
          /\ \A b \in 1..Len(code) : b \notin {d, e} => code'[b] = code[b]
      BY <1>1, <2>4, <2>5, <2>7 DEF Codes
    <2>9. StartShares(c, p)
      BY <1>1, <2>4, <2>8 DEF StartShares, Started
    <2>10. CASE c # d
      BY <1>1, <2>4, <2>8, <2>9, <2>10 DEF ReturnShares
    <2>11. CASE c = d
      <3>1. SUFFICES ASSUME ~Foreign(code[c].ctx, Ident(c))
                     PROVE  View(p)' = View(c)
        BY <2>8, <2>9, <2>11 DEF ReturnShares
      <3>2. e = p
        BY <2>1, <2>11
      <3>3. Ident(p)' = Ident(p)
        BY <2>6, <2>8, <3>2 DEF Ident
      <3>4. PICK ident : ident = Ident(p)
        OBVIOUS
      <3>5. View(p)' = Data(new, Value, ident)
        BY <2>8, <3>2, <3>3, <3>4 DEF View
      <3>6. View(c) = Data(code[c].ctx, Value, Ident(c))
        BY DEF View
      <3>7. CASE Value \in DOMAIN code[c].ctx
        <4>1. Data(code[c].ctx, Value, Ident(c)) = code[c].ctx[Value].data
          BY <3>1, <3>7 DEF Data, Foreign
        <4>2. Value \in DOMAIN new /\ new[Value].ident = ident
          BY <2>4, <2>11, <3>2, <3>4, <3>7
        <4>3. Data(new, Value, ident) = new[Value].data
          BY <4>2 DEF Data
        <4> QED  BY <2>4, <2>11, <3>5, <3>6, <4>1, <4>2, <4>3
      <3>8. CASE Value \notin DOMAIN code[c].ctx
        <4>1. Data(code[c].ctx, Value, Ident(c)) = <<>>
          BY <3>8 DEF Data
        <4>2. Data(new, Value, ident) = <<>>
          BY <2>4, <2>11, <3>8 DEF Data
        <4> QED  BY <3>5, <3>6, <4>1, <4>2
      <3> QED  BY <3>7, <3>8
    <2> QED  BY <2>10, <2>11
  <1> QED  BY <1>2, <1>3

\* One piece of code goes on.
LEMMA QuietMove ==
    ASSUME Inv, NEW c \in DOMAIN code, NEW q, code' = [code EXCEPT ![c] = q],
           q.pc = code[c].pc \/ (Started(c) /\ q.pc # "done")
    PROVE  Quiet
  <1>1. DOMAIN code = 1..Len(code) /\ Len(code) \in Nat
    BY Domains DEF Inv
  <1>2. code'[c] = q /\ \A d \in DOMAIN code : d # c => code'[d] = code[d]
    BY <1>1
  <1> QED  BY <1>2 DEF Quiet

\* It calls another.
LEMMA QuietCall ==
    ASSUME Inv, NEW c \in DOMAIN code, Started(c), NEW x, NEW k, NEW s, Copies(s, x, k),
           NEW q \in Codes, q.pc # "done", NEW m, m = [s EXCEPT ![c] = q],
           NEW r, code' = Append(m, r)
    PROVE  Quiet
  <1>1. DOMAIN code = 1..Len(code) /\ Len(code) \in Nat
    BY Domains DEF Inv
  <1>2. s \in Seq(Codes) /\ Len(s) = Len(code)
    BY DEF Copies
  <1>3. /\ m \in Seq(Codes) /\ Len(m) = Len(code) /\ m[c] = q
        /\ \A d \in DOMAIN code : d # c => m[d] = s[d]
    BY <1>1, <1>2
  <1>4. \A d \in DOMAIN code : code'[d] = m[d]
    BY <1>1, <1>3
  <1>5. \A d \in DOMAIN code : s[d].pc = code[d].pc
    BY <1>1 DEF Copies
  <1> QED  BY <1>3, <1>4, <1>5 DEF Quiet

LEMMA WritesQuiet ==
    ASSUME Inv, NEW c \in DOMAIN code,
           (\E key \in Keys : SetValue(c, key) \/ DelValue(c, key)) \/ WriteCritical(c)
    PROVE  Quiet
  <1>1. code' = code \/ \E new : code' = [code EXCEPT ![c].ctx = new]
    BY DEF SetValue, DelValue, WriteCritical
  <1>2. CASE code' = code
    BY <1>2 DEF Quiet
  <1>3. CASE \E new : code' = [code EXCEPT ![c].ctx = new]
    <2>1. PICK new : code' = [code EXCEPT ![c].ctx = new]
      BY <1>3
    <2>2. PICK q : q = [code[c] EXCEPT !.ctx = new]
      OBVIOUS
    <2>3. code[c] \in Codes
      BY Domains DEF Inv
    <2>4. q.pc = code[c].pc
      BY <2>2, <2>3 DEF Codes
    <2>5. code' = [code EXCEPT ![c] = q]
      BY <2>1, <2>2
    <2> QED  BY <2>4, <2>5, QuietMove
  <1> QED  BY <1>1, <1>2, <1>3

LEMMA RootQuiet ==
    ASSUME Inv, NEW c \in DOMAIN code, CreateTask(c) \/ StartThread(c)
    PROVE  Quiet
  <1>1. \E r : code' = Append(code, r)
    BY DEF CreateTask, StartThread
  <1>2. PICK r : code' = Append(code, r)
    BY <1>1
  <1>3. code \in Seq(Codes) /\ DOMAIN code = 1..Len(code) /\ Len(code) \in Nat
    BY Domains DEF Inv, TypeInv
  <1>4. \A d \in DOMAIN code : code'[d] = code[d]
    BY <1>2, <1>3
  <1> QED  BY <1>4 DEF Quiet

LEMMA SyncToAsyncQuiet ==
    ASSUME Inv, NEW c \in DOMAIN code, SyncToAsyncCall(c)
    PROVE  Quiet
  <1>1. /\ DOMAIN code = 1..Len(code) /\ c \in 1..Len(code) /\ Len(code) \in Nat
        /\ code[c].pc = "run" /\ code[c].loop # 0 /\ Started(c)
    BY Domains DEF Inv, SyncToAsyncCall, Does, Runs, Async, Started
  <1>2. PICK x : x = code[c].ctx[TSC]
    OBVIOUS
  <1>3. PICK s, r : /\ s = code \/ (TSC \in DOMAIN code[c].ctx /\ s = Store(x, n))
                    /\ code' = Append([s EXCEPT ![c].pc = "wait"], r)
    BY <1>2 DEF SyncToAsyncCall
  <1>4. \E y, k : Copies(s, y, k)
    <2>1. CASE s = code
      BY <2>1, CopyCode
    <2>2. CASE TSC \in DOMAIN code[c].ctx /\ s = Store(x, n)
      <3>1. ContextOK(code[c].ctx, Len(code))
        BY DEF Inv, StateInv, CodeOK
      <3>2. x \in 1..Len(code)
        BY <1>2, <2>2, <3>1 DEF ContextOK
      <3> QED  BY <2>2, <3>2, CopyStore
    <2> QED  BY <1>3, <2>1, <2>2
  <1>5. PICK y, k : Copies(s, y, k)
    BY <1>4
  <1>6. PICK q : q = Waiting(s[c])
    OBVIOUS
  <1>7. q \in Codes /\ q.pc = "wait"
    BY <1>1, <1>5, <1>6, AsyncWaits
  <1>8. PICK m : m = [s EXCEPT ![c] = q]
    OBVIOUS
  <1>9. code' = Append(m, r) /\ q.pc # "done"
    BY <1>3, <1>6, <1>7, <1>8 DEF Waiting
  <1> QED  BY <1>1, <1>5, <1>7, <1>8, <1>9, QuietCall

LEMMA AsyncToSyncQuiet ==
    ASSUME Inv, NEW c \in DOMAIN code, NEW force_new_loop, AsyncToSyncCall(c, force_new_loop)
    PROVE  Quiet
  <1>1. /\ DOMAIN code = 1..Len(code) /\ c \in 1..Len(code) /\ Len(code) \in Nat
        /\ code[c].pc = "run" /\ code[c].loop = 0 /\ Started(c) /\ code[c] \in Codes
    BY Domains DEF Inv, AsyncToSyncCall, Does, Runs, Async, Started
  <1>2. PICK new : new = SetAttr(code[c].ctx, Executors, Ident(c), "current", c)
    OBVIOUS
  <1>3. PICK old : old = Current(code[c].ctx, Ident(c))
    OBVIOUS
  <1>4. \/ \E r : code' = Append([code EXCEPT ![c].pc = "wait", ![c].ctx = new, ![c].old = old], r)
        \/ \E t : code' = [[code EXCEPT ![c].pc = "look", ![c].ctx = new, ![c].old = old]
                              EXCEPT ![c].on = t]
    BY <1>2, <1>3 DEF AsyncToSyncCall
  <1>5. CASE \E r :
               code' = Append([code EXCEPT ![c].pc = "wait", ![c].ctx = new, ![c].old = old], r)
    <2>1. PICK q : q = Blocked(code[c], new, old)
      OBVIOUS
    <2>2. PICK m : m = [code EXCEPT ![c] = q]
      OBVIOUS
    <2>3. PICK r : code' = Append(m, r)
      BY <1>5, <2>1, <2>2 DEF Blocked
    <2>4. q \in Codes /\ q.pc = "wait"
      BY <1>1, <1>2, <1>3, <2>1, SyncWaits
    <2>5. Copies(code, 0, 0) /\ q.pc # "done"
      BY <2>4, CopyCode
    <2> QED  BY <1>1, <2>2, <2>3, <2>4, <2>5, QuietCall
  <1>6. CASE \E t : code' = [[code EXCEPT ![c].pc = "look", ![c].ctx = new, ![c].old = old]
                                EXCEPT ![c].on = t]
    <2>1. PICK t : code' = [[code EXCEPT ![c].pc = "look", ![c].ctx = new, ![c].old = old]
                              EXCEPT ![c].on = t]
      BY <1>6
    <2>2. PICK q : q = Looks(code[c], new, old, t)
      OBVIOUS
    <2>3. code' = [code EXCEPT ![c] = q]
      BY <1>1, <2>1, <2>2 DEF Looks
    <2>4. q.pc = "look"
      BY <1>1, <2>2 DEF Looks, Codes
    <2>5. q.pc # "done"
      BY <2>4
    <2> QED  BY <1>1, <2>3, <2>5, QuietMove
  <1> QED  BY <1>4, <1>5, <1>6

LEMMA OnSharedThreadQuiet ==
    ASSUME Inv, NEW c \in DOMAIN code, OnSharedThread(c)
    PROVE  Quiet
  <1>1. /\ DOMAIN code = 1..Len(code) /\ c \in 1..Len(code) /\ Len(code) \in Nat
        /\ code[c].pc = "look" /\ Started(c) /\ code[c] \in Codes
    BY Domains DEF Inv, OnSharedThread, Started
  <1>2. PICK x : x = code[c].ctx[STC]
    OBVIOUS
  <1>3. x \in 1..Len(code)
    <2>1. ContextOK(code[c].ctx, Len(code)) /\ STC \in DOMAIN code[c].ctx
      BY <1>1 DEF Inv, StateInv, CodeOK
    <2> QED  BY <1>2, <2>1 DEF ContextOK
  <1>4. \/ \E s, r : /\ s = code \/ s = Store(x, n)
                     /\ code' = Append([s EXCEPT ![c].pc = "wait", ![c].on = 0], r)
        \/ \E new : code' = [code EXCEPT ![c].pc = "run", ![c].on = 0, ![c].ctx = new]
    BY <1>2 DEF OnSharedThread
  <1>5. CASE \E s, r : /\ s = code \/ s = Store(x, n)
                       /\ code' = Append([s EXCEPT ![c].pc = "wait", ![c].on = 0], r)
    <2>1. PICK s, r : /\ s = code \/ s = Store(x, n)
                      /\ code' = Append([s EXCEPT ![c].pc = "wait", ![c].on = 0], r)
      BY <1>5
    <2>2. PICK y, k : Copies(s, y, k)
      BY <1>3, <2>1, CopyCode, CopyStore
    <2>3. PICK q : q = Submits(s[c])
      OBVIOUS
    <2>4. q \in Codes /\ q.pc = "wait"
      BY <1>1, <2>2, <2>3, LookWaits
    <2>5. PICK m : m = [s EXCEPT ![c] = q]
      OBVIOUS
    <2>6. code' = Append(m, r) /\ q.pc # "done"
      BY <2>1, <2>3, <2>4, <2>5 DEF Submits
    <2> QED  BY <1>1, <2>2, <2>4, <2>5, <2>6, QuietCall
  <1>6. CASE \E new : code' = [code EXCEPT ![c].pc = "run", ![c].on = 0, ![c].ctx = new]
    <2>1. PICK new : code' = [code EXCEPT ![c].pc = "run", ![c].on = 0, ![c].ctx = new]
      BY <1>6
    <2>2. PICK q : q = [code[c] EXCEPT !.pc = "run", !.on = 0, !.ctx = new]
      OBVIOUS
    <2>3. q.pc # "done"
      BY <1>1, <2>2 DEF Codes
    <2>4. code' = [code EXCEPT ![c] = q]
      BY <2>1, <2>2
    <2> QED  BY <1>1, <2>3, <2>4, QuietMove
  <1> QED  BY <1>4, <1>5, <1>6

LEMMA ManagerQuiet ==
    ASSUME Inv, NEW c \in DOMAIN code,
           Enters(c) \/ Exits(c) \/ ExitReturns(c) \/ ExitCancelled(c)
    PROVE  Quiet
  <1>1. code[c] \in Codes /\ DOMAIN code = 1..Len(code) /\ Len(code) \in Nat
    BY Domains DEF Inv
  <1>2. code[c].pc \in {"run", "exit", "block"} /\ Started(c)
    BY DEF Enters, Exits, ExitReturns, ExitCancelled, Does, Runs, Started
  <1>3. ASSUME NEW q, code' = [code EXCEPT ![c] = q],
               q.pc = code[c].pc \/ q.pc \in {"run", "exit", "block"}
        PROVE  Quiet
    <2>1. q.pc = code[c].pc \/ (Started(c) /\ q.pc # "done")
      BY <1>2, <1>3
    <2> QED  BY <1>3, <2>1, QuietMove
  <1>4. CASE Enters(c)
    <2>1. \/ code' = [code EXCEPT ![c].token = "inner"]
          \/ \E new : code' = [code EXCEPT ![c].token = "outer", ![c].ctx = new]
      BY <1>4 DEF Enters
    <2>2. CASE code' = [code EXCEPT ![c].token = "inner"]
      <3>1. PICK q : q = [code[c] EXCEPT !.token = "inner"]
        OBVIOUS
      <3>2. q.pc = code[c].pc
        BY <1>1, <3>1 DEF Codes
      <3>3. code' = [code EXCEPT ![c] = q]
        BY <2>2, <3>1
      <3> QED  BY <1>3, <3>2, <3>3
    <2>3. CASE \E new : code' = [code EXCEPT ![c].token = "outer", ![c].ctx = new]
      <3>1. PICK new : code' = [code EXCEPT ![c].token = "outer", ![c].ctx = new]
        BY <2>3
      <3>2. PICK q : q = [code[c] EXCEPT !.token = "outer", !.ctx = new]
        OBVIOUS
      <3>3. q.pc = code[c].pc
        BY <1>1, <3>2 DEF Codes
      <3>4. code' = [code EXCEPT ![c] = q]
        BY <3>1, <3>2
      <3> QED  BY <1>3, <3>3, <3>4
    <2> QED  BY <2>1, <2>2, <2>3
  <1>5. CASE Exits(c)
    <2>0. PICK unset : unset = Without(code[c].ctx, Manager(c))
      OBVIOUS
    <2>1. PICK left, t, pc :
             /\ left = [code EXCEPT ![c].token = "left", ![c].ctx = unset, ![c].executor = 0]
             /\ t = code[c].executor /\ pc = JoinPc(c)
      OBVIOUS
    <2>2. PICK r : r = [code[c] EXCEPT !.token = "left", !.ctx = unset, !.executor = 0]
      OBVIOUS
    <2>3. /\ left = [code EXCEPT ![c] = r]
          /\ \/ code' = [code EXCEPT ![c].token = "left"]
             \/ code' = left
             \/ code' = [left EXCEPT ![c].pc = pc, ![c].on = t]
      <3>1. left = [code EXCEPT ![c] = r]
        BY <2>1, <2>2
      <3> QED  BY <1>5, <2>0, <2>1, <3>1 DEF Exits, Without
    <2>4. r.pc = code[c].pc
      BY <1>1, <2>2 DEF Codes
    <2>5. CASE code' = [code EXCEPT ![c].token = "left"]
      <3>1. PICK q : q = [code[c] EXCEPT !.token = "left"]
        OBVIOUS
      <3>2. q.pc = code[c].pc
        BY <1>1, <3>1 DEF Codes
      <3>3. code' = [code EXCEPT ![c] = q]
        BY <2>5, <3>1
      <3> QED  BY <1>3, <3>2, <3>3
    <2>6. CASE code' = left
      BY <1>3, <2>3, <2>4, <2>6
    <2>7. CASE code' = [left EXCEPT ![c].pc = pc, ![c].on = t]
      <3>1. PICK q : q = [r EXCEPT !.pc = pc, !.on = t]
        OBVIOUS
      <3>2. pc \in {"exit", "block"}
        BY <2>1 DEF JoinPc
      <3>3. q.pc = pc
        BY <1>1, <2>2, <3>1 DEF Codes
      <3>4. code' = [code EXCEPT ![c] = q]
        BY <1>1, <2>3, <2>7, <3>1
      <3> QED  BY <1>3, <3>2, <3>3, <3>4
    <2> QED  BY <2>3, <2>5, <2>6, <2>7
  <1>6. CASE ExitReturns(c)
    <2>1. PICK q : q = [code[c] EXCEPT !.pc = "run"]
      OBVIOUS
    <2>2. q.pc = "run"
      BY <1>1, <2>1 DEF Codes
    <2>3. code' = [code EXCEPT ![c] = q]
      BY <1>6, <2>1 DEF ExitReturns
    <2> QED  BY <1>3, <2>2, <2>3
  <1>7. CASE ExitCancelled(c)
    <2>1. PICK q : q = [code[c] EXCEPT !.pc = "run", !.on = 0]
      OBVIOUS
    <2>2. q.pc = "run"
      BY <1>1, <2>1 DEF Codes
    <2>3. code' = [code EXCEPT ![c] = q]
      BY <1>7, <2>1 DEF ExitCancelled
    <2> QED  BY <1>3, <2>2, <2>3
  <1> QED  BY <1>4, <1>5, <1>6, <1>7

LEMMA NextShares ==
    ASSUME Inv, Next, NEW c \in DOMAIN code, NEW p, p = code[c].caller, p # 0
    PROVE  StartShares(c, p) /\ ReturnShares(c, p)
  <1>1. CASE Quiet
    BY <1>1, QuietShares
  <1>2. CASE \E d \in DOMAIN code : Start(d)
    BY <1>2, StartStep
  <1>3. CASE \E d \in DOMAIN code : Return(d)
    BY <1>3, ReturnStep
  <1>4. CASE \E t \in DOMAIN thr : WorkerEnds(t)
    <2>1. Quiet
      BY <1>4 DEF WorkerEnds, Quiet
    <2> QED  BY <1>1, <2>1
  <1>5. ASSUME NEW d \in DOMAIN code, CodeStep(d)
        PROVE  Quiet \/ Start(d) \/ Return(d)
    <2>1. CASE \E force_new_loop \in BOOLEAN : AsyncToSyncCall(d, force_new_loop)
      BY <2>1, AsyncToSyncQuiet
    <2>2. CASE AEnter(d) \/ Enter(d) \/ AExit(d) \/ Exit(d) \/ ExitReturns(d) \/ ExitCancelled(d)
      <3>1. Enters(d) \/ Exits(d) \/ ExitReturns(d) \/ ExitCancelled(d)
        BY <2>2 DEF AEnter, Enter, AExit, Exit
      <3> QED  BY <3>1, ManagerQuiet
    <2>3. CASE (\E key \in Keys : SetValue(d, key) \/ DelValue(d, key)) \/ WriteCritical(d)
      BY <2>3, WritesQuiet
    <2>4. CASE CreateTask(d) \/ StartThread(d)
      BY <2>4, RootQuiet
    <2>5. CASE SyncToAsyncCall(d)
      BY <2>5, SyncToAsyncQuiet
    <2>6. CASE OnSharedThread(d)
      BY <2>6, OnSharedThreadQuiet
    <2> QED  BY <1>5, <2>1, <2>2, <2>3, <2>4, <2>5, <2>6, Zenon DEF CodeStep
  <1>6. (\E d \in DOMAIN code : CodeStep(d)) \/ (\E t \in DOMAIN thr : WorkerEnds(t))
    BY Zenon DEF Next, CodeStep
  <1> QED  BY <1>1, <1>2, <1>3, <1>4, <1>5, <1>6

\* A function or coroutine that is called over the bridge sees of a Local what its caller
\* sees, and its changes reach the caller when it returns: _restore_context carries the
\* context over in thread_handler, main_wrap and __call__, on whichever threads they run.
THEOREM LocalIsShared == Spec => SharedAcross
  <1>1. Inv /\ Next =>
           \A c \in DOMAIN code : code[c].caller # 0 =>
              LET caller == code[c].caller
              IN  /\ ~Started(c) /\ Started(c)' /\ ~Foreign(code[caller].ctx, Ident(caller))
                      => View(c)' = View(caller) \/ Value \in DOMAIN thr[code[c].thread].base
                  /\ code[c].pc = "run" /\ code'[c].pc = "done" /\ ~Foreign(code[c].ctx, Ident(c))
                      => View(caller)' = View(c)
    <2>1. SUFFICES ASSUME Inv, Next, NEW c \in DOMAIN code, NEW p, p = code[c].caller, p # 0
                   PROVE  /\ StartShares(c, p)
                          /\ code[c].pc = "run" /\ code'[c].pc = "done"
                             /\ ~Foreign(code[c].ctx, Ident(c))
                                => View(code[c].caller)' = View(c)
      BY DEF StartShares
    <2>2. StartShares(c, p) /\ ReturnShares(c, p)
      BY <2>1, NextShares
    <2>3. code'[c].caller = p => View(code[c].caller)' = View(p)'
      BY DEF View, Ident
    <2> QED  BY <2>2, <2>3 DEF ReturnShares
  <1> QED  BY <1>1, InvHolds, PTL DEF Spec, SharedAcross

=============================================================================
