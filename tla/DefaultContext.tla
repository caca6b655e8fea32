---------------------------- MODULE DefaultContext ----------------------------
(***************************************************************************)
(* Which WorkerContext a call of run_sync gets, and who closes it: the      *)
(* process-wide default of POSIX and its atexit handlers, the default of a  *)
(* trio run on Windows and the system task that closes it, and cache_scope, *)
(* whose context is passed down the tree of tasks.                          *)
(*                                                                         *)
(* A task is a stack of open scopes and nurseries.  A child belongs to one  *)
(* of its parent's nurseries, whoever started it, and that nursery cannot   *)
(* be left before the child has ended.  Every frame of a stack carries the  *)
(* value that the tree variable has inside it.                              *)
(***************************************************************************)
EXTENDS Naturals, Sequences, FiniteSets, SequencesExt

CONSTANTS
  Tasks,      \* the tasks of all trio runs; each may be the main task of a run
  MainRoot,   \* the main task of the runs in the main thread
  Platforms,  \* "posix", "win32", or a choice of both
  Contexts,   \* names for contexts, reused once nothing refers to them
  FirstDefault,  \* the DEFAULT_CONTEXT made by the import
  NoContext,  \* not a context
  NoTask,     \* not a task
  MaxRuns,    \* bound: trio runs at the same time, each in its thread
  MaxFrames   \* bound: scopes and nurseries open in one task

ASSUME DefaultContextAssumption ==
  /\ IsFiniteSet(Tasks) /\ MainRoot \in Tasks /\ NoTask \notin Tasks
  /\ Platforms \subseteq {"posix", "win32"}
  /\ FirstDefault \in Contexts /\ NoContext \notin Contexts
  /\ MaxRuns \in Nat /\ MaxFrames \in Nat

VARIABLES
  platform,  \* sys.platform, posix standing for all that is not win32
  at,        \* where each task is
  run,       \* the trio run of each task, named by its main task
  parent,    \* the nursery each task belongs to: a task and a frame of it
  value,     \* what each task inherits from that nursery
  frames,    \* the scopes and nurseries each task has open
  uses,      \* the context that each task's call or close is about
  state,     \* is each context open, closing or closed?
  workers,   \* the contexts that have idle workers
  default,   \* DEFAULT_CONTEXT
  handlers,  \* the atexit handlers, in the order of their registration
  runctx,    \* DEFAULT_CONTEXT_RUNVAR of each run
  closers,   \* the contexts that a system task of each run will close
  ending,    \* the runs whose system tasks are being cancelled
  configuring,  \* is configure_default_context under way in the main thread?
  phase      \* is the interpreter up, exiting or down?

treeVars == <<run, parent, value, frames>>
callVars == <<at, uses>>
ctxVars == <<state, workers>>
defaultVars == <<default, handlers, configuring>>
runVars == <<runctx, closers, ending>>
vars == <<platform, treeVars, callVars, ctxVars, defaultVars, runVars, phase>>

\* multiprocessing's own handler is registered by its import, that of the first
\* default context after it, and only on POSIX.
Init ==
  /\ platform \in Platforms
  /\ at = [t \in Tasks |-> "absent"]
  /\ run = [t \in Tasks |-> NoTask]
  /\ parent = [t \in Tasks |-> [task |-> NoTask, depth |-> 0]]
  /\ value = [t \in Tasks |-> NoContext]
  /\ frames = [t \in Tasks |-> <<>>]
  /\ uses = [t \in Tasks |-> NoContext]
  /\ state = [c \in Contexts |-> IF c = FirstDefault /\ platform = "posix"
                                   THEN "open" ELSE "closed"]
  /\ workers = {}
  /\ default = IF platform = "posix" THEN FirstDefault ELSE NoContext
  /\ handlers = IF platform = "posix" THEN <<NoContext, FirstDefault>>
                                      ELSE <<NoContext>>
  /\ runctx = [r \in Tasks |-> NoContext]
  /\ closers = [r \in Tasks |-> {}] /\ ending = {}
  /\ configuring = FALSE
  /\ phase = "up"

-----------------------------------------------------------------------------
(***************************************************************************)
(* Tasks, nurseries and the tree variable CACHE_SCOPE_TREEVAR.             *)
(***************************************************************************)

\* The thread of a run is not inside configure_default_context.
HasTurn(r) == r = MainRoot => ~configuring

\* The task runs user code.
Idle(t) == at[t] = "idle" /\ phase = "up"

\* The value of the tree variable in a task.
ScopeOf(t) == IF frames[t] = <<>> THEN value[t] ELSE Last(frames[t]).ctx

Children(t, depth) ==
  {c \in Tasks : at[c] # "absent" /\ parent[c] = [task |-> t, depth |-> depth]}

\* trio.run in a thread: its main task starts.
RunBegins(r) ==
  /\ phase = "up" /\ run[r] = NoTask
  /\ Cardinality({t \in Tasks : run[t] = t}) < MaxRuns
  /\ at' = [at EXCEPT ![r] = "idle"]
  /\ run' = [run EXCEPT ![r] = r]
  /\ UNCHANGED <<platform, parent, value, frames, uses, ctxVars, defaultVars,
                 runVars, phase>>

\* open_nursery.
OpenNursery(t) ==
  /\ Idle(t) /\ Len(frames[t]) < MaxFrames
  /\ frames' = [frames EXCEPT
       ![t] = Append(@, [kind |-> "nursery", ctx |-> ScopeOf(t)])]
  /\ UNCHANGED <<platform, run, parent, value, callVars, ctxVars, defaultVars,
                 runVars, phase>>

\* The end of a nursery: its children have ended.
CloseNursery(t) ==
  /\ Idle(t) /\ frames[t] # <<>>
  /\ Last(frames[t]).kind = "nursery"
  /\ Children(t, Len(frames[t])) = {}
  /\ frames' = [frames EXCEPT ![t] = Front(@)]
  /\ UNCHANGED <<platform, run, parent, value, callVars, ctxVars, defaultVars,
                 runVars, phase>>

\* Faulty variant of Inherited: a child inherits from the task that starts it,
\* as it would a context variable.
InheritedFromSpawner(s, p, depth) == ScopeOf(s)

\* What a child inherits that task s starts in a nursery of task p: what the
\* variable was when the nursery was opened.
Inherited(s, p, depth) == frames[p][depth].ctx

\* nursery.start_soon, called by any task of the run that has the nursery.
Spawn(s, p, depth, child) ==
  /\ Idle(s) /\ run[child] = NoTask /\ child # MainRoot
  /\ run[p] = run[s]
  /\ depth \in 1..Len(frames[p]) /\ frames[p][depth].kind = "nursery"
  /\ at' = [at EXCEPT ![child] = "idle"]
  /\ run' = [run EXCEPT ![child] = run[s]]
  /\ parent' = [parent EXCEPT ![child] = [task |-> p, depth |-> depth]]
  /\ value' = [value EXCEPT ![child] = Inherited(s, p, depth)]
  /\ UNCHANGED <<platform, frames, uses, ctxVars, defaultVars, runVars, phase>>

\* A task ends.  The end of a main task is followed by the end of its run.
TaskEnds(t) ==
  /\ Idle(t) /\ frames[t] = <<>>
  /\ at' = [at EXCEPT ![t] = "absent"]
  /\ value' = [value EXCEPT ![t] = NoContext]
  /\ parent' = [parent EXCEPT ![t] = [task |-> NoTask, depth |-> 0]]
  /\ IF run[t] = t
       THEN ending' = ending \cup {t} /\ UNCHANGED run
       ELSE run' = [run EXCEPT ![t] = NoTask] /\ UNCHANGED ending
  /\ UNCHANGED <<platform, frames, uses, ctxVars, defaultVars, runctx, closers,
                 phase>>

-----------------------------------------------------------------------------
(***************************************************************************)
(* Contexts.                                                               *)
(***************************************************************************)

Referenced ==
  {uses[t] : t \in Tasks} \cup {value[t] : t \in Tasks} \cup {default}
    \cup (UNION {{frames[t][i].ctx : i \in DOMAIN frames[t]} : t \in Tasks})
    \cup Range(handlers) \cup Range(runctx) \cup (UNION Range(closers))

\* WorkerContext._create, for a context that the caller is about to keep.
Create(c) ==
  /\ c \in Contexts \ Referenced
  /\ state' = [state EXCEPT ![c] = "open"]
  /\ workers' = workers \ {c}

\* cache_scope, on entry.
EnterScope(t, c) ==
  /\ Idle(t) /\ Len(frames[t]) < MaxFrames
  /\ Create(c)
  /\ frames' = [frames EXCEPT ![t] = Append(@, [kind |-> "scope", ctx |-> c])]
  /\ UNCHANGED <<platform, run, parent, value, callVars, defaultVars, runVars,
                 phase>>

\* _aclose begins: no call can enter the context any more.
Aclose(c) == state' = [state EXCEPT ![c] = "closing"]

Running(c) == {t \in Tasks : at[t] = "running" /\ uses[t] = c}

\* _aclose ends, after the running calls: no worker is left.
Closed(c) ==
  /\ Running(c) = {}
  /\ state' = [state EXCEPT ![c] = "closed"]
  /\ workers' = workers \ {c}

\* cache_scope, on exit: the variable is reset, the context closes.
ExitScope(t) ==
  /\ Idle(t) /\ frames[t] # <<>>
  /\ Last(frames[t]).kind = "scope"
  /\ uses' = [uses EXCEPT ![t] = Last(frames[t]).ctx]
  /\ frames' = [frames EXCEPT ![t] = Front(@)]
  /\ at' = [at EXCEPT ![t] = "closing"]
  /\ Aclose(Last(frames[t]).ctx)
  /\ UNCHANGED <<platform, run, parent, value, workers, defaultVars, runVars, phase>>

\* cache_scope has been left.
ScopeClosed(t) ==
  /\ at[t] = "closing"
  /\ Closed(uses[t])
  /\ at' = [at EXCEPT ![t] = "idle"]
  /\ uses' = [uses EXCEPT ![t] = NoContext]
  /\ UNCHANGED <<platform, treeVars, defaultVars, runVars, phase>>

-----------------------------------------------------------------------------
(***************************************************************************)
(* run_sync and get_default_context.                                       *)
(***************************************************************************)

\* get_default_context returns, and run_sync waits for the limiter.
Gets(t, c) ==
  /\ at' = [at EXCEPT ![t] = "found"]
  /\ uses' = [uses EXCEPT ![t] = c]

\* The context of the innermost scope; else DEFAULT_CONTEXT, or the context
\* that the run already has.
GetContext(t) ==
  /\ Idle(t)
  /\ \/ ScopeOf(t) # NoContext /\ Gets(t, ScopeOf(t))
     \/ ScopeOf(t) = NoContext /\ platform = "posix" /\ Gets(t, default)
     \/ /\ ScopeOf(t) = NoContext /\ platform = "win32"
        /\ runctx[run[t]] # NoContext /\ Gets(t, runctx[run[t]])
  /\ UNCHANGED <<platform, treeVars, ctxVars, defaultVars, runVars, phase>>

\* Faulty variant of MakeRunContext: the variable is set first.
MakeRunContextSetFirst(t, c) ==
  /\ Idle(t) /\ ScopeOf(t) = NoContext
  /\ platform = "win32" /\ runctx[run[t]] = NoContext
  /\ Create(c)
  /\ runctx' = [runctx EXCEPT ![run[t]] = c]
  /\ \/ /\ closers' = [closers EXCEPT ![run[t]] = @ \cup {c}]
        /\ Gets(t, c)
     \/ /\ run[t] = MainRoot
        /\ UNCHANGED <<closers, callVars>>
  /\ UNCHANGED <<platform, treeVars, defaultVars, ending, phase>>

\* Windows: the first call of a run makes its context, a system task that will
\* close it, and sets the variable last.  In the main thread a
\* KeyboardInterrupt may be raised before that.
MakeRunContext(t, c) ==
  /\ Idle(t) /\ ScopeOf(t) = NoContext
  /\ platform = "win32" /\ runctx[run[t]] = NoContext
  /\ Create(c)
  /\ closers' = [closers EXCEPT ![run[t]] = @ \cup {c}]
  /\ \/ /\ runctx' = [runctx EXCEPT ![run[t]] = c]
        /\ Gets(t, c)
     \/ /\ run[t] = MainRoot
        /\ UNCHANGED <<runctx, callVars>>
  /\ UNCHANGED <<platform, treeVars, defaultVars, ending, phase>>

\* WorkerContext.run_sync has a token and enters the context; or it raises,
\* because it was cancelled before, or the context is closing.
EnterContext(t) ==
  /\ at[t] = "found"
  /\ \/ /\ state[uses[t]] = "open"
        /\ at' = [at EXCEPT ![t] = "running"] /\ UNCHANGED uses
     \/ /\ at' = [at EXCEPT ![t] = "idle"]
        /\ uses' = [uses EXCEPT ![t] = NoContext]
  /\ UNCHANGED <<platform, treeVars, ctxVars, defaultVars, runVars, phase>>

\* Faulty variant of CallEnds: the caller keeps its reference to the context.
CallEndsKeeping(t) ==
  /\ at[t] = "running"
  /\ at' = [at EXCEPT ![t] = "idle"]
  /\ workers' \in {workers \cup {uses[t]}, workers \ {uses[t]}}
  /\ UNCHANGED <<platform, treeVars, uses, state, defaultVars, runVars, phase>>

\* run_sync returns or raises; the worker it used may be kept, and idle ones
\* may have ended by themselves.
CallEnds(t) ==
  /\ at[t] = "running"
  /\ at' = [at EXCEPT ![t] = "idle"]
  /\ uses' = [uses EXCEPT ![t] = NoContext]
  /\ workers' \in {workers \cup {uses[t]}, workers \ {uses[t]}}
  /\ UNCHANGED <<platform, treeVars, state, defaultVars, runVars, phase>>

-----------------------------------------------------------------------------
(***************************************************************************)
(* configure_default_context, in the main thread.                          *)
(***************************************************************************)

\* POSIX, called by a task or outside of any run: prune for the statistics, and
\* warn if there are workers, which changes nothing.
CheckDefault(t) ==
  /\ platform = "posix" /\ phase = "up" /\ ~configuring
  /\ IF t = NoTask THEN run[MainRoot] = NoTask
                   ELSE Idle(t) /\ run[t] = MainRoot
  /\ configuring' = TRUE
  /\ UNCHANGED <<platform, treeVars, callVars, ctxVars, default, handlers,
                 runVars, phase>>

\* Faulty variant of NewDefault: published, then registered.
NewDefaultPublishedFirst(c) ==
  /\ configuring
  /\ Create(c)
  /\ default' = c
  /\ handlers' \in {Append(handlers, c), handlers}
  /\ configuring' = FALSE
  /\ UNCHANGED <<platform, treeVars, callVars, runVars, phase>>

\* Create the context, register its handler, publish it.  KeyboardInterrupt may
\* be raised between any two of these, or instead of the first.
NewDefault(c) ==
  /\ configuring
  /\ \/ /\ Create(c)
        /\ handlers' = Append(handlers, c)
        /\ default' \in {c, default}
     \/ UNCHANGED <<ctxVars, handlers, default>>
  /\ configuring' = FALSE
  /\ UNCHANGED <<platform, treeVars, callVars, runVars, phase>>

-----------------------------------------------------------------------------
(***************************************************************************)
(* The end of a trio run, and of the process.                              *)
(***************************************************************************)

\* close_at_run_end: the system tasks of the run are cancelled.
CloseAtRunEnd(r, c) ==
  /\ r \in ending /\ c \in closers[r]
  /\ \/ state[c] = "open" /\ Aclose(c) /\ UNCHANGED <<workers, closers>>
     \/ /\ state[c] = "closing" /\ Closed(c)
        /\ closers' = [closers EXCEPT ![r] = @ \ {c}]
  /\ UNCHANGED <<platform, treeVars, callVars, defaultVars, runctx, ending, phase>>

\* trio.run returns, and with it go the run's variables.
RunEnds(r) ==
  /\ r \in ending /\ closers[r] = {}
  /\ ending' = ending \ {r}
  /\ run' = [run EXCEPT ![r] = NoTask]
  /\ runctx' = [runctx EXCEPT ![r] = NoContext]
  /\ UNCHANGED <<platform, parent, value, frames, callVars, ctxVars,
                 defaultVars, closers, phase>>

\* The main thread is done and the other threads have been joined.
ExitBegins ==
  /\ phase = "up" /\ ~configuring
  /\ \A t \in Tasks : run[t] = NoTask
  /\ phase' = "exiting"
  /\ UNCHANGED <<platform, treeVars, callVars, ctxVars, defaultVars, runVars>>

\* Faulty variant of RunHandler: the handlers run in the order of their
\* registration, as if multiprocessing's were registered after ours.
RunHandlerFirst ==
  /\ phase = "exiting"
  /\ IF Head(handlers) = NoContext
       THEN phase' = "down" /\ UNCHANGED <<handlers, workers>>
       ELSE /\ workers' = workers \ {Head(handlers)}
            /\ handlers' = Tail(handlers)
            /\ UNCHANGED phase
  /\ UNCHANGED <<platform, treeVars, callVars, state, default, configuring,
                 runVars>>

\* atexit runs the handler registered last: graceful_default_shutdown, and in
\* the end that of multiprocessing, which terminates or joins what is left.
RunHandler ==
  /\ phase = "exiting"
  /\ IF Last(handlers) = NoContext
       THEN phase' = "down" /\ UNCHANGED <<handlers, workers>>
       ELSE /\ workers' = workers \ {Last(handlers)}
            /\ handlers' = Front(handlers)
            /\ UNCHANGED phase
  /\ UNCHANGED <<platform, treeVars, callVars, state, default, configuring,
                 runVars>>

-----------------------------------------------------------------------------
TaskStep(t) ==
  \/ OpenNursery(t) \/ CloseNursery(t) \/ TaskEnds(t)
  \/ ExitScope(t) \/ ScopeClosed(t)
  \/ GetContext(t) \/ EnterContext(t) \/ CallEnds(t)
  \/ \E c \in Contexts : EnterScope(t, c) \/ MakeRunContext(t, c)
  \/ \E p, child \in Tasks, depth \in 1..MaxFrames : Spawn(t, p, depth, child)

RunStep(r) ==
  RunBegins(r) \/ RunEnds(r) \/ \E c \in Contexts : CloseAtRunEnd(r, c)

MainThreadStep ==
  \/ \E t \in Tasks \cup {NoTask} : CheckDefault(t)
  \/ \E c \in Contexts : NewDefault(c)
  \/ ExitBegins \/ RunHandler

Next ==
  \/ \E t \in Tasks : HasTurn(run[t]) /\ TaskStep(t)
  \/ \E r \in Tasks : HasTurn(r) /\ RunStep(r)
  \/ MainThreadStep

Spec == Init /\ [][Next]_vars

-----------------------------------------------------------------------------
(***************************************************************************)
(* Properties.                                                             *)
(***************************************************************************)

ContextOrNone == Contexts \cup {NoContext}

\* The values each variable ranges over; a context is used from the moment it is
\* found until the call is over, and a task that has ended has nothing open.
TypeOK ==
  /\ platform \in Platforms
  /\ at \in [Tasks -> {"absent", "idle", "found", "running", "closing"}]
  /\ run \in [Tasks -> Tasks \cup {NoTask}]
  /\ \A t \in Tasks : /\ parent[t].task \in Tasks \cup {NoTask}
                      /\ parent[t].depth \in 0..MaxFrames
  /\ value \in [Tasks -> ContextOrNone] /\ uses \in [Tasks -> ContextOrNone]
  /\ frames \in [Tasks -> Seq([kind : {"scope", "nursery"}, ctx : ContextOrNone])]
  /\ state \in [Contexts -> {"open", "closing", "closed"}]
  /\ workers \subseteq Contexts
  /\ default \in ContextOrNone /\ handlers \in Seq(ContextOrNone)
  /\ runctx \in [Tasks -> ContextOrNone] /\ closers \in [Tasks -> SUBSET Contexts]
  /\ ending \subseteq Tasks /\ phase \in {"up", "exiting", "down"}
  /\ configuring \in BOOLEAN
  /\ \A t \in Tasks :
       /\ uses[t] # NoContext <=> at[t] \in {"found", "running", "closing"}
       /\ at[t] = "absent" => frames[t] = <<>>

\* A call of run_sync never finds its context closing, and a context never
\* closes under one, whatever tasks start which children in which nurseries.
\* (With it the assertion in _aclose holds: there is nothing to wait for.)
CallsKeepContext ==
  \A t \in Tasks : at[t] \in {"found", "running"} => state[uses[t]] = "open"

\* When multiprocessing's exit handler runs, no worker is left for it.
ExitIsGraceful == phase = "down" => workers = {}

\* A run that is over, and a scope that was left, leave no workers behind: all
\* that are alive belong to a context that something will still close.
WorkersHaveCloser ==
  \A c \in workers :
    \/ c \in Range(handlers)
    \/ \E r \in Tasks : c \in closers[r]
    \/ \E t \in Tasks : \/ at[t] = "closing" /\ uses[t] = c
                        \/ \E i \in DOMAIN frames[t] :
                             frames[t][i] = [kind |-> "scope", ctx |-> c]
=============================================================================
