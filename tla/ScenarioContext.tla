---------------------------- MODULE ScenarioContext ----------------------------
(***************************************************************************)
(* The contexts handed to a scenario's hooks (internal/engine/context.go)  *)
(* and the adapters of the public API around them (pkg/vuhive/suite.go): a *)
(* virtual user keeps one engine context, whose iteration is set before    *)
(* every hook, and one child per group path, kept for the next time; the   *)
(* adapters come from a pool that all virtual users share, and each keeps  *)
(* one child adapter for the groups that are entered from it.              *)
(***************************************************************************)
EXTENDS Integers, FiniteSets, Sequences

CONSTANTS
  ContextVUs,     \* virtual users
  GroupNames,
  MaxHooks,       \* bound: hooks run by each virtual user
  MaxNesting      \* bound: groups within groups

ASSUME ContextAssumption ==
  /\ IsFiniteSet(ContextVUs)
  /\ MaxHooks \in [ContextVUs -> Nat] /\ MaxNesting \in Nat

VARIABLES
  hook,        \* the hook each virtual user is in, or the one it ran last
  inHook,      \* the virtual users that are in their hook
  prepared,    \* bound, and the identity of the current context.Context
  root,        \* each virtual user's engine context: its Context and iteration
  childContexts,  \* its children by group path
  pool,        \* adapters that are free
  at,          \* where each adapter and its descendants point: vu and group path
  adapter,     \* the adapter each virtual user's hook works with
  stack,       \* the groups it is in: how deep the adapter was, and the path
  untimed      \* history: by virtual user and path, groups entered less observations

contextVars == <<hook, inHook, prepared, root, childContexts, pool, at, adapter, stack, untimed>>
identity == <<hook, prepared, root>>

Hooks0 == {"PreTest", "RunVU", "AfterTest"}
Here(v, path) == [vu |-> v, path |-> path]
Assign(f, k, x) == [j \in DOMAIN f \cup {k} |-> IF j = k THEN x ELSE f[j]]
Plus(f, k, n) == Assign(f, k, (IF k \in DOMAIN f THEN f[k] ELSE 0) + n)
OnStack(v, p) == Cardinality({i \in DOMAIN stack[v] : i > 1 /\ stack[v][i].path = p})

ContextInit ==
  /\ hook = [v \in ContextVUs |-> "none"] /\ inHook = {}
  /\ prepared = [v \in ContextVUs |-> 0]
  /\ root = [v \in ContextVUs |-> [context |-> 0, iteration |-> 0]]
  /\ childContexts = [v \in ContextVUs |-> <<>>]
  /\ pool = {} /\ at = <<>>
  /\ adapter = [v \in ContextVUs |-> 0]
  /\ stack = [v \in ContextVUs |-> <<>>]
  /\ untimed = [v \in ContextVUs |-> <<>>]

-----------------------------------------------------------------------------
(* Hooks. *)

\* PreTest, maybe retried, then iterations, then AfterTest, once.
Follows(h, before) == before # "AfterTest" /\ (h = "PreTest" => before # "RunVU")

\* prepareIteration, and an adapter from the pool, or a new one, pointed at the
\* virtual user's context; a recycled one keeps its child.
BeginHook(v, h) ==
  LET next == prepared[v] + 1
      iteration == IF h # "RunVU" THEN 0 ELSE IF hook[v] = "RunVU" THEN root[v].iteration + 1 ELSE 0
  IN  /\ v \notin inHook /\ prepared[v] < MaxHooks[v]
      /\ Follows(h, hook[v])
      /\ hook' = [hook EXCEPT ![v] = h] /\ inHook' = inHook \cup {v}
      /\ prepared' = [prepared EXCEPT ![v] = next]
      /\ root' = [root EXCEPT ![v] = [context |-> next, iteration |-> iteration]]
      /\ \/ \E a \in pool : /\ pool' = pool \ {a}
                            /\ adapter' = [adapter EXCEPT ![v] = a]
                            /\ at' = [at EXCEPT ![a][1] = Here(v, <<>>)]
         \/ LET new == Cardinality(DOMAIN at) + 1
            IN  /\ pool = {} /\ UNCHANGED pool
                /\ adapter' = [adapter EXCEPT ![v] = new]
                /\ at' = Assign(at, new, <<Here(v, <<>>)>>)
      /\ stack' = [stack EXCEPT ![v] = <<[depth |-> 1, path |-> <<>>]>>]
      /\ UNCHANGED <<childContexts, untimed>>

\* The hook returns and its adapter goes back to the pool.
EndHook(v) ==
  /\ v \in inHook /\ Len(stack[v]) = 1
  /\ inHook' = inHook \ {v} /\ pool' = pool \cup {adapter[v]}
  /\ stack' = [stack EXCEPT ![v] = <<>>] /\ adapter' = [adapter EXCEPT ![v] = 0]
  /\ UNCHANGED <<identity, childContexts, at, untimed>>

\* A panic unwinds the groups, whose deferred observations run, and the hook
\* before it can put its adapter back.  AfterTest is not recovered: its panic
\* ends the process.
HookPanics(v) ==
  /\ v \in inHook /\ hook[v] # "AfterTest"
  /\ inHook' = inHook \ {v}
  /\ untimed' = [untimed EXCEPT ![v] = [p \in DOMAIN @ |-> @[p] - OnStack(v, p)]]
  /\ stack' = [stack EXCEPT ![v] = <<>>] /\ adapter' = [adapter EXCEPT ![v] = 0]
  /\ UNCHANGED <<identity, pool, childContexts, at>>

-----------------------------------------------------------------------------
(* Groups. *)

\* What the engine context at a path holds.
ContextAt(here) ==
  IF here.path = <<>> THEN root[here.vu] ELSE childContexts[here.vu][here.path]

\* The public Group: the adapter's one child adapter, made when first needed, is
\* pointed at the child context.
PointChild(a, depth, below) ==
  at' = [at EXCEPT ![a] = [d \in 1..(IF depth = Len(@) THEN depth + 1 ELSE Len(@)) |->
                             IF d = depth + 1 THEN below ELSE @[d]]]

\* Mutation: a group's context is filled only when it is created.
ChildNotRefreshed(v, name) ==
  \E i \in DOMAIN stack[v] :
    LET depth == stack[v][i].depth
        from == at[adapter[v]][depth]
        path == Append(from.path, name)
    IN  /\ v \in inHook /\ Len(path) <= MaxNesting /\ Len(stack[v]) <= MaxNesting
        /\ childContexts' = [childContexts EXCEPT ![from.vu] =
                               IF path \in DOMAIN @ THEN @ ELSE Assign(@, path, ContextAt(from))]
        /\ PointChild(adapter[v], depth, Here(from.vu, path))
        /\ stack' = [stack EXCEPT ![v] = Append(@, [depth |-> depth + 1, path |-> path])]
        /\ untimed' = [untimed EXCEPT ![v] = Plus(@, path, 1)]
        /\ UNCHANGED <<identity, inHook, pool, adapter>>

\* Group, called on any adapter of the stack: the child context of the path is
\* made, or refreshed from the context it is entered from.
EnterGroup(v, name) ==
  \E i \in DOMAIN stack[v] :
    LET depth == stack[v][i].depth
        from == at[adapter[v]][depth]
        path == Append(from.path, name)
    IN  /\ v \in inHook /\ Len(path) <= MaxNesting /\ Len(stack[v]) <= MaxNesting
        /\ childContexts' = [childContexts EXCEPT ![from.vu] = Assign(@, path, ContextAt(from))]
        /\ PointChild(adapter[v], depth, Here(from.vu, path))
        /\ stack' = [stack EXCEPT ![v] = Append(@, [depth |-> depth + 1, path |-> path])]
        /\ untimed' = [untimed EXCEPT ![v] = Plus(@, path, 1)]
        /\ UNCHANGED <<identity, inHook, pool, adapter>>

\* The group's function returns, with an error or without.
LeaveGroup(v) ==
  /\ v \in inHook /\ Len(stack[v]) > 1
  /\ untimed' = [untimed EXCEPT ![v] = Plus(@, stack[v][Len(stack[v])].path, -1)]
  /\ stack' = [stack EXCEPT ![v] = SubSeq(@, 1, Len(@) - 1)]
  /\ UNCHANGED <<identity, inHook, pool, adapter, childContexts, at>>

ContextNext ==
  \E v \in ContextVUs :
    \/ \E h \in Hooks0 : BeginHook(v, h)
    \/ EndHook(v) \/ HookPanics(v)
    \/ \E name \in GroupNames : EnterGroup(v, name)
    \/ LeaveGroup(v)

ContextSpec == ContextInit /\ [][ContextNext]_contextVars

-----------------------------------------------------------------------------
(* Properties. *)

ContextTypeOK ==
  /\ hook \in [ContextVUs -> Hooks0 \cup {"none"}] /\ inHook \subseteq ContextVUs
  /\ \A v \in ContextVUs : prepared[v] \in 0..MaxHooks[v]
  /\ pool \subseteq DOMAIN at
  /\ \A v \in inHook : adapter[v] \in DOMAIN at \ pool /\ stack[v] # <<>>

\* Whatever a hook calls, at any depth of groups and through adapters and child
\* contexts that are reused from other iterations and other virtual users, it
\* works on its own virtual user's context with the iteration and the
\* context.Context of now; and every group that was entered is timed once,
\* whether its function returns or panics.
GroupsRunInTheirIteration ==
  /\ \A v \in inHook : \A i \in DOMAIN stack[v] :
       LET here == at[adapter[v]][stack[v][i].depth]
       IN  here.vu = v /\ ContextAt(here) = root[v]
  /\ \A v \in ContextVUs : \A p \in DOMAIN untimed[v] : untimed[v][p] = OnStack(v, p)
=============================================================================
