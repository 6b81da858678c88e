----------------------------- MODULE HookServices -----------------------------
(***************************************************************************)
(* What a hook asks of its context (internal/engine/context.go, strict.go) *)
(* beside groups: parameters, with the record strict mode keeps of those   *)
(* that were used, checks with their cached counters, and Sleep.           *)
(***************************************************************************)
EXTENDS Integers, FiniteSets, TLC

CONSTANTS
  ServedVUs,      \* virtual users
  DeclaredParams, \* key |-> what its value parses as: "int", "duration", "text", ""
  CheckNames,
  MaxChecks       \* bound: checks of a virtual user

ASSUME HookServicesAssumption ==
  /\ IsFiniteSet(ServedVUs) /\ IsFiniteSet(CheckNames) /\ MaxChecks \in Nat
  /\ \A k \in DOMAIN DeclaredParams : DeclaredParams[k] \in {"int", "duration", "text", ""}

VARIABLES
  phase,        \* of the execution: setup, run, done
  accessed,     \* the keys in the map of Setup's context
  usedByVU,     \* history: the keys a virtual user asked for
  checkCache,   \* the names whose counters each virtual user holds
  checks,       \* name |-> its two counters
  checked,      \* history (and bound): checks made by each virtual user
  scenarioDone, \* the context of the iterations is done
  answer        \* what the last call of a virtual user returned

serviceVars == <<phase, accessed, usedByVU, checkCache, checks, checked, scenarioDone, answer>>

ServicesInit ==
  /\ phase = "setup" /\ accessed = {} /\ usedByVU = {}
  /\ checkCache = [v \in ServedVUs |-> {}]
  /\ checks = <<>>
  /\ checked = [v \in ServedVUs |-> 0]
  /\ scenarioDone = FALSE
  /\ answer = "none"

Keys0 == DOMAIN DeclaredParams
Answers(a) == answer' = a

\* Param records a key only in the map its context has.  Setup's context has
\* one of its own ...
SetupParam(key) ==
  /\ phase = "setup" /\ accessed' = accessed \cup {key}
  /\ UNCHANGED <<phase, usedByVU, checkCache, checks, checked, scenarioDone, answer>>

SetupReturns ==
  /\ phase = "setup" /\ phase' = "run"
  /\ UNCHANGED <<accessed, usedByVU, checkCache, checks, checked, scenarioDone, answer>>

\* ... and the virtual users' have the one found in the run's context under
\* accessedParamsKey, where nobody puts one.  ParamInt and ParamDuration answer
\* with their default for an empty or absent value, and, after a warning, for
\* one that does not parse.
Param(key, as) ==
  /\ phase = "run"
  /\ usedByVU' = usedByVU \cup ({key} \cap Keys0)
  /\ Answers(IF key \notin Keys0 \/ DeclaredParams[key] = ""
                THEN (IF as = "text" THEN "" ELSE "default")
                ELSE IF as \in {"text", DeclaredParams[key]} THEN "value" ELSE "default, warned")
  /\ UNCHANGED <<phase, accessed, checkCache, checks, checked, scenarioDone>>

\* UnusedParams, from Setup's context, when the run is over.
UnusedParamKeys == Keys0 \ accessed
Finish ==
  /\ phase = "run" /\ phase' = "done"
  /\ UNCHANGED <<accessed, usedByVU, checkCache, checks, checked, scenarioDone, answer>>

\* Check, CheckEqual, CheckTrue, CheckNoError: recordCheck.  A virtual user's
\* first check of a name gets both counters, shared by all, and keeps them.
RecordCheck(v, name, passed) ==
  LET pair == IF name \in DOMAIN checks THEN checks[name] ELSE [passed |-> 0, failed |-> 0]
  IN  /\ phase = "run" /\ checked[v] < MaxChecks
      /\ checked' = [checked EXCEPT ![v] = @ + 1]
      /\ checkCache' = [checkCache EXCEPT ![v] = @ \cup {name}]
      /\ checks' = [n \in DOMAIN checks \cup {name} |->
                      IF n # name THEN checks[n]
                      ELSE IF passed THEN [pair EXCEPT !.passed = @ + 1] ELSE [pair EXCEPT !.failed = @ + 1]]
      /\ Answers(IF passed THEN "passed" ELSE "failed")
      /\ UNCHANGED <<phase, accessed, usedByVU, scenarioDone>>

ContextEnds ==
  /\ phase = "run" /\ ~scenarioDone /\ scenarioDone' = TRUE
  /\ UNCHANGED <<phase, accessed, usedByVU, checkCache, checks, checked, answer>>

\* Sleep of a positive delay ends by its timer or, with an error, by the context;
\* of none, it only looks at the context.
Sleep(positive) ==
  /\ phase = "run"
  /\ \/ scenarioDone /\ Answers("context error")
     \/ (positive \/ ~scenarioDone) /\ Answers("slept")
  /\ UNCHANGED <<phase, accessed, usedByVU, checkCache, checks, checked, scenarioDone>>

ServicesNext ==
  \/ SetupReturns \/ Finish \/ ContextEnds
  \/ \E key \in Keys0 : SetupParam(key)
  \/ \E key \in Keys0 \cup {"undeclared"}, as \in {"text", "int", "duration"} : Param(key, as)
  \/ \E v \in ServedVUs, name \in CheckNames, passed \in BOOLEAN : RecordCheck(v, name, passed)
  \/ \E positive \in BOOLEAN : Sleep(positive)

ServicesSpec == ServicesInit /\ [][ServicesNext]_serviceVars

-----------------------------------------------------------------------------
(* Properties. *)

ServicesTypeOK ==
  /\ phase \in {"setup", "run", "done"}
  /\ accessed \cup usedByVU \subseteq Keys0
  /\ checkCache \in [ServedVUs -> SUBSET CheckNames]
  /\ \A n \in DOMAIN checks : checks[n] \in [{"passed", "failed"} -> Nat]
  /\ \A v \in ServedVUs : checkCache[v] \subseteq DOMAIN checks
  /\ checked \in [ServedVUs -> 0..MaxChecks]

\* "Parameters declared in `params:` that are never accessed via `ctx.Param()`"
\* are what strict mode reports as unused (docs/GUIDE.md:831): no parameter that
\* a virtual user has asked for is among them.
UsedParamsAreNotReported ==
  phase = "done" => UnusedParamKeys \cap usedByVU = {}
=============================================================================
