---------------------------- MODULE MCHookServices ----------------------------
(* Instances of HookServices for TLC. *)
EXTENDS HookServices

\* One parameter that is read as a number, one as text.
MCDeclaredParams == "p" :> "int" @@ "q" :> ""
=============================================================================
