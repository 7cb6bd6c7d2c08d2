---------------------------- MODULE ScopePromise ----------------------------
(* What entering and leaving a sub, eval or block promises the program:    *)
(* however it is left, everything the scope may have changed in the        *)
(* interpreter is as it was when the scope was entered.                    *)
EXTENDS Integers, Sequences

VARIABLES
  env,    \* what a scope may change: a record, marks among its fields
  saved   \* what env was when each open scope was entered, outermost first

Enter == saved' = Append(saved, env)

Leave ==
  /\ saved # <<>>
  /\ env' = saved[Len(saved)]
  /\ saved' = SubSeq(saved, 1, Len(saved) - 1)

(* Between the two only the mark stack changes.                            *)
Work ==
  /\ saved' = saved
  /\ DOMAIN env' = DOMAIN env
  /\ \A f \in DOMAIN env \ {"marks"} : env'[f] = env[f]

Spec == saved = <<>> /\ [][Enter \/ Leave \/ Work]_<<env, saved>>

=============================================================================
