--------------------------- MODULE StorageAccess ---------------------------
(***************************************************************************)
(* What WalletStorageManager promises to the functions it runs against the *)
(* active storage ("wait-blocking write requests"): they run one at a      *)
(* time, in the order in which the calls entered, and a call that leaves,  *)
(* whether or not its function has run, removes itself and nobody else.    *)
(* Module StorageLocks shows how the manager implements this; the lock of  *)
(* module StorageTables leaves the order open.                             *)
(***************************************************************************)
EXTENDS Naturals, Sequences

CONSTANT Callers  \* whoever calls the manager's runAs methods

VARIABLES
  line,     \* the callers that have entered and not left, in that order
  running,  \* those whose function runs
  broken    \* makeAvailable has rejected: nothing is promised any more

vars == <<line, running, broken>>

Init == line = <<>> /\ running = {} /\ broken = FALSE

Enter(c) ==
  /\ \A i \in 1 .. Len(line) : line[i] # c
  /\ line' = Append(line, c)
  /\ UNCHANGED <<running, broken>>

Acquire ==
  /\ line # <<>> /\ running = {}
  /\ running' = {Head(line)}
  /\ UNCHANGED <<line, broken>>

(* The function has settled, or getActive threw and it never ran.          *)
Leave ==
  /\ line # <<>> /\ running \subseteq {Head(line)}
  /\ line' = Tail(line) /\ running' = {}
  /\ UNCHANGED broken

Break == line' = <<>> /\ running' = {} /\ broken' = TRUE

Next == ~broken /\ ((\E c \in Callers : Enter(c)) \/ Acquire \/ Leave \/ Break)

Spec == Init /\ [][Next]_vars
=============================================================================
